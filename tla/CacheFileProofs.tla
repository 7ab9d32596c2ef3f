---------------------------- MODULE CacheFileProofs ----------------------------
(***************************************************************************)
(* Theorems about the shared cachefile, for any number of updates, readers *)
(* and parts and databases of any lengths: the locks exclude each other,   *)
(* no reader gets a mixture of updates that completed, and the file that   *)
(* completed updates leave begins with a whole database of theirs.         *)
(***************************************************************************)
EXTENDS CacheFile, TLAPS

-------------------------------------------------------------------------------
(* The parts of the inductive invariant *)

(* An update has written nothing before it has the lock, and its last part
   goes out only with the close; a reader that is not finished has read less
   than the longest database. *)
ProgressInv ==
  /\ \A w \in Writers :
       /\ wpc[w] \in {"start", "prev", "gather", "locking"} => wpos[w] = 0
       /\ wpc[w] = "writing" => wpos[w] < size[w]
  /\ \A r \in Readers :
       /\ rpc[r] = "start" => rpos[r] = 0
       /\ rpc[r] = "reading" => rpos[r] < N

(* The first part that a reader has read names a database. A reader that goes
   on has not yet read all that the counts in this part promise, or what it
   read within that length is a mixture already. *)
ReachInv ==
  \A r \in Readers : rpos[r] > 0 =>
    /\ rgot[r][1] \in Databases
    /\ rpc[r] = "reading" =>
         \/ rpos[r] < size[rgot[r][1]]
         \/ \E i \in 1..rpos[r] : i <= size[rgot[r][1]] /\ rgot[r][i] # rgot[r][1]

(* The locks exclude each other, and the process counters say who holds them. *)
LockInv ==
  /\ \A w \in Writers : wpc[w] = "writing" <=> exl = w
  /\ \A w \in Writers : w \in shared <=> wpc[w] = "prev"
  /\ \A r \in Readers : r \in shared <=> rpc[r] = "reading"
  /\ exl # Nobody => shared = {}

(* When the first part of the file belongs to an update that completed, or to
   Old, so does the rest; when it belongs to the update that is writing, so
   does everything that this update has written. *)
FileInv ==
  /\ file[1] = Old => Whole(file, Old)
  /\ \A w \in Writers : file[1] = w =>
       /\ wpc[w] \in {"writing", "done", "short", "torn"}
       /\ wpc[w] = "writing" => \A i \in 1..wpos[w] : file[i] = w
       /\ wpc[w] = "done" => Whole(file, w)
  /\ \A w \in Writers : wpc[w] = "writing" /\ wpos[w] > 0 => file[1] \in {w, Hole, Gone}

(* What an active reader has read is still in the file, or the file has been
   truncated since. *)
SnapshotInv ==
  \A r \in Readers : rpc[r] = "reading" =>
    \/ \A i \in Part : file[i] = Gone
    \/ \A i \in 1..rpos[r] : rgot[r][i] = file[i]

(* What a reader has read is one database, unless the update that wrote the
   first part was cut off. *)
ReadInv ==
  \A r \in Readers : rpos[r] > 0 =>
    \/ /\ rgot[r][1] = Old
       /\ \A i \in 1..rpos[r] : rgot[r][i] = Old
    \/ /\ rgot[r][1] \in Writers
       /\ \/ wpc[rgot[r][1]] \in {"short", "torn"}
          \/ /\ wpc[rgot[r][1]] = "done"
             /\ \A i \in 1..rpos[r] : rgot[r][i] = rgot[r][1]

Base == TypeOK /\ ProgressInv /\ ReachInv

IInv == Base /\ LockInv /\ FileInv /\ SnapshotInv /\ ReadInv

-------------------------------------------------------------------------------
(* Types and counters *)

LEMMA BaseInit == Init => Base
<1> SUFFICES ASSUME Init PROVE Base
  OBVIOUS
<1>1. size \in [Databases -> Part] /\ file \in [Part -> Databases \cup {Hole, Gone}]
  BY CacheFileAssumption DEF Init, Databases
<1>2. TypeOK
  BY CacheFileAssumption, <1>1 DEF Init, TypeOK, Part, Databases, Empty, wpcs, rpcs
<1>3. ProgressInv
  BY CacheFileAssumption DEF Init, ProgressInv
<1>4. ReachInv
  BY DEF Init, ReachInv
<1> QED
  BY <1>2, <1>3, <1>4 DEF Base

(* A written part keeps the type of the file. *)
LEMMA WrittenType ==
  ASSUME NEW f \in [Part -> Databases \cup {Hole, Gone}], NEW p, NEW w \in Writers
  PROVE  Written(f, p, w) \in [Part -> Databases \cup {Hole, Gone}]
  BY DEF Written, Databases

(* What a part adds to what a reader has read: the reader is within the length
   that its first part promises, or has met another database within it. *)
LEMMA ReadPartReach ==
  ASSUME Base, NEW r \in Readers, read_part(r)
  PROVE  /\ rpos[r] + 1 \in Part /\ rpos'[r] = rpos[r] + 1
         /\ rgot'[r][rpos[r] + 1] = file[rpos[r] + 1]
         /\ \A i \in 1..rpos[r] : i \in Part /\ rgot'[r][i] = rgot[r][i]
         /\ rgot'[r][1] \in Databases
         /\ size[rgot'[r][1]] \in 1..N
         /\ \/ rpos'[r] <= size[rgot'[r][1]]
            \/ \E i \in 1..rpos[r] : /\ i <= size[rgot'[r][1]]
                                    /\ rgot'[r][i] # rgot'[r][1]
<1> DEFINE p == rpos[r] + 1
<1> DEFINE d == rgot'[r][1]
<1> USE CacheFileAssumption DEF Base, TypeOK, ProgressInv
<1>1. /\ p \in Part /\ 1 \in Part
      /\ \A i \in 1..rpos[r] : i \in Part /\ i # p
  BY DEF read_part, Part
<1>2. /\ rgot' = [rgot EXCEPT ![r] = [rgot[r] EXCEPT ![p] = file[p]]]
      /\ rpos' = [rpos EXCEPT ![r] = p]
      /\ rpc[r] = "reading" /\ Parses(r, p)
  BY DEF read_part
<1>3. /\ rpos'[r] = p /\ rgot'[r][p] = file[p]
      /\ \A i \in 1..rpos[r] : rgot'[r][i] = rgot[r][i]
  BY <1>1, <1>2
<1>4. p # 1 => rpos[r] > 0 /\ 1 \in 1..rpos[r]
  BY <1>1 DEF Part
<1>5. d \in Databases
  <2>1. CASE p = 1
    BY <1>1, <1>2, <1>3, <2>1 DEF Parses
  <2>2. CASE p # 1
    BY <1>3, <1>4, <2>2 DEF ReachInv
  <2> QED
    BY <2>1, <2>2
<1>6. size[d] \in 1..N
  BY <1>5 DEF Part
<1>7. p <= size[d] \/ \E i \in 1..rpos[r] : i <= size[d] /\ rgot'[r][i] # d
  <2>1. CASE p = 1
    BY <1>6, <2>1
  <2>2. CASE p # 1
    <3>1. d = rgot[r][1]
      BY <1>3, <1>4, <2>2
    <3>2. CASE rpos[r] < size[d]
      BY <1>6, <3>2
    <3>3. CASE \E i \in 1..rpos[r] : i <= size[d] /\ rgot[r][i] # d
      BY <1>3, <3>3
    <3> QED
      BY <1>2, <1>4, <2>2, <3>1, <3>2, <3>3 DEF ReachInv
  <2> QED
    BY <2>1, <2>2
<1> QED
  BY <1>1, <1>3, <1>5, <1>6, <1>7

(* A reader that reads a part stays within the longest database, and within the
   one that its first part names as long as it has met no other. *)
LEMMA ReadPartBase ==
  ASSUME Base, NEW r \in Readers, read_part(r)
  PROVE  Base'
<1> DEFINE p == rpos[r] + 1
<1> DEFINE d == rgot'[r][1]
<1> DEFINE Mixed == \E i \in 1..p : i <= size[d] /\ rgot'[r][i] # d
<1> USE CacheFileAssumption DEF Base, TypeOK, ProgressInv
<1>1. /\ p \in 1..N /\ rpos'[r] = p
      /\ d \in Databases /\ size[d] \in 1..N
      /\ p <= size[d] \/ Mixed
  BY ReadPartReach DEF Part
<1>2. /\ rgot' = [rgot EXCEPT ![r] = [rgot[r] EXCEPT ![p] = file[p]]]
      /\ rpos' = [rpos EXCEPT ![r] = p]
      /\ UNCHANGED <<size, file, exl, wpc, wpos, keeps>>
      /\ rpc[r] = "reading"
  BY DEF read_part
<1>3. PICK last \in BOOLEAN :
        /\ Ends(r, last)'
        /\ IF last THEN /\ rpc' = [rpc EXCEPT ![r] = "ok"]
                        /\ shared' = shared \ {r}
           ELSE UNCHANGED <<rpc, shared>>
  BY DEF read_part
<1>4. TypeOK'
  <2>1. p \in Part /\ file[p] \in Databases \cup {Hole, Gone} /\ p \in 0..N
    BY <1>1 DEF Part
  <2>2. rgot' \in [Readers -> [Part -> Databases \cup {Hole, Gone}]]
    BY <1>2, <2>1
  <2>3. rpos' \in [Readers -> 0..N]
    BY <1>2, <2>1
  <2>4. rpc' \in [Readers -> rpcs] /\ shared' \subseteq Writers \cup Readers
    BY <1>3 DEF rpcs
  <2> QED
    BY <1>2, <2>2, <2>3, <2>4
<1>5. ~ last => p < N /\ (p < size[d] \/ Mixed)
  <2> SUFFICES ASSUME ~ last PROVE p < N /\ (p < size[d] \/ Mixed)
    OBVIOUS
  <2>1. CASE \A i \in 1..p : rgot'[r][i] = d
    <3>1. p # size[d]
      BY <1>1, <1>2, <1>3, <2>1 DEF Ends, OfOne
    <3> QED
      BY <1>1, <2>1, <3>1
  <2>2. CASE \E i \in 1..p : rgot'[r][i] # d
    <3>1. ~ OfOne(r)'
      BY <1>1, <2>2 DEF OfOne
    <3>2. p # N
      BY <1>1, <1>2, <1>3, <3>1 DEF Ends
    <3>3. p <= size[d] => Mixed
      BY <1>1, <2>2
    <3>4. p < N
      BY <1>1, <3>2
    <3> QED
      BY <1>1, <3>3, <3>4
  <2> QED
    BY <2>1, <2>2
<1>6. ASSUME NEW x \in Readers, x # r
      PROVE  rpos'[x] = rpos[x] /\ rgot'[x] = rgot[x] /\ rpc'[x] = rpc[x]
  BY <1>2, <1>3, <1>6
<1>7. (rpc'[r] = "reading" => ~ last) /\ rpc'[r] # "start"
  BY <1>2, <1>3
<1>8. ProgressInv'
  BY <1>1, <1>2, <1>5, <1>6, <1>7
<1>9. ReachInv'
  <2> SUFFICES ASSUME NEW x \in Readers, rpos'[x] > 0
               PROVE  /\ rgot'[x][1] \in Databases
                      /\ rpc'[x] = "reading" =>
                           \/ rpos'[x] < size'[rgot'[x][1]]
                           \/ \E i \in 1..rpos'[x] : /\ i <= size'[rgot'[x][1]]
                                                    /\ rgot'[x][i] # rgot'[x][1]
    BY DEF ReachInv, Databases
  <2>1. CASE x # r
    BY <1>2, <1>6, <2>1 DEF ReachInv
  <2>2. CASE x = r
    BY <1>1, <1>2, <1>5, <1>7, <2>2
  <2> QED
    BY <2>1, <2>2
<1> QED
  BY <1>4, <1>8, <1>9

(* Every other step leaves alone what the readers have read. *)
LEMMA ReachKept ==
  ASSUME Base, [Next]_vars, \A r \in Readers : ~ read_part(r)
  PROVE  ReachInv'
<1>1. UNCHANGED <<size, rpos, rgot>>
  BY DEF Next, update, read, vars, openprev, add_virtuals, openwrite, lock_ex, write_part,
         destroy, openwrite_fail, destroy_short, cut_off, openread, read_fail
<1>2. \A x \in Readers : rpc'[x] = "reading" => rpc[x] \in {"start", "reading"}
  BY DEF Base, TypeOK, Next, update, read, vars, openprev, add_virtuals, openwrite, lock_ex,
         write_part, destroy, openwrite_fail, destroy_short, cut_off, openread, read_fail
<1>3. \A x \in Readers : rpc[x] = "start" => ~ (rpos[x] > 0)
  BY DEF Base, TypeOK, ProgressInv
<1> QED
  BY <1>1, <1>2, <1>3 DEF Base, ReachInv, Databases

(* Every step keeps the types and the counters in range. *)
LEMMA BaseStep == Base /\ [Next]_vars => Base'
<1> SUFFICES ASSUME Base, [Next]_vars PROVE Base'
  OBVIOUS
<1> DEFINE Kept == TypeOK' /\ ProgressInv'
<1>a. CASE \E r \in Readers : read_part(r)
  BY <1>a, ReadPartBase
<1>b. CASE \A r \in Readers : ~ read_part(r)
  <2>a. TypeOK /\ ProgressInv
    BY DEF Base
  <2> USE CacheFileAssumption, <2>a DEF TypeOK, ProgressInv, wpcs, rpcs
  <2>1. ASSUME NEW w \in Writers, openprev(w) PROVE Kept
    BY <2>1 DEF openprev
  <2>2. ASSUME NEW w \in Writers, add_virtuals(w) PROVE Kept
    BY <2>2 DEF add_virtuals, Databases
  <2>3. ASSUME NEW w \in Writers, openwrite(w) PROVE Kept
    BY <2>3 DEF openwrite, Empty
  <2>4. ASSUME NEW w \in Writers, lock_ex(w) PROVE Kept
    <3>1. size[w] \in 1..N /\ wpos[w] = 0
      BY <2>4 DEF lock_ex, Databases, Part
    <3> QED
      BY <2>4, <3>1 DEF lock_ex
  <2>5. ASSUME NEW w \in Writers, write_part(w) PROVE Kept
    <3>1. size[w] \in 1..N
      BY DEF Databases, Part
    <3>2. file' \in [Part -> Databases \cup {Hole, Gone}]
      BY <2>5, WrittenType DEF write_part
    <3> QED
      BY <2>5, <3>1, <3>2 DEF write_part
  <2>6. ASSUME NEW w \in Writers, destroy(w) PROVE Kept
    <3>1. size[w] \in 1..N
      BY DEF Databases, Part
    <3>2. file' \in [Part -> Databases \cup {Hole, Gone}]
      BY <2>6, WrittenType DEF destroy
    <3> QED
      BY <2>6, <3>1, <3>2 DEF destroy
  <2>7. ASSUME NEW w \in Writers, openwrite_fail(w) PROVE Kept
    BY <2>7 DEF openwrite_fail
  <2>8. ASSUME NEW w \in Writers, destroy_short(w) PROVE Kept
    BY <2>8 DEF destroy_short
  <2>9. ASSUME NEW w \in Writers, cut_off(w) PROVE Kept
    BY <2>9 DEF cut_off
  <2>10. ASSUME NEW r \in Readers, openread(r) PROVE Kept
    BY <2>10 DEF openread
  <2>11. ASSUME NEW r \in Readers, read_fail(r) PROVE Kept
    BY <2>11 DEF read_fail
  <2>12. ASSUME UNCHANGED vars PROVE Kept
    BY <2>12 DEF vars
  <2>13. Kept
    BY <1>b, <2>1, <2>2, <2>3, <2>4, <2>5, <2>6, <2>7, <2>8, <2>9, <2>10, <2>11, <2>12
       DEF Next, update, read
  <2> QED
    BY <1>b, <2>13, ReachKept DEF Base
<1> QED
  BY <1>a, <1>b

(* Every reachable state has the types TypeOK states. *)
THEOREM CacheFileTypes == Spec => []TypeOK
<1>1. Base => TypeOK
  BY DEF Base
<1> QED
  BY BaseInit, BaseStep, <1>1, PTL DEF Spec

-------------------------------------------------------------------------------
(* The locks *)

LEMMA LockInit == Init => LockInv
  BY CacheFileAssumption DEF Init, LockInv

(* Every step keeps the locks exclusive. *)
LEMMA LockStep == Base /\ LockInv /\ [Next]_vars => LockInv'
<1> SUFFICES ASSUME Base, LockInv, [Next]_vars PROVE LockInv'
  OBVIOUS
<1> USE CacheFileAssumption DEF Base, TypeOK, LockInv
<1>1. ASSUME NEW w \in Writers, openprev(w) PROVE LockInv'
  BY <1>1 DEF openprev
<1>2. ASSUME NEW w \in Writers, add_virtuals(w) PROVE LockInv'
  BY <1>2 DEF add_virtuals
<1>3. ASSUME NEW w \in Writers, openwrite(w) PROVE LockInv'
  BY <1>3 DEF openwrite
<1>4. ASSUME NEW w \in Writers, lock_ex(w) PROVE LockInv'
  BY <1>4 DEF lock_ex
<1>5. ASSUME NEW w \in Writers, write_part(w) PROVE LockInv'
  BY <1>5 DEF write_part
<1>6. ASSUME NEW w \in Writers, destroy(w) PROVE LockInv'
  BY <1>6 DEF destroy
<1>7. ASSUME NEW w \in Writers, openwrite_fail(w) PROVE LockInv'
  BY <1>7 DEF openwrite_fail
<1>8. ASSUME NEW w \in Writers, destroy_short(w) PROVE LockInv'
  BY <1>8 DEF destroy_short
<1>9. ASSUME NEW w \in Writers, cut_off(w) PROVE LockInv'
  BY <1>9 DEF cut_off
<1>10. ASSUME NEW r \in Readers, openread(r) PROVE LockInv'
  BY <1>10 DEF openread
<1>11. ASSUME NEW r \in Readers, read_part(r) PROVE LockInv'
  BY <1>11 DEF read_part
<1>12. ASSUME NEW r \in Readers, read_fail(r) PROVE LockInv'
  BY <1>12 DEF read_fail
<1>13. CASE UNCHANGED vars
  BY <1>13 DEF vars
<1> QED
  BY <1>1, <1>2, <1>3, <1>4, <1>5, <1>6, <1>7, <1>8, <1>9, <1>10, <1>11, <1>12, <1>13
     DEF Next, update, read

-------------------------------------------------------------------------------
(* The content of the file *)

LEMMA FileInit == Init => FileInv
<1> SUFFICES ASSUME Init PROVE FileInv
  OBVIOUS
<1>1. size[Old] \in 1..N /\ 1 \in Part /\ \A i \in 1..size[Old] : i \in Part
  BY CacheFileAssumption DEF Init, Databases, Part
<1> QED
  BY CacheFileAssumption, <1>1 DEF Init, FileInv, Whole

(* A step that leaves the file alone and moves no update out of "writing" to
   "done" keeps FileInv when it moves updates only forward. *)
LEMMA FileStep == Base /\ LockInv /\ FileInv /\ [Next]_vars => FileInv'
<1> SUFFICES ASSUME Base, LockInv, FileInv, [Next]_vars PROVE FileInv'
  OBVIOUS
<1> USE CacheFileAssumption DEF Base, TypeOK, LockInv, ProgressInv, FileInv, Whole
<1>1. ASSUME NEW w \in Writers, openprev(w) PROVE FileInv'
  BY <1>1 DEF openprev
<1>2. ASSUME NEW w \in Writers, add_virtuals(w) PROVE FileInv'
  BY <1>2 DEF add_virtuals
<1>3. ASSUME NEW w \in Writers, openwrite(w) PROVE FileInv'
  <2>1. file'[1] = Gone
    BY <1>3 DEF openwrite, Empty, Part
  <2> QED
    BY <1>3, <2>1 DEF openwrite
<1>4. ASSUME NEW w \in Writers, lock_ex(w) PROVE FileInv'
  BY <1>4 DEF lock_ex
<1>5. ASSUME NEW w \in Writers, write_part(w) PROVE FileInv'
  <2>0. size[w] \in 1..N
    BY DEF Databases, Part
  <2>1. \A x \in Writers : wpc[x] = "writing" => x = w
    BY <1>5 DEF write_part
  <2>2. CASE wpos[w] = 0
    <3>1. file'[1] = w /\ wpos'[w] = 1 /\ wpc' = wpc
      BY <1>5, <2>2 DEF write_part, Written, Part
    <3> QED
      BY <1>5, <2>1, <3>1 DEF write_part
  <2>3. CASE wpos[w] > 0
    <3>1. /\ file'[1] \in {w, Hole}
          /\ file'[1] = w => file[1] = w
      BY <1>5, <2>3 DEF write_part, Written, Part
    <3>2. ASSUME file[1] = w, NEW i \in 1..wpos'[w] PROVE file'[i] = w
      <4>1. i \in Part /\ wpos'[w] = wpos[w] + 1
        BY <1>5, <2>0 DEF write_part, Part
      <4>2. CASE i = wpos[w] + 1
        BY <1>5, <4>1, <4>2 DEF write_part, Written
      <4>3. CASE i \in 1..wpos[w]
        <5>1. file[i] = w
          BY <1>5, <3>2, <4>3 DEF write_part
        <5> QED
          BY <1>5, <4>1, <4>3, <5>1 DEF write_part, Written
      <4> QED
        BY <4>1, <4>2, <4>3
    <3> QED
      BY <1>5, <2>1, <3>1, <3>2 DEF write_part
  <2> QED
    BY <2>2, <2>3
<1>6. ASSUME NEW w \in Writers, destroy(w) PROVE FileInv'
  <2>0. size[w] \in 1..N /\ size[w] = wpos[w] + 1 /\ size' = size
    BY <1>6 DEF destroy, Databases, Part
  <2>1. \A x \in Writers : wpc[x] = "writing" => x = w
    BY <1>6 DEF destroy
  <2>2. /\ file' = [i \in Part |-> IF i = size[w] THEN w
                               ELSE IF i < size[w] /\ file[i] = Gone THEN Hole
                               ELSE file[i]]
        /\ 1 \in Part
    BY <1>6 DEF destroy, Written, Part
  <2>3. file'[1] \in {w, Hole}
    <3>1. CASE wpos[w] = 0
      BY <2>0, <2>2, <3>1
    <3>2. CASE wpos[w] # 0
      <4>1. file[1] \in {w, Hole, Gone}
        BY <1>6, <3>2 DEF destroy
      <4> QED
        BY <2>0, <2>2, <4>1
    <3> QED
      BY <3>1, <3>2
  <2>4. ASSUME file'[1] = w, NEW i \in 1..size[w] PROVE file'[i] = w
    <3>1. CASE i = size[w]
      BY <2>0, <2>2, <3>1 DEF Part
    <3>2. CASE i # size[w]
      <4>1. i \in 1..wpos[w] /\ i \in Part /\ 1 < size[w] /\ i < size[w]
        BY <2>0, <3>2 DEF Part
      <4>2. file[1] = w
        BY <2>0, <2>2, <2>4, <4>1
      <4>3. file[i] = w
        BY <1>6, <4>1, <4>2 DEF destroy
      <4> QED
        BY <2>2, <3>2, <4>1, <4>3
    <3> QED
      BY <3>1, <3>2
  <2> QED
    BY <1>6, <2>0, <2>1, <2>3, <2>4 DEF destroy
<1>7. ASSUME NEW w \in Writers, openwrite_fail(w) PROVE FileInv'
  BY <1>7 DEF openwrite_fail
<1>8. ASSUME NEW w \in Writers, destroy_short(w) PROVE FileInv'
  BY <1>8 DEF destroy_short
<1>9. ASSUME NEW w \in Writers, cut_off(w) PROVE FileInv'
  BY <1>9 DEF cut_off
<1>10. ASSUME NEW r \in Readers, read(r) PROVE FileInv'
  BY <1>10 DEF read, openread, read_part, read_fail
<1>11. CASE UNCHANGED vars
  BY <1>11 DEF vars
<1> QED
  BY <1>1, <1>2, <1>3, <1>4, <1>5, <1>6, <1>7, <1>8, <1>9, <1>10, <1>11
     DEF Next, update

-------------------------------------------------------------------------------
(* The readers *)

LEMMA ReadInit == Init => SnapshotInv /\ ReadInv
  BY CacheFileAssumption DEF Init, SnapshotInv, ReadInv

(* While a reader holds its lock nobody writes, so the file can only vanish
   under it. *)
LEMMA SnapshotStep == Base /\ LockInv /\ SnapshotInv /\ [Next]_vars => SnapshotInv'
<1> SUFFICES ASSUME Base, LockInv, SnapshotInv, [Next]_vars,
                    NEW r \in Readers, rpc'[r] = "reading"
             PROVE  \/ \A i \in Part : file'[i] = Gone
                    \/ \A i \in 1..rpos'[r] : rgot'[r][i] = file'[i]
  BY DEF SnapshotInv
<1> USE CacheFileAssumption DEF Base, TypeOK, LockInv, ProgressInv, SnapshotInv
<1>1. ASSUME NEW w \in Writers,
             \/ openprev(w) \/ add_virtuals(w) \/ lock_ex(w)
             \/ openwrite_fail(w) \/ destroy_short(w) \/ cut_off(w)
      PROVE  UNCHANGED <<file, rpc, rpos, rgot>>
  BY <1>1 DEF openprev, add_virtuals, lock_ex, openwrite_fail, destroy_short, cut_off
<1>2. ASSUME NEW w \in Writers, openwrite(w)
      PROVE  \A i \in Part : file'[i] = Gone
  BY <1>2 DEF openwrite, Empty
<1>3. ASSUME NEW w \in Writers, write_part(w) \/ destroy(w)
      PROVE  FALSE
  BY <1>3 DEF write_part, destroy
<1>4. ASSUME NEW x \in Readers, openread(x)
      PROVE  \/ \A i \in Part : file'[i] = Gone
             \/ \A i \in 1..rpos'[r] : rgot'[r][i] = file'[i]
  BY <1>4 DEF openread
<1>5. ASSUME NEW x \in Readers, read_part(x)
      PROVE  \/ \A i \in Part : file'[i] = Gone
             \/ \A i \in 1..rpos'[r] : rgot'[r][i] = file'[i]
  <2>1. CASE x # r
    BY <1>5, <2>1 DEF read_part
  <2>2. CASE x = r
    <3>1. rpos[r] + 1 \in Part /\ rpos'[r] = rpos[r] + 1 /\ file' = file
      BY <1>5, <2>2 DEF read_part, Part
    <3>2. file[rpos[r] + 1] # Gone /\ rpc[r] = "reading"
      BY <1>5, <2>2 DEF read_part, Parses
    <3>3. \A i \in 1..rpos[r] : rgot[r][i] = file[i]
      BY <3>1, <3>2
    <3>4. rgot'[r] = [rgot[r] EXCEPT ![rpos[r] + 1] = file[rpos[r] + 1]]
      BY <1>5, <2>2 DEF read_part
    <3>5. ASSUME NEW i \in 1..rpos'[r] PROVE rgot'[r][i] = file'[i]
      <4>1. i \in Part /\ (i = rpos[r] + 1 \/ i \in 1..rpos[r])
        BY <3>1 DEF Part
      <4> QED
        BY <3>1, <3>3, <3>4, <4>1
    <3> QED
      BY <3>5
  <2> QED
    BY <2>1, <2>2
<1>6. ASSUME NEW x \in Readers, read_fail(x)
      PROVE  UNCHANGED <<file, rpos, rgot>> /\ rpc[r] = "reading"
  BY <1>6 DEF read_fail
<1>7. CASE UNCHANGED vars
  BY <1>7 DEF vars
<1> QED
  BY <1>1, <1>2, <1>3, <1>4, <1>5, <1>6, <1>7 DEF Next, update, read

(* Once an update has ended it stays as it is. *)
LEMMA EndedStays ==
  ASSUME Base, [Next]_vars, NEW d \in Writers, wpc[d] \in {"done", "short", "torn"}
  PROVE  wpc'[d] = wpc[d]
  BY DEF Base, TypeOK, Next, update, read, vars, openprev, add_virtuals, openwrite, lock_ex,
         write_part, destroy, openwrite_fail, destroy_short, cut_off, openread, read_part,
         read_fail

(* Every step keeps ReadInv: a new part is a part of the file, which is whole
   when the update that wrote its first part has completed. *)
LEMMA ReadStep ==
  Base /\ LockInv /\ FileInv /\ SnapshotInv /\ ReadInv /\ [Next]_vars => ReadInv'
<1> DEFINE OneDb(r) ==
      \/ /\ rgot[r][1] = Old
         /\ \A i \in 1..rpos[r] : rgot[r][i] = Old
      \/ /\ rgot[r][1] \in Writers
         /\ \/ wpc[rgot[r][1]] \in {"short", "torn"}
            \/ /\ wpc[rgot[r][1]] = "done"
               /\ \A i \in 1..rpos[r] : rgot[r][i] = rgot[r][1]
<1> SUFFICES ASSUME Base, LockInv, FileInv, SnapshotInv, ReadInv, [Next]_vars,
                    NEW r \in Readers, rpos'[r] > 0
             PROVE  OneDb(r)'
  BY DEF ReadInv
<1> USE CacheFileAssumption
<1>1. CASE UNCHANGED <<rpos[r], rgot[r]>>
  <2>1. OneDb(r)
    BY <1>1 DEF ReadInv
  <2>2. CASE rgot[r][1] = Old
    BY <1>1, <2>1, <2>2
  <2>3. CASE rgot[r][1] \in Writers
    <3>1. wpc[rgot[r][1]] \in {"done", "short", "torn"}
      BY <2>1, <2>3
    <3>2. wpc'[rgot[r][1]] = wpc[rgot[r][1]]
      BY <2>3, <3>1, EndedStays
    <3> QED
      BY <1>1, <2>1, <2>3, <3>2
  <2> QED
    BY <2>1, <2>2, <2>3
<1>2. CASE read_part(r)
  <2> DEFINE p == rpos[r] + 1
  <2>1. /\ p \in Part /\ rpos'[r] = p
        /\ rgot'[r] = [rgot[r] EXCEPT ![p] = file[p]]
        /\ UNCHANGED <<file, wpc>>
        /\ rpc[r] = "reading" /\ Parses(r, p)
    BY <1>2 DEF read_part, Part, Base, TypeOK, ProgressInv
  <2>2. \A i \in 1..rpos[r] : rgot[r][i] = file[i]
    BY <2>1 DEF SnapshotInv, Parses, Base, TypeOK
  <2>3. \A i \in 1..p : rgot'[r][i] = file[i]
    <3> SUFFICES ASSUME NEW i \in 1..p PROVE rgot'[r][i] = file[i]
      OBVIOUS
    <3>1. i \in Part /\ (i = p \/ i \in 1..rpos[r])
      BY <2>1 DEF Part, Base, TypeOK
    <3> QED
      BY <2>1, <2>2, <3>1 DEF Base, TypeOK
  <2>4. 1 \in 1..p /\ 1 \in Part /\ (\A i \in 1..p : i \in Part)
    BY <2>1 DEF Part
  <2>5. rgot'[r][1] = file[1]
    BY <2>3, <2>4
  <2>6. file[1] \in Databases
    <3>1. CASE p = 1
      BY <2>1, <2>4, <3>1 DEF Parses, Base, TypeOK
    <3>2. CASE p # 1
      <4>1. rpos[r] > 0 /\ 1 \in 1..rpos[r]
        BY <2>1, <3>2 DEF Part, Base, TypeOK
      <4> QED
        BY <2>2, <4>1 DEF ReadInv, Databases
    <3> QED
      BY <3>1, <3>2
  <2>7. ASSUME Whole(file, file[1]) PROVE \A i \in 1..p : rgot'[r][i] = rgot'[r][1]
    <3>1. /\ size[file[1]] \in 1..N
          /\ \/ p <= size[file[1]]
             \/ \E i \in 1..rpos[r] : i <= size[file[1]] /\ rgot'[r][i] # file[1]
      BY <1>2, <2>1, <2>5, ReadPartReach
    <3>2. \A i \in 1..rpos[r] : i <= size[file[1]] => rgot'[r][i] = file[1]
      <4> SUFFICES ASSUME NEW i \in 1..rpos[r], i <= size[file[1]]
                   PROVE  rgot'[r][i] = file[1]
        OBVIOUS
      <4>1. i \in 1..p /\ i \in 1..size[file[1]]
        BY <2>1, <3>1 DEF Base, TypeOK
      <4> QED
        BY <2>3, <2>7, <4>1 DEF Whole
    <3>3. p <= size[file[1]]
      BY <3>1, <3>2
    <3>4. \A i \in 1..p : i \in 1..size[file[1]]
      BY <2>1, <3>1, <3>3 DEF Part
    <3> QED
      BY <2>3, <2>5, <2>7, <3>4 DEF Whole
  <2>8. CASE file[1] = Old
    BY <2>1, <2>5, <2>7, <2>8 DEF FileInv
  <2>9. CASE file[1] \in Writers
    <3>1. wpc[file[1]] \in {"done", "short", "torn"}
      <4>1. exl = Nobody
        BY <2>1 DEF LockInv
      <4> QED
        BY <2>9, <4>1 DEF FileInv, LockInv
    <3>2. CASE wpc[file[1]] = "done"
      <4>1. Whole(file, file[1])
        BY <2>9, <3>2 DEF FileInv
      <4> QED
        BY <2>1, <2>5, <2>7, <2>9, <3>2, <4>1
    <3> QED
      BY <2>1, <2>5, <2>9, <3>1, <3>2
  <2> QED
    BY <2>6, <2>8, <2>9 DEF Databases
<1>3. ~ read_part(r) => UNCHANGED <<rpos[r], rgot[r]>>
  BY DEF Base, TypeOK, Next, update, read, vars, openprev, add_virtuals, openwrite, lock_ex,
         write_part, destroy, openwrite_fail, destroy_short, cut_off, openread, read_part,
         read_fail
<1> QED
  BY <1>1, <1>2, <1>3

-------------------------------------------------------------------------------
(* The theorem *)

LEMMA InvInit == Init => IInv
  BY BaseInit, LockInit, FileInit, ReadInit DEF IInv

LEMMA InvStep == IInv /\ [Next]_vars => IInv'
  BY BaseStep, LockStep, FileStep, SnapshotStep, ReadStep DEF IInv

THEOREM CacheFileInvariant == Spec => []IInv
  BY InvInit, InvStep, PTL DEF Spec

(* However openwrite, flock, the in-place writes and the readers interleave,
   what a reader has read comes from one database, unless the update that wrote
   the first part was cut off or lost its last part. *)
THEOREM ReadsAreOneDatabase == Spec => []OneDatabasePerRead
<1>1. IInv => OneDatabasePerRead
  <2> SUFFICES ASSUME IInv, NEW r \in Readers, NEW i \in 1..rpos[r]
               PROVE  CutOffUpdate(rgot[r][1]) \/ rgot[r][i] = rgot[r][1]
    BY DEF OneDatabasePerRead
  <2>1. rpos[r] > 0
    BY DEF IInv, Base, TypeOK
  <2> QED
    BY <2>1 DEF IInv, ReadInv, CutOffUpdate
<1> QED
  BY CacheFileInvariant, <1>1, PTL

-------------------------------------------------------------------------------
(* A quiet cachefile is whole *)

(* As long as no update was cut off: when no update has the file open for
   writing the file begins with the whole database of an update that completed,
   or of Old, and an update that writes alone finds everything it wrote in the
   file. *)
QuietInv ==
  (\A w \in Writers : ~ CutOffUpdate(w)) =>
    /\ (\A w \in Writers : wpc[w] \notin {"locking", "writing"})
         => \E d \in Published : Whole(file, d)
    /\ (\A w \in Writers : wpc[w] # "locking")
         => \A w \in Writers : wpc[w] = "writing" => \A i \in 1..wpos[w] : file[i] = w

LEMMA QuietInit == Init => QuietInv
<1> SUFFICES ASSUME Init PROVE QuietInv
  OBVIOUS
<1>1. \A i \in 1..size[Old] : i \in Part /\ file[i] = Old
  BY CacheFileAssumption DEF Init, Databases, Part
<1>2. Published = {Old}
  BY DEF Init, Published
<1> QED
  BY <1>1, <1>2 DEF Init, QuietInv, Whole

(* Every step keeps QuietInv. *)
LEMMA QuietStep == Base /\ LockInv /\ QuietInv /\ [Next]_vars => QuietInv'
<1> SUFFICES ASSUME Base, LockInv, QuietInv, [Next]_vars PROVE QuietInv'
  OBVIOUS
<1> USE CacheFileAssumption DEF Base, TypeOK, LockInv, ProgressInv, QuietInv, CutOffUpdate
<1>1. ASSUME NEW w \in Writers, openprev(w) PROVE QuietInv'
  <2>1. Published' = Published
    BY <1>1 DEF openprev, Published
  <2> QED
    BY <1>1, <2>1 DEF openprev, Whole
<1>2. ASSUME NEW w \in Writers, add_virtuals(w) PROVE QuietInv'
  <2>1. Published' = Published
    BY <1>2 DEF add_virtuals, Published
  <2> QED
    BY <1>2, <2>1 DEF add_virtuals, Whole
<1>3. ASSUME NEW w \in Writers, openwrite(w) PROVE QuietInv'
  <2>1. wpc'[w] = "locking"
    BY <1>3 DEF openwrite
  <2> QED
    BY <2>1
<1>4. ASSUME NEW w \in Writers, lock_ex(w) PROVE QuietInv'
  <2>1. wpc'[w] = "writing" /\ wpos'[w] = 0
    BY <1>4 DEF lock_ex
  <2>2. \A x \in Writers : wpc'[x] = "writing" => x = w
    BY <1>4 DEF lock_ex
  <2> QED
    BY <2>1, <2>2
<1>5. ASSUME NEW w \in Writers, write_part(w) PROVE QuietInv'
  <2>1. /\ wpc[w] = "writing" /\ wpc' = wpc
        /\ \A x \in Writers : wpc[x] = "writing" => x = w
    BY <1>5 DEF write_part
  <2>2. ASSUME \A i \in 1..wpos[w] : file[i] = w, NEW i \in 1..wpos'[w]
        PROVE  file'[i] = w
    <3>1. i \in Part /\ wpos'[w] = wpos[w] + 1
      BY <1>5 DEF write_part, Databases, Part
    <3>2. CASE i = wpos[w] + 1
      BY <1>5, <3>1, <3>2 DEF write_part, Written
    <3>3. CASE i \in 1..wpos[w]
      BY <1>5, <2>2, <3>1, <3>3 DEF write_part, Written
    <3> QED
      BY <3>1, <3>2, <3>3
  <2> QED
    BY <2>1, <2>2
<1>6. ASSUME NEW w \in Writers, destroy(w) PROVE QuietInv'
  <2>1. /\ wpc[w] = "writing"
        /\ \A x \in Writers : wpc'[x] # "writing"
        /\ \A x \in Writers : x # w => wpc'[x] = wpc[x]
    BY <1>6 DEF destroy
  <2>2. ASSUME \A i \in 1..wpos[w] : file[i] = w
        PROVE  (\E d \in Published : Whole(file, d))'
    <3>1. /\ size[w] \in 1..N /\ size[w] = wpos[w] + 1 /\ size' = size
          /\ file' = Written(file, size[w], w)
      BY <1>6 DEF destroy, Databases, Part
    <3>2. ASSUME NEW i \in 1..size[w] PROVE file'[i] = w
      BY <2>2, <3>1, <3>2 DEF Written, Part
    <3>3. wpc'[w] = "done"
      BY <1>6 DEF destroy
    <3> QED
      BY <3>1, <3>2, <3>3 DEF Whole, Published
  <2> QED
    BY <2>1, <2>2 DEF Whole
<1>7. ASSUME NEW w \in Writers, openwrite_fail(w) PROVE QuietInv'
  <2>1. Published' = Published
    BY <1>7 DEF openwrite_fail, Published
  <2> QED
    BY <1>7, <2>1 DEF openwrite_fail, Whole
<1>8. ASSUME NEW w \in Writers, destroy_short(w) \/ cut_off(w) PROVE QuietInv'
  <2>1. CutOffUpdate(w)'
    BY <1>8 DEF destroy_short, cut_off
  <2> QED
    BY <2>1
<1>9. ASSUME NEW r \in Readers, read(r) PROVE QuietInv'
  <2>1. UNCHANGED <<size, file, wpc, wpos>>
    BY <1>9 DEF read, openread, read_part, read_fail
  <2>2. Published' = Published
    BY <2>1 DEF Published
  <2> QED
    BY <2>1, <2>2 DEF Whole
<1>10. CASE UNCHANGED vars
  BY <1>10 DEF vars, Whole, Published
<1> QED
  BY <1>1, <1>2, <1>3, <1>4, <1>5, <1>6, <1>7, <1>8, <1>9, <1>10 DEF Next, update

(* When every update that opened the file for writing has completed, the file
   begins with the whole database of one that completed, or of Old, whatever
   the lengths of the databases; what is left of a longer one may follow. *)
THEOREM QuiescentFileIsWhole == Spec => []QuiescentWhole
<1>1. QuietInv => QuiescentWhole
  BY DEF QuietInv, QuiescentWhole, CutOffUpdate
<1>2. IInv => Base /\ LockInv
  BY DEF IInv
<1> QED
  BY CacheFileInvariant, QuietInit, QuietStep, <1>1, <1>2, PTL DEF Spec

-------------------------------------------------------------------------------
(* The file implements the register *)

LEMMA RegisterInit == Init => Register!Init
<1> SUFFICES ASSUME Init PROVE Register!Init
  OBVIOUS
<1>1. /\ 1 \in 1..size[Old] /\ 1 \in Part
      /\ \A i \in 1..size[Old] : i \in Part /\ file[i] = Old
  BY CacheFileAssumption DEF Init, Databases, Part
<1>2. RegDb = Old
  BY <1>1 DEF RegDb, Whole, Databases
<1>3. RegRes = [r \in Readers |-> "none"]
  BY DEF Init, RegRes
<1>4. ~ \E w \in Writers : CutOffUpdate(w)
  BY DEF Init, CutOffUpdate
<1> QED
  BY <1>2, <1>3, <1>4 DEF Register!Init

(* The register never holds two databases, and holds its first part. *)
LEMMA RegDbType ==
  ASSUME TypeOK
  PROVE  /\ RegDb \in Databases \cup {Gone}
         /\ \A d \in Databases : Whole(file, d) => RegDb = d /\ file[1] = d
  BY CacheFileAssumption DEF TypeOK, RegDb, Whole, Part

(* A step of an update changes the register and nothing else, or cuts off. *)
LEMMA RegisterUpdate ==
  ASSUME Base, TypeOK', NEW w \in Writers,
         update(w) \/ openwrite_fail(w) \/ destroy_short(w) \/ cut_off(w)
  PROVE  Register!Replace \/ Register!CutOff
<1>1. RegRes' = RegRes
  BY DEF update, openprev, add_virtuals, openwrite, lock_ex, write_part, destroy,
         openwrite_fail, destroy_short, cut_off, RegRes, RegRead, OfOne
<1>2. RegDb' \in Databases \cup {Gone}
  <2>1. \A d \in Databases : size'[d] \in 1..N
    BY DEF TypeOK, Part
  <2> QED
    BY <2>1 DEF RegDb, Whole, Databases
<1>3. CASE destroy_short(w) \/ cut_off(w)
  <2>1. (\E x \in Writers : CutOffUpdate(x))' = TRUE
    BY <1>3 DEF destroy_short, cut_off, CutOffUpdate, Base, TypeOK
  <2> QED
    BY <1>1, <1>2, <2>1 DEF Register!CutOff
<1>4. CASE update(w) \/ openwrite_fail(w)
  <2>1. \A x \in Writers : CutOffUpdate(x)' <=> CutOffUpdate(x)
    BY <1>4 DEF update, openprev, add_virtuals, openwrite, lock_ex, write_part, destroy,
                openwrite_fail, CutOffUpdate, Base, TypeOK
  <2> QED
    BY <1>1, <1>2, <2>1 DEF Register!Replace
<1> QED
  BY <1>3, <1>4

(* A reader's failure means that the register was unusable at that moment. *)
LEMMA RegisterReadFail ==
  ASSUME IInv, NEW r \in Readers, read_fail(r)
  PROVE  Register!ReadError(r)
<1> DEFINE p == rpos[r] + 1
<1> USE CacheFileAssumption
<1>1. /\ p \in Part /\ rpc[r] = "reading" /\ MayFail(r, p)
      /\ rpc' = [rpc EXCEPT ![r] = "error"] /\ UNCHANGED <<size, file, wpc, rpos, rgot>>
  BY DEF read_fail, IInv, Base, TypeOK, ProgressInv, Part
<1>2. ASSUME NEW d \in Databases, Whole(file, d) PROVE FALSE
  <2>1. size[d] \in 1..N /\ file[1] = d /\ 1 \in Part
    BY <1>2 DEF Whole, IInv, Base, TypeOK, Part
  <2>2. \A i \in 1..rpos[r] : rgot[r][i] = file[i]
    BY <1>1, <2>1 DEF IInv, SnapshotInv, Databases
  <2>3. p <= size[d]
    <3>1. CASE p = 1
      BY <2>1, <3>1
    <3>2. CASE p # 1
      <4>1. rpos[r] > 0 /\ 1 \in 1..rpos[r]
        BY <1>1, <3>2 DEF Part, IInv, Base, TypeOK
      <4>2. rgot[r][1] = d
        BY <2>1, <2>2, <4>1
      <4>3. \A i \in 1..rpos[r] : i <= size[d] => rgot[r][i] = d
        BY <1>2, <2>1, <2>2 DEF Whole, IInv, Base, TypeOK
      <4>4. rpos[r] < size[d]
        BY <1>1, <4>1, <4>2, <4>3 DEF IInv, Base, ReachInv
      <4> QED
        BY <2>1, <4>4 DEF IInv, Base, TypeOK
    <3> QED
      BY <3>1, <3>2
  <2>4. p \in 1..size[d] /\ file[p] = d
    BY <1>1, <1>2, <2>1, <2>3 DEF Whole, Part
  <2>5. \A i \in 1..p - 1 : file[p] = rgot[r][i]
    <3> SUFFICES ASSUME NEW i \in 1..p - 1 PROVE rgot[r][i] = d
      BY <2>4
    <3>1. i \in 1..rpos[r] /\ i \in 1..size[d]
      BY <2>1, <2>4 DEF IInv, Base, TypeOK
    <3> QED
      BY <1>2, <2>2, <3>1 DEF Whole
  <2> QED
    BY <1>1, <2>4, <2>5 DEF MayFail, Parses, Databases
<1>3. RegDb = Gone /\ RegDb' = RegDb
  BY <1>1, <1>2 DEF RegDb, Whole
<1>4. RegRes[r] = "none" /\ RegRes' = [RegRes EXCEPT ![r] = "error"]
  BY <1>1 DEF RegRes, RegRead, OfOne, IInv, Base, TypeOK
<1>5. UNCHANGED (\E x \in Writers : CutOffUpdate(x))
  BY <1>1 DEF CutOffUpdate
<1> QED
  BY <1>3, <1>4, <1>5 DEF Register!ReadError

(* A reader's last part makes it read the register, all other parts are
   invisible. *)
LEMMA RegisterReadPart ==
  ASSUME IInv, ReadInv', NEW r \in Readers, read_part(r)
  PROVE  \/ Register!ReadOk(r) \/ Register!ReadMixed(r)
         \/ UNCHANGED Register!vars
<1> DEFINE p == rpos[r] + 1
<1> DEFINE d == rgot'[r][1]
<1> USE CacheFileAssumption
<1>1. /\ p \in Part /\ rpos'[r] = p /\ d \in Databases /\ size[d] \in 1..N
      /\ rgot'[r][p] = file[p]
      /\ \A i \in 1..rpos[r] : rgot'[r][i] = rgot[r][i]
      /\ p <= size[d] \/ \E i \in 1..rpos[r] : i <= size[d] /\ rgot'[r][i] # d
  BY ReadPartReach DEF IInv
<1>2. /\ rpc[r] = "reading" /\ Parses(r, p)
      /\ rgot' = [rgot EXCEPT ![r][p] = file[p]]
      /\ rpos' = [rpos EXCEPT ![r] = p]
      /\ UNCHANGED <<size, file, wpc>>
  BY DEF read_part
<1>3. PICK last \in BOOLEAN :
        /\ Ends(r, last)'
        /\ IF last THEN rpc' = [rpc EXCEPT ![r] = "ok"] ELSE rpc' = rpc
  BY DEF read_part
<1>4. RegDb' = RegDb /\ UNCHANGED (\E x \in Writers : CutOffUpdate(x))
  BY <1>2 DEF RegDb, Whole, CutOffUpdate
<1>5. \A x \in Readers : x # r => RegRead(x)' = RegRead(x)
  <2>1. \A x \in Readers : x # r => rgot'[x] = rgot[x] /\ rpos'[x] = rpos[x]
    BY <1>2 DEF IInv, Base, TypeOK
  <2> QED
    BY <2>1 DEF RegRead, OfOne
<1>6. CASE ~ last
  <2>1. RegRes' = RegRes
    BY <1>2, <1>3, <1>5, <1>6 DEF RegRes
  <2> QED
    BY <1>4, <2>1 DEF Register!vars
<1>7. CASE last
  <2>1. RegRes[r] = "none" /\ RegRes' = [RegRes EXCEPT ![r] = RegRead(r)']
    BY <1>2, <1>3, <1>5, <1>7 DEF RegRes, IInv, Base, TypeOK
  <2>2. \A i \in 1..p : rgot'[r][i] = file[i]
    <3>1. \A i \in 1..rpos[r] : rgot[r][i] = file[i]
      BY <1>1, <1>2 DEF IInv, SnapshotInv, Parses
    <3> SUFFICES ASSUME NEW i \in 1..p PROVE rgot'[r][i] = file[i]
      OBVIOUS
    <3>2. i = p \/ i \in 1..rpos[r]
      BY <1>1 DEF Part, IInv, Base, TypeOK
    <3> QED
      BY <1>1, <3>1, <3>2
  <2>3. 1 \in 1..p /\ d = file[1]
    BY <1>1, <2>2 DEF Part
  <2>4. CASE OfOne(r)'
    <3>1. p = size[d] /\ \A i \in 1..p : rgot'[r][i] = d
      BY <1>1, <1>2, <1>3, <1>7, <2>4 DEF Ends, OfOne
    <3>2. Whole(file, d)
      BY <2>2, <3>1 DEF Whole
    <3>3. RegRead(r)' = d /\ RegDb = d
      BY <1>1, <2>3, <2>4, <3>2 DEF RegRead, RegDb
    <3> QED
      BY <1>1, <1>4, <2>1, <3>3 DEF Register!ReadOk
  <2>5. CASE ~ OfOne(r)'
    <3>1. PICK i \in 1..p : rgot'[r][i] # d
      BY <1>1, <2>5 DEF OfOne
    <3>2. RegRead(r)' = "mixed"
      BY <2>5 DEF RegRead
    <3>3. ASSUME NEW e \in Databases, Whole(file, e) PROVE FALSE
      <4>1. e = d
        BY <2>3, <3>3 DEF Whole, IInv, Base, TypeOK, Part
      <4>2. \A k \in 1..p : k <= size[d] => rgot'[r][k] = d
        BY <1>1, <2>2, <3>3, <4>1 DEF Whole
      <4>3. \A k \in 1..rpos[r] : k \in 1..p
        BY <1>1 DEF IInv, Base, TypeOK
      <4>4. p <= size[d]
        BY <1>1, <4>2, <4>3
      <4>5. i <= size[d]
        BY <1>1, <4>4 DEF Part
      <4> QED
        BY <3>1, <4>2, <4>5
    <3>4. RegDb = Gone
      BY <3>3 DEF RegDb
    <3>5. \E x \in Writers : CutOffUpdate(x)
      <4>1. rpos'[r] > 0 /\ i \in 1..rpos'[r]
        BY <1>1, <3>1 DEF Part
      <4> QED
        BY <1>2, <3>1, <4>1 DEF ReadInv, CutOffUpdate
    <3> QED
      BY <1>4, <2>1, <3>2, <3>4, <3>5 DEF Register!ReadMixed
  <2> QED
    BY <2>4, <2>5
<1> QED
  BY <1>6, <1>7

(* The cachefile with its truncations, locks and partial writes implements the
   register: every step is a step of CacheRegister or leaves it alone. *)
THEOREM CacheFileImplementsRegister == Spec => RegisterSpec
<1>1. IInv /\ IInv' /\ [Next]_vars => [Register!Next]_(Register!vars)
  <2> SUFFICES ASSUME IInv, IInv', [Next]_vars
               PROVE  [Register!Next]_(Register!vars)
    OBVIOUS
  <2>1. ASSUME NEW w \in Writers,
               update(w) \/ openwrite_fail(w) \/ destroy_short(w) \/ cut_off(w)
        PROVE  Register!Next
    BY <2>1, RegisterUpdate DEF IInv, Base, Register!Next
  <2>2. ASSUME NEW r \in Readers, openread(r)
        PROVE  UNCHANGED Register!vars
    <3>1. /\ rpc[r] = "start" /\ rpc' = [rpc EXCEPT ![r] = "reading"]
          /\ UNCHANGED <<size, file, wpc, rpos, rgot>>
      BY <2>2 DEF openread
    <3>2. RegRes' = RegRes
      BY <3>1 DEF RegRes, RegRead, OfOne, IInv, Base, TypeOK
    <3>3. RegDb' = RegDb /\ UNCHANGED (\E x \in Writers : CutOffUpdate(x))
      BY <3>1 DEF RegDb, Whole, CutOffUpdate
    <3> QED
      BY <3>2, <3>3 DEF Register!vars
  <2>3. ASSUME NEW r \in Readers, read_part(r)
        PROVE  Register!Next \/ UNCHANGED Register!vars
    BY <2>3, RegisterReadPart DEF IInv, Register!Next
  <2>4. ASSUME NEW r \in Readers, read_fail(r)
        PROVE  Register!Next
    BY <2>4, RegisterReadFail DEF Register!Next
  <2>5. CASE UNCHANGED vars
    <3>1. RegRes' = RegRes /\ RegDb' = RegDb
      BY <2>5 DEF vars, RegRes, RegRead, OfOne, RegDb, Whole
    <3>2. UNCHANGED (\E x \in Writers : CutOffUpdate(x))
      BY <2>5 DEF vars, CutOffUpdate
    <3> QED
      BY <3>1, <3>2 DEF Register!vars
  <2> QED
    BY <2>1, <2>2, <2>3, <2>4, <2>5 DEF Next, read
<1> QED
  BY CacheFileInvariant, RegisterInit, <1>1, PTL DEF Spec, RegisterSpec, Register!Spec

================================================================================
