------------------------------- MODULE CacheFile -------------------------------
(***************************************************************************)
(* The cachefile shared by concurrent runs of coreq-update (writers) and   *)
(* coreq (readers).                                                        *)
(*                                                                         *)
(* File::openwrite calls fopen(name, "wb"), which truncates the file, and  *)
(* only then takes the exclusive flock.  File::openread opens and then     *)
(* takes a shared flock.  Both locks are released by fclose, or by the     *)
(* kernel when a process dies.  The database is written in place through   *)
(* stdio, i.e. part by part; the last part reaches the file in fclose,     *)
(* whose result File::destroy ignores.                                     *)
(*                                                                         *)
(* Databases differ in length.  Nothing truncates the file once the lock   *)
(* is held, so that a shorter database may end up in front of what is left *)
(* of a longer one.  A reader stops where the counts in the database that  *)
(* it reads tell it to, and never looks behind that.                       *)
(*                                                                         *)
(* With KEEP_VIRTUALS, coreq-update first reads the header of the          *)
(* cachefile it is going to replace and copies its virtual overlays.       *)
(***************************************************************************)
EXTENDS Naturals

CONSTANTS
  Writers,  \* the runs of coreq-update
  Readers,  \* the runs of coreq
  N,        \* how many parts stdio flushes for the longest database; the first holds the header
  Sizes,    \* the lengths, in parts, that the databases may have
  Old,      \* the database in the cachefile at the start
  Hole,     \* a part that was never written but lies before one that was: zeros
  Gone,     \* a part beyond the end of the file
  Nobody    \* no process holds the exclusive lock

Part == 1..N
Databases == Writers \cup {Old}

ASSUME CacheFileAssumption ==
  /\ N \in Nat \ {0}
  /\ Sizes \subseteq [Databases -> Part]
  /\ Writers \cap Readers = {}
  /\ Old \notin Writers
  /\ Hole \notin Writers \cup {Old}
  /\ Gone \notin Writers \cup {Old, Hole}
  /\ Nobody \notin Writers

VARIABLES
  size,   \* how many parts each database has
  file,   \* for each part, the update that wrote it, or Old, Hole or Gone
  exl,    \* the writer that holds the exclusive flock
  shared, \* the processes that hold a shared flock
  wpc,    \* where each update is
  wpos,   \* how many parts it has written
  keeps,  \* the databases that contain the virtual overlays of Old
  rpc,    \* where each reader is
  rpos,   \* how many parts each reader has read
  rgot    \* those parts

vars == <<size, file, exl, shared, wpc, wpos, keeps, rpc, rpos, rgot>>

-------------------------------------------------------------------------------
(* The file *)

Empty == [i \in Part |-> Gone]

(* stdio writes part p of database w at w's own offset. When the file ends
   before that offset the bytes between become zeros. *)
Written(f, p, w) ==
  [i \in Part |-> IF i = p THEN w
                  ELSE IF i < p /\ f[i] = Gone THEN Hole
                  ELSE f[i]]

(* The file begins with all of database d. *)
Whole(f, d) == \A i \in 1..size[d] : f[i] = d

-------------------------------------------------------------------------------
Init ==
  /\ size \in Sizes
  /\ file = [i \in Part |-> IF i <= size[Old] THEN Old ELSE Gone]
  /\ exl = Nobody
  /\ shared = {}
  /\ wpc = [w \in Writers |-> "start"]
  /\ wpos = [w \in Writers |-> 0]
  /\ keeps = {Old}
  /\ rpc = [r \in Readers |-> "start"]
  /\ rpos = [r \in Readers |-> 0]
  /\ rgot = [r \in Readers |-> Empty]

-------------------------------------------------------------------------------
(* coreq-update *)

(* add_virtuals: Database::openread on the previous cachefile; the flock is
   taken as soon as no other process holds the exclusive one. *)
openprev(w) ==
  /\ wpc[w] = "start"
  /\ exl = Nobody
  /\ shared' = shared \cup {w}
  /\ wpc' = [wpc EXCEPT ![w] = "prev"]
  /\ UNCHANGED <<size, file, exl, wpos, keeps, rpc, rpos, rgot>>

(* add_virtuals: read_header and copy the virtual overlays, or give up with
   "KEEP_VIRTUALS ignored"; the Database goes out of scope. *)
add_virtuals(w) ==
  /\ wpc[w] = "prev"
  /\ keeps' = IF file[1] \in keeps THEN keeps \cup {w} ELSE keeps
  /\ shared' = shared \ {w}
  /\ wpc' = [wpc EXCEPT ![w] = "gather"]
  /\ UNCHANGED <<size, file, exl, wpos, rpc, rpos, rgot>>

(* update: openwrite fails when fopen does, and nothing was touched. *)
openwrite_fail(w) ==
  /\ wpc[w] = "gather"
  /\ wpc' = [wpc EXCEPT ![w] = "failed"]
  /\ UNCHANGED <<size, file, exl, shared, wpos, keeps, rpc, rpos, rgot>>

(* File::openwrite: fopen(name, "wb") truncates, whoever holds a lock. *)
openwrite(w) ==
  /\ wpc[w] = "gather"
  /\ file' = Empty
  /\ wpc' = [wpc EXCEPT ![w] = "locking"]
  /\ UNCHANGED <<size, exl, shared, wpos, keeps, rpc, rpos, rgot>>

(* Mutation of lock_ex: the writer does not wait for other writers. *)
lock_ex_shared(w) ==
  /\ wpc[w] = "locking"
  /\ shared = {}
  /\ exl' = w
  /\ wpc' = [wpc EXCEPT ![w] = "writing"]
  /\ UNCHANGED <<size, file, shared, wpos, keeps, rpc, rpos, rgot>>

(* File::openwrite: flock(LOCK_EX) waits for every other lock. *)
lock_ex(w) ==
  /\ wpc[w] = "locking"
  /\ exl = Nobody
  /\ shared = {}
  /\ exl' = w
  /\ wpc' = [wpc EXCEPT ![w] = "writing"]
  /\ UNCHANGED <<size, file, shared, wpos, keeps, rpc, rpos, rgot>>

(* Mutation of write_part: one part too many. *)
write_part_beyond(w) ==
  /\ wpc[w] = "writing"
  /\ wpos[w] <= N
  /\ file' = Written(file, wpos[w] + 1, w)
  /\ wpos' = [wpos EXCEPT ![w] = @ + 1]
  /\ UNCHANGED <<size, exl, shared, wpc, keeps, rpc, rpos, rgot>>

(* write_header and write_packagetree: stdio flushes the next part. *)
write_part(w) ==
  /\ wpc[w] = "writing"
  /\ wpos[w] + 1 < size[w]
  /\ file' = Written(file, wpos[w] + 1, w)
  /\ wpos' = [wpos EXCEPT ![w] = @ + 1]
  /\ UNCHANGED <<size, exl, shared, wpc, keeps, rpc, rpos, rgot>>

(* Mutation of destroy: the file stays open, and so does the lock. *)
destroy_leak(w) ==
  /\ wpc[w] = "writing"
  /\ wpos[w] + 1 = size[w]
  /\ file' = Written(file, size[w], w)
  /\ wpos' = [wpos EXCEPT ![w] = size[w]]
  /\ wpc' = [wpc EXCEPT ![w] = "done"]
  /\ UNCHANGED <<size, exl, shared, keeps, rpc, rpos, rgot>>

(* The Database goes out of scope: File::destroy calls fclose, which flushes
   the last part and releases the lock. *)
destroy(w) ==
  /\ wpc[w] = "writing"
  /\ wpos[w] + 1 = size[w]
  /\ file' = Written(file, size[w], w)
  /\ wpos' = [wpos EXCEPT ![w] = size[w]]
  /\ exl' = Nobody
  /\ wpc' = [wpc EXCEPT ![w] = "done"]
  /\ UNCHANGED <<size, shared, keeps, rpc, rpos, rgot>>

(* The flush in fclose fails.  Nobody looks at the result, and update has
   already returned true. *)
destroy_short(w) ==
  /\ wpc[w] = "writing"
  /\ wpos[w] + 1 = size[w]
  /\ exl' = Nobody
  /\ wpc' = [wpc EXCEPT ![w] = "short"]
  /\ UNCHANGED <<size, file, shared, wpos, keeps, rpc, rpos, rgot>>

(* A write fails and update returns false, or the process is killed: the lock
   goes, what was written stays. *)
cut_off(w) ==
  /\ wpc[w] \in {"locking", "writing"}
  /\ exl' = IF exl = w THEN Nobody ELSE exl
  /\ wpc' = [wpc EXCEPT ![w] = "torn"]
  /\ UNCHANGED <<size, file, shared, wpos, keeps, rpc, rpos, rgot>>

-------------------------------------------------------------------------------
(* coreq *)

(* Mutation of openread: no shared lock. *)
openread_unlocked(r) ==
  /\ rpc[r] = "start"
  /\ rpc' = [rpc EXCEPT ![r] = "reading"]
  /\ UNCHANGED <<size, file, exl, shared, wpc, wpos, keeps, rpos, rgot>>

(* File::openread: fopen succeeds (the file exists), flock(LOCK_SH) waits. *)
openread(r) ==
  /\ rpc[r] = "start"
  /\ exl = Nobody
  /\ shared' = shared \cup {r}
  /\ rpc' = [rpc EXCEPT ![r] = "reading"]
  /\ UNCHANGED <<size, file, exl, wpc, wpos, keeps, rpos, rgot>>

(* Mutation of Parses: behind the header the end of the file goes unnoticed. *)
Parses_past_end(r, p) == p = 1 => file[p] \notin {Hole, Gone}

(* The next part, as long as it parses.  A first part of zeros has no magic
   string.  A part of another database, or zeros, after a part of the first
   may or may not happen to parse. *)
Parses(r, p) ==
  /\ file[p] # Gone
  /\ p = 1 => file[p] # Hole

MayFail(r, p) ==
  \/ ~ Parses(r, p)
  \/ \E i \in 1..p - 1 : file[p] # rgot[r][i]

(* All parts that r has read are of one database. *)
OfOne(r) == \A i \in 1..rpos[r] : rgot[r][i] = rgot[r][1]

(* Was that the last part that r reads? The header counts the categories, and
   each category its packages; the counts found in a mixture may end anywhere. *)
Ends(r, last) ==
  IF OfOne(r) THEN last = (rpos[r] = size[rgot[r][1]])
  ELSE rpos[r] = N => last

read_part(r) ==
  LET p == rpos[r] + 1 IN
  /\ rpc[r] = "reading"
  /\ Parses(r, p)
  /\ rgot' = [rgot EXCEPT ![r][p] = file[p]]
  /\ rpos' = [rpos EXCEPT ![r] = p]
  /\ UNCHANGED <<size, file, exl, wpc, wpos, keeps>>
  /\ \E last \in BOOLEAN :
       /\ Ends(r, last)'
       /\ IF last THEN /\ rpc' = [rpc EXCEPT ![r] = "ok"]
                       /\ shared' = shared \ {r}
          ELSE UNCHANGED <<rpc, shared>>

(* read_header or PackageReader report an error; coreq exits. *)
read_fail(r) ==
  /\ rpc[r] = "reading"
  /\ MayFail(r, rpos[r] + 1)
  /\ rpc' = [rpc EXCEPT ![r] = "error"]
  /\ shared' = shared \ {r}
  /\ UNCHANGED <<size, file, exl, wpc, wpos, keeps, rpos, rgot>>

-------------------------------------------------------------------------------
Finished ==
  /\ \A w \in Writers : wpc[w] \in {"done", "short", "torn", "failed"}
  /\ \A r \in Readers : rpc[r] \in {"ok", "error"}

update(w) ==
  \/ openprev(w) \/ add_virtuals(w)
  \/ openwrite(w) \/ lock_ex(w) \/ write_part(w) \/ destroy(w)

read(r) == openread(r) \/ read_part(r) \/ read_fail(r)

Next ==
  \/ \E w \in Writers : update(w)
  \/ \E w \in Writers : openwrite_fail(w) \/ destroy_short(w) \/ cut_off(w)
  \/ \E r \in Readers : read(r)
  \/ Finished /\ UNCHANGED vars

(* Every process keeps running unless it is cut off.  A waiting flock is
   granted once the lock stays free: each process takes it a bounded number
   of times, so weak fairness is enough. *)
Fairness ==
  /\ \A w \in Writers : WF_vars(update(w))
  /\ \A r \in Readers : WF_vars(read(r))

Spec == Init /\ [][Next]_vars /\ Fairness

-------------------------------------------------------------------------------
(* Properties *)

wpcs == {"start", "prev", "gather", "locking", "writing", "done", "short", "torn", "failed"}
rpcs == {"start", "reading", "ok", "error"}

(* Every variable keeps its type. *)
TypeOK ==
  /\ size \in [Databases -> Part]
  /\ file \in [Part -> Databases \cup {Hole, Gone}]
  /\ exl \in Writers \cup {Nobody}
  /\ shared \subseteq Writers \cup Readers
  /\ wpc \in [Writers -> wpcs]
  /\ wpos \in [Writers -> 0..N]
  /\ keeps \subseteq Databases
  /\ rpc \in [Readers -> rpcs]
  /\ rpos \in [Readers -> 0..N]
  /\ rgot \in [Readers -> [Part -> Databases \cup {Hole, Gone}]]

CutOffUpdate(d) == d \in Writers /\ wpc[d] \in {"short", "torn"}

(* What a reader has read comes from one database, unless the update that
   wrote the first part was cut off or lost its last part.  It says that the
   shared lock and the in-place write of openread and openwrite together never
   hand out a mixture of two updates that both completed, although openwrite
   truncates without the lock. *)
OneDatabasePerRead ==
  \A r \in Readers : \A i \in 1..rpos[r] :
    CutOffUpdate(rgot[r][1]) \/ rgot[r][i] = rgot[r][1]

(* The updates that have completed, or Old while there is none. *)
Published ==
  IF \E w \in Writers : wpc[w] = "done" THEN {w \in Writers : wpc[w] = "done"} ELSE {Old}

(* When every update that opened the file for writing has completed, the file
   begins with the whole database of one of them, or of Old if there was none:
   no truncation and no hole of one update is left where a reader looks,
   although openwrite truncates what another update is just writing. What is
   left of a longer database may remain behind a shorter one. *)
QuiescentWhole ==
  (\A w \in Writers : wpc[w] \in {"start", "prev", "gather", "failed", "done"})
    => \E d \in Published : Whole(file, d)

(* Every update and every reader comes to an end: the locks cannot block
   somebody for ever. *)
AllFinish == <>Finished

(* The documented effect of KEEP_VIRTUALS: a database that an update completes
   contains the virtual overlays of the database before it. *)
KeepVirtuals ==
  \A w \in Writers : wpc[w] = "done" => w \in keeps

(* The register this file implements. *)
RegDb == IF \E d \in Databases : Whole(file, d) THEN file[1] ELSE Gone

RegRead(r) == IF OfOne(r) THEN rgot[r][1] ELSE "mixed"

RegRes == [r \in Readers |-> IF rpc[r] = "ok" THEN RegRead(r)
                             ELSE IF rpc[r] = "error" THEN "error"
                             ELSE "none"]

Register == INSTANCE CacheRegister WITH
  First <- Old, Unusable <- Gone,
  db <- RegDb, damaged <- (\E w \in Writers : CutOffUpdate(w)), res <- RegRes

(* The file implements the register: a successful read returns the database
   the file held at the moment of its last part, an error means that there was
   none, and a mixture needs an update that was cut off. *)
RegisterSpec == Register!Spec

================================================================================
