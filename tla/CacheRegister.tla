----------------------------- MODULE CacheRegister -----------------------------
(***************************************************************************)
(* What the cachefile of coreq promises, with no file positions and no     *)
(* locks: a register that holds one complete database or is unusable.      *)
(* Bytes behind the end of the database are no part of it.                 *)
(* coreq-update publishes databases, coreq reads one.                      *)
(*                                                                         *)
(* A read that succeeds returns the database the register held at one      *)
(* moment of the read.  A read may fail only when the register was         *)
(* unusable at that moment.  A read that mixes several databases is        *)
(* possible only after an update was cut off before it had written         *)
(* everything.                                                             *)
(***************************************************************************)
CONSTANTS
  Databases,  \* the identities of complete databases
  First,      \* the database in the register at the start, one of Databases
  Readers,    \* the runs of coreq that read the cachefile
  Unusable    \* the register holds no complete database; not one of Databases

VARIABLES
  db,       \* the database in the register, or Unusable
  damaged,  \* an update has been cut off
  res       \* what each reader has: "none", "error", "mixed", or a database

vars == <<db, damaged, res>>

Init ==
  /\ db = First
  /\ damaged = FALSE
  /\ res = [r \in Readers |-> "none"]

(* An update destroys, or replaces, the content of the register. *)
Replace ==
  /\ db' \in Databases \cup {Unusable}
  /\ UNCHANGED <<damaged, res>>

(* An update is cut off; whatever it leaves behind stays. *)
CutOff ==
  /\ damaged' = TRUE
  /\ db' \in Databases \cup {Unusable}
  /\ UNCHANGED res

ReadOk(r) ==
  /\ res[r] = "none"
  /\ db \in Databases
  /\ res' = [res EXCEPT ![r] = db]
  /\ UNCHANGED <<db, damaged>>

ReadError(r) ==
  /\ res[r] = "none"
  /\ db = Unusable
  /\ res' = [res EXCEPT ![r] = "error"]
  /\ UNCHANGED <<db, damaged>>

ReadMixed(r) ==
  /\ res[r] = "none"
  /\ damaged
  /\ db = Unusable
  /\ res' = [res EXCEPT ![r] = "mixed"]
  /\ UNCHANGED <<db, damaged>>

Next ==
  \/ Replace
  \/ CutOff
  \/ \E r \in Readers : ReadOk(r) \/ ReadError(r) \/ ReadMixed(r)

Spec == Init /\ [][Next]_vars

================================================================================
