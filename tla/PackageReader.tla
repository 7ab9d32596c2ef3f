----------------------------- MODULE PackageReader -----------------------------
(***************************************************************************)
(* Reading the packages of a cachefile: PackageReader of                   *)
(* database/package_reader.cc together with the three loops that use it    *)
(* (coreq.cc, coreq-diff.cc and cache/coreqcache/coreqcache.cc).           *)
(*                                                                         *)
(* The file was written by a coreq-update with its own options, and may    *)
(* have been cut off anywhere (File::destroy ignores a failing fclose, and *)
(* coreq-update may have been killed).  A package is read only as far as   *)
(* somebody needs it; its length in the file leads to the next one.        *)
(***************************************************************************)
EXTENDS Database, Integers

CONSTANTS
  Trees,     \* package trees that may be in the file
  Overlays,  \* the overlays of the header
  Options,   \* pairs of options: of the run that wrote, and of the run that reads
  MaxSize    \* the largest number of type Treesize

ASSUME PackageReaderAssumption ==
  /\ Trees \subseteq Seq(Category)
  /\ Overlays \in Seq(OverlayIdent)
  /\ Options \subseteq UseOptions \X UseOptions
  /\ MaxSize \in Nat

VARIABLES
  tree,      \* what was written
  options,   \* the options of both runs
  file,      \* what is in the file
  whole,     \* nothing of the file was cut off
  client,    \* which program reads
  pos,       \* offset in the file
  header,    \* the header that was read
  frames,    \* m_frames
  cat_size,  \* m_cat_size
  category,  \* m_cat_name
  next_pos,  \* m_next
  have,      \* m_have
  pkg,       \* m_pkg: the fields read so far
  error,     \* m_error
  pc,        \* where the client is
  rest,      \* add_rest of coreq: keep every further package
  seen,      \* history: how many packages next() has found
  out        \* the packages the client keeps, NULLPTR for a null pointer

vars == <<tree, options, file, whole, client, pos, header, frames, cat_size, category, next_pos,
          have, pkg, error, pc, rest, seen, out>>

given == <<tree, options, client, file, whole>>
reader == <<pos, header, frames, cat_size, category, next_pos, have, pkg, error>>

NONE == 0
NAME == 1
LICENSE == 4
VERSIONS == 5
ALL == 7

NULLPTR == [null |-> TRUE]

WrittenHeader(t, o) == prep_header_hashs(t, o[1])
WrittenFile(t, o) ==
  Bytes(write_header(WrittenHeader(t, o), Len(t), Overlays, <<>>)
          \o write_packagetree(t, WrittenHeader(t, o)))

Init ==
  /\ tree \in Trees
  /\ options \in Options
  /\ client \in {"coreq", "coreqcache", "coreq-diff"}
  /\ \E f \in {WrittenFile(tree, options)}, cut \in 0..Len(WrittenFile(tree, options)) :
       /\ file = SubSeq(f, 1, cut)
       /\ whole = (cut = Len(f))
  /\ pos = 0
  /\ header = [size |-> 0]
  /\ frames = 0
  /\ cat_size = 0
  /\ category = <<>>
  /\ next_pos = 0
  /\ have = NONE
  /\ pkg = NULLPTR
  /\ error = FALSE
  /\ pc = "header"
  /\ rest = FALSE
  /\ seen = 0
  /\ out = <<>>

-------------------------------------------------------------------------------
(* PackageReader *)

(* Database::read_header, then the constructor of PackageReader; any error
   ends the program. *)
open ==
  /\ pc = "header"
  /\ \E h \in {read_header(file, options[2])} :
       /\ pos' = h.pos
       /\ IF h.ok
            THEN /\ header' = h.val
                 /\ frames' = h.val.size
                 /\ pc' = "next"
            ELSE /\ pc' = "failed"
                 /\ UNCHANGED <<header, frames>>
  /\ UNCHANGED <<given, cat_size, category, next_pos, have, pkg, error, rest, seen, out>>

(* Unsigned decrement. *)
Decrement(n) == IF n = 0 THEN MaxSize ELSE n - 1

(* next when the category has no package left: the counter wraps, and the next
   category is opened, or there is none. *)
next_category ==
  /\ pc = "next" /\ cat_size = 0
  /\ frames' = Decrement(frames)
  /\ \E c \in {IF frames = 0 THEN Got(pos, <<>>) ELSE read_category_header(file, pos)} :
       /\ pos' = c.pos
       /\ IF frames # 0 /\ c.ok
            THEN /\ category' = c.val.name
                 /\ cat_size' = c.val.size
                 /\ UNCHANGED <<error, pc>>
            ELSE /\ cat_size' = Decrement(cat_size)
                 /\ error' = (error \/ frames # 0)
                 /\ pc' = "end"
                 /\ UNCHANGED category
  /\ UNCHANGED <<given, header, next_pos, have, pkg, rest, seen, out>>

(* Mutation of next: the end of the file is the end of the packages. *)
next_eof ==
  /\ pc = "next" /\ cat_size # 0
  /\ cat_size' = Decrement(cat_size)
  /\ \E len \in {read_num(file, pos)} :
       /\ pos' = len.pos
       /\ IF len.ok
            THEN /\ next_pos' = len.pos + len.val
                 /\ have' = NONE
                 /\ pkg' = [category |-> category]
                 /\ seen' = seen + 1
                 /\ pc' = "package"
                 /\ UNCHANGED error
            ELSE /\ pc' = "end"
                 /\ UNCHANGED <<error, next_pos, have, pkg, seen>>
  /\ UNCHANGED <<given, header, frames, category, rest, out>>

(* next: the length of the package is read, and a new package begins. *)
next ==
  /\ pc = "next" /\ cat_size # 0
  /\ cat_size' = Decrement(cat_size)
  /\ \E len \in {read_num(file, pos)} :
       /\ pos' = len.pos
       /\ IF len.ok
            THEN /\ next_pos' = len.pos + len.val
                 /\ have' = NONE
                 /\ pkg' = [category |-> category]
                 /\ seen' = seen + 1
                 /\ pc' = "package"
                 /\ UNCHANGED error
            ELSE /\ error' = TRUE
                 /\ pc' = "end"
                 /\ UNCHANGED <<next_pos, have, pkg, seen>>
  /\ UNCHANGED <<given, header, frames, category, rest, out>>

(* A record and more fields. *)
With(record, more) ==
  [f \in DOMAIN record \cup DOMAIN more |-> IF f \in DOMAIN more THEN more[f] ELSE record[f]]

(* The fields of a package in the order of the file, up to the attribute. *)
PackageFields(from, need) ==
  LET all == << <<"name", <<"string">> >>, <<"desc", <<"string">> >>,
                <<"homepage", <<"string">> >>,
                <<"licenses", <<"hash string", header.license_hash>> >> >>
  IN  SubSeq(all, from + 1, IF need > LICENSE THEN LICENSE ELSE need)

(* What read(need) finds: nothing is read twice, and the versions come last. *)
Attributes(need) ==
  IF have >= need THEN Got(pos, pkg)
  ELSE Then(ReadRecord(PackageFields(have, need), file, pos),
            LAMBDA p, fields :
              IF have < VERSIONS /\ need >= VERSIONS
                THEN Then(read_versions(file, p, header, options[2]),
                          LAMBDA q, v : Got(q, With(With(pkg, fields), [versions |-> v])))
                ELSE Got(p, With(pkg, fields)))

(* read(need) with what it finds: after an error m_have keeps its value. *)
read(need, a) ==
  /\ pos' = a.pos
  /\ IF a.ok
       THEN /\ have' = IF have >= need THEN have ELSE need
            /\ pkg' = a.val
            /\ UNCHANGED error
       ELSE /\ error' = TRUE
            /\ UNCHANGED <<have, pkg>>
  /\ UNCHANGED <<header, frames, cat_size, category, next_pos>>

(* skip: where the file is afterwards; the seek does not mind its end. *)
Skipped == IF have = ALL THEN pos ELSE next_pos

skip ==
  /\ pos' = Skipped
  /\ UNCHANGED <<header, frames, cat_size, category, next_pos, have, pkg, error>>

-------------------------------------------------------------------------------
(* coreq *)

(* MatchTree::match: each test reads what it needs and ignores the result. *)
match_read(need) ==
  /\ pc = "package" /\ client = "coreq" /\ ~ rest
  /\ have < need
  /\ \E a \in {Attributes(need)} : read(need, a)
  /\ UNCHANGED <<given, pc, rest, seen, out>>

(* release: the complete package, or a null pointer. *)
Released(a) == IF a.ok THEN a.val ELSE NULLPTR

(* The package matches, or --test-unused wants every package: a null pointer
   ends the loop.  After a match with --brief the loop ends as well, or goes
   on with add_rest. *)
coreq_release ==
  /\ pc = "package" /\ client = "coreq" /\ ~ rest
  /\ \E a \in {Attributes(ALL)} :
       /\ read(ALL, a)
       /\ IF Released(a) = NULLPTR
            THEN pc' = "end" /\ UNCHANGED <<rest, out>>
            ELSE /\ out' = Append(out, Released(a))
                 /\ \/ pc' = "next" /\ rest' \in BOOLEAN
                    \/ pc' = "enough" /\ UNCHANGED rest
  /\ UNCHANGED <<given, seen>>

(* add_rest: whatever release returns is kept. *)
coreq_rest ==
  /\ pc = "package" /\ client = "coreq" /\ rest
  /\ \E a \in {Attributes(ALL)} :
       /\ read(ALL, a)
       /\ out' = Append(out, Released(a))
  /\ pc' = "next"
  /\ UNCHANGED <<given, rest, seen>>

coreq_skip ==
  /\ pc = "package" /\ client = "coreq" /\ ~ rest
  /\ skip
  /\ pc' = "next"
  /\ UNCHANGED <<given, rest, seen, out>>

(* Mutation of finish: the error of the reader is not looked at. *)
finish_unchecked ==
  /\ pc \in {"end", "enough"}
  /\ pc' = "done"
  /\ UNCHANGED <<given, reader, rest, seen, out>>

(* After the loop, an error ends the program before anything is printed. *)
finish ==
  /\ pc \in {"end", "enough"}
  /\ pc' = IF error THEN "failed" ELSE "done"
  /\ UNCHANGED <<given, reader, rest, seen, out>>

-------------------------------------------------------------------------------
(* coreq-diff: next and release until one of them fails. *)
diff_release ==
  /\ pc = "package" /\ client = "coreq-diff"
  /\ \E a \in {Attributes(ALL)} :
       /\ read(ALL, a)
       /\ IF Released(a) = NULLPTR
            THEN pc' = "end" /\ UNCHANGED out
            ELSE pc' = "next" /\ out' = Append(out, Released(a))
  /\ UNCHANGED <<given, rest, seen>>

(* CoreqCache::readCategories: the name, then everything if some cache wants
   the category, then skip whatever the result is. *)
cache_name ==
  /\ pc = "package" /\ client = "coreqcache" /\ have = NONE
  /\ \E a \in {Attributes(NAME)} :
       /\ read(NAME, a)
       /\ pc' = IF a.ok THEN "package" ELSE "end"
  /\ UNCHANGED <<given, rest, seen, out>>

cache_read ==
  /\ pc = "package" /\ client = "coreqcache" /\ have = NAME
  /\ \E a \in {Attributes(ALL)} :
       /\ read(ALL, a)
       /\ IF a.ok
            THEN out' = Append(out, a.val) /\ UNCHANGED pc
            ELSE pc' = "end" /\ UNCHANGED out
  /\ UNCHANGED <<given, rest, seen>>

cache_skip ==
  /\ pc = "package" /\ client = "coreqcache" /\ have # NONE
  /\ skip
  /\ pc' = "next"
  /\ UNCHANGED <<given, rest, seen, out>>

-------------------------------------------------------------------------------
Ended == pc \in {"done", "failed"}

Step ==
  \/ open \/ next_category \/ next
  \/ \E need \in NAME..VERSIONS : match_read(need)
  \/ coreq_release \/ coreq_rest \/ coreq_skip
  \/ diff_release
  \/ cache_name \/ cache_read \/ cache_skip
  \/ finish

Next ==
  \/ Step
  \/ Ended /\ UNCHANGED vars

Spec == Init /\ [][Next]_vars

-------------------------------------------------------------------------------
(* Properties *)

(* All packages of the tree in the order of the file, with their category. *)
Written == FlattenSeq([c \in DOMAIN tree |->
             [p \in DOMAIN tree[c].packages |->
                With(tree[c].packages[p], [category |-> tree[c].name])]])

(* A field of a version that was written and is wanted, or is never optional. *)
Kept(field) ==
  LET use == options[2] IN
  CASE field = "required_use" -> use.required_use
    [] field = "src_uri" -> use.src_uri
    [] field = "dependencies" -> FALSE
    [] OTHER -> TRUE

SameVersion(r, w) == \A f \in DOMAIN r : Kept(f) => r[f] = w[f]

SamePackage(r, w) ==
  \A f \in DOMAIN r :
    IF f = "versions"
      THEN /\ Len(r.versions) = Len(w.versions)
           /\ \A i \in DOMAIN r.versions : SameVersion(r.versions[i], w.versions[i])
      ELSE r[f] = w[f]

(* Whatever the reader holds of the package it is at, after any sequence of
   partial reads, skips and releases, and with any two sets of options, is
   what was written of that package, even if the file is cut off later. *)
ReadsWhatWasWritten ==
  pc = "package" => SamePackage(pkg, Written[seen])

(* The packages a program works with are complete, are those that were
   written, and are in their order. *)
KeepsWholePackages ==
  pc = "done" =>
    \E at \in [DOMAIN out -> 1..seen] :
      /\ \A i, j \in DOMAIN out : i < j => at[i] < at[j]
      /\ \A i \in DOMAIN out :
           out[i] # NULLPTR /\ "versions" \in DOMAIN out[i] /\ SamePackage(out[i], Written[at[i]])

(* An error is noticed exactly if there is one: a file that is not cut off is
   read without an error, and a program that ends without an error, and not
   because it has seen enough, has seen every package. No cut hides a package
   from it. *)
NoPackageHidden ==
  /\ pc = "end" /\ ~ error => seen = Len(Written)
  /\ whole => ~ error /\ pc # "failed"

================================================================================
