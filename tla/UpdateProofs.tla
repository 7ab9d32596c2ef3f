------------------------------- MODULE UpdateProofs -------------------------------
(***************************************************************************)
(* Theorems about Update, for any cache table, cachefiles and directories. *)
(*                                                                         *)
(* The first part, on the order of versions and insertion into the sorted  *)
(* list, concerns the definitions of ExtendedVersion alone;                *)
(* PackageVersionsProofs begins with it too.                               *)
(***************************************************************************)
EXTENDS Update, WellFoundedInduction, TLAPS

-------------------------------------------------------------------------------
(* Least elements *)

Smaller == {p \in Nat \X Nat : p[1] < p[2]}

(* The order of the natural numbers has no infinite descent. *)
LEMMA SmallerIsWellFounded == IsWellFoundedOn(Smaller, Nat)
BY NatLessThanWellFounded DEF OpToRel, Smaller

(* The index that Place takes exists: a set of natural numbers that is not
   empty has a minimum. *)
LEMMA LeastNatural ==
  ASSUME NEW T, T \subseteq Nat, T # {}
  PROVE  \E m \in T : \A n \in T : m <= n
<1>1. PICK m \in T : \A n \in Nat : <<n, m>> \in Smaller => n \notin T
  BY SmallerIsWellFounded, WFMin
<1>2. \A n \in T : ~(n < m)
  BY <1>1 DEF Smaller
<1>3. QED
  BY <1>2

(* Min is that minimum. *)
LEMMA MinIsLeast ==
  ASSUME NEW T, T \subseteq Nat, T # {}
  PROVE  Min(T) \in T /\ \A n \in T : Min(T) <= n
<1>1. \E m \in T : \A n \in T : m <= n
  BY LeastNatural
<1>2. QED
  BY <1>1 DEF Min

-------------------------------------------------------------------------------
(* The order of versions *)

(* A set of versions, whatever else is known of them. *)
AreVersions(S) == \A v \in S : v.ver \in Int /\ v.key \in Keys

(* The order of two versions with numbers v and w, priorities p and q, and keys
   k and l is lexicographic. *)
Lexicographic(v, p, k, w, q, l) == v < w \/ (v = w /\ (p < q \/ (p = q /\ k < l)))

(* Less compares the BasicVersion, then the priority of the overlay, then its key. *)
LEMMA LessIsLexicographic ==
  ASSUME NEW S, AreVersions(S), NEW v \in S, NEW w \in S
  PROVE  /\ v.ver \in Int /\ w.ver \in Int /\ v.key \in Nat /\ w.key \in Nat
         /\ priority[v.key] \in Int /\ priority[w.key] \in Int
         /\ Less(v, w) <=> Lexicographic(v.ver, priority[v.key], v.key, w.ver, priority[w.key], w.key)
<1>1. v.key \in Keys /\ w.key \in Keys /\ v.ver \in Int /\ w.ver \in Int /\ v.key \in Nat /\ w.key \in Nat
  BY ExtendedVersionAssumption DEF AreVersions
<1>2. priority[v.key] \in Int /\ priority[w.key] \in Int
  BY <1>1, ExtendedVersionAssumption
<1>3. v.key = w.key => priority[v.key] = priority[w.key]
  OBVIOUS
<1>4. QED
  BY <1>1, <1>2, <1>3 DEF Less, Lexicographic

(* No version is smaller than itself. *)
LEMMA LessIrreflexive ==
  ASSUME NEW S, AreVersions(S), NEW v \in S
  PROVE  ~ Less(v, v)
<1>1. v.ver \in Int
  BY DEF AreVersions
<1>2. QED
  BY <1>1 DEF Less

(* The order of versions is transitive. *)
LEMMA LessTransitive ==
  ASSUME NEW S, AreVersions(S), NEW u \in S, NEW v \in S, NEW w \in S, Less(u, v), Less(v, w)
  PROVE  Less(u, w)
<1>1. /\ u.ver \in Int /\ v.ver \in Int /\ w.ver \in Int
      /\ u.key \in Nat /\ v.key \in Nat /\ w.key \in Nat
      /\ priority[u.key] \in Int /\ priority[v.key] \in Int /\ priority[w.key] \in Int
  BY LessIsLexicographic
<1>2. /\ Lexicographic(u.ver, priority[u.key], u.key, v.ver, priority[v.key], v.key)
      /\ Lexicographic(v.ver, priority[v.key], v.key, w.ver, priority[w.key], w.key)
  BY LessIsLexicographic
<1>3. Lexicographic(u.ver, priority[u.key], u.key, w.ver, priority[w.key], w.key)
  BY <1>1, <1>2 DEF Lexicographic
<1>4. QED
  BY <1>3, LessIsLexicographic

(* Versions that are neither smaller nor larger have the same BasicVersion and
   the same key. *)
LEMMA LessIsTotal ==
  ASSUME NEW S, AreVersions(S), NEW v \in S, NEW w \in S, ~ Less(v, w), ~ Less(w, v)
  PROVE  v.ver = w.ver /\ v.key = w.key
<1>1. /\ v.ver \in Int /\ w.ver \in Int /\ v.key \in Nat /\ w.key \in Nat
      /\ priority[v.key] \in Int /\ priority[w.key] \in Int
  BY LessIsLexicographic
<1>2. /\ ~ Lexicographic(v.ver, priority[v.key], v.key, w.ver, priority[w.key], w.key)
      /\ ~ Lexicographic(w.ver, priority[w.key], w.key, v.ver, priority[v.key], v.key)
  BY LessIsLexicographic
<1>3. QED
  BY <1>1, <1>2 DEF Lexicographic

-------------------------------------------------------------------------------
(* Insertion into the list *)

(* The place of each element of s in the list with one more at p. *)
Moved(i, p) == IF i < p THEN i ELSE i + 1

(* The elements of a concatenation. *)
LEMMA ConcatElements ==
  ASSUME NEW S, NEW a \in Seq(S), NEW b \in Seq(S)
  PROVE  /\ a \o b \in Seq(S) /\ Len(a) \in Nat /\ Len(b) \in Nat /\ Len(a \o b) = Len(a) + Len(b)
         /\ \A i \in 1..(Len(a) + Len(b)) : (a \o b)[i] = IF i <= Len(a) THEN a[i] ELSE b[i - Len(a)]
OBVIOUS

(* The list with one version more has that version at its place and all others in their order. *)
LEMMA InsertAtIs ==
  ASSUME NEW S, NEW s \in Seq(S), NEW v \in S, NEW p \in 1..Len(s) + 1
  PROVE  /\ InsertAt(s, p, v) \in Seq(S)
         /\ Len(InsertAt(s, p, v)) = Len(s) + 1
         /\ InsertAt(s, p, v)[p] = v
         /\ \A i \in 1..Len(s) : InsertAt(s, p, v)[Moved(i, p)] = s[i]
         /\ \A i \in 1..Len(s) : Moved(i, p) \in 1..Len(s) + 1 \ {p}
         /\ \A j \in 1..Len(s) + 1 : j = p \/ \E i \in 1..Len(s) : j = Moved(i, p)
<1> DEFINE front == SubSeq(s, 1, p - 1)
           back == SubSeq(s, p, Len(s))
<1>1. front \in Seq(S) /\ Len(front) = p - 1 /\ \A i \in 1..p - 1 : front[i] = s[i]
  OBVIOUS
<1>2. /\ back \in Seq(S) /\ Len(back) = Len(s) + 1 - p
      /\ \A i \in 1..Len(s) + 1 - p : back[i] = s[p + i - 1]
  OBVIOUS
<1> DEFINE head == front \o <<v>>
<1>3. /\ head \in Seq(S) /\ Len(head) = p
      /\ head[p] = v /\ \A i \in 1..p - 1 : head[i] = s[i]
  BY <1>1
<1> HIDE DEF front, back, head
<1> DEFINE whole == head \o back
<1>4. /\ whole \in Seq(S) /\ Len(whole) = Len(head) + Len(back)
      /\ \A i \in 1..Len(head) + Len(back) :
           whole[i] = IF i <= Len(head) THEN head[i] ELSE back[i - Len(head)]
  BY ONLY <1>2, <1>3, ConcatElements
<1>5. Len(whole) = Len(s) + 1 /\ whole[p] = v
  <2>1. Len(whole) = Len(s) + 1
    <3>1. Len(s) \in Nat /\ p \in Int
      OBVIOUS
    <3>2. Len(whole) = p + (Len(s) + 1 - p)
      BY <1>2, <1>3, <1>4
    <3>3. QED
      BY ONLY <3>1, <3>2
  <2>2. p \in 1..Len(head) + Len(back) /\ p <= Len(head)
    BY <1>2, <1>3
  <2>3. whole[p] = head[p]
    BY <1>4, <2>2
  <2>4. QED
    BY <1>3, <2>1, <2>3
<1>6. ASSUME NEW i \in 1..Len(s), i < p PROVE whole[i] = s[i]
  BY <1>2, <1>3, <1>4, <1>6
<1>7. ASSUME NEW i \in 1..Len(s), ~(i < p) PROVE whole[i + 1] = s[i]
  <2>1. i + 1 - p \in 1..Len(s) + 1 - p /\ ~(i + 1 <= Len(head)) /\ i + 1 \in 1..Len(head) + Len(back)
    BY <1>2, <1>3, <1>7
  <2>2. whole[i + 1] = back[i + 1 - p]
    BY <1>3, <1>4, <2>1
  <2>3. back[i + 1 - p] = s[p + (i + 1 - p) - 1]
    BY <1>2, <2>1
  <2>4. QED
    BY <2>2, <2>3
<1>8. InsertAt(s, p, v) = whole
  BY DEF InsertAt, head, front, back
<1>9. /\ \A i \in 1..Len(s) : Moved(i, p) \in 1..Len(s) + 1 \ {p}
      /\ \A j \in 1..Len(s) + 1 : j = p \/ \E i \in 1..Len(s) : j = Moved(i, p)
  <2>1. ASSUME NEW j \in 1..Len(s) + 1, j # p PROVE \E i \in 1..Len(s) : j = Moved(i, p)
    <3>1. CASE j < p
      BY <3>1 DEF Moved
    <3>2. CASE p < j
      <4>1. j - 1 \in 1..Len(s) /\ j = Moved(j - 1, p)
        BY <3>2 DEF Moved
      <4>2. QED
        BY <4>1
    <3>3. QED
      BY <2>1, <3>1, <3>2
  <2>2. QED
    BY <2>1 DEF Moved
<1>10. QED
  BY <1>4, <1>5, <1>6, <1>7, <1>8, <1>9 DEF Moved

-------------------------------------------------------------------------------
(* The place of a version *)

Sorted(s) == \A i, j \in DOMAIN s : i < j => ~ Less(s[j], s[i])

LEMMA PlaceIs ==
  ASSUME NEW S, AreVersions(S), NEW s \in Seq(S), NEW v \in S
  PROVE  /\ Place(s, v) \in 1..Len(s) + 1
         /\ \A i \in 1..Len(s) : i < Place(s, v) => ~ Less(v, s[i])
         /\ Place(s, v) <= Len(s) => Less(v, s[Place(s, v)])
<1> DEFINE larger == {i \in DOMAIN s : Less(v, s[i])}
<1>1. CASE larger = {}
  BY <1>1 DEF Place
<1>2. CASE larger # {}
  <2>1. larger \subseteq Nat
    OBVIOUS
  <2>2. Min(larger) \in larger /\ \A i \in larger : Min(larger) <= i
    BY <1>2, <2>1, MinIsLeast
  <2>3. Place(s, v) = Min(larger)
    BY <1>2 DEF Place
  <2>4. /\ Place(s, v) \in 1..Len(s) /\ Less(v, s[Place(s, v)])
        /\ \A i \in 1..Len(s) : Less(v, s[i]) => Place(s, v) <= i
    BY <2>2, <2>3
  <2>5. QED
    BY <2>4
<1>3. QED
  BY <1>1, <1>2

LEMMA InsertedIsSorted ==
  ASSUME NEW S, AreVersions(S), NEW s \in Seq(S), Sorted(s), NEW v \in S
  PROVE  Sorted(Inserted(s, v))
<1> DEFINE p == Place(s, v)
           t == InsertAt(s, p, v)
<1>1. /\ p \in 1..Len(s) + 1
      /\ \A i \in 1..Len(s) : i < p => ~ Less(v, s[i])
      /\ p <= Len(s) => Less(v, s[p])
  BY PlaceIs
<1> HIDE DEF p
<1>2. /\ t \in Seq(S) /\ Len(t) = Len(s) + 1 /\ t[p] = v
      /\ \A i \in 1..Len(s) : t[Moved(i, p)] = s[i]
      /\ \A j \in 1..Len(s) + 1 : j = p \/ \E i \in 1..Len(s) : j = Moved(i, p)
  BY <1>1, InsertAtIs
<1> HIDE DEF t
<1>3. ASSUME NEW i \in 1..Len(s), p <= i PROVE ~ Less(s[i], v)
  <2>1. p \in 1..Len(s) /\ s[i] \in S /\ s[p] \in S /\ Less(v, s[p])
    BY <1>1, <1>3
  <2>2. ~ Less(s[p], s[p])
    BY <2>1, LessIrreflexive
  <2>3. ~ Less(s[i], s[p])
    BY <1>3, <2>1, <2>2 DEF Sorted
  <2>4. QED
    BY <2>1, <2>3, LessTransitive
<1>4. SUFFICES ASSUME NEW a \in 1..Len(s) + 1, NEW b \in 1..Len(s) + 1, a < b PROVE ~ Less(t[b], t[a])
  BY <1>2 DEF Sorted, Inserted, t, p
<1>5. CASE a = p
  <2>1. PICK i \in 1..Len(s) : b = Moved(i, p)
    BY <1>2, <1>4, <1>5
  <2>2. p <= i
    BY <1>1, <1>4, <1>5, <2>1 DEF Moved
  <2>3. t[b] = s[i] /\ t[a] = v
    BY <1>2, <1>5, <2>1
  <2>4. QED
    BY <1>3, <2>2, <2>3
<1>6. CASE b = p
  <2>1. PICK i \in 1..Len(s) : a = Moved(i, p)
    BY <1>2, <1>4, <1>6, SMTT(30), ZenonT(30)
  <2>2. i < p
    BY <1>1, <1>4, <1>6, <2>1 DEF Moved
  <2>3. t[a] = s[i] /\ t[b] = v
    BY <1>2, <1>6, <2>1
  <2>4. QED
    BY <1>1, <2>2, <2>3
<1>7. CASE a # p /\ b # p
  <2>1. PICK i \in 1..Len(s), j \in 1..Len(s) : a = Moved(i, p) /\ b = Moved(j, p)
    BY <1>2, <1>7
  <2>2. i < j
    BY <1>1, <1>4, <2>1 DEF Moved
  <2>3. QED
    BY <1>2, <2>1, <2>2 DEF Sorted
<1>8. QED
  BY <1>5, <1>6, <1>7

-------------------------------------------------------------------------------
(* The invariant *)

CoreqLoop == {"coreq", "read", "get_package", "version"}
Directory == {"package", "file"}

AddedVersions == [ver : Int, key : Keys, from : Nat \X Nat \X Nat]

Types ==
  /\ setup \in Setups
  /\ key \in [DOMAIN table -> Keys]
  /\ overlays \in Nat /\ (pc = "initialize" => overlays < it)
  /\ excluded \subseteq DOMAIN table
  /\ slavemode \subseteq all_coreqcaches /\ err_msg \subseteq all_coreqcaches
  /\ Enabled \subseteq DOMAIN tree /\ DOMAIN tree \subseteq Nat
  /\ it \in 1..Len(table) + 1
  /\ at \in Nat /\ file \in Nat /\ todo \subseteq DOMAIN tree
  /\ have_onetime_info \in BOOLEAN
  /\ pc \in {"initialize", "cache"} \cup CoreqLoop \cup Directory

(* Where the loops are. *)
Control ==
  /\ pc = "initialize" => slavemode = {} /\ tree = [c \in Enabled |-> << >>]
  /\ pc \in CoreqLoop \cup Directory => it \in DOMAIN table \ excluded
  /\ pc \in CoreqLoop =>
       /\ it \in all_coreqcaches \ slavemode
       /\ slaves \ {it} \subseteq slavemode
       /\ \A i \in slaves \ excluded : it <= i
       /\ \A i \in slaves \ err_msg : get_overlaydat(i)
       /\ at <= Len(source)
  /\ pc \in CoreqLoop \ {"coreq"} =>
       /\ at \in DOMAIN source
       /\ package.category \in DOMAIN tree
       /\ dest_cat \subseteq slaves \ err_msg /\ dest_cat # {}
       /\ package.category \in Enabled => dest_cat = slaves \ err_msg \/ pc # "read"
  /\ pc = "version" => file <= Len(package.versions)
  /\ pc \in Directory => it \notin all_coreqcaches
  /\ pc = "file" =>
       /\ at \in DOMAIN source /\ package.category = category /\ todo # {}
       /\ file <= Len(package.files)

(* The cache m had its turn, or it reads a cachefile now. *)
Begun(m) == pc # "initialize" /\ (m < it \/ (m = it /\ pc \in CoreqLoop))

masters == all_coreqcaches \ (excluded \cup slavemode)

SameFile(i, j) == table[i].file = table[j].file

(* A cachefile has one master, and all others that use it are its slaves. *)
Masters ==
  /\ \A m \in masters, i \in all_coreqcaches :
       Begun(m) /\ SameFile(m, i) /\ i # m => i \in slavemode
  /\ \A i \in slavemode : \E m \in masters : Begun(m) /\ SameFile(m, i)

(* Errors of those that had their turn are reported. *)
Errors == \A i \in err_msg \ excluded : Begun(i) => i \in reported

(* Which versions were read: all those of a source that is finished, and those
   that come first in the source that is read now. *)
Finished(i) ==
  IF i \in all_coreqcaches THEN \E m \in masters : SameFile(m, i) /\ m < it
  ELSE i \notin excluded /\ i < it

FromCachefile(i, k, j) ==
  /\ pc \in CoreqLoop /\ i \in slaves
  /\ \/ k < at
     \/ k = at /\ \/ pc = "coreq"
                  \/ pc \in {"get_package", "version"} /\ i \notin dest_cat
                  \/ pc = "version" /\ i = slave /\ j <= file

FromDirectory(i, k, j) ==
  /\ pc \in Directory /\ i = it
  /\ \/ Source(i)[k].category \notin todo
     \/ /\ Source(i)[k].category = category
        /\ k < at \/ (k = at /\ (pc = "package" \/ j <= file))

Read(i, k, j) ==
  /\ pc # "initialize"
  /\ \/ Finished(i)
     \/ i \in all_coreqcaches /\ FromCachefile(i, k, j)
     \/ i \notin all_coreqcaches /\ FromDirectory(i, k, j)

(* Every version of a package is another one that was read and asked for. *)
Genuine(c, n, p) ==
  /\ p.versions \in Seq(AddedVersions)
  /\ \A a, b \in DOMAIN p.versions : a # b => p.versions[a].from # p.versions[b].from
  /\ \A a \in DOMAIN p.versions :
       LET f == p.versions[a].from IN
       ComesFrom(c, n, p.versions[a], f[1], f[2], f[3]) /\ Read(f[1], f[2], f[3])

Described(c, n, p) ==
  /\ Sorted(p.versions)
  /\ p.versions # <<>> /\ <<c, n>> \notin executed => p.desc = Info(Last(p.versions))

InProgress == pc \in {"version", "file"}

Packages ==
  /\ \A c \in DOMAIN tree : \A n \in DOMAIN tree[c] :
       Genuine(c, n, tree[c][n]) /\ Described(c, n, tree[c][n])
  /\ InProgress => Genuine(package.category, package.name, pkg)
                   /\ Described(package.category, package.name, pkg)

(* A package that will be thrown away has nothing that could be lost. *)
Flag ==
  /\ pc = "version" => have_onetime_info \/ pkg = findPackage(package.category, package.name)
  /\ pc = "file" /\ ~ have_onetime_info =>
       /\ ~ Known(package.category, package.name)
       /\ \A a \in DOMAIN pkg.versions : pkg.versions[a].from[1] = it
       /\ cache.method = "parse" /\ pkg.versions # <<>> =>
            ~ cache.try_parse /\ <<package.category, package.name>> \in executed

(* The package as it is now. *)
Current(c, n) ==
  IF InProgress /\ c = package.category /\ n = package.name THEN pkg ELSE findPackage(c, n)

(* What cache i is responsible for, unless an error was printed. *)
Owed(i, k, j) ==
  /\ Wanted(i, k, j)
  /\ Source(i)[k].category \in Enabled
  /\ table[i].method = "parse" => table[i].try_parse

Excused == excluded \cup reported \cup err_msg

Has(p, i, k, j) == \E a \in DOMAIN p.versions : p.versions[a].from = <<i, k, j>>

Complete ==
  \A i \in Caches \ Excused : \A k \in DOMAIN Source(i) : \A j \in DOMAIN Contents(i, k) :
    Owed(i, k, j) /\ Read(i, k, j) =>
      Has(Current(Source(i)[k].category, Source(i)[k].name), i, k, j)

IInv == Types /\ Control /\ Masters /\ Errors /\ Packages /\ Flag /\ Complete
-------------------------------------------------------------------------------
(* Sources *)

LEMMA SourceTypes ==
  ASSUME setup \in Setups, NEW i \in Caches
  PROVE  /\ Caches = 1..Len(table) /\ Len(table) \in Nat
         /\ DOMAIN Source(i) = 1..Len(Source(i)) /\ Len(Source(i)) \in Nat
         /\ \A k \in DOMAIN Source(i) :
              /\ Source(i)[k].category \in Nat
              /\ DOMAIN Contents(i, k) = 1..Len(Contents(i, k)) /\ Len(Contents(i, k)) \in Nat
              /\ \A j \in DOMAIN Contents(i, k) : VerOf(i, k, j) \in Int
<1>1. IsSequence(table) /\ IsCache(table[i])
  BY UpdateAssumption DEF Caches, table
<1>2. CASE table[i].method = "coreq"
  <2>1. table[i].file \in DOMAIN Cachefiles
    BY <1>1, <1>2 DEF IsCache
  <2>2. Source(i) = Cachefiles[table[i].file].packages
    BY <1>2 DEF Source
  <2>3. \A k : Contents(i, k) = Source(i)[k].versions
    BY <1>2 DEF Contents
  <2>4. \A k, j : VerOf(i, k, j) = Contents(i, k)[j].ver
    BY <1>2 DEF VerOf
  <2>5. /\ IsSequence(Source(i))
        /\ \A k \in DOMAIN Source(i) :
             /\ Source(i)[k].category \in Nat /\ IsSequence(Source(i)[k].versions)
             /\ \A j \in DOMAIN Source(i)[k].versions : Source(i)[k].versions[j].ver \in Int
    BY <2>1, <2>2, UpdateAssumption
  <2>6. \A k \in DOMAIN Source(i) :
          /\ Source(i)[k].category \in Nat /\ IsSequence(Contents(i, k))
          /\ \A j \in DOMAIN Contents(i, k) : VerOf(i, k, j) \in Int
    BY <2>3, <2>4, <2>5
  <2>7. QED
    BY <1>1, <2>5, <2>6 DEF IsSequence, Caches
<1>3. CASE table[i].method # "coreq"
  <2>1. table[i].label \in DOMAIN Directories
    BY <1>1, <1>3 DEF IsCache
  <2>2. Source(i) = Directories[table[i].label]
    BY <1>3 DEF Source
  <2>3. \A k : Contents(i, k) = Source(i)[k].files
    BY <1>3 DEF Contents
  <2>4. \A k, j : VerOf(i, k, j) = Contents(i, k)[j]
    BY <1>3 DEF VerOf
  <2>5. /\ IsSequence(Source(i))
        /\ \A k \in DOMAIN Source(i) :
             /\ Source(i)[k].category \in Nat /\ IsSequence(Source(i)[k].files)
             /\ \A j \in DOMAIN Source(i)[k].files : Source(i)[k].files[j] \in Int
    BY <2>1, <2>2, UpdateAssumption
  <2>6. \A k \in DOMAIN Source(i) :
          /\ Source(i)[k].category \in Nat /\ IsSequence(Contents(i, k))
          /\ \A j \in DOMAIN Contents(i, k) : VerOf(i, k, j) \in Int
    BY <2>3, <2>4, <2>5
  <2>7. QED
    BY <1>1, <2>5, <2>6 DEF IsSequence, Caches
<1>4. QED
  BY <1>2, <1>3

(* Nothing that was read is forgotten, ... *)
Grows ==
  \A i \in Caches : \A k \in DOMAIN Source(i) : \A j \in DOMAIN Contents(i, k) :
    Read(i, k, j) => Read(i, k, j)'

(* ... and what is read anew and matters is only what has the history f. *)
Reads(f) ==
  \A i \in Caches : \A k \in DOMAIN Source(i) : \A j \in DOMAIN Contents(i, k) :
    Owed(i, k, j) /\ Read(i, k, j)' /\ i \notin Excused' =>
      (Read(i, k, j) /\ i \notin Excused) \/ <<i, k, j>> = f

(* No history. *)
Nothing == <<>>

LEMMA SameSources ==
  ASSUME setup' = setup
  PROVE  /\ table' = table /\ Caches' = Caches /\ all_coreqcaches' = all_coreqcaches
         /\ \A i : Source(i)' = Source(i)
         /\ \A i, k : Contents(i, k)' = Contents(i, k)
         /\ \A i, k, j : Wanted(i, k, j)' <=> Wanted(i, k, j)
         /\ \A i, k, j : Owed(i, k, j)' <=> Owed(i, k, j)
         /\ \A c, n, v, i, k, j : ComesFrom(c, n, v, i, k, j)' <=> ComesFrom(c, n, v, i, k, j)
<1>1. table' = table /\ Caches' = Caches /\ all_coreqcaches' = all_coreqcaches
  BY DEF table, Caches, all_coreqcaches
<1>2. \A i : Source(i)' = Source(i)
  BY <1>1 DEF Source
<1>3. \A i, k : Contents(i, k)' = Contents(i, k)
  BY <1>1, <1>2 DEF Contents
<1>4. \A i, k, j : VerOf(i, k, j)' = VerOf(i, k, j)
  BY <1>1, <1>3 DEF VerOf
<1>5. \A i, k, j : Wanted(i, k, j)' <=> Wanted(i, k, j)
  <2>1. \A i, v : AskedFor(i, v)' <=> AskedFor(i, v)
    BY <1>1 DEF AskedFor
  <2>2. \A i, k, j : IsVersion(i, k, j)' <=> IsVersion(i, k, j)
    BY <1>1, <1>2, <1>3 DEF IsVersion
  <2>3. QED
    BY <1>1, <1>3, <2>1, <2>2 DEF Wanted
<1>6. \A i, k, j : Owed(i, k, j)' <=> Owed(i, k, j)
  BY <1>1, <1>2, <1>5 DEF Owed
<1>7. \A c, n, v, i, k, j : ComesFrom(c, n, v, i, k, j)' <=> ComesFrom(c, n, v, i, k, j)
  BY <1>2, <1>4, <1>5 DEF ComesFrom
<1>8. QED
  BY <1>1, <1>2, <1>3, <1>5, <1>6, <1>7

LEMMA GenuineStays ==
  ASSUME setup' = setup, Grows, NEW c, NEW n, NEW p, Genuine(c, n, p)
  PROVE  Genuine(c, n, p)'
<1>1. ASSUME NEW a \in DOMAIN p.versions
      PROVE  LET f == p.versions[a].from IN
             ComesFrom(c, n, p.versions[a], f[1], f[2], f[3])' /\ Read(f[1], f[2], f[3])'
  <2> DEFINE f == p.versions[a].from
  <2>1. ComesFrom(c, n, p.versions[a], f[1], f[2], f[3]) /\ Read(f[1], f[2], f[3])
    BY DEF Genuine
  <2>2. f[1] \in Caches /\ f[2] \in DOMAIN Source(f[1]) /\ f[3] \in DOMAIN Contents(f[1], f[2])
    BY <2>1 DEF ComesFrom, Wanted, IsVersion
  <2>3. QED
    BY <2>1, <2>2, SameSources DEF Grows
<1>2. QED
  BY <1>1 DEF Genuine

LEMMA DescribedStays ==
  ASSUME setup' = setup, executed \subseteq executed', NEW c, NEW n, NEW p, Described(c, n, p)
  PROVE  Described(c, n, p)'
BY DEF Described, Sorted, Less, Info, table, Last

-------------------------------------------------------------------------------
(* The loops *)

Base == Types /\ Control /\ Masters /\ Errors

LEMMA InitializeBase ==
  ASSUME Base, initialize
  PROVE  Base' /\ Grows /\ Reads(Nothing)
<1>1. /\ setup' = setup /\ slavemode' = slavemode /\ err_msg' = err_msg /\ tree' = tree
      /\ at' = at /\ todo' = todo /\ file' = file /\ have_onetime_info' = have_onetime_info
      /\ reported' = reported /\ pc' = pc /\ pc = "initialize" /\ it' = it + 1 /\ it <= Len(table)
  BY DEF initialize, given, coreq, current
<1>2. table' = table /\ all_coreqcaches' = all_coreqcaches /\ Caches' = Caches
  BY <1>1, SameSources
<1>3. Types
  BY DEF Base
<1>4. IsSequence(table) /\ 0..Len(table) - 1 \subseteq Keys
  BY <1>3, UpdateAssumption DEF Types, table
<1>5. it \in DOMAIN table /\ it' \in 1..Len(table) + 1
  BY <1>1, <1>3, <1>4 DEF Types, IsSequence
<1>6. /\ key' \in [DOMAIN table -> Keys] /\ overlays' \in Nat /\ overlays' < it'
      /\ excluded' \subseteq DOMAIN table
  <2>1. overlays \in Keys /\ overlays \in Nat /\ overlays < it
    BY <1>1, <1>3, <1>4, <1>5 DEF Types, IsSequence
  <2>2. CASE cache.label \in setup.exclude
    BY <1>1, <1>3, <1>5, <2>1, <2>2 DEF Types, initialize
  <2>3. CASE cache.label \notin setup.exclude
    BY <1>1, <1>3, <1>5, <2>1, <2>3 DEF Types, initialize
  <2>4. QED
    BY <2>2, <2>3
<1>7. Types'
  BY <1>1, <1>2, <1>3, <1>5, <1>6 DEF Types
<1>8. Control'
  BY <1>1 DEF Base, Control, CoreqLoop, Directory
<1>9. Masters'
  BY <1>1 DEF Base, Control, Masters, Begun
<1>10. Errors'
  BY <1>1 DEF Errors, Begun
<1>11. Grows /\ Reads(Nothing)
  BY <1>1 DEF Grows, Reads, Read
<1>12. QED
  BY <1>7, <1>8, <1>9, <1>10, <1>11 DEF Base

LEMMA InitializedBase ==
  ASSUME Base, initialized
  PROVE  Base' /\ Grows /\ Reads(Nothing)
<1>1. /\ setup' = setup /\ slavemode' = slavemode /\ err_msg' = err_msg /\ tree' = tree
      /\ at' = at /\ todo' = todo /\ file' = file /\ have_onetime_info' = have_onetime_info
      /\ reported' = reported /\ key' = key /\ overlays' = overlays /\ excluded' = excluded
      /\ pc' = "cache" /\ pc = "initialize" /\ it' = 1
  BY DEF initialized, given, coreq, current
<1>2. table' = table /\ all_coreqcaches' = all_coreqcaches /\ Caches' = Caches
  BY <1>1, SameSources
<1>3. Types /\ slavemode = {}
  BY <1>1 DEF Base, Control
<1>4. IsSequence(table)
  BY <1>3, UpdateAssumption DEF Types, table
<1>5. Types'
  BY <1>1, <1>2, <1>3, <1>4 DEF Types, IsSequence
<1>6. Control'
  BY <1>1 DEF Control, CoreqLoop, Directory
<1>7. ASSUME NEW m \in Caches PROVE ~ Begun(m)' /\ ~ (m < it')
  BY <1>1, <1>4 DEF Begun, CoreqLoop, IsSequence, Caches
<1>8. Masters'
  BY <1>1, <1>2, <1>3, <1>7 DEF Masters, masters, all_coreqcaches, Caches
<1>9. Errors'
  BY <1>1, <1>2, <1>3, <1>7 DEF Errors, Types, all_coreqcaches, Caches
<1>10. ASSUME NEW i \in Caches, NEW k, NEW j PROVE ~ Read(i, k, j)'
  BY <1>1, <1>2, <1>7 DEF Read, Finished, FromCachefile, FromDirectory, CoreqLoop, Directory,
    masters, all_coreqcaches, Caches
<1>11. Grows /\ Reads(Nothing)
  BY <1>1, <1>10 DEF Grows, Reads, Read
<1>12. QED
  BY <1>5, <1>6, <1>8, <1>9, <1>11 DEF Base

LEMMA ErasedBase ==
  ASSUME Base, erased
  PROVE  Base' /\ Grows /\ Reads(Nothing)
<1>1. /\ setup' = setup /\ slavemode' = slavemode /\ err_msg' = err_msg /\ tree' = tree
      /\ at' = at /\ todo' = todo /\ file' = file /\ have_onetime_info' = have_onetime_info
      /\ reported' = reported /\ key' = key /\ overlays' = overlays /\ excluded' = excluded
      /\ pc' = "cache" /\ pc = "cache" /\ it' = it + 1 /\ it \in excluded
  BY DEF erased, given, coreq, current, NextCache
<1>2. table' = table /\ all_coreqcaches' = all_coreqcaches /\ Caches' = Caches
  BY <1>1, SameSources
<1>3. Types
  BY DEF Base
<1>4. IsSequence(table)
  BY <1>3, UpdateAssumption DEF Types, table
<1>5. Types'
  BY <1>1, <1>2, <1>3, <1>4 DEF Types, IsSequence
<1>6. Control'
  BY <1>1 DEF Control, CoreqLoop, Directory
<1>7. ASSUME NEW m \in Caches \ excluded
      PROVE  /\ Begun(m)' <=> Begun(m)
             /\ m < it' <=> m < it
  BY <1>1, <1>3, <1>4, <1>7 DEF Begun, CoreqLoop, IsSequence, Caches, Types
<1>8. masters' = masters /\ masters \subseteq Caches \ excluded
  BY <1>1, <1>2 DEF masters, all_coreqcaches, Caches
<1>9. Masters'
  BY <1>1, <1>2, <1>7, <1>8 DEF Base, Masters, SameFile
<1>10. Errors'
  BY <1>1, <1>3, <1>7 DEF Base, Errors, Types, all_coreqcaches, Caches
<1>11. ASSUME NEW i \in Caches, NEW k, NEW j PROVE Read(i, k, j)' <=> Read(i, k, j)
  <2>1. Finished(i)' <=> Finished(i)
    BY <1>1, <1>2, <1>7, <1>8 DEF Finished, SameFile
  <2>2. QED
    BY <1>1, <2>1 DEF Read, FromCachefile, FromDirectory, CoreqLoop, Directory
<1>12. Grows /\ Reads(Nothing)
  BY <1>1, <1>11 DEF Grows, Reads, Excused
<1>13. QED
  BY <1>5, <1>6, <1>9, <1>10, <1>12 DEF Base

LEMMA SlaveBase ==
  ASSUME Base, coreq_slave
  PROVE  Base' /\ Grows /\ Reads(Nothing)
<1>1. /\ setup' = setup /\ slavemode' = slavemode /\ err_msg' = err_msg /\ tree' = tree
      /\ at' = at /\ todo' = todo /\ file' = file /\ have_onetime_info' = have_onetime_info
      /\ key' = key /\ overlays' = overlays /\ excluded' = excluded
      /\ pc' = "cache" /\ pc = "cache" /\ it' = it + 1 /\ it <= Len(table)
      /\ it \in all_coreqcaches /\ it \in slavemode
      /\ reported \subseteq reported' /\ (it \in err_msg => it \in reported')
  BY DEF coreq_slave, given, coreq, current, NextCache, Turn
<1>2. table' = table /\ all_coreqcaches' = all_coreqcaches /\ Caches' = Caches
  BY <1>1, SameSources
<1>3. Types
  BY DEF Base
<1>4. IsSequence(table)
  BY <1>3, UpdateAssumption DEF Types, table
<1>5. Types'
  BY <1>1, <1>2, <1>3, <1>4 DEF Types, IsSequence
<1>6. Control'
  BY <1>1 DEF Control, CoreqLoop, Directory
<1>7. ASSUME NEW m \in Caches, m # it
      PROVE  /\ Begun(m)' <=> Begun(m)
             /\ m < it' <=> m < it
  BY <1>1, <1>3, <1>4, <1>7 DEF Begun, CoreqLoop, IsSequence, Caches, Types
<1>8. masters' = masters /\ masters \subseteq Caches \ {it}
  BY <1>1, <1>2 DEF masters, all_coreqcaches, Caches
<1>9. Masters'
  BY <1>1, <1>2, <1>7, <1>8 DEF Base, Masters, SameFile
<1>10. Errors'
  BY <1>1, <1>3, <1>7 DEF Base, Errors, Types, all_coreqcaches, Caches
<1>11. ASSUME NEW i \in Caches, NEW k, NEW j PROVE Read(i, k, j)' <=> Read(i, k, j)
  <2>1. Finished(i)' <=> Finished(i)
    BY <1>1, <1>2, <1>7, <1>8 DEF Finished, SameFile
  <2>2. QED
    BY <1>1, <2>1 DEF Read, FromCachefile, FromDirectory, CoreqLoop, Directory
<1>12. Grows /\ Reads(Nothing)
  BY <1>1, <1>11 DEF Grows, Reads, Excused
<1>13. QED
  BY <1>5, <1>6, <1>9, <1>10, <1>12 DEF Base

(* Who takes its turn as a master is the first one of its cachefile. *)
LEMMA FirstMaster ==
  ASSUME Base, Turn, it \in all_coreqcaches, it \notin slavemode
  PROVE  /\ \A m \in masters : m < it => ~ SameFile(m, it)
         /\ \A i \in slaves \ excluded : it <= i
         /\ it \in slaves /\ it \in masters
         /\ \A m \in slavemode : ~ SameFile(m, it)
<1>1. Types /\ Masters /\ pc = "cache"
  BY DEF Base, Turn
<1>2. IsSequence(table)
  BY <1>1, UpdateAssumption DEF Types, table
<1>3. all_coreqcaches \subseteq Int /\ it \in Int
  BY <1>1, <1>2 DEF all_coreqcaches, IsSequence, Types
<1>4. it \in slaves /\ it \in masters
  BY DEF slaves, cache, masters, Turn
<1>5. ASSUME NEW m \in masters, m < it PROVE ~ SameFile(m, it)
  BY <1>1, <1>3, <1>5 DEF Masters, Begun, SameFile
<1>6. ASSUME NEW i \in slavemode PROVE ~ SameFile(i, it)
  <2>1. PICK m \in masters : Begun(m) /\ SameFile(m, i)
    BY <1>1 DEF Masters
  <2>2. m < it
    BY <1>1, <2>1 DEF Begun, CoreqLoop
  <2>3. QED
    BY <1>5, <2>1, <2>2 DEF SameFile
<1>7. ASSUME NEW i \in slaves \ excluded PROVE it <= i
  <2>1. i \in all_coreqcaches /\ SameFile(i, it)
    BY DEF slaves, SameFile, cache
  <2>2. i \in masters
    BY <1>6, <2>1 DEF masters
  <2>3. QED
    BY <1>3, <1>5, <2>1, <2>2
<1>8. QED
  BY <1>4, <1>5, <1>6, <1>7

(* The others become its slaves, and its turn ends. *)
LEMMA MasterEnds ==
  ASSUME Base, Turn, it \in all_coreqcaches, it \notin slavemode, set_slaves, NextCache,
         UNCHANGED <<setup, key, overlays, excluded, tree, todo, file, have_onetime_info>>,
         err_msg' = err_msg \cup slaves, it \in reported', reported \subseteq reported', at' \in Nat
  PROVE  Base' /\ Grows /\ Reads(Nothing)
<1>1. /\ setup' = setup /\ slavemode' = slavemode \cup (slaves \ {it}) /\ tree' = tree
      /\ todo' = todo /\ file' = file /\ have_onetime_info' = have_onetime_info
      /\ key' = key /\ overlays' = overlays /\ excluded' = excluded
      /\ pc' = "cache" /\ pc = "cache" /\ it' = it + 1 /\ it <= Len(table)
      /\ it \notin excluded
  BY DEF set_slaves, NextCache, Turn
<1>2. table' = table /\ all_coreqcaches' = all_coreqcaches /\ Caches' = Caches
  BY <1>1, SameSources
<1>3. Types /\ slaves \subseteq all_coreqcaches
  BY DEF Base, slaves
<1>4. IsSequence(table) /\ all_coreqcaches \subseteq Caches
  BY <1>3, UpdateAssumption DEF Types, table, all_coreqcaches, Caches
<1>5. Types'
  BY <1>1, <1>2, <1>3, <1>4 DEF Types, IsSequence
<1>6. Control'
  BY <1>1 DEF Control, CoreqLoop, Directory
<1>7. ASSUME NEW m \in Caches
      PROVE  /\ Begun(m)' <=> Begun(m) \/ m = it
             /\ m < it' <=> m < it \/ m = it
  BY <1>1, <1>3, <1>4 DEF Begun, CoreqLoop, IsSequence, Caches, Types
<1>8. /\ \A m \in masters : m < it => ~ SameFile(m, it)
      /\ \A i \in slaves \ excluded : it <= i
      /\ it \in slaves /\ it \in masters
  BY FirstMaster
<1>9. masters' = masters \ (slaves \ {it}) /\ it \in masters' /\ masters \subseteq Caches
  BY <1>1, <1>2, <1>4, <1>8 DEF masters
<1>10. \A i, j : SameFile(i, j)' <=> SameFile(i, j)
  BY <1>2 DEF SameFile
<1>11. \A i \in all_coreqcaches : i \in slaves <=> SameFile(it, i)
  BY DEF slaves, cache, SameFile
<1>12. \A m \in masters : Begun(m) <=> m < it
  BY <1>1, <1>3, <1>4, <1>9 DEF Begun, CoreqLoop
<1>13. \A m \in masters : m < it => m \in masters' /\ m # it
  BY <1>3, <1>4, <1>8, <1>9, <1>11 DEF SameFile, masters, Types
<1>14. Masters'
  <2>1. ASSUME NEW m \in masters', NEW i \in all_coreqcaches, Begun(m)', SameFile(m, i), i # m
        PROVE  i \in slavemode'
    BY <1>1, <1>7, <1>9, <1>11, <2>1 DEF Base, Masters
  <2>2. ASSUME NEW i \in slavemode' PROVE \E m \in masters' : Begun(m)' /\ SameFile(m, i)
    BY <1>1, <1>3, <1>7, <1>9, <1>11, <1>12, <1>13, <2>2 DEF Base, Masters
  <2>3. QED
    BY <1>2, <1>10, <2>1, <2>2 DEF Masters
<1>15. Errors'
  <2>1. SUFFICES ASSUME NEW i \in err_msg' \ excluded', Begun(i)' PROVE i \in reported'
    BY DEF Errors
  <2>2. i \in all_coreqcaches /\ i \in Caches /\ (i \in err_msg \/ i \in slaves)
    BY <1>3, <1>4 DEF Types
  <2>3. CASE i = it
    BY <2>3
  <2>4. CASE i # it
    <3>1. Begun(i) /\ i < it
      BY <1>1, <1>7, <2>1, <2>2, <2>4 DEF Begun, CoreqLoop
    <3>2. i \notin slaves
      BY <1>1, <1>3, <1>4, <1>8, <2>2, <3>1 DEF Types, IsSequence, Caches
    <3>3. QED
      BY <1>1, <2>2, <3>1, <3>2 DEF Base, Errors
  <2>5. QED
    BY <2>3, <2>4
<1>16. ASSUME NEW i \in Caches
       PROVE  Finished(i)' <=> Finished(i) \/ i \in slaves
  <2>1. CASE i \in all_coreqcaches
    BY <1>2, <1>7, <1>9, <1>10, <1>11, <1>13, <2>1 DEF Finished
  <2>2. CASE i \notin all_coreqcaches
    BY <1>1, <1>2, <1>3, <1>7, <2>2 DEF Finished
  <2>3. QED
    BY <2>1, <2>2
<1>17. ASSUME NEW i \in Caches, NEW k, NEW j
       PROVE  Read(i, k, j)' <=> Read(i, k, j) \/ i \in slaves
  BY <1>1, <1>16 DEF Read, FromCachefile, FromDirectory, CoreqLoop, Directory
<1>18. Grows /\ Reads(Nothing)
  <2>1. \A i \in Caches : i \notin Excused' => i \notin slaves /\ i \notin Excused
    BY <1>1 DEF Excused
  <2>2. QED
    BY <1>17, <2>1 DEF Grows, Reads
<1>19. QED
  BY <1>5, <1>6, <1>14, <1>15, <1>18 DEF Base

LEMMA OpenFailBase ==
  ASSUME Base, coreq_open_fail
  PROVE  Base' /\ Grows /\ Reads(Nothing)
<1>1. /\ UNCHANGED <<setup, key, overlays, excluded, tree, todo, file, have_onetime_info, at>>
      /\ Turn /\ it \in all_coreqcaches /\ it \notin slavemode /\ set_slaves /\ NextCache
      /\ err_msg' = err_msg \cup slaves /\ it \in reported' /\ reported \subseteq reported'
  BY DEF coreq_open_fail, given, coreq, current
<1>2. at' \in Nat
  BY <1>1 DEF Base, Types
<1>3. QED
  BY <1>1, <1>2, MasterEnds

LEMMA OpenBase ==
  ASSUME Base, coreq_open
  PROVE  Base' /\ Grows /\ Reads(Nothing)
<1> DEFINE failing == {i \in slaves : ~ get_overlaydat(i)}
<1>1. /\ UNCHANGED <<setup, key, overlays, excluded, tree, todo, file, have_onetime_info, dest_cat>>
      /\ Turn /\ it \in all_coreqcaches /\ it \notin slavemode /\ set_slaves
      /\ err_msg' = (err_msg \ slaves) \cup failing
      /\ reported' = reported \cup (failing \cap {it}) /\ at' = 0
  BY DEF coreq_open, given, coreq, current
<1>2. /\ \A m \in masters : m < it => ~ SameFile(m, it)
      /\ \A i \in slaves \ excluded : it <= i
      /\ it \in slaves /\ it \in masters
      /\ \A m \in slavemode : ~ SameFile(m, it)
  BY <1>1, FirstMaster
<1>3. CASE failing = slaves
  <2>1. NextCache
    BY <1>3 DEF coreq_open
  <2>2. err_msg' = err_msg \cup slaves /\ it \in reported' /\ reported \subseteq reported'
    BY <1>1, <1>2, <1>3
  <2>3. QED
    BY <1>1, <2>1, <2>2, MasterEnds
<1>4. CASE failing # slaves
  <2>1. /\ pc' = "coreq" /\ it' = it
    BY <1>4 DEF coreq_open
  <2>2. /\ setup' = setup /\ slavemode' = slavemode \cup (slaves \ {it}) /\ tree' = tree
        /\ todo' = todo /\ file' = file /\ have_onetime_info' = have_onetime_info
        /\ key' = key /\ overlays' = overlays /\ excluded' = excluded
        /\ pc = "cache" /\ it <= Len(table) /\ it \notin excluded
    BY <1>1 DEF set_slaves, Turn
  <2>3. table' = table /\ all_coreqcaches' = all_coreqcaches /\ Caches' = Caches
    BY <2>2, SameSources
  <2>4. Types /\ slaves \subseteq all_coreqcaches /\ failing \subseteq slaves
    BY DEF Base, slaves
  <2>5. IsSequence(table) /\ all_coreqcaches \subseteq Caches
    BY <2>4, UpdateAssumption DEF Types, table, all_coreqcaches, Caches
  <2>6. Types'
    BY <1>1, <2>1, <2>2, <2>3, <2>4, <2>5 DEF Types, CoreqLoop, Directory
  <2>7. slaves' = slaves /\ (\A i : get_overlaydat(i)' <=> get_overlaydat(i)) /\ source' = source
    BY <2>1, <2>2, <2>3 DEF slaves, cache, get_overlaydat, cachefile, source, Source
  <2>8. Control'
    <3>1. it \in DOMAIN table /\ Len(source) \in Nat
      BY <1>1, <2>4, <2>5, SourceTypes DEF Types, Caches, source
    <3>2. slaves \ {it} \subseteq slavemode' /\ it \notin slavemode'
      BY <1>1, <2>2
    <3>3. \A i \in slaves \ err_msg' : get_overlaydat(i)
      BY <1>1
    <3>4. QED
      BY <1>1, <1>2, <2>1, <2>2, <2>3, <2>7, <3>1, <3>2, <3>3 DEF Control, CoreqLoop, Directory
  <2>9. ASSUME NEW m \in Caches
        PROVE  /\ Begun(m)' <=> Begun(m) \/ m = it
               /\ m < it' <=> m < it
    BY <1>1, <2>1, <2>2, <2>4, <2>5 DEF Begun, CoreqLoop, IsSequence, Caches, Types
  <2>10. masters' = masters \ (slaves \ {it}) /\ it \in masters' /\ masters \subseteq Caches
    BY <1>2, <2>2, <2>3, <2>5 DEF masters
  <2>11. \A i, j : SameFile(i, j)' <=> SameFile(i, j)
    BY <2>3 DEF SameFile
  <2>12. \A i \in all_coreqcaches : i \in slaves <=> SameFile(it, i)
    BY DEF slaves, cache, SameFile
  <2>13. \A m \in masters : Begun(m) <=> m < it
    BY <2>2, <2>4, <2>5, <2>10 DEF Begun, CoreqLoop
  <2>14. \A m \in masters : m < it => m \in masters' /\ m # it
    BY <1>2, <2>4, <2>5, <2>10, <2>12 DEF SameFile, masters, Types
  <2>15. Masters'
    <3>1. ASSUME NEW m \in masters', NEW i \in all_coreqcaches, Begun(m)', SameFile(m, i), i # m
          PROVE  i \in slavemode'
      BY <2>2, <2>9, <2>10, <2>12, <3>1 DEF Base, Masters
    <3>2. ASSUME NEW i \in slavemode' PROVE \E m \in masters' : Begun(m)' /\ SameFile(m, i)
      BY <2>2, <2>4, <2>9, <2>10, <2>12, <2>13, <2>14, <3>2 DEF Base, Masters
    <3>3. QED
      BY <2>3, <2>11, <3>1, <3>2 DEF Masters
  <2>16. Errors'
    <3>1. SUFFICES ASSUME NEW i \in err_msg' \ excluded', Begun(i)' PROVE i \in reported'
      BY DEF Errors
    <3>2. i \in all_coreqcaches /\ i \in Caches /\ (i \in err_msg \/ i \in slaves)
      BY <1>1, <2>4, <2>5 DEF Types
    <3>3. CASE i = it
      BY <1>1, <1>2, <3>1, <3>3
    <3>4. CASE i # it
      <4>1. Begun(i) /\ i < it
        BY <2>2, <2>9, <3>1, <3>2, <3>4 DEF Begun, CoreqLoop
      <4>2. i \notin slaves
        BY <1>2, <2>2, <2>4, <2>5, <3>1, <3>2, <4>1 DEF Types, IsSequence, Caches
      <4>3. QED
        BY <1>1, <2>2, <3>1, <3>2, <4>1, <4>2 DEF Base, Errors
    <3>5. QED
      BY <3>3, <3>4
  <2>17. ASSUME NEW i \in Caches
         PROVE  Finished(i)' <=> Finished(i)
    <3>1. CASE i \in all_coreqcaches
      BY <2>3, <2>9, <2>10, <2>11, <2>12, <2>14, <3>1 DEF Finished
    <3>2. CASE i \notin all_coreqcaches
      BY <2>2, <2>3, <2>4, <2>9, <3>2 DEF Finished
    <3>3. QED
      BY <3>1, <3>2
  <2>18. ASSUME NEW i \in Caches, NEW k \in DOMAIN Source(i), NEW j
         PROVE  Read(i, k, j)' <=> Read(i, k, j)
    <3>1. ~ FromCachefile(i, k, j)'
      <4>1. k \in Nat \ {0}
        BY <2>4, SourceTypes DEF Types
      <4>2. QED
        BY <1>1, <4>1 DEF FromCachefile
    <3>2. QED
      BY <2>1, <2>2, <2>3, <2>17, <3>1 DEF Read, FromCachefile, FromDirectory, CoreqLoop, Directory
  <2>19. Grows /\ Reads(Nothing)
    <3>1. ASSUME NEW i \in Caches, i \notin Excused', i \in Excused
          PROVE  \A k, j : ~ Read(i, k, j)
      <4>1. i \in slaves /\ i \in all_coreqcaches
        BY <1>1, <2>2, <2>4, <3>1 DEF Excused
      <4>2. ~ Finished(i)
        BY <1>2, <4>1, <2>12 DEF Finished, SameFile
      <4>3. QED
        BY <2>2, <4>1, <4>2 DEF Read, FromCachefile, CoreqLoop
    <3>2. QED
      BY <2>18, <3>1 DEF Grows, Reads
  <2>20. QED
    BY <2>6, <2>8, <2>15, <2>16, <2>19 DEF Base
<1>5. QED
  BY <1>3, <1>4

(* Within the loop of a cache nobody begins or ends. *)
LEMMA WithinTurn ==
  ASSUME Base, UNCHANGED <<setup, excluded, slavemode, err_msg, it>>, reported \subseteq reported',
         \/ pc \in CoreqLoop /\ pc' \in CoreqLoop
         \/ pc \in {"cache"} \cup Directory /\ pc' \in Directory
  PROVE  /\ Masters' /\ Errors'
         /\ table' = table /\ Caches' = Caches /\ all_coreqcaches' = all_coreqcaches
         /\ slaves' = slaves /\ source' = source /\ cache' = cache
         /\ \A i : get_overlaydat(i)' <=> get_overlaydat(i)
         /\ \A i : Finished(i)' <=> Finished(i)
         /\ Types /\ IsSequence(table)
<1>1. table' = table /\ all_coreqcaches' = all_coreqcaches /\ Caches' = Caches
  BY SameSources
<1>2. pc # "initialize" /\ pc' # "initialize"
  BY DEF CoreqLoop, Directory
<1>3. \A m : Begun(m)' <=> Begun(m)
  BY DEF Begun, CoreqLoop, Directory
<1>4. masters' = masters /\ \A i, j : SameFile(i, j)' <=> SameFile(i, j)
  BY <1>1 DEF masters, SameFile
<1>5. Masters'
  BY <1>1, <1>3, <1>4 DEF Base, Masters
<1>6. Errors'
  BY <1>3 DEF Base, Errors
<1>7. /\ slaves' = slaves /\ source' = source /\ cache' = cache
      /\ \A i : get_overlaydat(i)' <=> get_overlaydat(i)
  BY <1>1 DEF slaves, cache, get_overlaydat, cachefile, source, Source
<1>8. \A i : Finished(i)' <=> Finished(i)
  BY <1>1, <1>4 DEF Finished
<1>9. Types /\ IsSequence(table)
  BY UpdateAssumption DEF Base, Types, table
<1>10. QED
  BY <1>1, <1>5, <1>6, <1>7, <1>8, <1>9

(* The cachefile that is read. *)
LEMMA InCachefile ==
  ASSUME Base, pc \in CoreqLoop
  PROVE  /\ it \in all_coreqcaches /\ it \in Caches /\ it \notin excluded /\ it \in slaves
         /\ \A i \in slaves : Source(i) = source /\ i \in all_coreqcaches /\ i \in Caches
         /\ \A i \in slaves : \A k : Contents(i, k) = source[k].versions
         /\ \A i \in slaves : ~ Finished(i)
         /\ DOMAIN source = 1..Len(source) /\ Len(source) \in Nat
<1>1. Types /\ Control /\ Masters
  BY DEF Base
<1>2. it \in all_coreqcaches /\ it \in Caches /\ it \notin excluded /\ it \notin slavemode
  BY <1>1 DEF Control, all_coreqcaches, Caches
<1>3. \A i \in slaves : Source(i) = source /\ i \in all_coreqcaches /\ i \in Caches
  BY <1>2 DEF slaves, cache, Source, source, all_coreqcaches, Caches
<1>4. \A i \in slaves : \A k : Contents(i, k) = source[k].versions
  BY <1>3 DEF Contents, all_coreqcaches
<1>5. ASSUME NEW i \in slaves PROVE ~ Finished(i)
  <2>1. ASSUME NEW m \in masters, SameFile(m, i), m < it PROVE FALSE
    <3>1. SameFile(m, it) /\ m # it /\ Begun(m)
      <4>1. m \in Int /\ it \in Int
        BY <1>1, <2>1, UpdateAssumption DEF Types, masters, all_coreqcaches, table, IsSequence
      <4>2. pc # "initialize"
        BY DEF CoreqLoop
      <4>3. QED
        BY <1>3, <2>1, <4>1, <4>2 DEF SameFile, slaves, cache, Begun
    <3>2. QED
      BY <1>1, <1>2, <2>1, <3>1 DEF Masters
  <2>2. QED
    BY <1>3, <2>1 DEF Finished
<1>6. DOMAIN source = 1..Len(source) /\ Len(source) \in Nat
  BY <1>1, <1>2, SourceTypes DEF source, Types
<1>7. it \in slaves
  BY <1>2 DEF slaves, cache
<1>8. QED
  BY <1>2, <1>3, <1>4, <1>5, <1>6, <1>7

LEMMA PackageBase ==
  ASSUME Base, coreq_package
  PROVE  Base' /\ Grows /\ Reads(Nothing)
<1> DEFINE c == source[at + 1].category
<1>1. /\ UNCHANGED <<setup, key, overlays, excluded, slavemode, err_msg, it, reported, todo, file,
                     have_onetime_info>>
      /\ pc = "coreq" /\ at < Len(source) /\ at' = at + 1
      /\ dest_cat' = {i \in slaves : get_destcat(i, c)}
      /\ tree' = IF c \in DOMAIN tree \/ dest_cat' = {} THEN tree
                 ELSE [d \in DOMAIN tree \cup {c} |-> IF d = c THEN << >> ELSE tree[d]]
      /\ pc' = IF dest_cat' = {} THEN "coreq" ELSE "read"
  BY DEF coreq_package, given, coreq, current
<1>2. /\ Masters' /\ Errors'
      /\ table' = table /\ Caches' = Caches /\ all_coreqcaches' = all_coreqcaches
      /\ slaves' = slaves /\ source' = source
      /\ \A i : get_overlaydat(i)' <=> get_overlaydat(i)
      /\ \A i : Finished(i)' <=> Finished(i)
      /\ Types /\ IsSequence(table)
  BY <1>1, WithinTurn DEF CoreqLoop
<1>3. /\ it \in all_coreqcaches /\ it \in Caches /\ it \notin excluded
      /\ \A i \in slaves : Source(i) = source /\ i \in all_coreqcaches /\ i \in Caches
      /\ DOMAIN source = 1..Len(source) /\ Len(source) \in Nat
  BY <1>1, InCachefile DEF CoreqLoop
<1>4. at + 1 \in DOMAIN source /\ c \in Nat /\ package' = source[at + 1] /\ at \in Nat
  BY <1>1, <1>2, <1>3, SourceTypes DEF Types, source, package
<1> HIDE DEF c
<1>5. DOMAIN tree' = IF c \in DOMAIN tree \/ dest_cat' = {} THEN DOMAIN tree ELSE {c} \cup DOMAIN tree
  BY <1>1
<1>6. Types'
  BY <1>1, <1>2, <1>4, <1>5 DEF Types, CoreqLoop, Directory
<1>7. ASSUME c \in Enabled PROVE dest_cat' = slaves \ err_msg
  BY <1>1, <1>2, <1>7 DEF get_destcat, Types
<1>8. Control'
  <2>1. dest_cat' \subseteq slaves \ err_msg
    BY <1>1 DEF get_destcat
  <2>2. dest_cat' # {} => c \in DOMAIN tree'
    BY <1>5
  <2>3. package'.category = c /\ at' \in DOMAIN source
    BY <1>1, <1>4 DEF c
  <2>4. QED
    BY <1>1, <1>2, <1>3, <1>7, <2>1, <2>2, <2>3 DEF Base, Control, CoreqLoop, Directory
<1>9. ASSUME NEW i \in Caches, NEW k \in DOMAIN Source(i), NEW j
      PROVE  /\ Read(i, k, j) => Read(i, k, j)'
             /\ Read(i, k, j)' =>
                  Read(i, k, j) \/ (i \in slaves /\ k = at + 1 /\ dest_cat' = {})
  <2>1. FromCachefile(i, k, j) <=> i \in slaves /\ k < at + 1
    BY <1>1, <1>2, <1>3, <1>4 DEF FromCachefile, CoreqLoop
  <2>2. FromCachefile(i, k, j)' <=> /\ i \in slaves
                                    /\ k < at + 1 \/ (k = at + 1 /\ dest_cat' = {})
    BY <1>1, <1>2, <1>3, <1>4 DEF FromCachefile, CoreqLoop
  <2>3. ~ FromDirectory(i, k, j) /\ ~ FromDirectory(i, k, j)'
    BY <1>1 DEF FromDirectory, Directory
  <2>4. QED
    <3>1. pc # "initialize" /\ pc' # "initialize"
      BY <1>1
    <3>2. Finished(i)' <=> Finished(i)
      BY <1>2
    <3>3. i \in all_coreqcaches' <=> i \in all_coreqcaches
      BY <1>2
    <3>4. QED
      BY <1>3, <2>1, <2>2, <2>3, <3>1, <3>2, <3>3 DEF Read
<1>10. Grows /\ Reads(Nothing)
  <2>1. ASSUME NEW i \in slaves, dest_cat' = {}, c \in Enabled PROVE i \in Excused'
    BY <1>1, <1>7, <2>1 DEF Excused
  <2>2. \A i \in slaves : \A j : Owed(i, at + 1, j) => c \in Enabled
    BY <1>3 DEF Owed, c
  <2>3. Excused' = Excused
    BY <1>1 DEF Excused
  <2>4. QED
    BY <1>9, <2>1, <2>2, <2>3 DEF Grows, Reads
<1>11. QED
  BY <1>2, <1>6, <1>8, <1>10 DEF Base

(* What a step within the loop over a cachefile has to show. *)
LEMMA CachefileReads ==
  ASSUME Base, pc \in CoreqLoop, pc' \in CoreqLoop,
         UNCHANGED <<setup, excluded, slavemode, err_msg, it, reported>>,
         NEW f,
         \A i \in slaves : \A k \in DOMAIN source : \A j \in DOMAIN source[k].versions :
           /\ FromCachefile(i, k, j) => FromCachefile(i, k, j)'
           /\ FromCachefile(i, k, j)' /\ Owed(i, k, j) /\ i \notin err_msg =>
                FromCachefile(i, k, j) \/ <<i, k, j>> = f
  PROVE  Grows /\ Reads(f)
<1>1. /\ table' = table /\ Caches' = Caches /\ all_coreqcaches' = all_coreqcaches
      /\ slaves' = slaves /\ \A i : Finished(i)' <=> Finished(i)
  BY WithinTurn
<1>2. /\ \A i \in slaves : Source(i) = source
      /\ \A i \in slaves : \A k : Contents(i, k) = source[k].versions
  BY InCachefile
<1>3. /\ pc # "initialize" /\ pc' # "initialize" /\ pc \notin Directory /\ pc' \notin Directory
  BY DEF CoreqLoop, Directory
<1>4. Excused' = Excused
  BY DEF Excused
<1>5. ASSUME NEW i \in Caches, NEW k \in DOMAIN Source(i), NEW j \in DOMAIN Contents(i, k)
      PROVE  /\ Read(i, k, j) => Read(i, k, j)'
             /\ Owed(i, k, j) /\ Read(i, k, j)' /\ i \notin Excused =>
                  Read(i, k, j) \/ <<i, k, j>> = f
  <2>1. ~ FromDirectory(i, k, j) /\ ~ FromDirectory(i, k, j)'
    BY <1>3 DEF FromDirectory
  <2>2. CASE i \in slaves
    <3>1. /\ FromCachefile(i, k, j) => FromCachefile(i, k, j)'
          /\ FromCachefile(i, k, j)' /\ Owed(i, k, j) /\ i \notin err_msg =>
               FromCachefile(i, k, j) \/ <<i, k, j>> = f
      BY <1>2, <2>2
    <3>2. Finished(i)' <=> Finished(i)
      BY <1>1
    <3>3. i \notin Excused => i \notin err_msg
      BY DEF Excused
    <3>4. QED
      BY <1>1, <1>3, <2>1, <3>1, <3>2, <3>3 DEF Read
  <2>3. CASE i \notin slaves
    <3>1. ~ FromCachefile(i, k, j) /\ ~ FromCachefile(i, k, j)'
      BY <1>1, <2>3 DEF FromCachefile
    <3>2. Finished(i)' <=> Finished(i)
      BY <1>1
    <3>3. QED
      BY <1>1, <1>3, <2>1, <3>1, <3>2 DEF Read
  <2>4. QED
    BY <2>2, <2>3
<1>6. QED
  BY <1>4, <1>5 DEF Grows, Reads

LEMMA ReadBase ==
  ASSUME Base, coreq_read
  PROVE  Base' /\ Grows /\ Reads(Nothing)
<1>1. /\ UNCHANGED <<setup, key, overlays, excluded, slavemode, err_msg, it, reported, tree, at,
                     dest_cat, todo, file, have_onetime_info>>
      /\ pc = "read" /\ pc' = "get_package"
  BY DEF coreq_read, given, coreq, current
<1>2. /\ Masters' /\ Errors'
      /\ table' = table /\ Caches' = Caches /\ all_coreqcaches' = all_coreqcaches
      /\ slaves' = slaves /\ source' = source
      /\ \A i : get_overlaydat(i)' <=> get_overlaydat(i)
      /\ Types
  BY <1>1, WithinTurn DEF CoreqLoop
<1>3. Types'
  BY <1>1, <1>2 DEF Types, CoreqLoop, Directory
<1>4. package' = package
  BY <1>1, <1>2 DEF package
<1>5. Control'
  BY <1>1, <1>2, <1>4 DEF Base, Control, CoreqLoop, Directory
<1>6. ASSUME NEW i \in slaves, NEW k \in DOMAIN source, NEW j
      PROVE  /\ FromCachefile(i, k, j) => FromCachefile(i, k, j)'
             /\ FromCachefile(i, k, j)' /\ Owed(i, k, j) /\ i \notin err_msg => FromCachefile(i, k, j)
  <2>1. FromCachefile(i, k, j) <=> k < at
    BY <1>1 DEF FromCachefile, CoreqLoop
  <2>2. FromCachefile(i, k, j)' <=> k < at \/ (k = at /\ i \notin dest_cat)
    BY <1>1, <1>2 DEF FromCachefile, CoreqLoop
  <2>3. ASSUME Owed(i, at, j), i \notin err_msg PROVE i \in dest_cat
    <3>1. package.category \in Enabled
      BY <1>1, <2>3, InCachefile DEF Owed, CoreqLoop, package
    <3>2. QED
      BY <1>1, <2>3, <3>1 DEF Base, Control, CoreqLoop
  <2>4. QED
    BY <2>1, <2>2, <2>3
<1>7. Grows /\ Reads(Nothing)
  BY <1>1, <1>6, CachefileReads DEF CoreqLoop
<1>8. QED
  BY <1>2, <1>3, <1>5, <1>7 DEF Base

LEMMA GetPackageBase ==
  ASSUME Base, get_package
  PROVE  Base' /\ Grows /\ Reads(Nothing)
<1>1. /\ UNCHANGED <<setup, key, overlays, excluded, slavemode, err_msg, it, reported, tree, at,
                     dest_cat, todo>>
      /\ pc = "get_package" /\ pc' = "version" /\ file' = 0 /\ have_onetime_info' = FALSE
  BY DEF get_package, given, coreq
<1>2. /\ Masters' /\ Errors'
      /\ table' = table /\ Caches' = Caches /\ all_coreqcaches' = all_coreqcaches
      /\ slaves' = slaves /\ source' = source
      /\ \A i : get_overlaydat(i)' <=> get_overlaydat(i)
      /\ Types
  BY <1>1, WithinTurn DEF CoreqLoop
<1>3. Types'
  BY <1>1, <1>2 DEF Types, CoreqLoop, Directory
<1>4. package' = package /\ slave' = slave
  BY <1>1, <1>2 DEF package, slave
<1>5. /\ at \in DOMAIN source /\ Len(package.versions) \in Nat
      /\ DOMAIN package.versions = 1..Len(package.versions)
  <2>1. at \in DOMAIN source /\ it \in Caches /\ it \in slaves
    BY <1>1, InCachefile DEF Base, Control, CoreqLoop
  <2>2. Contents(it, at) = package.versions /\ Source(it) = source
    BY <1>1, <2>1, InCachefile DEF package, CoreqLoop
  <2>3. QED
    BY <1>2, <2>1, <2>2, SourceTypes DEF Types
<1>6. Control'
  BY <1>1, <1>2, <1>4, <1>5 DEF Base, Control, CoreqLoop, Directory
<1>7. ASSUME NEW i \in slaves, NEW k \in DOMAIN source, NEW j \in DOMAIN source[k].versions
      PROVE  FromCachefile(i, k, j)' <=> FromCachefile(i, k, j)
  <2>1. k = at => j \in Nat \ {0}
    BY <1>5 DEF package
  <2>2. FromCachefile(i, k, j) <=> k < at \/ (k = at /\ i \notin dest_cat)
    BY <1>1 DEF FromCachefile, CoreqLoop
  <2>3. FromCachefile(i, k, j)' <=>
          k < at \/ (k = at /\ (i \notin dest_cat \/ (i = slave /\ j <= 0)))
    BY <1>1, <1>2, <1>4 DEF FromCachefile, CoreqLoop
  <2>4. QED
    BY <2>1, <2>2, <2>3
<1>8. Grows /\ Reads(Nothing)
  BY <1>1, <1>7, CachefileReads DEF CoreqLoop
<1>9. QED
  BY <1>2, <1>3, <1>6, <1>8 DEF Base

LEMMA VersionBase ==
  ASSUME Base, coreq_version
  PROVE  Base' /\ Grows /\ Reads(<<slave, at, file + 1>>)
<1>1. /\ UNCHANGED <<setup, key, overlays, excluded, slavemode, err_msg, it, reported, tree, at,
                     dest_cat, todo>>
      /\ pc = "version" /\ pc' = "version" /\ file' = file + 1 /\ file < Len(package.versions)
  BY DEF coreq_version, given, coreq
<1>2. /\ Masters' /\ Errors'
      /\ table' = table /\ Caches' = Caches /\ all_coreqcaches' = all_coreqcaches
      /\ slaves' = slaves /\ source' = source
      /\ \A i : get_overlaydat(i)' <=> get_overlaydat(i)
      /\ Types
  BY <1>1, WithinTurn DEF CoreqLoop
<1>3. have_onetime_info' \in BOOLEAN
  BY <1>2 DEF coreq_version, Types, Known, IsLatest, Less
<1>4. Types'
  BY <1>1, <1>2, <1>3 DEF Types, CoreqLoop, Directory
<1>5. package' = package /\ slave' = slave
  BY <1>1, <1>2 DEF package, slave
<1>6. /\ at \in DOMAIN source /\ Len(package.versions) \in Nat
      /\ DOMAIN package.versions = 1..Len(package.versions) /\ file \in Nat
  <2>1. at \in DOMAIN source /\ it \in Caches /\ it \in slaves
    BY <1>1, InCachefile DEF Base, Control, CoreqLoop
  <2>2. Contents(it, at) = package.versions /\ Source(it) = source
    BY <1>1, <2>1, InCachefile DEF package, CoreqLoop
  <2>3. QED
    BY <1>2, <2>1, <2>2, SourceTypes DEF Types
<1>7. Control'
  BY <1>1, <1>2, <1>5, <1>6 DEF Base, Control, CoreqLoop, Directory
<1>8. ASSUME NEW i \in slaves, NEW k \in DOMAIN source, NEW j \in DOMAIN source[k].versions
      PROVE  /\ FromCachefile(i, k, j) => FromCachefile(i, k, j)'
             /\ FromCachefile(i, k, j)' =>
                  FromCachefile(i, k, j) \/ <<i, k, j>> = <<slave, at, file + 1>>
  <2>1. k = at => j \in Nat \ {0}
    BY <1>6 DEF package
  <2>2. FromCachefile(i, k, j) <=>
          k < at \/ (k = at /\ (i \notin dest_cat \/ (i = slave /\ j <= file)))
    BY <1>1 DEF FromCachefile, CoreqLoop
  <2>3. FromCachefile(i, k, j)' <=>
          k < at \/ (k = at /\ (i \notin dest_cat \/ (i = slave /\ j <= file + 1)))
    BY <1>1, <1>2, <1>5 DEF FromCachefile, CoreqLoop
  <2>4. QED
    BY <1>6, <2>1, <2>2, <2>3
<1>9. Grows /\ Reads(<<slave, at, file + 1>>)
  BY <1>1, <1>8, CachefileReads DEF CoreqLoop
<1>10. QED
  BY <1>2, <1>4, <1>7, <1>9 DEF Base

LEMMA SlaveIsOne ==
  ASSUME Base, pc \in CoreqLoop \ {"coreq"}
  PROVE  slave \in dest_cat /\ slave \in slaves /\ slave \notin err_msg
<1>1. dest_cat \subseteq slaves \ err_msg /\ dest_cat # {}
  BY DEF Base, Control
<1>2. slaves \subseteq Nat
  BY UpdateAssumption DEF Base, Types, slaves, all_coreqcaches, table, IsSequence
<1>3. Min(dest_cat) \in dest_cat
  BY <1>1, <1>2, MinIsLeast
<1>4. QED
  BY <1>1, <1>3 DEF slave

LEMMA AddPackage ==
  ASSUME NEW c \in DOMAIN tree, NEW n, NEW p, addPackage(c, n, p)
  PROVE  /\ DOMAIN tree' = DOMAIN tree
         /\ \A d \in DOMAIN tree : d # c => tree'[d] = tree[d]
         /\ DOMAIN tree'[c] = DOMAIN tree[c] \cup {n}
         /\ tree'[c][n] = p
         /\ \A m \in DOMAIN tree[c] : m # n => tree'[c][m] = tree[c][m]
BY DEF addPackage

LEMMA EndPackageBase ==
  ASSUME Base, coreq_end_package
  PROVE  Base' /\ Grows /\ Reads(Nothing)
<1>1. /\ UNCHANGED <<setup, key, overlays, excluded, slavemode, err_msg, it, reported, at, todo,
                     file, have_onetime_info>>
      /\ pc = "version" /\ file = Len(package.versions) /\ dest_cat' = dest_cat \ {slave}
      /\ pc' = IF dest_cat' = {} THEN "coreq" ELSE "get_package"
  BY DEF coreq_end_package, given, coreq, current
<1>2. /\ Masters' /\ Errors'
      /\ table' = table /\ Caches' = Caches /\ all_coreqcaches' = all_coreqcaches
      /\ slaves' = slaves /\ source' = source
      /\ \A i : get_overlaydat(i)' <=> get_overlaydat(i)
      /\ Types
  BY <1>1, WithinTurn DEF CoreqLoop
<1>3. package.category \in DOMAIN tree
  BY <1>1 DEF Base, Control, CoreqLoop
<1>4. DOMAIN tree' = DOMAIN tree
  <2>1. CASE have_onetime_info
    BY <1>3, <2>1, AddPackage DEF coreq_end_package
  <2>2. CASE ~ have_onetime_info
    BY <2>2 DEF coreq_end_package
  <2>3. QED
    BY <2>1, <2>2
<1>5. Types'
  BY <1>1, <1>2, <1>4 DEF Types, CoreqLoop, Directory
<1>6. package' = package
  BY <1>1, <1>2 DEF package
<1>7. Control'
  <2>1. dest_cat' \subseteq dest_cat
    BY <1>1
  <2>2. QED
    BY <1>1, <1>2, <1>4, <1>6, <2>1 DEF Base, Control, CoreqLoop, Directory
<1>8. ASSUME NEW i \in slaves, NEW k \in DOMAIN source, NEW j \in DOMAIN source[k].versions
      PROVE  FromCachefile(i, k, j)' <=> FromCachefile(i, k, j)
  <2>1. k = at => j <= file
    <3>1. it \in Caches /\ it \in slaves /\ Source(it) = source
      BY <1>1, InCachefile DEF CoreqLoop
    <3>2. \A l : Contents(it, l) = source[l].versions
      BY <1>1, <3>1, InCachefile DEF CoreqLoop
    <3>3. k = at => j \in 1..Len(package.versions) /\ Len(package.versions) \in Nat
      BY <1>2, <3>1, <3>2, SourceTypes DEF Types, package
    <3>4. QED
      BY <1>1, <3>3
  <2>2. FromCachefile(i, k, j) <=>
          k < at \/ (k = at /\ (i \notin dest_cat \/ (i = slave /\ j <= file)))
    BY <1>1 DEF FromCachefile, CoreqLoop
  <2>3. FromCachefile(i, k, j)' <=> k < at \/ (k = at /\ (dest_cat' = {} \/ i \notin dest_cat'))
    BY <1>1, <1>2 DEF FromCachefile, CoreqLoop
  <2>4. slave \in dest_cat
    BY <1>1, SlaveIsOne DEF CoreqLoop
  <2>5. QED
    BY <1>1, <2>1, <2>2, <2>3, <2>4
<1>9. Grows /\ Reads(Nothing)
  <2>1. pc \in CoreqLoop /\ pc' \in CoreqLoop
    BY <1>1 DEF CoreqLoop
  <2>2. QED
    BY <1>1, <1>8, <2>1, CachefileReads
<1>10. QED
  BY <1>2, <1>5, <1>7, <1>9 DEF Base

(* The loop over a cachefile ends with an error for all slaves or, if all
   packages were read, without one. *)
LEMMA CachefileEnds ==
  ASSUME Base, pc \in CoreqLoop, NextCache,
         UNCHANGED <<setup, key, overlays, excluded, slavemode, tree, at, todo, file,
                     have_onetime_info>>,
         \/ err_msg' = err_msg \cup slaves /\ reported' = reported \cup {it}
         \/ pc = "coreq" /\ at = Len(source) /\ UNCHANGED <<err_msg, reported>>
  PROVE  Base' /\ Grows /\ Reads(Nothing)
<1>1. /\ setup' = setup /\ slavemode' = slavemode /\ tree' = tree /\ at' = at
      /\ todo' = todo /\ file' = file /\ have_onetime_info' = have_onetime_info
      /\ key' = key /\ overlays' = overlays /\ excluded' = excluded
      /\ pc' = "cache" /\ pc # "initialize" /\ pc \notin Directory /\ it' = it + 1
  BY DEF NextCache, CoreqLoop, Directory
<1>2. table' = table /\ all_coreqcaches' = all_coreqcaches /\ Caches' = Caches
  BY <1>1, SameSources
<1>3. Types /\ Control /\ slaves \subseteq all_coreqcaches
  BY DEF Base, slaves
<1>4. IsSequence(table) /\ all_coreqcaches \subseteq Caches
  BY <1>3, UpdateAssumption DEF Types, table, all_coreqcaches, Caches
<1>5. /\ it \in all_coreqcaches /\ it \in Caches /\ it \notin excluded /\ it \in slaves
      /\ \A i \in slaves : Source(i) = source
      /\ \A i \in slaves : ~ Finished(i)
      /\ DOMAIN source = 1..Len(source) /\ Len(source) \in Nat
  BY InCachefile
<1>6. it \notin slavemode /\ it \in masters /\ \A i \in slaves \ excluded : it <= i
  BY <1>3, <1>5 DEF Control, masters
<1>7. Types'
  <2>1. err_msg' \subseteq all_coreqcaches
    BY <1>3 DEF Types
  <2>2. it' \in 1..Len(table) + 1
    BY <1>1, <1>4, <1>5 DEF IsSequence, Caches
  <2>3. QED
    BY <1>1, <1>2, <1>3, <2>1, <2>2 DEF Types
<1>8. Control'
  BY <1>1 DEF Control, CoreqLoop, Directory
<1>9. ASSUME NEW m \in Caches
      PROVE  /\ Begun(m)' <=> Begun(m)
             /\ m < it' <=> m < it \/ m = it
  BY <1>1, <1>3, <1>4 DEF Begun, CoreqLoop, IsSequence, Caches, Types
<1>10. masters' = masters /\ masters \subseteq Caches
  BY <1>1, <1>2, <1>4 DEF masters
<1>11. \A i, j : SameFile(i, j)' <=> SameFile(i, j)
  BY <1>2 DEF SameFile
<1>12. \A i \in all_coreqcaches : i \in slaves <=> SameFile(it, i)
  BY DEF slaves, cache, SameFile
<1>13. Masters'
  BY <1>1, <1>2, <1>3, <1>4, <1>9, <1>10, <1>11 DEF Base, Masters, Types
<1>14. Errors'
  <2>1. SUFFICES ASSUME NEW i \in err_msg' \ excluded', Begun(i)' PROVE i \in reported'
    BY DEF Errors
  <2>2. i \in Caches /\ i \notin excluded /\ Begun(i) /\ (i \in err_msg \/ i \in slaves)
    BY <1>1, <1>3, <1>4, <1>9, <2>1 DEF Types
  <2>3. CASE i \in err_msg
    BY <2>2, <2>3 DEF Base, Errors
  <2>4. CASE i \notin err_msg
    <3>1. i \in slaves /\ it <= i /\ reported' = reported \cup {it}
      BY <1>6, <2>1, <2>2, <2>4
    <3>2. i = it
      BY <1>1, <1>3, <1>4, <2>2, <3>1 DEF Begun, IsSequence, Caches, Types
    <3>3. QED
      BY <3>1, <3>2
  <2>5. QED
    BY <2>3, <2>4
<1>15. ASSUME NEW i \in Caches
       PROVE  Finished(i)' <=> Finished(i) \/ i \in slaves
  <2>1. CASE i \in all_coreqcaches
    BY <1>2, <1>6, <1>9, <1>10, <1>11, <1>12, <2>1 DEF Finished
  <2>2. CASE i \notin all_coreqcaches
    BY <1>1, <1>2, <1>3, <1>5, <1>9, <2>2 DEF Finished
  <2>3. QED
    BY <2>1, <2>2
<1>16. ASSUME NEW i \in Caches, NEW k, NEW j
       PROVE  /\ Read(i, k, j)' <=> Finished(i) \/ i \in slaves
              /\ Read(i, k, j) <=> Finished(i) \/ (i \in slaves /\ FromCachefile(i, k, j))
  <2>1. ~ FromCachefile(i, k, j)' /\ ~ FromDirectory(i, k, j)' /\ ~ FromDirectory(i, k, j)
    BY <1>1 DEF FromCachefile, FromDirectory, CoreqLoop, Directory
  <2>2. FromCachefile(i, k, j) => i \in slaves
    BY DEF FromCachefile
  <2>3. i \in slaves => i \in all_coreqcaches
    BY <1>3
  <2>4. Read(i, k, j)' <=> Finished(i)'
    BY <1>1, <2>1 DEF Read
  <2>5. Read(i, k, j) <=> Finished(i) \/ (i \in slaves /\ FromCachefile(i, k, j))
    BY <1>1, <2>1, <2>2, <2>3 DEF Read
  <2>6. QED
    BY <1>15, <2>4, <2>5
<1>17. Grows /\ Reads(Nothing)
  <2>1. CASE err_msg' = err_msg \cup slaves /\ reported' = reported \cup {it}
    <3>1. \A i \in Caches : i \notin Excused' => i \notin slaves /\ i \notin Excused
      BY <1>1, <2>1 DEF Excused
    <3>2. QED
      BY <1>16, <3>1 DEF Grows, Reads
  <2>2. CASE pc = "coreq" /\ at = Len(source) /\ UNCHANGED <<err_msg, reported>>
    <3>1. ASSUME NEW i \in slaves, NEW k \in DOMAIN Source(i), NEW j PROVE FromCachefile(i, k, j)
      <4>1. k \in 1..Len(source) /\ at = Len(source)
        BY <1>5, <2>2
      <4>2. k < at \/ k = at
        BY <1>5, <4>1
      <4>3. QED
        BY <2>2, <4>2 DEF FromCachefile
    <3>2. Excused' = Excused
      BY <1>1, <2>2 DEF Excused
    <3>3. QED
      BY <1>16, <3>1, <3>2 DEF Grows, Reads
  <2>3. QED
    BY <2>1, <2>2
<1>18. QED
  BY <1>7, <1>8, <1>13, <1>14, <1>17 DEF Base

LEMMA ErrorBase ==
  ASSUME Base, coreq_error
  PROVE  Base' /\ Grows /\ Reads(Nothing)
BY CachefileEnds DEF coreq_error, ReaderFails, CoreqLoop, given, current

LEMMA EndBase ==
  ASSUME Base, coreq_end
  PROVE  Base' /\ Grows /\ Reads(Nothing)
BY CachefileEnds DEF coreq_end, CoreqLoop, given, coreq, current

(* The directory that is read. *)
LEMMA InDirectory ==
  ASSUME Base, pc \in Directory
  PROVE  /\ it \in Caches /\ it \notin excluded /\ it \notin all_coreqcaches /\ Source(it) = source
         /\ \A k : Contents(it, k) = source[k].files
         /\ DOMAIN source = 1..Len(source) /\ Len(source) \in Nat
         /\ \A k \in DOMAIN source :
              /\ source[k].category \in Nat
              /\ DOMAIN source[k].files = 1..Len(source[k].files) /\ Len(source[k].files) \in Nat
         /\ at \in Nat /\ todo \subseteq Nat
         /\ todo # {} => category \in todo
<1>1. Types /\ Control
  BY DEF Base
<1>2. it \in Caches /\ it \notin excluded /\ it \notin all_coreqcaches
  BY <1>1 DEF Control, Caches
<1>3. Source(it) = source /\ \A k : Contents(it, k) = source[k].files
  BY <1>2 DEF source, Contents, all_coreqcaches, Caches
<1>4. /\ DOMAIN source = 1..Len(source) /\ Len(source) \in Nat
      /\ \A k \in DOMAIN source :
           /\ source[k].category \in Nat
           /\ DOMAIN source[k].files = 1..Len(source[k].files) /\ Len(source[k].files) \in Nat
  BY <1>1, <1>2, <1>3, SourceTypes DEF Types
<1>5. todo \subseteq Nat /\ at \in Nat
  BY <1>1 DEF Types
<1>6. todo # {} => category \in todo
  BY <1>5, MinIsLeast DEF category
<1>7. QED
  BY <1>2, <1>3, <1>4, <1>5, <1>6

(* What a step of the loop over a directory has to show. *)
LEMMA DirectoryReads ==
  ASSUME Base, pc \in {"cache"} \cup Directory, pc' \in Directory,
         UNCHANGED <<setup, excluded, slavemode, err_msg, it>>, reported \subseteq reported',
         it \notin all_coreqcaches, it \in Caches,
         NEW f,
         \A k \in DOMAIN source : \A j \in DOMAIN Contents(it, k) :
           /\ FromDirectory(it, k, j) => FromDirectory(it, k, j)'
           /\ FromDirectory(it, k, j)' /\ Owed(it, k, j) /\ it \notin reported' =>
                FromDirectory(it, k, j) \/ <<it, k, j>> = f
  PROVE  Grows /\ Reads(f)
<1>1. /\ all_coreqcaches' = all_coreqcaches /\ \A i : Finished(i)' <=> Finished(i)
  BY WithinTurn
<1>2. Source(it) = source
  BY DEF source
<1>3. pc # "initialize" /\ pc' # "initialize" /\ pc \notin CoreqLoop /\ pc' \notin CoreqLoop
  BY DEF CoreqLoop, Directory
<1>4. \A i \in Caches : (i \in Excused => i \in Excused') /\ (i \in reported' => i \in Excused')
  BY DEF Excused
<1>5. ASSUME NEW i \in Caches, NEW k \in DOMAIN Source(i), NEW j \in DOMAIN Contents(i, k)
      PROVE  /\ Read(i, k, j) => Read(i, k, j)'
             /\ Owed(i, k, j) /\ Read(i, k, j)' /\ i \notin Excused' =>
                  Read(i, k, j) \/ <<i, k, j>> = f
  <2>1. ~ FromCachefile(i, k, j) /\ ~ FromCachefile(i, k, j)'
    BY <1>3 DEF FromCachefile
  <2>2. Finished(i)' <=> Finished(i)
    BY <1>1
  <2>3. CASE i = it
    <3>1. /\ FromDirectory(i, k, j) => FromDirectory(i, k, j)'
          /\ FromDirectory(i, k, j)' /\ Owed(i, k, j) /\ i \notin reported' =>
               FromDirectory(i, k, j) \/ <<i, k, j>> = f
      BY <1>2, <1>5, <2>3
    <3>2. QED
      BY <1>1, <1>3, <1>4, <2>1, <2>2, <2>3, <3>1 DEF Read
  <2>4. CASE i # it
    <3>1. ~ FromDirectory(i, k, j) /\ ~ FromDirectory(i, k, j)'
      BY <2>4 DEF FromDirectory
    <3>2. QED
      BY <1>1, <1>3, <2>1, <2>2, <3>1 DEF Read
  <2>5. QED
    BY <2>3, <2>4
<1>6. QED
  BY <1>4, <1>5 DEF Grows, Reads

LEMMA BeginCategoriesBase ==
  ASSUME Base, begin_categories
  PROVE  Base' /\ Grows /\ Reads(Nothing)
<1>1. /\ UNCHANGED <<setup, key, overlays, excluded, slavemode, err_msg, it, reported, tree, file,
                     have_onetime_info>>
      /\ pc = "cache" /\ pc' = "package" /\ todo' = DOMAIN tree /\ at' = 0
      /\ it \notin all_coreqcaches /\ it <= Len(table) /\ it \notin excluded
  BY DEF begin_categories, Turn, given, coreq, current
<1>2. /\ Masters' /\ Errors'
      /\ table' = table /\ Caches' = Caches /\ all_coreqcaches' = all_coreqcaches
      /\ source' = source /\ cache' = cache
      /\ Types
  BY <1>1, WithinTurn DEF Directory
<1>3. it \in Caches
  BY <1>1, <1>2, UpdateAssumption DEF Types, IsSequence, table, Caches
<1>4. Types'
  BY <1>1, <1>2 DEF Types, CoreqLoop, Directory
<1>5. Control'
  BY <1>1, <1>2, <1>3 DEF Base, Control, CoreqLoop, Directory, Caches
<1>6. ASSUME NEW k \in DOMAIN source, NEW j \in DOMAIN Contents(it, k)
      PROVE  /\ FromDirectory(it, k, j) => FromDirectory(it, k, j)'
             /\ ~ (FromDirectory(it, k, j)' /\ Owed(it, k, j))
  <2>1. ~ FromDirectory(it, k, j)
    BY <1>1 DEF FromDirectory, Directory
  <2>2. k \in Nat \ {0}
    BY <1>2, <1>3, <1>6, SourceTypes DEF Types, source
  <2>3. FromDirectory(it, k, j)' => Source(it)[k].category \notin DOMAIN tree
    BY <1>1, <1>2, <2>2, SameSources DEF FromDirectory
  <2>4. Owed(it, k, j) => Source(it)[k].category \in DOMAIN tree
    BY <1>2 DEF Owed, Types
  <2>5. QED
    BY <2>1, <2>3, <2>4
<1>7. Grows /\ Reads(Nothing)
  <2>1. pc \in {"cache"} \cup Directory /\ pc' \in Directory
    BY <1>1 DEF Directory
  <2>2. QED
    BY <1>1, <1>3, <1>6, <2>1, DirectoryReads
<1>8. QED
  BY <1>2, <1>4, <1>5, <1>7 DEF Base

LEMMA EndCategoryBase ==
  ASSUME Base, end_category
  PROVE  Base' /\ Grows /\ Reads(Nothing)
<1>1. /\ UNCHANGED <<setup, key, overlays, excluded, slavemode, err_msg, it, reported, tree, file,
                     have_onetime_info>>
      /\ pc = "package" /\ pc' = "package" /\ todo' = todo \ {category} /\ at' = 0
      /\ todo # {} /\ remaining = {}
  BY DEF end_category, given, coreq, current
<1>2. /\ Masters' /\ Errors'
      /\ table' = table /\ Caches' = Caches /\ all_coreqcaches' = all_coreqcaches
      /\ source' = source /\ cache' = cache
      /\ Types
  BY <1>1, WithinTurn DEF Directory
<1>3. /\ it \in Caches /\ it \notin excluded /\ it \notin all_coreqcaches /\ Source(it) = source
      /\ DOMAIN source = 1..Len(source) /\ Len(source) \in Nat
      /\ at \in Nat /\ category \in todo
  BY <1>1, InDirectory DEF Directory
<1>4. Types'
  BY <1>1, <1>2 DEF Types, CoreqLoop, Directory
<1>5. Control'
  BY <1>1, <1>2, <1>3 DEF Base, Control, CoreqLoop, Directory, Caches
<1>6. ASSUME NEW k \in DOMAIN source, NEW j \in DOMAIN Contents(it, k)
      PROVE  FromDirectory(it, k, j) <=> FromDirectory(it, k, j)'
  <2>1. k \in Nat \ {0}
    BY <1>3, <1>6
  <2>2. source[k].category = category => k <= at
    BY <1>1, <1>3, <2>1 DEF remaining
  <2>3. FromDirectory(it, k, j) <=> source[k].category \notin todo \/ source[k].category = category
    BY <1>1, <1>3, <2>1, <2>2 DEF FromDirectory, Directory
  <2>4. FromDirectory(it, k, j)' <=> source[k].category \notin todo'
    BY <1>1, <1>2, <1>3, <2>1, SameSources DEF FromDirectory, Directory
  <2>5. QED
    BY <1>1, <1>3, <2>3, <2>4
<1>7. Grows /\ Reads(Nothing)
  <2>1. pc \in {"cache"} \cup Directory /\ pc' \in Directory
    BY <1>1 DEF Directory
  <2>2. QED
    BY <1>1, <1>3, <1>6, <2>1, DirectoryReads
<1>8. QED
  BY <1>2, <1>4, <1>5, <1>7 DEF Base

LEMMA BeginPackageBase ==
  ASSUME Base, begin_package
  PROVE  Base' /\ Grows /\ Reads(Nothing)
<1>1. /\ UNCHANGED <<setup, key, overlays, excluded, slavemode, err_msg, it, reported, tree, todo>>
      /\ pc = "package" /\ pc' = "file" /\ at' = Min(remaining) /\ file' = 0
      /\ todo # {} /\ remaining # {}
      /\ have_onetime_info' = Known(category, source[at'].name)
  BY DEF begin_package, given, coreq
<1>2. /\ Masters' /\ Errors'
      /\ table' = table /\ Caches' = Caches /\ all_coreqcaches' = all_coreqcaches
      /\ source' = source /\ cache' = cache
      /\ Types
  BY <1>1, WithinTurn DEF Directory
<1>3. /\ it \in Caches /\ it \notin excluded /\ it \notin all_coreqcaches /\ Source(it) = source
      /\ DOMAIN source = 1..Len(source) /\ Len(source) \in Nat
      /\ \A k \in DOMAIN source : Len(source[k].files) \in Nat
      /\ at \in Nat
  BY <1>1, InDirectory DEF Directory
<1>4. /\ at' \in DOMAIN source /\ at < at' /\ source[at'].category = category
      /\ \A k \in remaining : at' <= k
  <2>1. remaining \subseteq Nat
    BY <1>3 DEF remaining
  <2>2. at' \in remaining /\ \A k \in remaining : at' <= k
    BY <1>1, <2>1, MinIsLeast
  <2>3. QED
    BY <2>2 DEF remaining
<1>5. Types'
  <2>1. have_onetime_info' \in BOOLEAN /\ at' \in Nat
    BY <1>1, <1>3, <1>4 DEF Known
  <2>2. QED
    BY <1>1, <1>2, <2>1 DEF Types, CoreqLoop, Directory
<1>6. Control'
  <2>1. package' = source[at'] /\ category' = category
    BY <1>1, <1>2 DEF package, category
  <2>2. QED
    BY <1>1, <1>2, <1>3, <1>4, <2>1 DEF Base, Control, CoreqLoop, Directory, Caches
<1>7. ASSUME NEW k \in DOMAIN source, NEW j \in DOMAIN Contents(it, k)
      PROVE  FromDirectory(it, k, j) <=> FromDirectory(it, k, j)'
  <2>1. k \in Nat \ {0} /\ j \in Nat \ {0}
    BY <1>2, <1>3, <1>7, SourceTypes DEF Types
  <2>2. at' \in Nat /\ category' = category
    BY <1>1, <1>3, <1>4 DEF category
  <2>3. FromDirectory(it, k, j) <=>
          source[k].category \notin todo \/ (source[k].category = category /\ k <= at)
    BY <1>1, <1>3, <2>1 DEF FromDirectory, Directory
  <2>4. FromDirectory(it, k, j)' <=>
          source[k].category \notin todo \/ (source[k].category = category /\ k < at')
    BY <1>1, <1>2, <1>3, <2>1, <2>2, SameSources DEF FromDirectory, Directory
  <2>5. source[k].category = category => (k <= at <=> k < at')
    BY <1>3, <1>4, <2>1, <2>2 DEF remaining
  <2>6. QED
    BY <2>3, <2>4, <2>5
<1>8. Grows /\ Reads(Nothing)
  <2>1. pc \in {"cache"} \cup Directory /\ pc' \in Directory
    BY <1>1 DEF Directory
  <2>2. QED
    BY <1>1, <1>3, <1>7, <2>1, DirectoryReads
<1>9. QED
  BY <1>2, <1>5, <1>6, <1>8 DEF Base

(* A file is read; only if no error was printed its version must be there. *)
LEMMA FileBase ==
  ASSUME Base, MoreFiles,
         UNCHANGED <<setup, key, overlays, excluded, slavemode, err_msg, it, tree, at, todo, pc>>,
         file' = file + 1, have_onetime_info' \in BOOLEAN, reported \subseteq reported',
         NEW f, it \in reported' \/ f = <<it, at, file + 1>>
  PROVE  Base' /\ Grows /\ Reads(f)
<1>1. pc = "file" /\ pc' = "file" /\ file < Len(package.files)
  BY DEF MoreFiles
<1>2. /\ Masters' /\ Errors'
      /\ table' = table /\ Caches' = Caches /\ all_coreqcaches' = all_coreqcaches
      /\ source' = source /\ cache' = cache
      /\ Types
  BY <1>1, WithinTurn DEF Directory
<1>3. /\ it \in Caches /\ it \notin excluded /\ it \notin all_coreqcaches /\ Source(it) = source
      /\ DOMAIN source = 1..Len(source) /\ Len(source) \in Nat
      /\ \A k \in DOMAIN source : Len(source[k].files) \in Nat
      /\ at \in Nat /\ at \in DOMAIN source /\ todo # {} /\ file \in Nat
  BY <1>1, <1>2, InDirectory DEF Directory, Base, Control, Types
<1>4. Types'
  BY <1>1, <1>2, <1>3 DEF Types, CoreqLoop, Directory
<1>5. package' = package /\ category' = category /\ Len(package.files) \in Nat
  BY <1>1, <1>2, <1>3 DEF package, category
<1>6. Control'
  BY <1>1, <1>2, <1>3, <1>5 DEF Base, Control, CoreqLoop, Directory, Caches
<1>7. ASSUME NEW k \in DOMAIN source, NEW j \in DOMAIN Contents(it, k)
      PROVE  /\ FromDirectory(it, k, j) => FromDirectory(it, k, j)'
             /\ FromDirectory(it, k, j)' /\ it \notin reported' =>
                  FromDirectory(it, k, j) \/ <<it, k, j>> = f
  <2>1. k \in Nat \ {0} /\ j \in Nat \ {0}
    BY <1>2, <1>3, <1>7, SourceTypes, SMTT(30), ZenonT(30) DEF Types
  <2>2. FromDirectory(it, k, j) <=>
          \/ source[k].category \notin todo
          \/ source[k].category = category /\ (k < at \/ (k = at /\ j <= file))
    BY <1>1, <1>3, <2>1 DEF FromDirectory, Directory
  <2>3. FromDirectory(it, k, j)' <=>
          \/ source[k].category \notin todo
          \/ source[k].category = category /\ (k < at \/ (k = at /\ j <= file + 1))
    BY <1>1, <1>2, <1>3, <1>5, <2>1, SameSources DEF FromDirectory, Directory
  <2>4. j <= file + 1 <=> j <= file \/ j = file + 1
    BY <1>3, <2>1
  <2>5. QED
    BY <2>2, <2>3, <2>4
<1>8. Grows /\ Reads(f)
  <2>1. pc \in {"cache"} \cup Directory /\ pc' \in Directory
    BY <1>1 DEF Directory
  <2>2. QED
    BY <1>1, <1>3, <1>7, <2>1, DirectoryReads
<1>9. QED
  BY <1>2, <1>4, <1>6, <1>8 DEF Base

LEMMA EndFilesBase ==
  ASSUME Base, end_package
  PROVE  Base' /\ Grows /\ Reads(Nothing)
<1>1. /\ UNCHANGED <<setup, key, overlays, excluded, slavemode, err_msg, it, reported, at, todo,
                     file, have_onetime_info>>
      /\ pc = "file" /\ pc' = "package" /\ file = Len(package.files)
  BY DEF end_package, given, coreq, current
<1>2. /\ Masters' /\ Errors'
      /\ table' = table /\ Caches' = Caches /\ all_coreqcaches' = all_coreqcaches
      /\ source' = source /\ cache' = cache
      /\ Types
  BY <1>1, WithinTurn DEF Directory
<1>3. /\ it \in Caches /\ it \notin excluded /\ it \notin all_coreqcaches /\ Source(it) = source
      /\ DOMAIN source = 1..Len(source) /\ Len(source) \in Nat
      /\ \A k : Contents(it, k) = source[k].files
      /\ \A k \in DOMAIN source : /\ DOMAIN source[k].files = 1..Len(source[k].files)
                                 /\ Len(source[k].files) \in Nat
      /\ at \in Nat /\ at \in DOMAIN source /\ todo # {} /\ package.category = category
      /\ category \in todo
  BY <1>1, <1>2, InDirectory DEF Directory, Base, Control
<1>4. DOMAIN tree' = DOMAIN tree
  <2>1. package.category \in DOMAIN tree
    BY <1>2, <1>3 DEF Types
  <2>2. CASE have_onetime_info \/ cache.method = "metadata"
    BY <2>1, <2>2, AddPackage DEF end_package
  <2>3. CASE ~ (have_onetime_info \/ cache.method = "metadata")
    BY <2>3 DEF end_package
  <2>4. QED
    BY <2>2, <2>3
<1>5. Types'
  BY <1>1, <1>2, <1>4 DEF Types, CoreqLoop, Directory
<1>6. Control'
  BY <1>1, <1>2, <1>3 DEF Base, Control, CoreqLoop, Directory, Caches
<1>7. ASSUME NEW k \in DOMAIN source, NEW j \in DOMAIN Contents(it, k)
      PROVE  FromDirectory(it, k, j) <=> FromDirectory(it, k, j)'
  <2>1. k \in Nat \ {0} /\ j \in Nat \ {0}
    BY <1>2, <1>3, <1>7, SourceTypes DEF Types
  <2>2. k = at => j <= file
    BY <1>1, <1>3, <1>7 DEF package
  <2>3. category' = category
    BY <1>1 DEF category
  <2>4. FromDirectory(it, k, j) <=>
          \/ source[k].category \notin todo
          \/ source[k].category = category /\ (k < at \/ k = at)
    BY <1>1, <1>3, <2>1, <2>2 DEF FromDirectory, Directory
  <2>5. FromDirectory(it, k, j)' <=>
          \/ source[k].category \notin todo
          \/ source[k].category = category /\ (k < at \/ k = at)
    BY <1>1, <1>2, <1>3, <2>1, <2>3, SameSources DEF FromDirectory, Directory
  <2>6. QED
    BY <2>4, <2>5
<1>8. Grows /\ Reads(Nothing)
  <2>1. pc \in {"cache"} \cup Directory /\ pc' \in Directory
    BY <1>1 DEF Directory
  <2>2. QED
    BY <1>1, <1>3, <1>7, <2>1, DirectoryReads
<1>9. QED
  BY <1>2, <1>5, <1>6, <1>8 DEF Base

LEMMA EndCategoriesBase ==
  ASSUME Base, end_categories
  PROVE  Base' /\ Grows /\ Reads(Nothing)
<1>1. /\ setup' = setup /\ slavemode' = slavemode /\ err_msg' = err_msg /\ tree' = tree
      /\ at' = at /\ todo' = todo /\ file' = file /\ have_onetime_info' = have_onetime_info
      /\ key' = key /\ overlays' = overlays /\ excluded' = excluded /\ reported' = reported
      /\ pc' = "cache" /\ pc = "package" /\ it' = it + 1 /\ todo = {}
  BY DEF end_categories, given, coreq, current, NextCache
<1>2. table' = table /\ all_coreqcaches' = all_coreqcaches /\ Caches' = Caches
  BY <1>1, SameSources
<1>3. Types
  BY DEF Base
<1>4. IsSequence(table)
  BY <1>3, UpdateAssumption DEF Types, table
<1>5. it \in Caches /\ it \notin excluded /\ it \notin all_coreqcaches
  BY <1>1, InDirectory DEF Directory
<1>6. Types'
  <2>1. it' \in 1..Len(table) + 1
    BY <1>1, <1>4, <1>5 DEF IsSequence, Caches
  <2>2. QED
    BY <1>1, <1>2, <1>3, <2>1 DEF Types
<1>7. Control'
  BY <1>1 DEF Control, CoreqLoop, Directory
<1>8. ASSUME NEW m \in Caches, m # it
      PROVE  /\ Begun(m)' <=> Begun(m)
             /\ m < it' <=> m < it
  BY <1>1, <1>3, <1>4, <1>8 DEF Begun, CoreqLoop, IsSequence, Caches, Types
<1>9. masters' = masters /\ masters \subseteq Caches \ {it}
  BY <1>1, <1>2, <1>5 DEF masters, all_coreqcaches, Caches
<1>10. Masters'
  BY <1>1, <1>2, <1>8, <1>9 DEF Base, Masters, SameFile
<1>11. Errors'
  BY <1>1, <1>3, <1>5, <1>8 DEF Base, Errors, Types, all_coreqcaches, Caches
<1>12. ASSUME NEW i \in Caches, NEW k, NEW j
       PROVE  Read(i, k, j)' <=> Read(i, k, j)
  <2>1. ~ FromCachefile(i, k, j) /\ ~ FromCachefile(i, k, j)' /\ ~ FromDirectory(i, k, j)'
    BY <1>1 DEF FromCachefile, FromDirectory, CoreqLoop, Directory
  <2>2. FromDirectory(i, k, j) <=> i = it
    BY <1>1 DEF FromDirectory, Directory
  <2>3. pc # "initialize" /\ pc' # "initialize"
    BY <1>1
  <2>4. CASE i \in all_coreqcaches
    <3>1. Finished(i)' <=> Finished(i)
      BY <1>2, <1>8, <1>9, <2>4 DEF Finished, SameFile
    <3>2. QED
      BY <1>2, <2>1, <2>3, <2>4, <3>1 DEF Read
  <2>5. CASE i \notin all_coreqcaches
    <3>1. Finished(i)' <=> i \notin excluded /\ (i < it \/ i = it)
      BY <1>1, <1>2, <1>3, <1>4, <2>5 DEF Finished, Types, IsSequence, Caches
    <3>2. Finished(i) <=> i \notin excluded /\ i < it
      BY <2>5 DEF Finished
    <3>3. QED
      BY <1>2, <1>5, <2>1, <2>2, <2>3, <2>5, <3>1, <3>2 DEF Read
  <2>6. QED
    BY <2>4, <2>5
<1>13. Grows /\ Reads(Nothing)
  BY <1>1, <1>12 DEF Grows, Reads, Excused
<1>14. QED
  BY <1>6, <1>7, <1>10, <1>11, <1>13 DEF Base

-------------------------------------------------------------------------------
(* The packages *)

LEMMA PackageStays ==
  ASSUME setup' = setup, Grows, executed \subseteq executed', NEW c, NEW n, NEW p,
         Genuine(c, n, p) /\ Described(c, n, p)
  PROVE  Genuine(c, n, p)' /\ Described(c, n, p)'
BY GenuineStays, DescribedStays

LEMMA NewPackageIsGenuine ==
  ASSUME NEW c, NEW n
  PROVE  Genuine(c, n, NewPackage) /\ Described(c, n, NewPackage)
BY DEF Genuine, Described, NewPackage, Sorted

(* The packages that stay in the tree as they are. *)
LEMMA TreeStays ==
  ASSUME setup' = setup, Grows, executed \subseteq executed', Packages,
         NEW c \in DOMAIN tree', NEW n \in DOMAIN tree'[c], Known(c, n), tree'[c][n] = tree[c][n]
  PROVE  Genuine(c, n, tree[c][n])' /\ Described(c, n, tree[c][n])'
<1>1. PICK p : p = tree[c][n]
  OBVIOUS
<1>2. Genuine(c, n, p) /\ Described(c, n, p)
  BY <1>1 DEF Packages, Known
<1>3. Genuine(c, n, p)' /\ Described(c, n, p)'
  BY <1>2, PackageStays
<1>4. tree[c][n]' = p
  BY <1>1
<1>5. QED
  BY <1>3, <1>4 DEF Genuine, Described, Sorted, Less, Info, table, Last, Read, ComesFrom

(* The package that is read has its place in the tree. *)
LEMMA PackageIs ==
  ASSUME NEW c, NEW n, NEW p, c = package'.category, n = package'.name, p = pkg',
         Genuine(c, n, p)' /\ Described(c, n, p)'
  PROVE  (/\ Genuine(package.category, package.name, pkg)
          /\ Described(package.category, package.name, pkg))'
BY DEF Genuine, Described, Sorted, Less, Info, table, Last, Read, ComesFrom

(* Package n of category c owes the j-th version of package k of cache i. *)
Owes(c, n, i, k, j) == Source(i)[k].category = c /\ Source(i)[k].name = n /\ Owed(i, k, j)

(* What is complete stays so if no package loses a version that is owed, and
   the version that is read anew is there. *)
LEMMA CompleteStays ==
  ASSUME setup' = setup, Complete, NEW f, Reads(f),
         \A c, n : \A i \in Caches : \A k \in DOMAIN Source(i) : \A j \in DOMAIN Contents(i, k) :
           Owes(c, n, i, k, j) /\ (Has(Current(c, n), i, k, j) \/ <<i, k, j>> = f) =>
             Has(Current(c, n)', i, k, j)
  PROVE  Complete'
<1>1. /\ Caches' = Caches /\ \A i : Source(i)' = Source(i)
      /\ \A i, k : Contents(i, k)' = Contents(i, k)
      /\ \A i, k, j : Owed(i, k, j)' <=> Owed(i, k, j)
  BY SameSources
<1>2. ASSUME NEW i \in Caches, i \notin Excused', NEW k \in DOMAIN Source(i),
             NEW j \in DOMAIN Contents(i, k), Owed(i, k, j), Read(i, k, j)'
      PROVE  Has(Current(Source(i)[k].category, Source(i)[k].name), i, k, j)'
  <2>1. PICK c, n : c = Source(i)[k].category /\ n = Source(i)[k].name
    OBVIOUS
  <2>2. Owes(c, n, i, k, j)
    BY <1>2, <2>1 DEF Owes
  <2>3. Has(Current(c, n), i, k, j) \/ <<i, k, j>> = f
    BY <1>2, <2>1 DEF Complete, Reads
  <2>4. Has(Current(c, n)', i, k, j)
    BY <1>2, <2>2, <2>3
  <2>5. Source(i)'[k].category = c /\ Source(i)'[k].name = n
    BY <1>1, <2>1
  <2>6. QED
    BY <2>4, <2>5 DEF Has, Current, findPackage, Known
<1>3. QED
  BY <1>1, <1>2 DEF Complete

Data == Packages /\ Flag /\ Complete

(* Between two packages the tree only gets empty categories. *)
LEMMA DataStays ==
  ASSUME Data, setup' = setup, Grows, Reads(Nothing), executed' = executed,
         ~ InProgress, ~ InProgress',
         DOMAIN tree \subseteq DOMAIN tree',
         \A c \in DOMAIN tree : tree'[c] = tree[c],
         \A c \in DOMAIN tree' \ DOMAIN tree : DOMAIN tree'[c] = {}
  PROVE  Data'
<1>1. Packages'
  <2>1. ASSUME NEW c \in DOMAIN tree', NEW n \in DOMAIN tree'[c]
        PROVE  Genuine(c, n, tree[c][n])' /\ Described(c, n, tree[c][n])'
    <3>1. Known(c, n) /\ tree'[c][n] = tree[c][n]
      BY <2>1 DEF Known
    <3>2. QED
      BY <2>1, <3>1, TreeStays DEF Data
  <2>2. QED
    BY <2>1 DEF Packages
<1>2. Flag'
  BY DEF Flag, InProgress
<1>3. Complete'
  <2>1. \A c, n : Current(c, n)' = Current(c, n)
    BY DEF Current, findPackage, Known
  <2>2. \A i, k, j : <<i, k, j>> # Nothing
    BY DEF Nothing
  <2>3. QED
    BY <2>1, <2>2, CompleteStays DEF Data
<1>4. QED
  BY <1>1, <1>2, <1>3 DEF Data

(* A package is looked up in the tree. *)
LEMMA DataBegins ==
  ASSUME Data, setup' = setup, Grows, Reads(Nothing), executed' = executed, tree' = tree,
         ~ InProgress, InProgress',
         pkg' = findPackage(package'.category, package'.name),
         pc' = "file" => have_onetime_info' = Known(package'.category, package'.name)
  PROVE  Data'
<1> DEFINE c == package'.category
           n == package'.name
<1>1. ASSUME NEW d \in DOMAIN tree', NEW m \in DOMAIN tree'[d]
      PROVE  Genuine(d, m, tree[d][m])' /\ Described(d, m, tree[d][m])'
  <2>1. Known(d, m) /\ tree'[d][m] = tree[d][m]
    BY <1>1 DEF Known
  <2>2. QED
    BY <1>1, <2>1, TreeStays DEF Data
<1>2. Genuine(c, n, pkg') /\ Described(c, n, pkg')
  <2>1. CASE Known(c, n)
    BY <2>1 DEF Data, Packages, Known, findPackage
  <2>2. CASE ~ Known(c, n)
    BY <2>2, NewPackageIsGenuine DEF findPackage
  <2>3. QED
    BY <2>1, <2>2
<1>3. (Genuine(package.category, package.name, pkg) /\ Described(package.category, package.name, pkg))'
  <2>1. PICK p, d, m : p = pkg' /\ d = c /\ m = n
    OBVIOUS
  <2>2. Genuine(d, m, p) /\ Described(d, m, p)
    BY <1>2, <2>1
  <2>3. Genuine(d, m, p)' /\ Described(d, m, p)'
    BY <2>2, PackageStays
  <2>4. QED
    BY <2>1, <2>3, PackageIs
<1>4. Packages'
  BY <1>1, <1>3 DEF Packages
<1>5. Flag'
  <2>1. Known(package.category, package.name)' <=> Known(c, n)
    BY DEF Known
  <2>2. pkg' = findPackage(package.category, package.name)'
    BY DEF findPackage, Known
  <2>3. ~ Known(c, n) => pkg'.versions = <<>>
    BY DEF findPackage, NewPackage
  <2>4. ASSUME pc' = "file", ~ have_onetime_info'
        PROVE  ~ Known(package.category, package.name)' /\ pkg'.versions = <<>>
    BY <2>1, <2>3, <2>4
  <2>5. QED
    BY <2>2, <2>4 DEF Flag
<1>6. Complete'
  <2>1. \A d, m : Current(d, m)' = Current(d, m)
    BY DEF Current, findPackage, Known
  <2>2. \A i, k, j : <<i, k, j>> # Nothing
    BY DEF Nothing
  <2>3. QED
    BY <2>1, <2>2, CompleteStays DEF Data
<1>7. QED
  BY <1>4, <1>5, <1>6 DEF Data

(* A version is passed over. *)
LEMMA DataSkips ==
  ASSUME Data, setup' = setup, Grows, NEW f, Reads(f), executed' = executed, tree' = tree,
         InProgress, pc' = pc, package' = package, pkg' = pkg,
         UNCHANGED <<it, have_onetime_info>>,
         \A i \in Caches : \A k \in DOMAIN Source(i) : \A j \in DOMAIN Contents(i, k) :
           ~ (Owed(i, k, j) /\ <<i, k, j>> = f)
  PROVE  Data'
<1>1. ASSUME NEW d \in DOMAIN tree', NEW m \in DOMAIN tree'[d]
      PROVE  Genuine(d, m, tree[d][m])' /\ Described(d, m, tree[d][m])'
  <2>1. Known(d, m) /\ tree'[d][m] = tree[d][m]
    BY <1>1 DEF Known
  <2>2. QED
    BY <1>1, <2>1, TreeStays DEF Data
<1>2. (Genuine(package.category, package.name, pkg) /\ Described(package.category, package.name, pkg))'
  <2>1. PICK p, d, m : p = pkg /\ d = package.category /\ m = package.name
    OBVIOUS
  <2>2. Genuine(d, m, p) /\ Described(d, m, p)
    BY <2>1 DEF Data, Packages
  <2>3. Genuine(d, m, p)' /\ Described(d, m, p)'
    BY <2>2, PackageStays
  <2>4. QED
    BY <2>1, <2>3, PackageIs
<1>3. Packages'
  BY <1>1, <1>2 DEF Packages
<1>4. Flag'
  <2>1. cache' = cache
    BY DEF cache, table
  <2>2. QED
    BY <2>1 DEF Data, Flag, findPackage, Known
<1>5. Complete'
  <2>1. \A d, m : Current(d, m)' = Current(d, m)
    BY DEF Current, findPackage, Known, InProgress
  <2>2. QED
    BY <2>1, CompleteStays DEF Data, Owes
<1>6. QED
  BY <1>3, <1>4, <1>5 DEF Data

(* The list t is s with v as an additional element at q. *)
IsInsertion(S, t, s, v, q) ==
  /\ t \in Seq(S) /\ Len(t) = Len(s) + 1 /\ t[q] = v
  /\ \A a \in 1..Len(s) : t[Moved(a, q)] = s[a]
  /\ \A a \in 1..Len(s) : Moved(a, q) \in 1..Len(s) + 1 \ {q}
  /\ \A b \in 1..Len(s) + 1 : b = q \/ \E a \in 1..Len(s) : b = Moved(a, q)

LEMMA InsertedIs ==
  ASSUME NEW S, AreVersions(S), NEW s \in Seq(S), NEW v \in S
  PROVE  /\ Place(s, v) \in 1..Len(s) + 1
         /\ IsInsertion(S, Inserted(s, v), s, v, Place(s, v))
<1> DEFINE q == Place(s, v)
           t == InsertAt(s, q, v)
<1>1. q \in 1..Len(s) + 1
  BY PlaceIs
<1> HIDE DEF q
<1>2. /\ t \in Seq(S) /\ Len(t) = Len(s) + 1 /\ t[q] = v
      /\ \A a \in 1..Len(s) : t[Moved(a, q)] = s[a]
      /\ \A a \in 1..Len(s) : Moved(a, q) \in 1..Len(s) + 1 \ {q}
      /\ \A b \in 1..Len(s) + 1 : b = q \/ \E a \in 1..Len(s) : b = Moved(a, q)
  BY <1>1, InsertAtIs
<1> HIDE DEF t
<1>3. IsInsertion(S, t, s, v, q)
  BY <1>2 DEF IsInsertion
<1>4. Inserted(s, v) = t
  BY DEF Inserted, q, t
<1>5. QED
  BY <1>1, <1>3, <1>4 DEF q

(* The last version of the list, with or without a new one: a version that is
   inserted behind those that equal it is the last one itself. *)
LEMMA LatestIs ==
  ASSUME NEW S, AreVersions(S), NEW s \in Seq(S), Sorted(s), NEW v \in S
  PROVE  /\ IsLatest(Inserted(s, v), v) => Last(Inserted(s, v)) = v
         /\ ~ IsLatest(Inserted(s, v), v) => s # <<>> /\ Last(Inserted(s, v)) = Last(s)
<1> DEFINE t == Inserted(s, v)
           p == Place(s, v)
<1>1. /\ p \in 1..Len(s) + 1
      /\ p <= Len(s) => Less(v, s[p])
      /\ IsInsertion(S, t, s, v, p)
  BY PlaceIs, InsertedIs
<1> HIDE DEF t, p
<1>2. /\ t \in Seq(S) /\ Len(t) = Len(s) + 1 /\ t[p] = v
      /\ \A i \in 1..Len(s) : t[Moved(i, p)] = s[i]
  BY <1>1 DEF IsInsertion
<1>3. Last(t) \in S /\ Last(t) = t[Len(s) + 1]
  BY <1>2 DEF Last
<1>4. ASSUME IsLatest(t, v) PROVE Last(t) = v
  <2>1. ASSUME p # Len(s) + 1 PROVE FALSE
    <3>1. p \in 1..Len(s) /\ Len(s) \in 1..Len(s)
      BY <1>1, <2>1
    <3>2. Moved(Len(s), p) = Len(s) + 1
      BY <3>1 DEF Moved
    <3>3. Last(t) = s[Len(s)]
      BY <1>2, <1>3, <3>1, <3>2
    <3>4. p = Len(s) \/ ~ Less(s[Len(s)], s[p])
      BY <3>1 DEF Sorted
    <3>5. Less(v, s[p]) /\ ~ Less(v, s[Len(s)]) /\ ~ Less(s[Len(s)], v)
      BY <1>1, <1>4, <3>1, <3>3 DEF IsLatest
    <3>6. p # Len(s)
      BY <3>5
    <3>7. PICK u \in S, w \in S : u = s[p] /\ w = s[Len(s)]
      BY <3>1
    <3>8. ~ Less(w, u) /\ Less(v, u) /\ ~ Less(v, w) /\ ~ Less(w, v)
      BY <3>4, <3>5, <3>6, <3>7
    <3>9. w.ver = v.ver /\ w.key = v.key
      BY <3>8, LessIsTotal
    <3>10. QED
      BY <3>8, <3>9 DEF Less
  <2>2. QED
    BY <1>2, <1>3, <2>1
<1>5. ASSUME ~ IsLatest(t, v) PROVE s # <<>> /\ Last(t) = Last(s)
  <2>1. p # Len(s) + 1
    BY <1>2, <1>3, <1>5, LessIrreflexive DEF IsLatest
  <2>2. Len(s) \in 1..Len(s) /\ p <= Len(s)
    BY <1>1, <2>1
  <2>3. Moved(Len(s), p) = Len(s) + 1
    BY <1>1, <2>2 DEF Moved
  <2>4. QED
    BY <1>2, <1>3, <2>2, <2>3 DEF Last
<1>6. QED
  BY <1>4, <1>5 DEF t

(* A version that is read and asked for is added to the package. *)
LEMMA DataAdds ==
  ASSUME Base, Packages, Complete, setup' = setup, Grows, executed \subseteq executed', tree' = tree,
         InProgress, pc' = pc, package' = package,
         NEW i \in Caches, Source(i) = source, at \in DOMAIN source, file \in Nat,
         NEW k, NEW j, k = at, j = file + 1, Wanted(i, k, j), ~ Read(i, k, j), Read(i, k, j)',
         NEW f, f = <<i, k, j>>, Reads(f),
         NEW v, v = NewVersion(i, VerOf(i, k, j)),
         pkg'.versions = Inserted(pkg.versions, v),
         <<package.category, package.name>> \notin executed' =>
           pkg'.desc = IF IsLatest(Inserted(pkg.versions, v), v) THEN Info(v) ELSE pkg.desc
  PROVE  /\ Packages' /\ Complete'
         /\ v.from[1] = i
         /\ \A a \in DOMAIN pkg'.versions :
              pkg'.versions[a] = v \/ \E b \in DOMAIN pkg.versions : pkg'.versions[a] = pkg.versions[b]
<1>1. PICK c, n, s, p : c = package.category /\ n = package.name /\ s = pkg.versions /\ p = pkg'
  OBVIOUS
<1>2. Genuine(c, n, pkg) /\ Described(c, n, pkg)
  BY <1>1 DEF Packages
<1>3. v.from = f /\ v.ver = VerOf(i, k, j) /\ v.key = key[i]
  BY DEF NewVersion
<1>4. v \in AddedVersions
  <2>1. i \in Nat /\ at \in Nat /\ j \in DOMAIN Contents(i, k) /\ k \in DOMAIN Source(i)
    BY UpdateAssumption DEF Base, Types, Caches, table, IsSequence, Wanted, IsVersion
  <2>2. VerOf(i, k, j) \in Int
    BY <2>1, SourceTypes DEF Base, Types
  <2>3. key[i] \in Keys
    BY DEF Base, Types, Caches
  <2>4. QED
    BY <2>1, <2>2, <2>3 DEF NewVersion, AddedVersions
<1>5. s \in Seq(AddedVersions) /\ Sorted(s) /\ AreVersions(AddedVersions)
  BY <1>1, <1>2 DEF Genuine, Described, AddedVersions, AreVersions
<1>6. PICK t : t = Inserted(s, v)
  OBVIOUS
<1>7. PICK q \in 1..Len(s) + 1 : IsInsertion(AddedVersions, t, s, v, q)
  BY <1>4, <1>5, <1>6, InsertedIs
<1>8. /\ t \in Seq(AddedVersions) /\ Len(t) = Len(s) + 1 /\ t[q] = v
      /\ \A a \in 1..Len(s) : t[Moved(a, q)] = s[a]
      /\ \A a \in 1..Len(s) : Moved(a, q) \in 1..Len(s) + 1 \ {q}
      /\ \A b \in 1..Len(s) + 1 : b = q \/ \E a \in 1..Len(s) : b = Moved(a, q)
  BY <1>7 DEF IsInsertion
<1>9. p.versions = t
  BY <1>1, <1>6
<1>10. \A a \in 1..Len(s) : /\ s[a].from # f
                           /\ LET g == s[a].from IN
                              ComesFrom(c, n, s[a], g[1], g[2], g[3]) /\ Read(g[1], g[2], g[3])
  <2>1. SUFFICES ASSUME NEW a \in 1..Len(s)
        PROVE  /\ s[a].from # f
               /\ LET g == s[a].from IN
                  ComesFrom(c, n, s[a], g[1], g[2], g[3]) /\ Read(g[1], g[2], g[3])
    OBVIOUS
  <2>2. a \in DOMAIN s
    BY <1>5
  <2>3. LET g == s[a].from IN
        ComesFrom(c, n, s[a], g[1], g[2], g[3]) /\ Read(g[1], g[2], g[3])
    BY <1>1, <1>2, <2>2 DEF Genuine
  <2>4. s[a].from # f
    BY <2>3
  <2>5. QED
    BY <2>3, <2>4
<1>11. ComesFrom(c, n, v, i, k, j)
  BY <1>1, <1>3 DEF ComesFrom, package
<1>12. Genuine(c, n, p)'
  <2>1. ASSUME NEW a \in DOMAIN t, NEW b \in DOMAIN t, a # b PROVE t[a].from # t[b].from
    <3>1. a \in 1..Len(s) + 1 /\ b \in 1..Len(s) + 1
      BY <1>5, <1>8
    <3>2. CASE a = q
      <4>1. PICK d \in 1..Len(s) : b = Moved(d, q)
        BY <1>8, <2>1, <3>1, <3>2
      <4>2. QED
        BY <1>3, <1>8, <1>10, <3>2, <4>1
    <3>3. CASE b = q
      <4>1. PICK d \in 1..Len(s) : a = Moved(d, q)
        BY <1>8, <2>1, <3>1, <3>3
      <4>2. QED
        BY <1>3, <1>8, <1>10, <3>3, <4>1
    <3>4. CASE a # q /\ b # q
      <4>1. PICK d \in 1..Len(s), e \in 1..Len(s) : a = Moved(d, q) /\ b = Moved(e, q)
        BY <1>8, <3>1, <3>4
      <4>2. t[a] = s[d] /\ t[b] = s[e] /\ d # e /\ d \in DOMAIN s /\ e \in DOMAIN s
        BY <1>5, <1>8, <2>1, <4>1
      <4>3. QED
        BY <1>1, <1>2, <4>2 DEF Genuine
    <3>5. QED
      BY <3>2, <3>3, <3>4
  <2>2. ASSUME NEW a \in DOMAIN t
        PROVE  LET g == t[a].from IN ComesFrom(c, n, t[a], g[1], g[2], g[3])' /\ Read(g[1], g[2], g[3])'
    <3>1. a \in 1..Len(s) + 1
      BY <1>5, <1>8
    <3>2. CASE a = q
      <4>1. t[a] = v /\ t[a].from[1] = i /\ t[a].from[2] = k /\ t[a].from[3] = j
        BY <1>3, <1>8, <3>2
      <4>2. ComesFrom(c, n, v, i, k, j)'
        BY <1>11, SameSources
      <4>3. QED
        BY <4>1, <4>2
    <3>3. CASE a # q
      <4>1. PICK d \in 1..Len(s) : a = Moved(d, q)
        BY <1>8, <3>1, <3>3
      <4>2. t[a] = s[d]
        BY <1>8, <4>1
      <4>3. PICK g : g = s[d].from
        OBVIOUS
      <4>4. ComesFrom(c, n, s[d], g[1], g[2], g[3]) /\ Read(g[1], g[2], g[3])
        BY <1>10, <4>3
      <4>5. g[1] \in Caches /\ g[2] \in DOMAIN Source(g[1]) /\ g[3] \in DOMAIN Contents(g[1], g[2])
        BY <4>4 DEF ComesFrom, Wanted, IsVersion
      <4>6. ComesFrom(c, n, s[d], g[1], g[2], g[3])' /\ Read(g[1], g[2], g[3])'
        BY <4>4, <4>5, SameSources DEF Grows
      <4>7. QED
        BY <4>2, <4>3, <4>6
    <3>4. QED
      BY <3>2, <3>3
  <2>3. QED
    BY <1>8, <1>9, <2>1, <2>2 DEF Genuine
<1>13. Described(c, n, p)'
  <2>1. Sorted(t)
    BY <1>4, <1>5, <1>6, InsertedIsSorted
  <2>2. ASSUME <<c, n>> \notin executed' PROVE p.desc = Info(Last(t))
    <3>1. p.desc = IF IsLatest(t, v) THEN Info(v) ELSE pkg.desc
      BY <1>1, <1>6, <2>2
    <3>2. CASE IsLatest(t, v)
      BY <1>4, <1>5, <1>6, <3>1, <3>2, LatestIs
    <3>3. CASE ~ IsLatest(t, v)
      <4>1. s # <<>> /\ Last(t) = Last(s)
        BY <1>4, <1>5, <1>6, <3>3, LatestIs
      <4>2. pkg.desc = Info(Last(s))
        BY <1>1, <1>2, <2>2, <4>1 DEF Described
      <4>3. QED
        BY <3>1, <3>3, <4>1, <4>2
    <3>4. QED
      BY <3>2, <3>3
  <2>3. QED
    BY <1>9, <2>1, <2>2 DEF Described, Sorted, Less, Info, table, Last
<1>14. Packages'
  <2>1. ASSUME NEW d \in DOMAIN tree', NEW m \in DOMAIN tree'[d]
        PROVE  Genuine(d, m, tree[d][m])' /\ Described(d, m, tree[d][m])'
    <3>1. Known(d, m) /\ tree'[d][m] = tree[d][m]
      BY <2>1 DEF Known
    <3>2. QED
      BY <2>1, <3>1, TreeStays
  <2>2. (/\ Genuine(package.category, package.name, pkg)
         /\ Described(package.category, package.name, pkg))'
    BY <1>1, <1>12, <1>13, PackageIs
  <2>3. QED
    BY <2>1, <2>2 DEF Packages
<1>15. Complete'
  <2>1. \A d, m : Current(d, m) = IF d = c /\ m = n THEN pkg ELSE findPackage(d, m)
    BY <1>1 DEF Current
  <2>2. \A d, m : Current(d, m)' = IF d = c /\ m = n THEN p ELSE findPackage(d, m)
    BY <1>1 DEF Current, InProgress, findPackage, Known
  <2>3. ASSUME NEW x, NEW y, NEW z, Has(pkg, x, y, z) PROVE Has(p, x, y, z)
    <3>1. PICK a \in DOMAIN s : s[a].from = <<x, y, z>>
      BY <1>1, <2>3 DEF Has
    <3>2. a \in 1..Len(s)
      BY <1>5
    <3>3. Moved(a, q) \in DOMAIN t /\ t[Moved(a, q)] = s[a]
      BY <1>5, <1>8, <3>2
    <3>4. QED
      BY <1>9, <3>1, <3>3 DEF Has
  <2>4. Has(p, i, k, j)
    <3>1. q \in DOMAIN t /\ t[q].from = <<i, k, j>>
      BY <1>3, <1>5, <1>7, <1>8
    <3>2. QED
      BY <1>9, <3>1 DEF Has
  <2>5. ASSUME NEW d, NEW m, NEW x, NEW y, NEW z, Owes(d, m, x, y, z), <<x, y, z>> = f
        PROVE  Has(Current(d, m)', x, y, z)
    <3>1. x = i /\ y = k /\ z = j
      BY <2>5
    <3>2. d = c /\ m = n
      BY <1>1, <2>5, <3>1 DEF Owes, package
    <3>3. QED
      BY <2>2, <2>4, <3>1, <3>2
  <2>6. ASSUME NEW d, NEW m, NEW x, NEW y, NEW z, Has(Current(d, m), x, y, z)
        PROVE  Has(Current(d, m)', x, y, z)
    BY <2>1, <2>2, <2>3, <2>6
  <2>7. QED
    BY <2>5, <2>6, CompleteStays
<1>16. QED
  <2>1. ASSUME NEW a \in DOMAIN t PROVE t[a] = v \/ \E b \in DOMAIN s : t[a] = s[b]
    <3>1. a \in 1..Len(s) + 1 /\ DOMAIN s = 1..Len(s)
      BY <1>5, <1>8
    <3>2. a = q \/ \E b \in 1..Len(s) : a = Moved(b, q)
      BY <1>8, <3>1
    <3>3. QED
      BY <1>8, <3>1, <3>2
  <2>2. v.from[1] = i
    BY <1>3
  <2>3. QED
    BY <1>1, <1>9, <1>14, <1>15, <2>1, <2>2

(* The package gets its place in the tree, or is thrown away with nothing that
   could be lost. *)
LEMMA DataEnds ==
  ASSUME Data, setup' = setup, Grows, Reads(Nothing), executed' = executed,
         InProgress, ~ InProgress', package.category \in DOMAIN tree,
         \/ addPackage(package.category, package.name, pkg)
         \/ /\ tree' = tree
            /\ \A i \in Caches : \A k \in DOMAIN Source(i) : \A j \in DOMAIN Contents(i, k) :
                 Owes(package.category, package.name, i, k, j) /\ Has(pkg, i, k, j) =>
                   Has(findPackage(package.category, package.name), i, k, j)
  PROVE  Data'
<1>1. Flag'
  BY DEF Flag, InProgress
<1>2. PICK c, n, p : c = package.category /\ n = package.name /\ p = pkg
  OBVIOUS
<1>3. \A i, k, j : <<i, k, j>> # Nothing
  BY DEF Nothing
<1>4. \A d, m : Current(d, m) = IF d = c /\ m = n THEN p ELSE findPackage(d, m)
  BY <1>2 DEF Current
<1>5. CASE addPackage(package.category, package.name, pkg)
  <2>1. /\ DOMAIN tree' = DOMAIN tree
        /\ \A d \in DOMAIN tree : d # c => tree'[d] = tree[d]
        /\ DOMAIN tree'[c] = DOMAIN tree[c] \cup {n}
        /\ tree'[c][n] = p
        /\ \A m \in DOMAIN tree[c] : m # n => tree'[c][m] = tree[c][m]
    BY <1>2, <1>5, AddPackage
  <2>2. ASSUME NEW d \in DOMAIN tree', NEW m \in DOMAIN tree'[d]
        PROVE  Genuine(d, m, tree[d][m])' /\ Described(d, m, tree[d][m])'
    <3>1. CASE d = c /\ m = n
      <4>1. Genuine(c, n, p) /\ Described(c, n, p)
        BY <1>2 DEF Data, Packages
      <4>2. Genuine(c, n, p)' /\ Described(c, n, p)'
        BY <4>1, PackageStays
      <4>3. tree[d][m]' = p
        BY <2>1, <3>1
      <4>4. QED
        BY <3>1, <4>2, <4>3 DEF Genuine, Described
    <3>2. CASE d # c \/ m # n
      <4>1. Known(d, m) /\ tree'[d][m] = tree[d][m]
        BY <2>1, <2>2, <3>2 DEF Known
      <4>2. QED
        BY <2>2, <4>1, TreeStays DEF Data
    <3>3. QED
      BY <3>1, <3>2
  <2>3. Packages'
    BY <2>2 DEF Packages
  <2>4. \A d, m : Current(d, m)' = IF d = c /\ m = n THEN p ELSE findPackage(d, m)
    BY <1>2, <2>1 DEF Current, findPackage, Known
  <2>5. Complete'
    BY <1>3, <1>4, <2>4, CompleteStays DEF Data
  <2>6. QED
    BY <1>1, <2>3, <2>5 DEF Data
<1>6. CASE /\ tree' = tree
           /\ \A i \in Caches : \A k \in DOMAIN Source(i) : \A j \in DOMAIN Contents(i, k) :
                Owes(package.category, package.name, i, k, j) /\ Has(pkg, i, k, j) =>
                  Has(findPackage(package.category, package.name), i, k, j)
  <2>1. ASSUME NEW d \in DOMAIN tree', NEW m \in DOMAIN tree'[d]
        PROVE  Genuine(d, m, tree[d][m])' /\ Described(d, m, tree[d][m])'
    <3>1. Known(d, m) /\ tree'[d][m] = tree[d][m]
      BY <1>6, <2>1 DEF Known
    <3>2. QED
      BY <2>1, <3>1, TreeStays DEF Data
  <2>2. Packages'
    BY <2>1 DEF Packages
  <2>3. \A d, m : Current(d, m)' = findPackage(d, m)
    BY <1>6 DEF Current, findPackage, Known
  <2>4. Complete'
    BY <1>2, <1>3, <1>4, <1>6, <2>3, CompleteStays DEF Data
  <2>5. QED
    BY <1>1, <2>2, <2>4 DEF Data
<1>7. QED
  BY <1>5, <1>6

-------------------------------------------------------------------------------
(* The data of the steps *)

(* m_get_overlay is the overlay that was asked for. *)
LEMMA OverlayIsAskedFor ==
  ASSUME Base, pc \in CoreqLoop, NEW i \in slaves \ err_msg, NEW v, v.key \in Nat
  PROVE  (table[i].overlay = "*" \/ v.key = get_overlay(i)) <=> AskedFor(i, v)
<1> DEFINE labels == cachefile.overlays
           T == {k \in DOMAIN labels : labels[k] = table[i].overlay}
<1>1. table[i].file = cache.file /\ i \in Caches
  BY DEF slaves, all_coreqcaches, Caches
<1>2. DOMAIN labels = 1..Len(labels) /\ Len(labels) \in Nat
  <2>1. IsSequence(table) /\ IsCache(table[i]) /\ table[i].method = "coreq"
    BY <1>1, UpdateAssumption DEF Base, Types, table, Caches, slaves, all_coreqcaches
  <2>2. cache.file \in DOMAIN Cachefiles
    BY <1>1, <2>1 DEF IsCache
  <2>3. QED
    BY <2>2, UpdateAssumption DEF cachefile, IsSequence
<1>3. get_overlaydat(i)
  BY DEF Base, Control
<1>4. CASE table[i].overlay \in {"", "*"}
  BY <1>1, <1>4 DEF get_overlay, AskedFor, cachefile
<1>5. CASE table[i].overlay \notin {"", "*"}
  <2>1. T # {} /\ T \subseteq Nat
    <3>1. table[i].overlay \in Range(labels)
      BY <1>3, <1>5 DEF get_overlaydat
    <3>2. PICK k \in DOMAIN labels : labels[k] = table[i].overlay
      BY <3>1 DEF Range
    <3>3. QED
      BY <1>2, <3>2
  <2>2. Min(T) \in T /\ \A k \in T : Min(T) <= k
    BY <2>1, MinIsLeast
  <2>3. get_overlay(i) = Min(T) - 1
    BY <1>5 DEF get_overlay
  <2> DEFINE m == Min(T)
  <2>4. m \in 1..Len(labels) /\ labels[m] = table[i].overlay
        /\ \A k \in 1..Len(labels) : labels[k] = table[i].overlay => m <= k
    BY <1>2, <2>2
  <2> HIDE DEF m
  <2>5. v.key = m - 1 <=>
          /\ v.key + 1 \in DOMAIN labels /\ labels[v.key + 1] = table[i].overlay
          /\ \A k \in 1..v.key : labels[k] # table[i].overlay
    <3>1. ASSUME v.key = m - 1
          PROVE  /\ v.key + 1 \in DOMAIN labels /\ labels[v.key + 1] = table[i].overlay
                 /\ \A k \in 1..v.key : labels[k] # table[i].overlay
      <4>1. v.key + 1 = m
        BY <2>4, <3>1
      <4>2. ASSUME NEW k \in 1..v.key PROVE labels[k] # table[i].overlay
        BY <1>2, <2>4, <4>1
      <4>3. QED
        BY <1>2, <2>4, <4>1, <4>2
    <3>2. ASSUME /\ v.key + 1 \in DOMAIN labels /\ labels[v.key + 1] = table[i].overlay
                 /\ \A k \in 1..v.key : labels[k] # table[i].overlay
          PROVE  v.key = m - 1
      <4>1. m <= v.key + 1
        BY <1>2, <2>4, <3>2
      <4>2. ~ (m <= v.key)
        BY <1>2, <2>4, <3>2
      <4>3. QED
        BY <2>4, <4>1, <4>2
    <3>3. QED
      BY <3>1, <3>2
  <2>6. AskedFor(i, v) <=>
          /\ v.key + 1 \in DOMAIN labels /\ labels[v.key + 1] = table[i].overlay
          /\ \A k \in 1..v.key : labels[k] # table[i].overlay
    BY <1>1, <1>5 DEF AskedFor, cachefile
  <2>7. QED
    BY <1>5, <2>3, <2>5, <2>6 DEF m
<1>6. QED
  BY <1>4, <1>5

(* Steps that leave the packages alone. *)
LEMMA IdleData ==
  ASSUME Base, Data,
         \/ initialize \/ initialized \/ erased \/ coreq_slave \/ coreq_open_fail \/ coreq_open
         \/ coreq_read \/ coreq_error \/ coreq_end
         \/ begin_categories \/ end_category \/ end_categories
  PROVE  Data'
<1>1. Grows /\ Reads(Nothing)
  BY InitializeBase, InitializedBase, ErasedBase, SlaveBase, OpenFailBase, OpenBase, ReadBase,
     ErrorBase, EndBase, BeginCategoriesBase, EndCategoryBase, EndCategoriesBase
<1>2. setup' = setup /\ tree' = tree /\ executed' = executed
  BY DEF initialize, initialized, erased, coreq_slave, coreq_open_fail, coreq_open, coreq_read,
    coreq_error, coreq_end, begin_categories, end_category, end_categories, given, coreq, current
<1>3. ~ InProgress /\ ~ InProgress'
  BY DEF initialize, initialized, erased, coreq_slave, coreq_open_fail, coreq_open, coreq_read,
    coreq_error, coreq_end, begin_categories, end_category, end_categories, Turn, ReaderFails,
    NextCache, InProgress
<1>4. QED
  BY <1>1, <1>2, <1>3, DataStays

LEMMA PackageData ==
  ASSUME Base, Data, coreq_package
  PROVE  Data'
<1>1. Grows /\ Reads(Nothing)
  BY PackageBase
<1>2. PICK c : c = source[at + 1].category
  OBVIOUS
<1>3. /\ setup' = setup /\ executed' = executed
      /\ tree' = IF c \in DOMAIN tree \/ dest_cat' = {} THEN tree
                 ELSE [d \in DOMAIN tree \cup {c} |-> IF d = c THEN << >> ELSE tree[d]]
  BY <1>2 DEF coreq_package, given
<1>4. ~ InProgress /\ ~ InProgress'
  BY DEF coreq_package, InProgress
<1>5. /\ DOMAIN tree \subseteq DOMAIN tree'
      /\ \A d \in DOMAIN tree : tree'[d] = tree[d]
      /\ \A d \in DOMAIN tree' \ DOMAIN tree : DOMAIN tree'[d] = {}
  <2>1. CASE c \in DOMAIN tree \/ dest_cat' = {}
    BY <1>3, <2>1
  <2>2. CASE ~ (c \in DOMAIN tree \/ dest_cat' = {})
    <3>1. tree' = [d \in DOMAIN tree \cup {c} |-> IF d = c THEN << >> ELSE tree[d]]
      BY <1>3, <2>2
    <3>2. DOMAIN << >> = {}
      OBVIOUS
    <3>3. QED
      BY <2>2, <3>1, <3>2
  <2>3. QED
    BY <2>1, <2>2
<1>6. QED
  BY <1>1, <1>3, <1>4, <1>5, DataStays

LEMMA GetPackageData ==
  ASSUME Base, Data, get_package
  PROVE  Data'
<1>1. Grows /\ Reads(Nothing)
  BY GetPackageBase
<1>2. /\ setup' = setup /\ executed' = executed /\ tree' = tree /\ at' = at /\ it' = it
      /\ pc = "get_package" /\ pc' = "version"
      /\ pkg' = findPackage(package.category, package.name)
  BY DEF get_package, given
<1>3. package' = package
  BY <1>2 DEF package, source, Source, table
<1>4. QED
  BY <1>1, <1>2, <1>3, DataBegins DEF InProgress

LEMMA BeginPackageData ==
  ASSUME Base, Data, begin_package
  PROVE  Data'
<1>1. Grows /\ Reads(Nothing)
  BY BeginPackageBase
<1>2. /\ setup' = setup /\ executed' = executed /\ tree' = tree /\ it' = it /\ todo' = todo
      /\ pc = "package" /\ pc' = "file"
      /\ pkg' = findPackage(category, source[at'].name)
      /\ have_onetime_info' = Known(category, source[at'].name)
  BY DEF begin_package, given
<1>3. package' = source[at'] /\ category' = category
  BY <1>2 DEF package, source, Source, table, category
<1>4. package'.category = category
  BY <1>2, <1>3, BeginPackageBase DEF Base, Control
<1>5. QED
  BY <1>1, <1>2, <1>3, <1>4, DataBegins DEF InProgress

LEMMA BadFile ==
  ASSUME Base, Data, bad_file
  PROVE  Base' /\ Data'
<1>1. /\ UNCHANGED <<setup, key, overlays, excluded, slavemode, err_msg, it, tree, at, todo, pc,
                     executed, pkg, have_onetime_info>>
      /\ MoreFiles /\ file' = file + 1 /\ reported' = reported \cup {it}
  BY DEF bad_file, given, coreq
<1>2. have_onetime_info' \in BOOLEAN
  BY <1>1 DEF Base, Types
<1>3. Base' /\ Grows /\ Reads(Nothing)
  BY <1>1, <1>2, FileBase
<1>4. package' = package
  BY <1>1 DEF package, source, Source, table
<1>5. \A i, k, j : <<i, k, j>> # Nothing
  BY DEF Nothing
<1>6. Data'
  BY <1>1, <1>3, <1>4, <1>5, DataSkips DEF InProgress, MoreFiles
<1>7. QED
  BY <1>3, <1>6

LEMMA VersionData ==
  ASSUME Base, Data, coreq_version
  PROVE  Data'
<1> DEFINE w == package.versions[file + 1]
           wanted == table[slave].overlay = "*" \/ w.key = get_overlay(slave)
<1>1. PICK i, k, j, v : i = slave /\ k = at /\ j = file + 1 /\ v = NewVersion(slave, w.ver)
  OBVIOUS
<1>2. /\ UNCHANGED <<setup, key, overlays, excluded, slavemode, err_msg, it, tree, at, todo, pc,
                     executed, dest_cat>>
      /\ pc = "version" /\ file < Len(package.versions) /\ file' = file + 1
      /\ pkg' = IF wanted THEN AddedVersion(pkg, v) ELSE pkg
      /\ have_onetime_info' = IF wanted
                              THEN \/ have_onetime_info
                                   \/ Known(package.category, package.name)
                                   \/ IsLatest(Inserted(pkg.versions, v), v)
                              ELSE have_onetime_info
  BY <1>1 DEF coreq_version, given, coreq
<1>3. Grows /\ Reads(<<i, k, j>>)
  BY <1>1, VersionBase
<1>4. /\ pc \in CoreqLoop /\ pc # "initialize" /\ pc # "coreq"
      /\ slave \in dest_cat /\ slave \in slaves /\ slave \notin err_msg
  BY <1>2, SlaveIsOne DEF CoreqLoop
<1>5. /\ i \in Caches /\ i \in all_coreqcaches /\ Source(i) = source /\ ~ Finished(i)
      /\ \A l : Contents(i, l) = source[l].versions
  BY <1>1, <1>4, InCachefile
<1>6. at \in DOMAIN source /\ file \in Nat /\ package = source[at] /\ setup \in Setups
  BY <1>4 DEF Base, Control, Types, package
<1>7. /\ DOMAIN Contents(i, k) = 1..Len(Contents(i, k)) /\ Contents(i, k) = package.versions
      /\ j \in DOMAIN Contents(i, k) /\ k \in DOMAIN Source(i)
      /\ VerOf(i, k, j) = w.ver
  <2>1. DOMAIN Contents(i, k) = 1..Len(Contents(i, k)) /\ Len(Contents(i, k)) \in Nat
    BY <1>1, <1>5, <1>6, SourceTypes
  <2>2. Contents(i, k) = package.versions
    BY <1>1, <1>5, <1>6
  <2>3. table[i].method = "coreq"
    BY <1>5 DEF all_coreqcaches
  <2>4. QED
    BY <1>1, <1>2, <1>5, <1>6, <2>1, <2>2, <2>3 DEF VerOf
<1>8. w.key \in Nat
  <2>1. table[i].method = "coreq" /\ table[i].file \in DOMAIN Cachefiles
    BY <1>5, <1>6, UpdateAssumption DEF all_coreqcaches, table, IsCache
  <2>2. Source(i) = Cachefiles[table[i].file].packages
    BY <2>1 DEF Source
  <2>3. k \in DOMAIN Cachefiles[table[i].file].packages
    BY <1>7, <2>2
  <2>4. \A l \in DOMAIN Source(i)[k].versions : Source(i)[k].versions[l].key \in Nat
    BY <2>1, <2>2, <2>3, UpdateAssumption
  <2>5. QED
    BY <1>1, <1>5, <1>6, <1>7, <2>4
<1>9. wanted <=> Wanted(i, k, j)
  <2>1. wanted <=> AskedFor(i, w)
    BY <1>1, <1>4, <1>8, OverlayIsAskedFor
  <2>2. Contents(i, k)[j] = w
    BY <1>1, <1>7
  <2>3. IsVersion(i, k, j) /\ table[i].method = "coreq"
    BY <1>5, <1>7 DEF IsVersion, all_coreqcaches
  <2>4. QED
    BY <2>1, <2>2, <2>3 DEF Wanted
<1>10. package' = package
  BY <1>2 DEF package, source, Source, table
<1>11. CASE ~ wanted
  <2>1. pkg' = pkg /\ have_onetime_info' = have_onetime_info
    BY <1>2, <1>11
  <2>2. ~ Owed(i, k, j)
    BY <1>9, <1>11 DEF Owed
  <2>3. \A x, y, z : ~ (Owed(x, y, z) /\ <<x, y, z>> = <<i, k, j>>)
    BY <2>2
  <2>4. InProgress
    BY <1>2 DEF InProgress
  <2>5. QED
    BY <1>2, <1>3, <1>10, <2>1, <2>3, <2>4, DataSkips
<1>12. CASE wanted
  <2>1. pkg' = AddedVersion(pkg, v)
    BY <1>2, <1>12
  <2>2. ~ Read(i, k, j)
    <3>1. /\ k = at /\ pc = "version" /\ j = file + 1 /\ i \in dest_cat
          /\ ~ (k < at) /\ ~ (j <= file)
      BY <1>1, <1>2, <1>4, <1>6 DEF Base, Types
    <3>2. ~ FromCachefile(i, k, j)
      BY <3>1 DEF FromCachefile
    <3>3. QED
      BY <1>5, <3>2 DEF Read
  <2>3. Read(i, k, j)'
    <3>1. slave' = slave /\ slaves' = slaves /\ all_coreqcaches' = all_coreqcaches
      BY <1>2, SameSources DEF slave, slaves, cache, table, all_coreqcaches
    <3>2. FromCachefile(i, k, j)'
      BY <1>1, <1>2, <1>4, <1>6, <3>1 DEF FromCachefile, CoreqLoop
    <3>3. QED
      BY <1>2, <1>5, <3>1, <3>2 DEF Read
  <2>4. Wanted(i, k, j) /\ InProgress
    BY <1>2, <1>9, <1>12 DEF InProgress
  <2>5. v = NewVersion(i, VerOf(i, k, j))
    BY <1>1, <1>7
  <2>6. /\ pkg'.versions = Inserted(pkg.versions, v)
        /\ pkg'.desc = IF IsLatest(Inserted(pkg.versions, v), v) THEN Info(v) ELSE pkg.desc
    BY <2>1 DEF AddedVersion
  <2>7. Packages' /\ Complete'
    BY <1>1, <1>2, <1>3, <1>5, <1>6, <1>10, <2>2, <2>3, <2>4, <2>5, <2>6, DataAdds DEF Data
  <2>8. have_onetime_info' = TRUE
    <3>1. ASSUME ~ have_onetime_info, ~ Known(package.category, package.name)
          PROVE  IsLatest(Inserted(pkg.versions, v), v)
      <4>1. pkg = NewPackage
        BY <1>2, <3>1 DEF Data, Flag, findPackage
      <4>2. v \in AddedVersions
        <5>1. v.from = <<i, k, j>> /\ v.ver = VerOf(i, k, j) /\ v.key = key[i]
          BY <1>1, <2>5 DEF NewVersion
        <5>2. i \in Nat /\ k \in Nat /\ j \in Nat /\ VerOf(i, k, j) \in Int
          BY <1>1, <1>5, <1>6, <1>7, SourceTypes
        <5>3. key[i] \in Keys
          BY <1>5 DEF Base, Types, Caches
        <5>4. QED
          BY <1>1, <2>5, <5>2, <5>3 DEF NewVersion, AddedVersions
      <4>3. /\ pkg.versions \in Seq(AddedVersions) /\ pkg.versions = <<>> /\ Sorted(pkg.versions)
            /\ AreVersions(AddedVersions)
        BY <4>1 DEF NewPackage, AreVersions, AddedVersions, Sorted
      <4>4. QED
        BY <4>2, <4>3, LatestIs
    <3>2. QED
      BY <1>2, <1>12, <3>1 DEF Data, Base, Types
  <2>9. Flag'
    BY <1>2, <2>8 DEF Flag
  <2>10. QED
    BY <2>7, <2>9 DEF Data
<1>13. QED
  BY <1>11, <1>12

LEMMA EndPackageData ==
  ASSUME Base, Data, coreq_end_package
  PROVE  Data'
<1>1. /\ setup' = setup /\ executed' = executed /\ pc = "version"
      /\ pc' \in {"coreq", "get_package"}
      /\ IF have_onetime_info THEN addPackage(package.category, package.name, pkg) ELSE tree' = tree
  BY DEF coreq_end_package, given
<1>2. Grows /\ Reads(Nothing)
  BY EndPackageBase
<1>3. package.category \in DOMAIN tree
  BY <1>1 DEF Base, Control, CoreqLoop
<1>4. have_onetime_info \/ pkg = findPackage(package.category, package.name)
  BY <1>1 DEF Data, Flag
<1>5. QED
  BY <1>1, <1>2, <1>3, <1>4, DataEnds DEF InProgress

(* The first version of a package is its latest one. *)
LEMMA FirstIsLatest ==
  ASSUME NEW v \in AddedVersions
  PROVE  IsLatest(Inserted(<<>>, v), v)
<1>1. <<>> \in Seq(AddedVersions) /\ Sorted(<<>>) /\ AreVersions(AddedVersions)
  BY DEF AreVersions, AddedVersions, Sorted
<1>2. QED
  BY <1>1, LatestIs

LEMMA AddedIsVersion ==
  ASSUME Base, MoreFiles
  PROVE  version \in AddedVersions
<1>1. pc = "file" /\ file < Len(package.files)
  BY DEF MoreFiles
<1>2. /\ it \in Caches /\ it \notin all_coreqcaches /\ Source(it) = source
      /\ \A l : Contents(it, l) = source[l].files
  BY <1>1, InDirectory DEF Directory
<1>3. at \in DOMAIN source /\ file \in Nat /\ package = source[at] /\ setup \in Setups
      /\ it \in Nat /\ at \in Nat
  BY <1>1 DEF Base, Control, Types, package
<1>4. file + 1 \in DOMAIN Contents(it, at) /\ Contents(it, at) = package.files
  BY <1>1, <1>2, <1>3, SourceTypes
<1>5. VerOf(it, at, file + 1) = package.files[file + 1]
  BY <1>2, <1>4 DEF VerOf, all_coreqcaches, Caches
<1>6. package.files[file + 1] \in Int
  BY <1>2, <1>3, <1>4, <1>5, SourceTypes
<1>7. key[it] \in Keys
  BY <1>2 DEF Base, Types, Caches
<1>8. QED
  BY <1>3, <1>6, <1>7 DEF version, NewVersion, AddedVersions

(* The version of a file is added to the package. *)
LEMMA FileAdds ==
  ASSUME Base, Data, MoreFiles,
         UNCHANGED <<setup, key, overlays, excluded, slavemode, err_msg, it, tree, at, todo, pc>>,
         file' = file + 1, have_onetime_info' \in BOOLEAN, reported \subseteq reported',
         executed \subseteq executed', pkg'.versions = versions,
         <<package.category, package.name>> \notin executed' =>
           pkg'.desc = IF IsLatest(versions, version) THEN Info(version) ELSE pkg.desc
  PROVE  /\ Base' /\ Packages' /\ Complete'
         /\ package' = package /\ cache' = cache
         /\ \A a \in DOMAIN pkg'.versions :
              \/ pkg'.versions[a].from[1] = it
              \/ \E b \in DOMAIN pkg.versions : pkg'.versions[a] = pkg.versions[b]
<1>1. PICK i, k, j, v : i = it /\ k = at /\ j = file + 1 /\ v = version
  OBVIOUS
<1>2. pc = "file" /\ file < Len(package.files)
  BY DEF MoreFiles
<1>3. Base' /\ Grows /\ Reads(<<i, k, j>>)
  BY <1>1, FileBase
<1>4. /\ i \in Caches /\ i \notin excluded /\ i \notin all_coreqcaches /\ Source(i) = source
      /\ \A l : Contents(i, l) = source[l].files
      /\ \A l \in DOMAIN source : /\ DOMAIN source[l].files = 1..Len(source[l].files)
                                 /\ Len(source[l].files) \in Nat
      /\ todo # {} => category \in todo
  BY <1>1, <1>2, InDirectory DEF Directory
<1>5. /\ at \in DOMAIN source /\ file \in Nat /\ package = source[at] /\ setup \in Setups
      /\ package.category = category /\ todo # {} /\ i \in Nat
  BY <1>1, <1>2 DEF Base, Control, Types, package
<1>6. /\ j \in DOMAIN Contents(i, k) /\ k \in DOMAIN Source(i) /\ Contents(i, k) = package.files
      /\ VerOf(i, k, j) = package.files[file + 1]
  <2>1. Contents(i, k) = package.files /\ DOMAIN package.files = 1..Len(package.files)
        /\ Len(package.files) \in Nat
    BY <1>1, <1>4, <1>5
  <2>2. table[i].method # "coreq"
    BY <1>4 DEF all_coreqcaches, Caches
  <2>3. QED
    BY <1>1, <1>2, <1>4, <1>5, <2>1, <2>2 DEF VerOf
<1>7. Wanted(i, k, j)
  BY <1>4, <1>6 DEF Wanted, IsVersion, all_coreqcaches, Caches
<1>8. v = NewVersion(i, VerOf(i, k, j)) /\ versions = Inserted(pkg.versions, v)
  BY <1>1, <1>6 DEF version, versions
<1>9. ~ Read(i, k, j)
  BY <1>1, <1>2, <1>4, <1>5 DEF Read, FromDirectory, Finished, Directory
<1>10. Read(i, k, j)'
  <2>1. category' = category /\ all_coreqcaches' = all_coreqcaches
    BY SameSources DEF category
  <2>2. FromDirectory(i, k, j)'
    <3>1. Source(i)'[k].category = category
      BY <1>1, <1>4, <1>5, SameSources
    <3>2. QED
      BY <1>1, <1>2, <1>4, <1>5, <2>1, <3>1 DEF FromDirectory, Directory
  <2>3. QED
    BY <1>2, <1>4, <2>1, <2>2 DEF Read
<1>11. package' = package /\ cache' = cache /\ InProgress
  BY <1>2 DEF package, source, Source, table, cache, InProgress
<1>12. /\ pkg'.versions = Inserted(pkg.versions, v)
       /\ <<package.category, package.name>> \notin executed' =>
            pkg'.desc = IF IsLatest(Inserted(pkg.versions, v), v) THEN Info(v) ELSE pkg.desc
  BY <1>1, <1>8
<1>13. /\ Packages' /\ Complete' /\ v.from[1] = i
       /\ \A a \in DOMAIN pkg'.versions :
            pkg'.versions[a] = v \/ \E b \in DOMAIN pkg.versions : pkg'.versions[a] = pkg.versions[b]
  BY <1>1, <1>3, <1>4, <1>5, <1>7, <1>8, <1>9, <1>10, <1>11, <1>12, DataAdds DEF Data
<1>14. QED
  BY <1>1, <1>3, <1>11, <1>13

LEMMA ParseFile ==
  ASSUME Base, Data, parse_file
  PROVE  Base' /\ Data'
<1>1. /\ UNCHANGED <<setup, key, overlays, excluded, slavemode, err_msg, it, tree, at, todo, pc,
                     executed, reported>>
      /\ MoreFiles /\ file' = file + 1 /\ have_onetime_info' = TRUE /\ cache.method = "parse"
      /\ pkg' = [versions |-> versions, desc |-> IF read_onetime_info THEN Info(version) ELSE pkg.desc]
  BY DEF parse_file, given, coreq
<1>2. pkg'.versions = versions /\ have_onetime_info' \in BOOLEAN /\ pc = "file"
  BY <1>1 DEF MoreFiles
<1>3. version \in AddedVersions
  BY <1>1, <1>2, AddedIsVersion
<1>4. ASSUME <<package.category, package.name>> \notin executed'
      PROVE  pkg'.desc = IF IsLatest(versions, version) THEN Info(version) ELSE pkg.desc
  <2>1. ASSUME ~ have_onetime_info PROVE IsLatest(versions, version)
    <3>1. pkg.versions = <<>>
      BY <1>1, <1>2, <1>4, <2>1 DEF Data, Flag
    <3>2. QED
      BY <1>3, <3>1, FirstIsLatest DEF versions
  <2>2. QED
    BY <1>1, <2>1 DEF read_onetime_info
<1>5. Base' /\ Packages' /\ Complete'
  BY <1>1, <1>2, <1>4, FileAdds
<1>6. Flag'
  BY <1>1, <1>2 DEF Flag
<1>7. QED
  BY <1>5, <1>6 DEF Data

LEMMA ExecFile ==
  ASSUME Base, Data, exec_file
  PROVE  Base' /\ Data'
<1>1. /\ UNCHANGED <<setup, key, overlays, excluded, slavemode, err_msg, it, tree, at, todo, pc>>
      /\ MoreFiles /\ file' = file + 1 /\ cache.method = "parse"
      /\ have_onetime_info' = (have_onetime_info \/ cache.try_parse)
      /\ pkg'.versions = versions /\ reported \subseteq reported'
      /\ executed' = executed \cup {<<package.category, package.name>>}
  BY DEF exec_file, given, coreq
<1>2. have_onetime_info' \in BOOLEAN /\ pc = "file"
  <2>1. have_onetime_info \in BOOLEAN /\ cache.try_parse \in BOOLEAN
    <3>1. pc = "file"
      BY <1>1 DEF MoreFiles
    <3>2. it \in DOMAIN table /\ setup \in Setups /\ have_onetime_info \in BOOLEAN
      BY <3>1 DEF Base, Types, Control, Directory
    <3>3. IsCache(cache)
      BY <3>2, UpdateAssumption DEF cache, table
    <3>4. QED
      BY <1>1, <3>2, <3>3 DEF IsCache
  <2>2. QED
    BY <1>1, <2>1 DEF MoreFiles
<1>3. /\ Base' /\ Packages' /\ Complete' /\ package' = package /\ cache' = cache
      /\ \A a \in DOMAIN pkg'.versions :
           \/ pkg'.versions[a].from[1] = it
           \/ \E b \in DOMAIN pkg.versions : pkg'.versions[a] = pkg.versions[b]
  BY <1>1, <1>2, FileAdds
<1>4. Flag'
  <2>1. SUFFICES ASSUME ~ have_onetime_info'
        PROVE  /\ ~ Known(package.category, package.name)'
               /\ \A a \in DOMAIN pkg'.versions : pkg'.versions[a].from[1] = it
               /\ ~ cache.try_parse /\ <<package.category, package.name>> \in executed'
    BY <1>1, <1>2, <1>3 DEF Flag
  <2>2. ~ have_onetime_info /\ ~ cache.try_parse
    BY <1>1, <2>1
  <2>3. /\ ~ Known(package.category, package.name)
        /\ \A a \in DOMAIN pkg.versions : pkg.versions[a].from[1] = it
    BY <1>2, <2>2 DEF Data, Flag
  <2>4. QED
    BY <1>1, <1>3, <2>2, <2>3 DEF Known
<1>5. QED
  BY <1>3, <1>4 DEF Data

LEMMA MetadataFile ==
  ASSUME Base, Data, metadata_file
  PROVE  Base' /\ Data'
<1>1. /\ UNCHANGED <<setup, key, overlays, excluded, slavemode, err_msg, it, tree, at, todo, pc,
                     executed, reported, have_onetime_info>>
      /\ MoreFiles /\ file' = file + 1 /\ cache.method = "metadata"
      /\ pkg'.versions = versions
      /\ pkg'.desc = IF IsLatest(versions, version) THEN Info(version) ELSE pkg.desc
  BY DEF metadata_file, given, coreq, AddedVersion, versions
<1>2. have_onetime_info' \in BOOLEAN /\ pc = "file"
  BY <1>1 DEF Base, Types, MoreFiles
<1>3. /\ Base' /\ Packages' /\ Complete' /\ package' = package /\ cache' = cache
      /\ \A a \in DOMAIN pkg'.versions :
           \/ pkg'.versions[a].from[1] = it
           \/ \E b \in DOMAIN pkg.versions : pkg'.versions[a] = pkg.versions[b]
  BY <1>1, <1>2, FileAdds
<1>4. Flag'
  <2>1. SUFFICES ASSUME ~ have_onetime_info'
        PROVE  /\ ~ Known(package.category, package.name)'
               /\ \A a \in DOMAIN pkg'.versions : pkg'.versions[a].from[1] = it
    BY <1>1, <1>2, <1>3 DEF Flag
  <2>2. /\ ~ Known(package.category, package.name)
        /\ \A a \in DOMAIN pkg.versions : pkg.versions[a].from[1] = it
    BY <1>1, <1>2, <2>1 DEF Data, Flag
  <2>3. QED
    BY <1>1, <1>3, <2>2 DEF Known
<1>5. QED
  BY <1>3, <1>4 DEF Data

LEMMA EndFilesData ==
  ASSUME Base, Data, end_package
  PROVE  Data'
<1>1. /\ setup' = setup /\ executed' = executed /\ pc = "file" /\ pc' = "package"
      /\ IF have_onetime_info \/ cache.method = "metadata"
           THEN addPackage(package.category, package.name, pkg) ELSE tree' = tree
  BY DEF end_package, given
<1>2. Grows /\ Reads(Nothing)
  BY EndFilesBase
<1>3. package.category \in DOMAIN tree /\ it \in DOMAIN table /\ it \notin all_coreqcaches
  <2>1. todo # {} => category \in todo
    BY <1>1, InDirectory DEF Directory
  <2>2. QED
    BY <1>1, <2>1 DEF Base, Control, Types, Directory
<1>4. ASSUME ~ (have_onetime_info \/ cache.method = "metadata"),
             NEW i \in Caches, NEW k \in DOMAIN Source(i), NEW j \in DOMAIN Contents(i, k),
             Owes(package.category, package.name, i, k, j), Has(pkg, i, k, j)
      PROVE  FALSE
  <2>1. PICK a \in DOMAIN pkg.versions : pkg.versions[a].from = <<i, k, j>>
    BY <1>4 DEF Has
  <2>2. i = it
    BY <1>1, <1>4, <2>1 DEF Data, Flag
  <2>3. cache.method = "parse"
    <3>1. IsCache(cache) /\ cache.method # "coreq"
      BY <1>3, UpdateAssumption DEF Base, Types, cache, table, all_coreqcaches
    <3>2. QED
      BY <1>4, <3>1 DEF IsCache
  <2>4. cache.try_parse
    BY <1>4, <2>2, <2>3 DEF Owes, Owed, cache
  <2>5. pkg.versions # <<>>
    BY <2>1
  <2>6. QED
    BY <1>1, <1>4, <2>3, <2>4, <2>5 DEF Data, Flag
<1>5. QED
  <2>1. CASE have_onetime_info \/ cache.method = "metadata"
    BY <1>1, <1>2, <1>3, <2>1, DataEnds DEF InProgress
  <2>2. CASE ~ (have_onetime_info \/ cache.method = "metadata")
    BY <1>1, <1>2, <1>3, <1>4, <2>2, DataEnds DEF InProgress
  <2>3. QED
    BY <2>1, <2>2

-------------------------------------------------------------------------------
(* The inductive invariant *)

LEMMA InitIInv ==
  ASSUME Init
  PROVE  IInv
<1>1. /\ setup \in Setups /\ IsSequence(table) /\ Garbage \subseteq Keys /\ Enabled \subseteq Nat
  BY UpdateAssumption DEF Init, table
<1>2. Types
  <2>1. key \in [DOMAIN table -> Keys]
    BY <1>1 DEF Init
  <2>2. DOMAIN tree = Enabled /\ todo = {}
    BY DEF Init
  <2>3. it \in 1..Len(table) + 1 /\ overlays < it /\ overlays \in Nat
    BY <1>1 DEF Init, IsSequence
  <2>4. /\ excluded = {} /\ slavemode = {} /\ err_msg = {} /\ at = 0 /\ file = 0
        /\ have_onetime_info = FALSE /\ pc = "initialize"
    BY DEF Init
  <2>5. QED
    BY <1>1, <2>1, <2>2, <2>3, <2>4 DEF Types
<1>3. Control
  BY DEF Init, Control, CoreqLoop, Directory
<1>4. Masters /\ Errors
  BY DEF Init, Masters, Errors, Begun
<1>5. Packages
  <2>1. \A c \in DOMAIN tree : tree[c] = << >> /\ DOMAIN << >> = {}
    BY DEF Init
  <2>2. QED
    BY <2>1 DEF Init, Packages, InProgress
<1>6. Flag /\ Complete
  BY DEF Init, Flag, Complete, Read
<1>7. QED
  BY <1>2, <1>3, <1>4, <1>5, <1>6 DEF IInv

LEMMA NextIInv ==
  ASSUME IInv, [Next]_vars
  PROVE  IInv'
<1>1. Base /\ Data
  BY DEF IInv, Base, Data
<1>2. SUFFICES Base' /\ Data'
  BY DEF IInv, Base, Data
<1>3. CASE initialize
  BY <1>1, <1>3, InitializeBase, IdleData
<1>4. CASE initialized
  BY <1>1, <1>4, InitializedBase, IdleData
<1>5. CASE erased
  BY <1>1, <1>5, ErasedBase, IdleData
<1>6. CASE coreq_slave
  BY <1>1, <1>6, SlaveBase, IdleData
<1>7. CASE coreq_open_fail
  BY <1>1, <1>7, OpenFailBase, IdleData
<1>8. CASE coreq_open
  BY <1>1, <1>8, OpenBase, IdleData
<1>9. CASE coreq_package
  BY <1>1, <1>9, PackageBase, PackageData
<1>10. CASE coreq_read
  BY <1>1, <1>10, ReadBase, IdleData
<1>11. CASE get_package
  BY <1>1, <1>11, GetPackageBase, GetPackageData
<1>12. CASE coreq_version
  BY <1>1, <1>12, VersionBase, VersionData
<1>13. CASE coreq_end_package
  BY <1>1, <1>13, EndPackageBase, EndPackageData
<1>14. CASE coreq_error
  BY <1>1, <1>14, ErrorBase, IdleData
<1>15. CASE coreq_end
  BY <1>1, <1>15, EndBase, IdleData
<1>16. CASE begin_categories
  BY <1>1, <1>16, BeginCategoriesBase, IdleData
<1>17. CASE end_category
  BY <1>1, <1>17, EndCategoryBase, IdleData
<1>18. CASE end_categories
  BY <1>1, <1>18, EndCategoriesBase, IdleData
<1>19. CASE begin_package
  BY <1>1, <1>19, BeginPackageBase, BeginPackageData
<1>20. CASE bad_file
  BY <1>1, <1>20, BadFile
<1>21. CASE parse_file
  BY <1>1, <1>21, ParseFile
<1>22. CASE exec_file
  BY <1>1, <1>22, ExecFile
<1>23. CASE metadata_file
  BY <1>1, <1>23, MetadataFile
<1>24. CASE end_package
  BY <1>1, <1>24, EndFilesBase, EndFilesData
<1>25. CASE UNCHANGED vars
  <2>1. UNCHANGED <<setup, key, overlays, excluded, slavemode, err_msg, tree, it, at, dest_cat, todo,
                    pkg, file, have_onetime_info, reported, executed, pc>>
    BY <1>25 DEF vars, given, coreq, current
  <2>2. /\ table' = table /\ Caches' = Caches /\ all_coreqcaches' = all_coreqcaches
        /\ slaves' = slaves /\ source' = source /\ package' = package /\ cache' = cache
        /\ slave' = slave /\ category' = category
        /\ \A i : get_overlaydat(i)' <=> get_overlaydat(i)
    BY <2>1, SameSources DEF slaves, cache, source, package, slave, category, get_overlaydat, cachefile,
      Source, table
  <2>3. masters' = masters /\ (\A i, j : SameFile(i, j)' <=> SameFile(i, j))
        /\ (\A i : Begun(i)' <=> Begun(i)) /\ Excused' = Excused
    BY <2>1, <2>2 DEF masters, SameFile, Begun, Excused
  <2>4. Base'
    <3>1. Types'
      BY <1>1, <2>1, <2>2 DEF Base, Types
    <3>2. Control'
      BY <1>1, <2>1, <2>2 DEF Base, Control
    <3>3. Masters' /\ Errors'
      BY <1>1, <2>1, <2>2, <2>3 DEF Base, Masters, Errors
    <3>4. QED
      BY <3>1, <3>2, <3>3 DEF Base
  <2>5. \A i, k, j : Read(i, k, j)' <=> Read(i, k, j)
    BY <2>1, <2>2, <2>3, SameSources DEF Read, Finished, FromCachefile, FromDirectory
  <2>6. Grows /\ Reads(Nothing)
    BY <2>3, <2>5 DEF Grows, Reads
  <2>7. CASE InProgress
    <3>1. \A i, k, j : <<i, k, j>> # Nothing
      BY DEF Nothing
    <3>2. QED
      BY <1>1, <2>1, <2>2, <2>4, <2>6, <2>7, <3>1, DataSkips
  <2>8. CASE ~ InProgress
    <3>1. ~ InProgress'
      BY <2>1, <2>8 DEF InProgress
    <3>2. QED
      BY <1>1, <2>1, <2>4, <2>6, <2>8, <3>1, DataStays
  <2>9. QED
    BY <2>7, <2>8
<1>26. QED
  BY <1>3, <1>4, <1>5, <1>6, <1>7, <1>8, <1>9, <1>10, <1>11, <1>12, <1>13, <1>14, <1>15, <1>16, <1>17,
    <1>18, <1>19, <1>20, <1>21, <1>22, <1>23, <1>24, <1>25 DEF Next

(* Whatever the cache table, the cachefiles and the directories are, and
   whenever a cachefile cannot be read on: a cachefile is read by one master;
   what was read and asked for is in the tree or in the package that is read
   now, if no error was kept or printed for its overlay; and the tree has only
   what was read. *)
THEOREM UpdateInvariant == Spec => []IInv
<1>1. Init => IInv
  BY InitIInv
<1>2. IInv /\ [Next]_vars => IInv'
  BY NextIInv
<1>3. QED
  BY <1>1, <1>2, PTL DEF Spec

(* No version gets into the tree twice, of none but the overlays that were
   asked for, and of an excluded overlay only if it shares its cachefile. *)
THEOREM VersionsAreAddedOnce == Spec => []AddedOnce
<1>1. IInv => AddedOnce
  <2>1. SUFFICES ASSUME IInv, NEW c \in DOMAIN tree, NEW n \in DOMAIN tree[c]
        PROVE  LET s == tree[c][n].versions IN
               /\ \A a, b \in DOMAIN s : a # b => s[a].from # s[b].from
               /\ \A a \in DOMAIN s :
                    LET i == s[a].from[1] IN
                    /\ ComesFrom(c, n, s[a], i, s[a].from[2], s[a].from[3])
                    /\ i \in excluded => Shared(i)
    BY DEF AddedOnce
  <2>2. Genuine(c, n, tree[c][n])
    BY <2>1 DEF IInv, Packages
  <2>3. ASSUME NEW i, NEW k, NEW j, Wanted(i, k, j), Read(i, k, j), i \in excluded
        PROVE  Shared(i)
    <3>1. i \in Caches /\ Base
      BY <2>1, <2>3 DEF Wanted, IsVersion, IInv, Base
    <3>2. ASSUME NEW m \in all_coreqcaches \ excluded, SameFile(m, i), i \in all_coreqcaches
          PROVE  Shared(i)
      BY <2>3, <3>2 DEF Shared, SameFile, all_coreqcaches, Caches
    <3>3. CASE Finished(i)
      BY <2>3, <3>2, <3>3 DEF Finished, masters
    <3>4. CASE i \in all_coreqcaches /\ FromCachefile(i, k, j)
      <4>1. pc \in CoreqLoop /\ i \in slaves
        BY <3>4 DEF FromCachefile
      <4>2. it \in all_coreqcaches \ excluded
        BY <3>1, <4>1, InCachefile
      <4>3. SameFile(it, i)
        BY <4>1 DEF slaves, SameFile, cache
      <4>4. QED
        BY <3>2, <3>4, <4>2, <4>3
    <3>5. CASE FromDirectory(i, k, j)
      BY <2>3, <3>1, <3>5, InDirectory DEF FromDirectory
    <3>6. QED
      BY <2>3, <3>3, <3>4, <3>5 DEF Read
  <2>4. QED
    BY <2>2, <2>3 DEF Genuine, ComesFrom
<1>2. QED
  BY <1>1, UpdateInvariant, PTL

(* At the end, the tree has every version that an overlay should give to a known
   category, unless an error was printed for the overlay. *)
THEOREM NothingIsLost == Spec => []NothingLost
<1>1. IInv => NothingLost
  <2>1. SUFFICES ASSUME IInv, Done, NEW i \in Caches \ (excluded \cup reported),
                        NEW k \in DOMAIN Source(i), NEW j \in DOMAIN Contents(i, k),
                        Wanted(i, k, j), Source(i)[k].category \in Enabled,
                        table[i].method = "parse" => table[i].try_parse
        PROVE  Has(findPackage(Source(i)[k].category, Source(i)[k].name), i, k, j)
    BY DEF NothingLost, Has
  <2>2. IsSequence(table) /\ pc = "cache" /\ it > Len(table) /\ it \in Nat
    BY <2>1, UpdateAssumption DEF IInv, Types, table, Done, IsSequence
  <2>3. \A m \in Caches : m < it /\ Begun(m)
    BY <2>2 DEF Begun, Caches, IsSequence
  <2>4. i \notin Excused
    BY <2>1, <2>3 DEF IInv, Errors, Excused
  <2>5. Finished(i)
    <3>1. CASE i \in slavemode
      <4>1. PICK m \in masters : SameFile(m, i)
        BY <2>1, <3>1 DEF IInv, Masters
      <4>2. m \in Caches /\ i \in all_coreqcaches
        BY <2>1, <3>1 DEF masters, all_coreqcaches, Caches, IInv, Types
      <4>3. QED
        BY <2>3, <4>1, <4>2 DEF Finished
    <3>2. CASE i \in all_coreqcaches \ slavemode
      <4>1. i \in masters /\ SameFile(i, i)
        BY <2>1, <3>2 DEF masters, SameFile
      <4>2. QED
        BY <2>3, <3>2, <4>1 DEF Finished
    <3>3. CASE i \notin all_coreqcaches
      BY <2>1, <2>3, <3>3 DEF Finished
    <3>4. QED
      BY <3>1, <3>2, <3>3
  <2>6. Read(i, k, j) /\ Owed(i, k, j)
    BY <2>1, <2>2, <2>5 DEF Read, Owed
  <2>7. Has(Current(Source(i)[k].category, Source(i)[k].name), i, k, j)
    BY <2>1, <2>4, <2>6 DEF IInv, Complete
  <2>8. ~ InProgress
    BY <2>2 DEF InProgress
  <2>9. QED
    BY <2>7, <2>8 DEF Current
<1>2. QED
  BY <1>1, UpdateInvariant, PTL

(* The description of a package is always the one of its latest version, unless
   one of its ebuilds was executed. *)
THEOREM LatestVersionDescribes == Spec => []LatestDescribes
<1>1. IInv => LatestDescribes
  BY DEF IInv, Packages, Described, LatestDescribes
<1>2. QED
  BY <1>1, UpdateInvariant, PTL

================================================================================
