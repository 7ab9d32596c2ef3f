------------------------- MODULE PackageVersionsProofs -------------------------
(***************************************************************************)
(* Theorems about PackageVersions, for any versions, overlays, priorities  *)
(* and masks, and any number of additions.                                 *)
(*                                                                         *)
(* The first part, on the order of versions and insertion into the sorted  *)
(* list, concerns the definitions of ExtendedVersion alone; UpdateProofs   *)
(* begins with it too, since the two modules cannot extend each other.     *)
(***************************************************************************)
EXTENDS PackageVersions, WellFoundedInduction, TLAPS

-------------------------------------------------------------------------------
(* Least elements *)

Smaller == {p \in Nat \X Nat : p[1] < p[2]}

(* The order of the natural numbers has no infinite descent. *)
LEMMA SmallerIsWellFounded == IsWellFoundedOn(Smaller, Nat)
BY NatLessThanWellFounded DEF OpToRel, Smaller

(* The index that Place takes exists: a set of natural numbers that is not
   empty has a minimum. *)
LEMMA LeastNatural ==
  ASSUME NEW T, T \subseteq Nat, T # {}
  PROVE  \E m \in T : \A n \in T : m <= n
<1>1. PICK m \in T : \A n \in Nat : <<n, m>> \in Smaller => n \notin T
  BY SmallerIsWellFounded, WFMin
<1>2. \A n \in T : ~(n < m)
  BY <1>1 DEF Smaller
<1>3. QED
  BY <1>2

(* Min is that minimum. *)
LEMMA MinIsLeast ==
  ASSUME NEW T, T \subseteq Nat, T # {}
  PROVE  Min(T) \in T /\ \A n \in T : Min(T) <= n
<1>1. \E m \in T : \A n \in T : m <= n
  BY LeastNatural
<1>2. QED
  BY <1>1 DEF Min

-------------------------------------------------------------------------------
(* The order of versions *)

(* A set of versions, whatever else is known of them. *)
AreVersions(S) == \A v \in S : v.ver \in Int /\ v.key \in Keys

(* The order of two versions with numbers v and w, priorities p and q, and keys
   k and l is lexicographic. *)
Lexicographic(v, p, k, w, q, l) == v < w \/ (v = w /\ (p < q \/ (p = q /\ k < l)))

(* Less compares the BasicVersion, then the priority of the overlay, then its key. *)
LEMMA LessIsLexicographic ==
  ASSUME NEW S, AreVersions(S), NEW v \in S, NEW w \in S
  PROVE  /\ v.ver \in Int /\ w.ver \in Int /\ v.key \in Nat /\ w.key \in Nat
         /\ priority[v.key] \in Int /\ priority[w.key] \in Int
         /\ Less(v, w) <=> Lexicographic(v.ver, priority[v.key], v.key, w.ver, priority[w.key], w.key)
<1>1. v.key \in Keys /\ w.key \in Keys /\ v.ver \in Int /\ w.ver \in Int /\ v.key \in Nat /\ w.key \in Nat
  BY ExtendedVersionAssumption DEF AreVersions
<1>2. priority[v.key] \in Int /\ priority[w.key] \in Int
  BY <1>1, ExtendedVersionAssumption
<1>3. v.key = w.key => priority[v.key] = priority[w.key]
  OBVIOUS
<1>4. QED
  BY <1>1, <1>2, <1>3 DEF Less, Lexicographic

(* No version is smaller than itself. *)
LEMMA LessIrreflexive ==
  ASSUME NEW S, AreVersions(S), NEW v \in S
  PROVE  ~ Less(v, v)
<1>1. v.ver \in Int
  BY DEF AreVersions
<1>2. QED
  BY <1>1 DEF Less

(* The order of versions is transitive. *)
LEMMA LessTransitive ==
  ASSUME NEW S, AreVersions(S), NEW u \in S, NEW v \in S, NEW w \in S, Less(u, v), Less(v, w)
  PROVE  Less(u, w)
<1>1. /\ u.ver \in Int /\ v.ver \in Int /\ w.ver \in Int
      /\ u.key \in Nat /\ v.key \in Nat /\ w.key \in Nat
      /\ priority[u.key] \in Int /\ priority[v.key] \in Int /\ priority[w.key] \in Int
  BY LessIsLexicographic
<1>2. /\ Lexicographic(u.ver, priority[u.key], u.key, v.ver, priority[v.key], v.key)
      /\ Lexicographic(v.ver, priority[v.key], v.key, w.ver, priority[w.key], w.key)
  BY LessIsLexicographic
<1>3. Lexicographic(u.ver, priority[u.key], u.key, w.ver, priority[w.key], w.key)
  BY <1>1, <1>2 DEF Lexicographic
<1>4. QED
  BY <1>3, LessIsLexicographic

-------------------------------------------------------------------------------
(* Insertion into the list *)

(* The place of each element of s in the list with one more at p. *)
Moved(i, p) == IF i < p THEN i ELSE i + 1

(* The elements of a concatenation. *)
LEMMA ConcatElements ==
  ASSUME NEW S, NEW a \in Seq(S), NEW b \in Seq(S)
  PROVE  /\ a \o b \in Seq(S) /\ Len(a) \in Nat /\ Len(b) \in Nat /\ Len(a \o b) = Len(a) + Len(b)
         /\ \A i \in 1..(Len(a) + Len(b)) : (a \o b)[i] = IF i <= Len(a) THEN a[i] ELSE b[i - Len(a)]
OBVIOUS

(* The list with one version more has that version at its place and all others in their order. *)
LEMMA InsertAtIs ==
  ASSUME NEW S, NEW s \in Seq(S), NEW v \in S, NEW p \in 1..Len(s) + 1
  PROVE  /\ InsertAt(s, p, v) \in Seq(S)
         /\ Len(InsertAt(s, p, v)) = Len(s) + 1
         /\ InsertAt(s, p, v)[p] = v
         /\ \A i \in 1..Len(s) : InsertAt(s, p, v)[Moved(i, p)] = s[i]
         /\ \A i \in 1..Len(s) : Moved(i, p) \in 1..Len(s) + 1 \ {p}
         /\ \A j \in 1..Len(s) + 1 : j = p \/ \E i \in 1..Len(s) : j = Moved(i, p)
<1> DEFINE front == SubSeq(s, 1, p - 1)
           back == SubSeq(s, p, Len(s))
<1>1. front \in Seq(S) /\ Len(front) = p - 1 /\ \A i \in 1..p - 1 : front[i] = s[i]
  OBVIOUS
<1>2. /\ back \in Seq(S) /\ Len(back) = Len(s) + 1 - p
      /\ \A i \in 1..Len(s) + 1 - p : back[i] = s[p + i - 1]
  OBVIOUS
<1> DEFINE head == front \o <<v>>
<1>3. /\ head \in Seq(S) /\ Len(head) = p
      /\ head[p] = v /\ \A i \in 1..p - 1 : head[i] = s[i]
  BY <1>1
<1> HIDE DEF front, back, head
<1> DEFINE whole == head \o back
<1>4. /\ whole \in Seq(S) /\ Len(whole) = Len(head) + Len(back)
      /\ \A i \in 1..Len(head) + Len(back) :
           whole[i] = IF i <= Len(head) THEN head[i] ELSE back[i - Len(head)]
  BY ONLY <1>2, <1>3, ConcatElements
<1>5. Len(whole) = Len(s) + 1 /\ whole[p] = v
  <2>1. Len(whole) = Len(s) + 1
    <3>1. Len(s) \in Nat /\ p \in Int
      OBVIOUS
    <3>2. Len(whole) = p + (Len(s) + 1 - p)
      BY <1>2, <1>3, <1>4
    <3>3. QED
      BY ONLY <3>1, <3>2
  <2>2. p \in 1..Len(head) + Len(back) /\ p <= Len(head)
    BY <1>2, <1>3
  <2>3. whole[p] = head[p]
    BY <1>4, <2>2
  <2>4. QED
    BY <1>3, <2>1, <2>3
<1>6. ASSUME NEW i \in 1..Len(s), i < p PROVE whole[i] = s[i]
  BY <1>2, <1>3, <1>4, <1>6
<1>7. ASSUME NEW i \in 1..Len(s), ~(i < p) PROVE whole[i + 1] = s[i]
  <2>1. i + 1 - p \in 1..Len(s) + 1 - p /\ ~(i + 1 <= Len(head)) /\ i + 1 \in 1..Len(head) + Len(back)
    BY <1>2, <1>3, <1>7
  <2>2. whole[i + 1] = back[i + 1 - p]
    BY <1>3, <1>4, <2>1
  <2>3. back[i + 1 - p] = s[p + (i + 1 - p) - 1]
    BY <1>2, <2>1
  <2>4. QED
    BY <2>2, <2>3
<1>8. InsertAt(s, p, v) = whole
  BY DEF InsertAt, head, front, back
<1>9. /\ \A i \in 1..Len(s) : Moved(i, p) \in 1..Len(s) + 1 \ {p}
      /\ \A j \in 1..Len(s) + 1 : j = p \/ \E i \in 1..Len(s) : j = Moved(i, p)
  <2>1. ASSUME NEW j \in 1..Len(s) + 1, j # p PROVE \E i \in 1..Len(s) : j = Moved(i, p)
    <3>1. CASE j < p
      BY <3>1 DEF Moved
    <3>2. CASE p < j
      <4>1. j - 1 \in 1..Len(s) /\ j = Moved(j - 1, p)
        BY <3>2 DEF Moved
      <4>2. QED
        BY <4>1
    <3>3. QED
      BY <2>1, <3>1, <3>2
  <2>2. QED
    BY <2>1 DEF Moved
<1>10. QED
  BY <1>4, <1>5, <1>6, <1>7, <1>8, <1>9 DEF Moved

-------------------------------------------------------------------------------
(* The place of a version *)

Sorted(s) == \A i, j \in DOMAIN s : i < j => ~ Less(s[j], s[i])

LEMMA PlaceIs ==
  ASSUME NEW S, AreVersions(S), NEW s \in Seq(S), NEW v \in S
  PROVE  /\ Place(s, v) \in 1..Len(s) + 1
         /\ \A i \in 1..Len(s) : i < Place(s, v) => ~ Less(v, s[i])
         /\ Place(s, v) <= Len(s) => Less(v, s[Place(s, v)])
<1> DEFINE larger == {i \in DOMAIN s : Less(v, s[i])}
<1>1. CASE larger = {}
  BY <1>1 DEF Place
<1>2. CASE larger # {}
  <2>1. larger \subseteq Nat
    OBVIOUS
  <2>2. Min(larger) \in larger /\ \A i \in larger : Min(larger) <= i
    BY <1>2, <2>1, MinIsLeast
  <2>3. Place(s, v) = Min(larger)
    BY <1>2 DEF Place
  <2>4. /\ Place(s, v) \in 1..Len(s) /\ Less(v, s[Place(s, v)])
        /\ \A i \in 1..Len(s) : Less(v, s[i]) => Place(s, v) <= i
    BY <2>2, <2>3
  <2>5. QED
    BY <2>4
<1>3. QED
  BY <1>1, <1>2

LEMMA InsertedIsSorted ==
  ASSUME NEW S, AreVersions(S), NEW s \in Seq(S), Sorted(s), NEW v \in S
  PROVE  Sorted(Inserted(s, v))
<1> DEFINE p == Place(s, v)
           t == InsertAt(s, p, v)
<1>1. /\ p \in 1..Len(s) + 1
      /\ \A i \in 1..Len(s) : i < p => ~ Less(v, s[i])
      /\ p <= Len(s) => Less(v, s[p])
  BY PlaceIs
<1> HIDE DEF p
<1>2. /\ t \in Seq(S) /\ Len(t) = Len(s) + 1 /\ t[p] = v
      /\ \A i \in 1..Len(s) : t[Moved(i, p)] = s[i]
      /\ \A j \in 1..Len(s) + 1 : j = p \/ \E i \in 1..Len(s) : j = Moved(i, p)
  BY <1>1, InsertAtIs
<1> HIDE DEF t
<1>3. ASSUME NEW i \in 1..Len(s), p <= i PROVE ~ Less(s[i], v)
  <2>1. p \in 1..Len(s) /\ s[i] \in S /\ s[p] \in S /\ Less(v, s[p])
    BY <1>1, <1>3
  <2>2. ~ Less(s[p], s[p])
    BY <2>1, LessIrreflexive
  <2>3. ~ Less(s[i], s[p])
    BY <1>3, <2>1, <2>2 DEF Sorted
  <2>4. QED
    BY <2>1, <2>3, LessTransitive
<1>4. SUFFICES ASSUME NEW a \in 1..Len(s) + 1, NEW b \in 1..Len(s) + 1, a < b PROVE ~ Less(t[b], t[a])
  BY <1>2 DEF Sorted, Inserted, t, p
<1>5. CASE a = p
  <2>1. PICK i \in 1..Len(s) : b = Moved(i, p)
    BY <1>2, <1>4, <1>5
  <2>2. p <= i
    BY <1>1, <1>4, <1>5, <2>1 DEF Moved
  <2>3. t[b] = s[i] /\ t[a] = v
    BY <1>2, <1>5, <2>1
  <2>4. QED
    BY <1>3, <2>2, <2>3
<1>6. CASE b = p
  <2>1. PICK i \in 1..Len(s) : a = Moved(i, p)
    BY <1>2, <1>4, <1>6
  <2>2. i < p
    BY <1>1, <1>4, <1>6, <2>1 DEF Moved
  <2>3. t[a] = s[i] /\ t[b] = v
    BY <1>2, <1>6, <2>1
  <2>4. QED
    BY <1>1, <2>2, <2>3
<1>7. CASE a # p /\ b # p
  <2>1. PICK i \in 1..Len(s), j \in 1..Len(s) : a = Moved(i, p) /\ b = Moved(j, p)
    BY <1>2, <1>7
  <2>2. i < j
    BY <1>1, <1>4, <2>1 DEF Moved
  <2>3. QED
    BY <1>2, <2>1, <2>2, SMTT(30), ZenonT(30) DEF Sorted
<1>8. QED
  BY <1>5, <1>6, <1>7

LEMMA VersionsAreVersions == AreVersions(Version)
BY PackageVersionsAssumption DEF AreVersions, Version

-------------------------------------------------------------------------------
(* The invariant *)

Elements(s) == {s[i] : i \in DOMAIN s}

Others(s, i) == {s[k] : k \in DOMAIN s \ {i}}

Dup(s) == \E i, j \in DOMAIN s : i # j /\ SameBasic(s[i], s[j])

DupOverlays(s) ==
  \E i, j \in DOMAIN s : i # j /\ SameBasic(s[i], s[j]) /\ s[i].key # 0 /\ s[j].key # 0

(* The summary of the versions V: the largest key, the flags and the masks. *)
SummaryOf(V, largest, collects, locals) ==
  /\ \E v \in V : v.key = largest
  /\ \A v \in V : v.key <= largest
  /\ "SAME_OVERLAY_KEY" \in collects <=> \A v, w \in V : v.key = w.key
  /\ "AT_LEAST_TWO_OVERLAYS" \in collects <=>
       \E v, w \in V : v.key # w.key /\ v.key # 0 /\ w.key # 0
  /\ "MAIN_REPO_KEY" \in collects => \E v \in V : v.key = 0
  /\ "NONTRIVIAL_SLOTS" \in collects <=> \E v \in V : v.slot
  /\ \A v \in V : v.mask \subseteq locals
  /\ \A x \in locals : \E v \in V : x \in v.mask

Types ==
  /\ versions \in Seq(Version)
  /\ largest_overlay \in Keys
  /\ started \in Version \cup {NULLPTR}

DuplicatesInv ==
  /\ have_duplicate_versions \in {DUP_NONE, DUP_SOME, DUP_OVERLAYS}
  /\ have_duplicate_versions # DUP_NONE <=> Dup(versions)
  /\ have_duplicate_versions = DUP_OVERLAYS <=> DupOverlays(versions)

(* While a version is being added the summary is that of the others. *)
SummaryInv ==
  /\ started = NULLPTR /\ versions # <<>> =>
       SummaryOf(Elements(versions), largest_overlay, version_collects, local_collects)
  /\ started # NULLPTR =>
       \E i \in DOMAIN versions :
         /\ versions[i] = started
         /\ Len(versions) # 1 =>
              SummaryOf(Others(versions, i), largest_overlay, version_collects, local_collects)

IInv ==
  /\ Types
  /\ Sorted(versions)
  /\ DuplicatesInv
  /\ SummaryInv

LEMMA NullIsNoVersion ==
  ASSUME NEW v \in Version
  PROVE  v # NULLPTR
<1>1. DOMAIN v = {"ver", "key", "slot", "mask"}
  BY DEF Version
<1>2. DOMAIN NULLPTR = {"null"}
  BY DEF NULLPTR
<1>3. "ver" \notin {"null"}
  OBVIOUS
<1>4. QED
  BY <1>1, <1>2, <1>3

LEMMA InitEstablishes == Init => IInv
<1>1. SUFFICES ASSUME Init PROVE IInv
  OBVIOUS
<1>2. versions = <<>> /\ DOMAIN versions = {}
  BY <1>1 DEF Init
<1>3. Types
  BY <1>1 DEF Init, Types
<1>4. Sorted(versions)
  BY <1>2 DEF Sorted
<1>5. DuplicatesInv
  BY <1>1, <1>2 DEF Init, DuplicatesInv, Dup, DupOverlays, DUP_NONE, DUP_SOME, DUP_OVERLAYS
<1>6. SummaryInv
  BY <1>1 DEF Init, SummaryInv
<1>7. QED
  BY <1>3, <1>4, <1>5, <1>6 DEF IInv

(* What the insertion of v at p does to the equal pairs. *)
LEMMA InsertedDuplicates ==
  ASSUME NEW s \in Seq(Version), NEW v \in Version, NEW p \in 1..Len(s) + 1
  PROVE  /\ Dup(InsertAt(s, p, v)) <=> Dup(s) \/ \E i \in DOMAIN s : SameBasic(s[i], v)
         /\ DupOverlays(InsertAt(s, p, v)) <=>
              \/ DupOverlays(s)
              \/ v.key # 0 /\ \E i \in DOMAIN s : SameBasic(s[i], v) /\ s[i].key # 0
<1> DEFINE t == InsertAt(s, p, v)
           M(i) == Moved(i, p)
<1>1. /\ t \in Seq(Version) /\ Len(t) = Len(s) + 1 /\ t[p] = v /\ p \in 1..Len(t)
      /\ \A i \in 1..Len(s) : t[M(i)] = s[i]
      /\ \A i \in 1..Len(s) : M(i) \in 1..Len(t) \ {p}
      /\ \A j \in 1..Len(t) : j = p \/ \E i \in 1..Len(s) : j = M(i)
  BY InsertAtIs
<1>2. \A i, j \in 1..Len(s) : i # j => M(i) # M(j)
  BY DEF Moved
<1> HIDE DEF t, M
<1>3. DOMAIN t = 1..Len(t) /\ DOMAIN s = 1..Len(s)
  BY <1>1
<1>4. Dup(t) => Dup(s) \/ \E i \in DOMAIN s : SameBasic(s[i], v)
  <2>1. SUFFICES ASSUME NEW a \in 1..Len(t), NEW b \in 1..Len(t), a # b, SameBasic(t[a], t[b])
                 PROVE  Dup(s) \/ \E i \in DOMAIN s : SameBasic(s[i], v)
    BY <1>3 DEF Dup
  <2>2. CASE a = p
    BY <1>1, <1>3, <2>1, <2>2, SMTT(30), ZenonT(30) DEF SameBasic
  <2>3. CASE b = p
    BY <1>1, <1>3, <2>1, <2>3 DEF SameBasic
  <2>4. CASE a # p /\ b # p
    <3>1. PICK i \in 1..Len(s), j \in 1..Len(s) : a = M(i) /\ b = M(j)
      BY <1>1, <2>4
    <3>2. QED
      BY <1>1, <1>3, <2>1, <3>1 DEF Dup
  <2>5. QED
    BY <2>2, <2>3, <2>4
<1>5. Dup(s) \/ (\E i \in DOMAIN s : SameBasic(s[i], v)) => Dup(t)
  <2>1. ASSUME Dup(s) PROVE Dup(t)
    <3>1. PICK i \in 1..Len(s), j \in 1..Len(s) : i # j /\ SameBasic(s[i], s[j])
      BY <1>3, <2>1 DEF Dup
    <3>2. M(i) \in DOMAIN t /\ M(j) \in DOMAIN t /\ M(i) # M(j) /\ t[M(i)] = s[i] /\ t[M(j)] = s[j]
      BY <1>1, <1>2, <1>3, <3>1
    <3>3. QED
      BY <3>1, <3>2 DEF Dup
  <2>2. ASSUME NEW i \in DOMAIN s, SameBasic(s[i], v) PROVE Dup(t)
    <3>1. M(i) \in DOMAIN t /\ p \in DOMAIN t /\ M(i) # p /\ t[M(i)] = s[i] /\ t[p] = v
      BY <1>1, <1>3
    <3>2. QED
      BY <2>2, <3>1 DEF Dup
  <2>3. QED
    BY <2>1, <2>2
<1>6. DupOverlays(t) => \/ DupOverlays(s)
                        \/ v.key # 0 /\ \E i \in DOMAIN s : SameBasic(s[i], v) /\ s[i].key # 0
  <2>1. SUFFICES ASSUME NEW a \in 1..Len(t), NEW b \in 1..Len(t), a # b, SameBasic(t[a], t[b]),
                        t[a].key # 0, t[b].key # 0
                 PROVE  \/ DupOverlays(s)
                        \/ v.key # 0 /\ \E i \in DOMAIN s : SameBasic(s[i], v) /\ s[i].key # 0
    BY <1>3 DEF DupOverlays
  <2>2. CASE a = p
    BY <1>1, <1>3, <2>1, <2>2 DEF SameBasic
  <2>3. CASE b = p
    BY <1>1, <1>3, <2>1, <2>3 DEF SameBasic
  <2>4. CASE a # p /\ b # p
    <3>1. PICK i \in 1..Len(s), j \in 1..Len(s) : a = M(i) /\ b = M(j)
      BY <1>1, <2>4
    <3>2. i # j /\ t[a] = s[i] /\ t[b] = s[j] /\ i \in DOMAIN s /\ j \in DOMAIN s
      BY <1>1, <1>3, <2>1, <3>1
    <3>3. QED
      BY <2>1, <3>2 DEF DupOverlays
  <2>5. QED
    BY <2>2, <2>3, <2>4
<1>7. \/ DupOverlays(s)
      \/ v.key # 0 /\ \E i \in DOMAIN s : SameBasic(s[i], v) /\ s[i].key # 0
      => DupOverlays(t)
  <2>1. ASSUME DupOverlays(s) PROVE DupOverlays(t)
    <3>1. PICK i \in 1..Len(s), j \in 1..Len(s) :
            i # j /\ SameBasic(s[i], s[j]) /\ s[i].key # 0 /\ s[j].key # 0
      BY <1>3, <2>1 DEF DupOverlays
    <3>2. M(i) \in DOMAIN t /\ M(j) \in DOMAIN t /\ M(i) # M(j) /\ t[M(i)] = s[i] /\ t[M(j)] = s[j]
      BY <1>1, <1>2, <1>3, <3>1
    <3>3. QED
      BY <3>1, <3>2 DEF DupOverlays
  <2>2. ASSUME v.key # 0, NEW i \in DOMAIN s, SameBasic(s[i], v), s[i].key # 0 PROVE DupOverlays(t)
    <3>1. M(i) \in DOMAIN t /\ p \in DOMAIN t /\ M(i) # p /\ t[M(i)] = s[i] /\ t[p] = v
      BY <1>1, <1>3
    <3>2. QED
      BY <2>2, <3>1 DEF DupOverlays
  <2>3. QED
    BY <2>1, <2>2
<1>8. QED
  BY <1>4, <1>5, <1>6, <1>7 DEF t

LEMMA InsertedElements ==
  ASSUME NEW s \in Seq(Version), NEW v \in Version, NEW p \in 1..Len(s) + 1
  PROVE  /\ Others(InsertAt(s, p, v), p) = Elements(s)
         /\ Elements(InsertAt(s, p, v)) = Elements(s) \cup {v}
<1> DEFINE t == InsertAt(s, p, v)
           M(i) == Moved(i, p)
<1>1. /\ t \in Seq(Version) /\ Len(t) = Len(s) + 1 /\ t[p] = v /\ p \in 1..Len(t)
      /\ \A i \in 1..Len(s) : t[M(i)] = s[i]
      /\ \A i \in 1..Len(s) : M(i) \in 1..Len(t) \ {p}
      /\ \A j \in 1..Len(t) : j = p \/ \E i \in 1..Len(s) : j = M(i)
  BY InsertAtIs
<1> HIDE DEF t, M
<1>2. DOMAIN t = 1..Len(t) /\ DOMAIN s = 1..Len(s)
  BY <1>1
<1>3. ASSUME NEW j \in DOMAIN t \ {p} PROVE t[j] \in Elements(s)
  <2>1. PICK i \in DOMAIN s : j = M(i)
    BY <1>1, <1>2
  <2>2. QED
    BY <1>1, <1>2, <2>1 DEF Elements
<1>4. ASSUME NEW i \in DOMAIN s PROVE s[i] \in Others(t, p)
  <2>1. M(i) \in DOMAIN t \ {p} /\ t[M(i)] = s[i]
    BY <1>1, <1>2
  <2>2. QED
    BY <2>1 DEF Others
<1>5. Others(t, p) = Elements(s)
  BY <1>3, <1>4 DEF Elements, Others
<1>6. Elements(t) = Others(t, p) \cup {v}
  BY <1>1, <1>2 DEF Elements, Others
<1>7. QED
  BY <1>5, <1>6 DEF t

LEMMA StartKeepsInv ==
  ASSUME IInv, NEW v \in Version, addVersionStart(v)
  PROVE  IInv'
<1> DEFINE p == Place(versions, v)
<1>1. versions \in Seq(Version) /\ Sorted(versions)
  BY DEF IInv, Types
<1>2. p \in 1..Len(versions) + 1
  BY <1>1, VersionsAreVersions, PlaceIs
<1>3. /\ versions' = InsertAt(versions, p, v) /\ started = NULLPTR /\ started' = v
      /\ have_duplicate_versions' = Duplicates(v)
      /\ UNCHANGED <<largest_overlay, version_collects, local_collects>>
  BY DEF addVersionStart, Inserted
<1> HIDE DEF p
<1>4. /\ versions' \in Seq(Version) /\ Len(versions') = Len(versions) + 1 /\ versions'[p] = v
      /\ p \in DOMAIN versions'
  BY <1>1, <1>2, <1>3, InsertAtIs
<1>5. Types'
  BY <1>3, <1>4 DEF IInv, Types
<1>6. Sorted(versions)'
  <2>1. Sorted(Inserted(versions, v))
    BY <1>1, VersionsAreVersions, InsertedIsSorted
  <2>2. QED
    BY <1>3, <2>1 DEF p, Inserted, Sorted
<1>7. DuplicatesInv'
  <2>1. /\ Dup(versions') <=> Dup(versions) \/ \E i \in DOMAIN versions : SameBasic(versions[i], v)
        /\ DupOverlays(versions') <=>
             \/ DupOverlays(versions)
             \/ v.key # 0 /\ \E i \in DOMAIN versions : SameBasic(versions[i], v) /\ versions[i].key # 0
    BY <1>1, <1>2, <1>3, InsertedDuplicates
  <2>2. DuplicatesInv
    BY DEF IInv
  <2>3. /\ have_duplicate_versions' \in {DUP_NONE, DUP_SOME, DUP_OVERLAYS}
        /\ have_duplicate_versions' # DUP_NONE <=> Dup(versions')
        /\ have_duplicate_versions' = DUP_OVERLAYS <=> DupOverlays(versions')
    BY <1>3, <2>1, <2>2 DEF DuplicatesInv, Duplicates, DUP_NONE, DUP_SOME, DUP_OVERLAYS
  <2>4. QED
    BY <2>3 DEF DuplicatesInv, Dup, DupOverlays, DUP_NONE, DUP_SOME, DUP_OVERLAYS
<1>8. SummaryInv'
  <2>1. started' # NULLPTR
    BY <1>3, NullIsNoVersion
  <2>2. ASSUME Len(versions') # 1
        PROVE  SummaryOf(Others(versions', p), largest_overlay', version_collects', local_collects')
    <3>1. versions # <<>>
      BY <1>1, <1>4, <2>2
    <3>2. SummaryOf(Elements(versions), largest_overlay, version_collects, local_collects)
      BY <1>3, <3>1 DEF IInv, SummaryInv
    <3>3. Others(versions', p) = Elements(versions)
      BY <1>1, <1>2, <1>3, InsertedElements
    <3>4. QED
      BY <1>3, <3>2, <3>3
  <2>3. \E i \in DOMAIN versions' :
          /\ versions'[i] = started'
          /\ Len(versions') # 1 =>
               SummaryOf(Others(versions', i), largest_overlay', version_collects', local_collects')
    BY <1>3, <1>4, <2>2
  <2>4. QED
    BY <2>1, <2>3 DEF SummaryInv, Others
<1>9. QED
  BY <1>5, <1>6, <1>7, <1>8 DEF IInv

(* What key_collects makes of the largest key and of the flags. *)
LargestWith(largest, v) == IF largest < v.key THEN v.key ELSE largest

CollectsWith(largest, collects, v) ==
  (IF largest = v.key THEN collects
   ELSE (collects \ {"SAME_OVERLAY_KEY"})
          \cup (IF largest # 0 /\ v.key # 0 THEN {"AT_LEAST_TWO_OVERLAYS"} ELSE {}))
  \cup (IF v.key = 0 THEN {"MAIN_REPO_KEY"} ELSE {})
  \cup (IF v.slot THEN {"NONTRIVIAL_SLOTS"} ELSE {})

(* With one more version the summary is that of the larger set of versions. *)
LEMMA SummaryGrows ==
  ASSUME NEW V, V \subseteq Version, NEW v \in Version,
         NEW largest \in Keys, NEW collects, NEW locals,
         SummaryOf(V, largest, collects, locals)
  PROVE  SummaryOf(V \cup {v}, LargestWith(largest, v), CollectsWith(largest, collects, v),
                   locals \cup v.mask)
<1> DEFINE W == V \cup {v}
           largest2 == LargestWith(largest, v)
           collects2 == CollectsWith(largest, collects, v)
<1>1. /\ v.key \in Nat /\ largest \in Nat /\ v.slot \in BOOLEAN
      /\ \A w \in V : w.key \in Nat /\ w.slot \in BOOLEAN
  BY ExtendedVersionAssumption DEF Version
<1>2. \E w \in V : w.key = largest
  BY DEF SummaryOf
<1>3. \A w \in V : w.key <= largest
  BY DEF SummaryOf
<1>4. \E w \in W : w.key = largest2
  BY <1>2 DEF LargestWith
<1>5. \A w \in W : w.key <= largest2
  BY <1>1, <1>3 DEF LargestWith
<1>6. "SAME_OVERLAY_KEY" \in collects2 <=> \A u, w \in W : u.key = w.key
  <2>1. "SAME_OVERLAY_KEY" \in collects <=> \A u, w \in V : u.key = w.key
    BY DEF SummaryOf
  <2>2. "SAME_OVERLAY_KEY" \in collects2 <=> "SAME_OVERLAY_KEY" \in collects /\ largest = v.key
    BY DEF CollectsWith
  <2>3. QED
    BY <1>2, <2>1, <2>2
<1>7. "AT_LEAST_TWO_OVERLAYS" \in collects2 <=>
        \E u, w \in W : u.key # w.key /\ u.key # 0 /\ w.key # 0
  <2>1. "AT_LEAST_TWO_OVERLAYS" \in collects <=>
          \E u, w \in V : u.key # w.key /\ u.key # 0 /\ w.key # 0
    BY DEF SummaryOf
  <2>2. "AT_LEAST_TWO_OVERLAYS" \in collects2 <=>
          \/ "AT_LEAST_TWO_OVERLAYS" \in collects
          \/ largest # v.key /\ largest # 0 /\ v.key # 0
    BY DEF CollectsWith
  <2>3. ASSUME NEW u \in V, u.key # v.key, u.key # 0, v.key # 0
        PROVE  \/ \E x, w \in V : x.key # w.key /\ x.key # 0 /\ w.key # 0
               \/ largest # v.key /\ largest # 0
    <3>1. PICK w \in V : w.key = largest
      BY <1>2
    <3>2. largest # 0
      BY <1>1, <1>3, <2>3
    <3>3. QED
      BY <2>3, <3>1, <3>2
  <2>4. (\E u, w \in W : u.key # w.key /\ u.key # 0 /\ w.key # 0)
          => "AT_LEAST_TWO_OVERLAYS" \in collects2
    <3>1. SUFFICES ASSUME NEW u \in W, NEW w \in W, u.key # w.key, u.key # 0, w.key # 0
                   PROVE  "AT_LEAST_TWO_OVERLAYS" \in collects2
      OBVIOUS
    <3>2. CASE u \in V /\ w \in V
      BY <2>1, <2>2, <3>1, <3>2
    <3>3. CASE u = v /\ w \in V
      BY <2>1, <2>2, <2>3, <3>1, <3>3
    <3>4. CASE w = v /\ u \in V
      BY <2>1, <2>2, <2>3, <3>1, <3>4
    <3>5. QED
      BY <3>1, <3>2, <3>3, <3>4
  <2>5. "AT_LEAST_TWO_OVERLAYS" \in collects2 =>
          \E u, w \in W : u.key # w.key /\ u.key # 0 /\ w.key # 0
    BY <1>2, <2>1, <2>2
  <2>6. QED
    BY <2>4, <2>5
<1>8. "MAIN_REPO_KEY" \in collects2 => \E w \in W : w.key = 0
  <2>1. "MAIN_REPO_KEY" \in collects => \E w \in V : w.key = 0
    BY DEF SummaryOf
  <2>2. "MAIN_REPO_KEY" \in collects2 <=> "MAIN_REPO_KEY" \in collects \/ v.key = 0
    BY DEF CollectsWith
  <2>3. QED
    BY <2>1, <2>2
<1>9. "NONTRIVIAL_SLOTS" \in collects2 <=> \E w \in W : w.slot
  <2>1. "NONTRIVIAL_SLOTS" \in collects <=> \E w \in V : w.slot
    BY DEF SummaryOf
  <2>2. "NONTRIVIAL_SLOTS" \in collects2 <=> "NONTRIVIAL_SLOTS" \in collects \/ v.slot
    BY DEF CollectsWith
  <2>3. QED
    BY <2>1, <2>2
<1>10. /\ \A w \in W : w.mask \subseteq locals \cup v.mask
       /\ \A x \in locals \cup v.mask : \E w \in W : x \in w.mask
  BY DEF SummaryOf
<1>11. QED
  BY <1>4, <1>5, <1>6, <1>7, <1>8, <1>9, <1>10 DEF SummaryOf

LEMMA FirstSummary ==
  ASSUME NEW v \in Version
  PROVE  SummaryOf({v}, v.key,
                   COLLECT_DEFAULT \cup (IF v.slot THEN {"NONTRIVIAL_SLOTS"} ELSE {}), v.mask)
<1>1. v.key \in Nat /\ v.slot \in BOOLEAN
  BY ExtendedVersionAssumption DEF Version
<1>2. QED
  BY <1>1 DEF SummaryOf, COLLECT_DEFAULT

LEMMA OthersAndOne ==
  ASSUME NEW s \in Seq(Version), NEW i \in DOMAIN s
  PROVE  /\ Others(s, i) \subseteq Version
         /\ Elements(s) = Others(s, i) \cup {s[i]}
         /\ Len(s) = 1 => Elements(s) = {s[i]}
<1>1. \A k \in DOMAIN s : s[k] \in Version
  OBVIOUS
<1>2. Others(s, i) \subseteq Version
  BY <1>1 DEF Others
<1>3. Elements(s) = Others(s, i) \cup {s[i]}
  BY DEF Others, Elements
<1>4. ASSUME Len(s) = 1 PROVE Others(s, i) = {}
  <2>1. DOMAIN s \ {i} = {}
    BY <1>4
  <2>2. QED
    BY <2>1 DEF Others
<1>5. QED
  BY <1>2, <1>3, <1>4

LEMMA FinalizeKeepsInv ==
  ASSUME IInv, addVersionFinalize
  PROVE  IInv'
<1>1. /\ versions \in Seq(Version) /\ started \in Version /\ largest_overlay \in Keys
      /\ started # NULLPTR /\ started' = NULLPTR
      /\ versions' = versions /\ have_duplicate_versions' = have_duplicate_versions
  BY DEF IInv, Types, addVersionFinalize
<1>2. PICK i \in DOMAIN versions :
        /\ versions[i] = started
        /\ Len(versions) # 1 =>
             SummaryOf(Others(versions, i), largest_overlay, version_collects, local_collects)
  BY <1>1 DEF IInv, SummaryInv
<1>3. /\ Others(versions, i) \subseteq Version
      /\ Elements(versions) = Others(versions, i) \cup {started}
      /\ Len(versions) = 1 => Elements(versions) = {started}
  BY <1>1, <1>2, OthersAndOne
<1>4. SummaryOf(Elements(versions), largest_overlay', version_collects', local_collects')
  <2>1. CASE Len(versions) = 1
    <3>1. /\ largest_overlay' = started.key
          /\ version_collects' =
               COLLECT_DEFAULT \cup (IF started.slot THEN {"NONTRIVIAL_SLOTS"} ELSE {})
          /\ local_collects' = started.mask
      BY <2>1 DEF addVersionFinalize
    <3>2. QED
      BY <1>1, <1>3, <2>1, <3>1, FirstSummary
  <2>2. CASE Len(versions) # 1
    <3>1. key_collects(started.key) /\ local_collects' = local_collects \cup started.mask
      BY <2>2 DEF addVersionFinalize
    <3>2. SummaryOf(Others(versions, i), largest_overlay, version_collects, local_collects)
      BY <1>2, <2>2
    <3>3. /\ largest_overlay' = LargestWith(largest_overlay, started)
          /\ version_collects' = CollectsWith(largest_overlay, version_collects, started)
      BY <3>1 DEF key_collects, LargestWith, CollectsWith
    <3>4. SummaryOf(Others(versions, i) \cup {started}, LargestWith(largest_overlay, started),
                    CollectsWith(largest_overlay, version_collects, started),
                    local_collects \cup started.mask)
      BY <1>1, <1>3, <3>2, SummaryGrows
    <3>5. QED
      BY <1>3, <3>1, <3>3, <3>4
  <2>3. QED
    BY <2>1, <2>2
<1>5. SummaryInv'
  BY <1>1, <1>4 DEF SummaryInv, Elements
<1>6. largest_overlay' \in Keys
  <2>1. started.key \in Keys
    BY <1>1 DEF Version
  <2>2. QED
    BY <1>1, <2>1 DEF addVersionFinalize, key_collects
<1>7. Types'
  BY <1>1, <1>6 DEF Types
<1>8. Sorted(versions)' /\ DuplicatesInv'
  BY <1>1 DEF IInv, Sorted, DuplicatesInv, Dup, DupOverlays
<1>9. QED
  BY <1>5, <1>7, <1>8 DEF IInv

LEMMA NextKeepsInv == IInv /\ [Next]_vars => IInv'
<1>1. SUFFICES ASSUME IInv, [Next]_vars PROVE IInv'
  OBVIOUS
<1>2. ASSUME NEW v \in Version, addVersionStart(v) PROVE IInv'
  BY <1>1, <1>2, StartKeepsInv
<1>3. CASE addVersionFinalize
  BY <1>1, <1>3, FinalizeKeepsInv
<1>4. CASE UNCHANGED vars
  <2>1. /\ versions' = versions /\ have_duplicate_versions' = have_duplicate_versions
        /\ largest_overlay' = largest_overlay /\ version_collects' = version_collects
        /\ local_collects' = local_collects /\ started' = started
    BY <1>4 DEF vars
  <2>2. Types' /\ DuplicatesInv'
    BY <1>1, <2>1 DEF IInv, Types, DuplicatesInv, Dup, DupOverlays
  <2>3. Sorted(versions)'
    BY <1>1, <2>1 DEF IInv, Sorted
  <2>4. SummaryInv'
    BY <1>1, <2>1 DEF IInv, SummaryInv, Elements, Others
  <2>5. QED
    BY <2>2, <2>3, <2>4 DEF IInv
<1>5. QED
  BY <1>1, <1>2, <1>3, <1>4 DEF Next

-------------------------------------------------------------------------------
(* The theorems *)

(* The list is sorted, what is known of its duplicates is right, and the summary
   is at each moment the one of the versions whose addition is
   complete. *)
THEOREM PackageVersionsInvariant == Spec => []IInv
<1>1. QED
  BY InitEstablishes, NextKeepsInv, PTL DEF Spec

(* latest() and best() may look at the end of the list: insertion in any order
   leaves it sorted by version, priority and overlay. *)
THEOREM ListIsSorted == Spec => []VersionsSorted
<1>1. IInv => VersionsSorted
  BY DEF IInv, Sorted, VersionsSorted
<1>2. QED
  BY <1>1, PackageVersionsInvariant, PTL

(* The short cuts of addVersionStart lose no duplicates: the flag says whether
   two versions are equal and whether two equal ones are in overlays. *)
THEOREM DuplicatesAreKnown == Spec => []DuplicatesKnown
<1>1. IInv => DuplicatesKnown
  <2>1. SUFFICES ASSUME IInv PROVE DuplicatesKnown
    OBVIOUS
  <2> DEFINE pairs == {p \in (DOMAIN versions) \X (DOMAIN versions) :
                         p[1] < p[2] /\ SameBasic(versions[p[1]], versions[p[2]])}
  <2>2. DOMAIN versions \subseteq Int /\ DuplicatesInv
    BY <2>1 DEF IInv, Types
  <2>3. ASSUME NEW i \in DOMAIN versions, NEW j \in DOMAIN versions, i # j,
               SameBasic(versions[i], versions[j])
        PROVE  \E p \in pairs : \/ p[1] = i /\ p[2] = j
                                \/ p[1] = j /\ p[2] = i
    <3>1. CASE i < j
      <4>1. <<i, j>> \in pairs
        BY <2>3, <3>1
      <4>2. QED
        BY <4>1
    <3>2. CASE j < i
      <4>1. <<j, i>> \in pairs
        BY <2>3, <3>2 DEF SameBasic
      <4>2. QED
        BY <4>1
    <3>3. QED
      BY <2>2, <2>3, <3>1, <3>2
  <2>4. ASSUME NEW p \in pairs
        PROVE  /\ p[1] \in DOMAIN versions /\ p[2] \in DOMAIN versions /\ p[1] # p[2]
               /\ SameBasic(versions[p[1]], versions[p[2]])
    BY <2>2, <2>4
  <2> HIDE DEF pairs
  <2>5. Dup(versions) <=> pairs # {}
    BY <2>3, <2>4 DEF Dup
  <2>6. DupOverlays(versions) <=> \E p \in pairs : versions[p[1]].key # 0 /\ versions[p[2]].key # 0
    <3>1. ASSUME DupOverlays(versions)
          PROVE  \E p \in pairs : versions[p[1]].key # 0 /\ versions[p[2]].key # 0
      <4>1. PICK i \in DOMAIN versions, j \in DOMAIN versions :
              i # j /\ SameBasic(versions[i], versions[j]) /\ versions[i].key # 0 /\ versions[j].key # 0
        BY <3>1 DEF DupOverlays
      <4>2. PICK p \in pairs : \/ p[1] = i /\ p[2] = j
                               \/ p[1] = j /\ p[2] = i
        BY <2>3, <4>1
      <4>3. QED
        BY <4>1, <4>2
    <3>2. ASSUME NEW p \in pairs, versions[p[1]].key # 0, versions[p[2]].key # 0
          PROVE  DupOverlays(versions)
      BY <2>4, <3>2 DEF DupOverlays
    <3>3. QED
      BY <3>1, <3>2
  <2>7. have_duplicate_versions =
          IF pairs = {} THEN DUP_NONE
          ELSE IF \E p \in pairs : versions[p[1]].key # 0 /\ versions[p[2]].key # 0
                 THEN DUP_OVERLAYS
          ELSE DUP_SOME
    BY <2>2, <2>5, <2>6 DEF DuplicatesInv, DUP_NONE, DUP_SOME, DUP_OVERLAYS
  <2>8. QED
    BY <2>7 DEF DuplicatesKnown, pairs
<1>2. QED
  BY <1>1, PackageVersionsInvariant, PTL

(* The summary that coreq keeps while versions are added is the one it would
   compute from the whole list. *)
THEOREM SummaryIsKnown == Spec => []SummaryKnown
<1>1. IInv => SummaryKnown
  <2>1. SUFFICES ASSUME IInv, started = NULLPTR, versions # <<>> PROVE SummaryKnown
    BY DEF SummaryKnown
  <2>2. SummaryOf(Elements(versions), largest_overlay, version_collects, local_collects)
    BY <2>1 DEF IInv, SummaryInv
  <2>3. \A i \in DOMAIN versions : versions[i] \in Elements(versions)
    BY DEF Elements
  <2>4. \A v \in Elements(versions) : \E i \in DOMAIN versions : v = versions[i]
    BY DEF Elements
  <2>5. \A i \in DOMAIN versions : versions[i].key \in KeysUsed
    BY DEF KeysUsed
  <2>6. \A k \in KeysUsed : \E i \in DOMAIN versions : k = versions[i].key
    BY DEF KeysUsed
  <2>7. largest_overlay \in KeysUsed /\ \A k \in KeysUsed : k <= largest_overlay
    BY <2>2, <2>3, <2>4, <2>5, <2>6 DEF SummaryOf
  <2>8. "SAME_OVERLAY_KEY" \in version_collects <=> \A k, l \in KeysUsed : k = l
    BY <2>2, <2>3, <2>4, <2>5, <2>6 DEF SummaryOf
  <2>9. "AT_LEAST_TWO_OVERLAYS" \in version_collects <=> \E k, l \in KeysUsed \ {0} : k # l
    BY <2>2, <2>3, <2>4, <2>5, <2>6 DEF SummaryOf
  <2>10. "MAIN_REPO_KEY" \in version_collects => 0 \in KeysUsed
    BY <2>2, <2>4, <2>5 DEF SummaryOf
  <2>11. "NONTRIVIAL_SLOTS" \in version_collects <=> \E i \in DOMAIN versions : versions[i].slot
    BY <2>2, <2>3, <2>4 DEF SummaryOf
  <2>12. local_collects = UNION {versions[i].mask : i \in DOMAIN versions}
    <3>1. \A x \in local_collects : \E i \in DOMAIN versions : x \in versions[i].mask
      BY <2>2, <2>4 DEF SummaryOf
    <3>2. \A i \in DOMAIN versions : versions[i].mask \subseteq local_collects
      BY <2>2, <2>3 DEF SummaryOf
    <3>3. QED
      BY <3>1, <3>2
  <2>13. QED
    BY <2>7, <2>8, <2>9, <2>10, <2>11, <2>12 DEF SummaryKnown
<1>2. QED
  BY <1>1, PackageVersionsInvariant, PTL
================================================================================
