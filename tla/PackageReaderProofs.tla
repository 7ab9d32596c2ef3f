------------------------- MODULE PackageReaderProofs -------------------------
(***************************************************************************)
(* Proofs about PackageReader and the format it reads (Database): that     *)
(* what is written is read back, whole or in parts, by readers with other  *)
(* options than the writer, and of a file that may end anywhere; and that  *)
(* with it the three invariants of PackageReader hold for every tree,      *)
(* every pair of options and every place at which the file is cut off.     *)
(*                                                                         *)
(* The first half is about the format, without states:                     *)
(*                                                                         *)
(*   Occurs(w, f, p)   the bytes w stand at p in the file f, as far as f   *)
(*                     reaches;                                            *)
(*   Reads(r, f, e, v) the result r is the value v at the position e, if   *)
(*                     the file reaches to e, and otherwise a failure.     *)
(*                                                                         *)
(* Each reader is shown to read (Reads) what its writer wrote (Occurs),    *)
(* from the numbers up to the header, the versions and the packages.  The  *)
(* second half is about the reader: where it stands in the file (IInv).    *)
(***************************************************************************)
EXTENDS PackageReader, SequenceTheorems, FiniteSetTheorems, WellFoundedInduction, TLAPS

-------------------------------------------------------------------------------
(* Induction *)

Smaller == {p \in Nat \X Nat : p[1] < p[2]}

(* The order of the natural numbers has no infinite descent. *)
LEMMA SmallerIsWellFounded == IsWellFoundedOn(Smaller, Nat)
BY NatLessThanWellFounded DEF OpToRel, Smaller

(* A set of natural numbers that is not empty has a least element. *)
LEMMA LeastNatural ==
  ASSUME NEW T, T \subseteq Nat, T # {}
  PROVE  \E m \in T : \A n \in T : m <= n
<1>1. PICK m \in T : \A n \in Nat : <<n, m>> \in Smaller => n \notin T
  BY SmallerIsWellFounded, WFMin
<1>2. \A n \in T : ~(n < m)
  BY <1>1 DEF Smaller
<1>3. QED
  BY <1>2

(* Min is that element. *)
LEMMA MinIsLeast ==
  ASSUME NEW T, T \subseteq Nat, T # {}
  PROVE  Min(T) \in T /\ \A n \in T : Min(T) <= n
<1>1. \E m \in T : \A n \in T : m <= n
  BY LeastNatural
<1>2. QED
  BY <1>1 DEF Min

(* Induction up to N, on membership in a set. *)
LEMMA InductionUpTo ==
  ASSUME NEW N \in Nat, NEW T, 0 \in T, \A n \in 0..(N - 1) : n \in T => n + 1 \in T
  PROVE  \A n \in 0..N : n \in T
<1>1. SUFFICES ASSUME {n \in 0..N : n \notin T} # {}  PROVE FALSE
  OBVIOUS
<1> DEFINE U == {n \in 0..N : n \notin T}
<1>a. U \subseteq Nat /\ U # {}
  BY <1>1
<1> HIDE DEF U
<1>b. PICK m \in U : \A n \in U : m <= n
  BY <1>a, LeastNatural
<1>2. m \in 0..N /\ m \notin T /\ \A n \in 0..N : n \notin T => m <= n
  BY <1>b DEF U
<1>3. m # 0 /\ m - 1 \in 0..(N - 1) /\ m - 1 \in 0..N
  BY <1>2
<1>4. m - 1 \in T
  BY <1>2, <1>3
<1>5. (m - 1) + 1 \in T
  BY <1>3, <1>4
<1>6. QED
  BY <1>2, <1>5

-------------------------------------------------------------------------------
(* Concatenations *)

(* The elements of a concatenation. *)
LEMMA ConcatElements ==
  ASSUME NEW S, NEW a \in Seq(S), NEW b \in Seq(S)
  PROVE  /\ a \o b \in Seq(S) /\ Len(a) \in Nat /\ Len(b) \in Nat /\ Len(a \o b) = Len(a) + Len(b)
         /\ \A i \in 1..(Len(a) + Len(b)) : (a \o b)[i] = IF i <= Len(a) THEN a[i] ELSE b[i - Len(a)]
OBVIOUS

(* The two ways of concatenating three sequences give the same. *)
Associates(a, b, c) == (a \o b) \o c = a \o (b \o c)

(* Concatenation is associative. *)
LEMMA Associative ==
  ASSUME NEW S, NEW a, NEW b, NEW c, a \in Seq(S) /\ b \in Seq(S) /\ c \in Seq(S)
  PROVE  Associates(a, b, c)
<1> DEFINE x == a \o b
           y == b \o c
           u == x \o c
           w == a \o y
<1>1. /\ x \in Seq(S) /\ Len(a) \in Nat /\ Len(b) \in Nat /\ Len(x) = Len(a) + Len(b)
      /\ \A i \in 1..(Len(a) + Len(b)) : x[i] = IF i <= Len(a) THEN a[i] ELSE b[i - Len(a)]
  BY ConcatElements
<1>2. /\ y \in Seq(S) /\ Len(c) \in Nat /\ Len(y) = Len(b) + Len(c)
      /\ \A i \in 1..(Len(b) + Len(c)) : y[i] = IF i <= Len(b) THEN b[i] ELSE c[i - Len(b)]
  BY ConcatElements
<1> HIDE DEF x, y
<1>3. /\ u \in Seq(S) /\ Len(u) = Len(x) + Len(c)
      /\ \A i \in 1..(Len(x) + Len(c)) : u[i] = IF i <= Len(x) THEN x[i] ELSE c[i - Len(x)]
  <2>1. x \in Seq(S) /\ c \in Seq(S)
    BY <1>1
  <2>2. QED
    BY ONLY <2>1, ConcatElements
<1>4. /\ w \in Seq(S) /\ Len(w) = Len(a) + Len(y)
      /\ \A i \in 1..(Len(a) + Len(y)) : w[i] = IF i <= Len(a) THEN a[i] ELSE y[i - Len(a)]
  <2>1. a \in Seq(S) /\ y \in Seq(S)
    BY <1>2
  <2>2. QED
    BY ONLY <2>1, ConcatElements
<1> HIDE DEF u, w
<1>5. Len(u) = Len(w)
  BY ONLY <1>1, <1>2, <1>3, <1>4
<1>6. ASSUME NEW i \in 1..Len(u)  PROVE u[i] = w[i]
  <2>1. i \in Nat /\ i >= 1 /\ i <= Len(a) + Len(b) + Len(c) /\ i \in 1..(Len(x) + Len(c))
        /\ i \in 1..(Len(a) + Len(y))
    BY ONLY <1>1, <1>2, <1>3, i \in 1..Len(u)
  <2>2. CASE i <= Len(a)
    <3>1. i \in 1..(Len(a) + Len(b)) /\ i <= Len(x)
      BY ONLY <1>1, <2>1, <2>2
    <3>2. u[i] = x[i] /\ x[i] = a[i]
      BY <1>1, <1>3, <2>1, <2>2, <3>1
    <3>3. w[i] = a[i]
      BY <1>4, <2>1, <2>2
    <3>4. QED
      BY <3>2, <3>3
  <2>3. CASE Len(a) < i /\ i <= Len(a) + Len(b)
    <3>1. /\ i \in 1..(Len(a) + Len(b)) /\ i <= Len(x) /\ ~ (i <= Len(a))
          /\ i - Len(a) \in 1..(Len(b) + Len(c)) /\ i - Len(a) <= Len(b)
      BY ONLY <1>1, <1>2, <2>1, <2>3
    <3>2. u[i] = x[i] /\ x[i] = b[i - Len(a)]
      BY <1>1, <1>3, <2>1, <3>1
    <3>3. w[i] = y[i - Len(a)]
      BY <1>4, <2>1, <3>1
    <3>4. y[i - Len(a)] = b[i - Len(a)]
      BY <1>2, <3>1
    <3>5. QED
      BY <3>2, <3>3, <3>4
  <2>4. CASE Len(a) + Len(b) < i
    <3>1. /\ ~ (i <= Len(x)) /\ ~ (i <= Len(a))
          /\ i - Len(a) \in 1..(Len(b) + Len(c)) /\ ~ (i - Len(a) <= Len(b))
          /\ (i - Len(a)) - Len(b) = i - Len(x)
      BY ONLY <1>1, <1>2, <2>1, <2>4
    <3>2. u[i] = c[i - Len(x)]
      BY <1>3, <2>1, <3>1
    <3>3. w[i] = y[i - Len(a)]
      BY <1>4, <2>1, <3>1
    <3>4. y[i - Len(a)] = c[(i - Len(a)) - Len(b)]
      BY <1>2, <3>1
    <3>5. QED
      BY <3>1, <3>2, <3>3, <3>4
  <2>5. QED
    BY ONLY <1>1, <2>1, <2>2, <2>3, <2>4
<1>7. u = w
  BY <1>3, <1>4, <1>5, <1>6, SeqEqual
<1>8. QED
  BY <1>7 DEF u, w, x, y, Associates

(* The recursive function of FlattenSeq exists. *)
LEMMA FlattenExists ==
  ASSUME NEW S, NEW ss \in Seq(Seq(S)), Len(ss) # 0
  PROVE  \E f \in [1..Len(ss) -> Seq(S)] :
           f = [i \in 1..Len(ss) |-> IF i = 1 THEN ss[i] ELSE f[i - 1] \o ss[i]]
<1>0. Len(ss) \in Nat
  OBVIOUS
<1> USE <1>0
<1> DEFINE Is(f, k) == \A i \in 1..k : f[i] = IF i = 1 THEN ss[i] ELSE f[i - 1] \o ss[i]
           P(k) == \E f \in [1..k -> Seq(S)] : Is(f, k)
<1>1. P(0)
  <2> DEFINE e == [i \in 1..0 |-> <<>>]
  <2>1. e \in [1..0 -> Seq(S)]
    OBVIOUS
  <2>2. Is(e, 0)
    OBVIOUS
  <2>3. QED
    BY <2>1, <2>2
<1>2. ASSUME NEW n \in 0..(Len(ss) - 1), P(n)  PROVE P(n + 1)
  <2>1. PICK f \in [1..n -> Seq(S)] : Is(f, n)
    BY <1>2
  <2> DEFINE g == [i \in 1..(n + 1) |-> IF i <= n THEN f[i]
                                        ELSE IF n = 0 THEN ss[1] ELSE f[n] \o ss[n + 1]]
  <2>2. ss[n + 1] \in Seq(S) /\ ss[1] \in Seq(S) /\ (n # 0 => f[n] \in Seq(S))
    OBVIOUS
  <2>3. n # 0 => f[n] \o ss[n + 1] \in Seq(S)
    BY <2>2
  <2>4. \A i \in 1..(n + 1) : i <= n => f[i] \in Seq(S)
    OBVIOUS
  <2>5. g \in [1..(n + 1) -> Seq(S)]
    BY <2>2, <2>3, <2>4
  <2>6. ASSUME NEW i \in 1..(n + 1)  PROVE g[i] = IF i = 1 THEN ss[i] ELSE g[i - 1] \o ss[i]
    <3>1. CASE i <= n
      <4>1. i \in 1..n /\ g[i] = f[i] /\ (i # 1 => g[i - 1] = f[i - 1])
        BY <3>1
      <4>2. QED
        BY <4>1, <2>1
    <3>2. CASE i = n + 1 /\ n # 0
      <4>1. i - 1 = n /\ n \in 1..(n + 1) /\ i \in 1..(n + 1) /\ ~(i <= n)
        BY <3>2
      <4>2. g[n] = f[n]
        BY <4>1
      <4>3. g[i] = f[n] \o ss[n + 1]
        BY <4>1, <3>2
      <4>4. QED
        BY <4>1, <4>2, <4>3, <3>2, SMTT(30), ZenonT(30)
    <3>3. CASE i = 1 /\ n = 0
      BY <3>3
    <3>4. QED
      BY <3>1, <3>2, <3>3
  <2>7. Is(g, n + 1)
    BY <2>6
  <2> HIDE DEF g, Is
  <2>8. QED
    BY <2>5, <2>7
<1>3. \A n \in 0..Len(ss) : P(n)
  <2> DEFINE T == {k \in 0..Len(ss) : P(k)}
  <2> HIDE DEF P
  <2>1. 0 \in T
    BY <1>1
  <2>2. \A n \in 0..(Len(ss) - 1) : n \in T => n + 1 \in T
    BY <1>2
  <2> HIDE DEF T
  <2>3. \A n \in 0..Len(ss) : n \in T
    BY <2>1, <2>2, InductionUpTo
  <2>4. QED
    BY <2>3 DEF T
<1>4. PICK f \in [1..Len(ss) -> Seq(S)] : Is(f, Len(ss))
  <2>1. P(Len(ss))
    <3> HIDE DEF P
    <3>1. QED
      BY <1>3
  <2>2. QED
    BY <2>1
<1>5. f = [i \in 1..Len(ss) |-> f[i]]
  BY <1>4
<1>6. QED
  BY <1>4, <1>5

(* Two functions with that recursion are equal. *)
Flattens(f, ss, n) == \A i \in 1..n : f[i] = IF i = 1 THEN ss[i] ELSE f[i - 1] \o ss[i]

(* Two functions that concatenate the same sequences step by step agree. *)
LEMMA FlattenUnique ==
  ASSUME NEW ss, NEW n \in Nat, NEW f, NEW g, Flattens(f, ss, n), Flattens(g, ss, n)
  PROVE  \A i \in 1..n : f[i] = g[i]
<1> DEFINE P(i) == i # 0 => f[i] = g[i]
<1>1. P(0)
  OBVIOUS
<1>2. ASSUME NEW i \in 0..(n - 1), P(i)  PROVE P(i + 1)
  <2>1. i + 1 \in 1..n /\ (i + 1) - 1 = i /\ (i + 1 = 1 <=> i = 0)
    OBVIOUS
  <2>2. f[i + 1] = IF i = 0 THEN ss[i + 1] ELSE f[i] \o ss[i + 1]
    <3> DEFINE j == i + 1
    <3>1. j \in 1..n /\ j - 1 = i /\ (j = 1 <=> i = 0)
      BY <2>1
    <3> HIDE DEF j
    <3>2. f[j] = IF i = 0 THEN ss[j] ELSE f[i] \o ss[j]
      BY <3>1 DEF Flattens
    <3>3. QED
      BY <3>2 DEF j
  <2>3. g[i + 1] = IF i = 0 THEN ss[i + 1] ELSE g[i] \o ss[i + 1]
    <3> DEFINE j == i + 1
    <3>1. j \in 1..n /\ j - 1 = i /\ (j = 1 <=> i = 0)
      BY <2>1
    <3> HIDE DEF j
    <3>2. g[j] = IF i = 0 THEN ss[j] ELSE g[i] \o ss[j]
      BY <3>1 DEF Flattens
    <3>3. QED
      BY <3>2 DEF j
  <2>4. QED
    BY <2>2, <2>3, <1>2
<1>3. \A i \in 0..n : P(i)
  <2> DEFINE T == {k \in 0..n : P(k)}
  <2> HIDE DEF P
  <2>1. 0 \in T
    BY <1>1
  <2>2. \A i \in 0..(n - 1) : i \in T => i + 1 \in T
    BY <1>2
  <2> HIDE DEF T
  <2>3. \A i \in 0..n : i \in T
    BY <2>1, <2>2, InductionUpTo
  <2>4. QED
    BY <2>3 DEF T
<1>4. QED
  BY <1>3

(* What FlattenSeq computes, step by step. *)
LEMMA FlattenIs ==
  ASSUME NEW S, NEW ss \in Seq(Seq(S)), Len(ss) # 0
  PROVE  \E f \in [1..Len(ss) -> Seq(S)] : FlattenSeq(ss) = f[Len(ss)] /\ Flattens(f, ss, Len(ss))
<1>0. Len(ss) \in Nat /\ Len(ss) \in 1..Len(ss)
  OBVIOUS
<1> DEFINE fl == CHOOSE f : f = [i \in 1..Len(ss) |-> IF i = 1 THEN ss[i] ELSE f[i - 1] \o ss[i]]
<1>1. FlattenSeq(ss) = fl[Len(ss)]
  BY DEF FlattenSeq
<1>2. PICK g \in [1..Len(ss) -> Seq(S)] :
        g = [i \in 1..Len(ss) |-> IF i = 1 THEN ss[i] ELSE g[i - 1] \o ss[i]]
  BY FlattenExists
<1>3. fl = [i \in 1..Len(ss) |-> IF i = 1 THEN ss[i] ELSE fl[i - 1] \o ss[i]]
  BY <1>2
<1> HIDE DEF fl
<1>4. Flattens(fl, ss, Len(ss))
  BY <1>3 DEF Flattens
<1>5. Flattens(g, ss, Len(ss))
  BY <1>2 DEF Flattens
<1>6. \A i \in 1..Len(ss) : fl[i] = g[i]
  BY <1>0, <1>4, <1>5, FlattenUnique
<1>7. FlattenSeq(ss) = g[Len(ss)]
  BY <1>0, <1>6, <1>1
<1>8. QED
  BY <1>5, <1>7

(* The concatenation of no sequences is empty. *)
LEMMA FlattenEmpty == FlattenSeq(<<>>) = <<>>
BY DEF FlattenSeq

(* The concatenation of sequences over S is a sequence over S. *)
LEMMA FlattenType ==
  ASSUME NEW S, NEW ss \in Seq(Seq(S))
  PROVE  FlattenSeq(ss) \in Seq(S)
<1>1. CASE Len(ss) = 0
  <2>1. ss = <<>>
    BY <1>1
  <2>2. FlattenSeq(ss) = <<>>
    BY <2>1, FlattenEmpty
  <2>3. QED
    BY <2>2
<1>2. CASE Len(ss) # 0
  <2>1. Len(ss) \in 1..Len(ss)
    BY <1>2
  <2>2. QED
    BY <1>2, <2>1, FlattenIs, SMTT(30), ZenonT(30)
<1>3. QED
  BY <1>1, <1>2

(* FlattenSeq of one more sequence. *)
LEMMA FlattenAppend ==
  ASSUME NEW S, NEW ss \in Seq(Seq(S)), NEW s \in Seq(S)
  PROVE  FlattenSeq(Append(ss, s)) = FlattenSeq(ss) \o s
<1> DEFINE tt == Append(ss, s)
           n == Len(ss)
<1>1. /\ tt \in Seq(Seq(S)) /\ n \in Nat /\ Len(tt) = n + 1 /\ Len(tt) # 0
      /\ tt[n + 1] = s /\ \A i \in 1..n : tt[i] = ss[i]
  OBVIOUS
<1> HIDE DEF tt
<1>2. PICK g \in [1..Len(tt) -> Seq(S)] :
        FlattenSeq(tt) = g[Len(tt)] /\ Flattens(g, tt, Len(tt))
  BY <1>1, FlattenIs
<1>3. CASE n = 0
  <2>1. ss = <<>>
    BY <1>3
  <2>2. FlattenSeq(ss) = <<>>
    BY <2>1, FlattenEmpty
  <2> HIDE DEF n
  <2>3. 1 \in 1..Len(tt) /\ Len(tt) = 1
    BY <1>1, <1>3
  <2>4. FlattenSeq(tt) = s
    BY <1>1, <1>2, <1>3, <2>3 DEF Flattens
  <2>5. QED
    BY <2>2, <2>4 DEF tt
<1>4. CASE n # 0
  <2>1. PICK f \in [1..n -> Seq(S)] :
        FlattenSeq(ss) = f[n] /\ Flattens(f, ss, n)
    BY <1>4, FlattenIs
  <2> HIDE DEF n
  <2>2. Flattens(g, ss, n)
    <3>1. \A i \in 1..n : i \in 1..Len(tt) /\ tt[i] = ss[i]
      BY <1>1
    <3>2. QED
      BY <3>1, <1>2 DEF Flattens
  <2>3. \A i \in 1..n : f[i] = g[i]
    <3>1. n \in Nat /\ Flattens(f, ss, n) /\ Flattens(g, ss, n)
      BY <1>1, <2>1, <2>2
    <3> HIDE <1>1, <2>1, <2>2
    <3>2. QED
      BY <3>1, FlattenUnique, SMTT(30), ZenonT(30)
  <2>4. n \in 1..n /\ n + 1 \in 1..Len(tt) /\ (n + 1) - 1 = n /\ n + 1 # 1
    BY <1>1, <1>4
  <2>5. f[n] = g[n]
    BY <2>3, <2>4
  <2>6. g[n + 1] = g[n] \o s
    <3> DEFINE m == n + 1
    <3>1. m \in 1..Len(tt) /\ m - 1 = n /\ m # 1 /\ tt[m] = s
      BY <2>4, <1>1
    <3> HIDE DEF m
    <3>2. g[m] = g[n] \o s
      BY <3>1, <1>2 DEF Flattens
    <3>3. QED
      BY <3>2 DEF m
  <2>7. FlattenSeq(tt) = FlattenSeq(ss) \o s
    BY <2>1, <2>5, <2>6, <1>1, <1>2
  <2>8. QED
    BY <2>7 DEF tt
<1>5. QED
  BY <1>3, <1>4

(* FlattenSeq of a concatenation. *)
LEMMA FlattenConcat ==
  ASSUME NEW S, NEW ss \in Seq(Seq(S)), NEW tt \in Seq(Seq(S))
  PROVE  FlattenSeq(ss \o tt) = FlattenSeq(ss) \o FlattenSeq(tt)
<1>0. Len(tt) \in Nat
  OBVIOUS
<1> USE <1>0
<1> DEFINE P(k) == FlattenSeq(ss \o SubSeq(tt, 1, k))
                     = FlattenSeq(ss) \o FlattenSeq(SubSeq(tt, 1, k))
<1>1. P(0)
  <2>1. SubSeq(tt, 1, 0) = <<>> /\ ss \o <<>> = ss
    OBVIOUS
  <2>2. FlattenSeq(ss) \in Seq(S)
    BY FlattenType
  <2>3. FlattenSeq(ss) \o <<>> = FlattenSeq(ss)
    BY <2>2
  <2>4. QED
    BY <2>1, <2>3, FlattenEmpty
<1>2. ASSUME NEW n \in 0..(Len(tt) - 1), P(n)  PROVE P(n + 1)
  <2> DEFINE a == SubSeq(tt, 1, n)
             t == tt[n + 1]
  <2>1. a \in Seq(Seq(S)) /\ t \in Seq(S) /\ SubSeq(tt, 1, n + 1) = Append(a, t)
    OBVIOUS
  <2> HIDE DEF a, t
  <2>2. ss \o Append(a, t) = Append(ss \o a, t) /\ ss \o a \in Seq(Seq(S))
    <3>1. <<t>> \in Seq(Seq(S)) /\ ss \o a \in Seq(Seq(S))
      BY <2>1
    <3>2. Append(a, t) = a \o <<t>> /\ Append(ss \o a, t) = (ss \o a) \o <<t>>
      BY <2>1, <3>1, AppendIsConcat
    <3>3. (ss \o a) \o <<t>> = ss \o (a \o <<t>>)
      <4> DEFINE u == <<t>>
      <4>1. ss \in Seq(Seq(S)) /\ a \in Seq(Seq(S)) /\ u \in Seq(Seq(S))
        BY <2>1, <3>1
      <4> HIDE DEF u
      <4>2. (ss \o a) \o u = ss \o (a \o u)
        <5>1. Associates(ss, a, u)
          BY ONLY <4>1, Associative
        <5>2. QED
          BY ONLY <5>1 DEF Associates
      <4>3. QED
        BY <4>2 DEF u
    <3>4. QED
      BY <3>1, <3>2, <3>3
  <2>3. FlattenSeq(Append(ss \o a, t)) = FlattenSeq(ss \o a) \o t
    BY <2>1, <2>2, FlattenAppend
  <2>4. FlattenSeq(Append(a, t)) = FlattenSeq(a) \o t
    BY <2>1, FlattenAppend
  <2>5. FlattenSeq(ss \o a) = FlattenSeq(ss) \o FlattenSeq(a)
    BY <1>2 DEF a
  <2>6. FlattenSeq(ss) \in Seq(S) /\ FlattenSeq(a) \in Seq(S)
    BY <2>1, FlattenType
  <2>7. (FlattenSeq(ss) \o FlattenSeq(a)) \o t = FlattenSeq(ss) \o (FlattenSeq(a) \o t)
    <3> DEFINE x == FlattenSeq(ss)
               y == FlattenSeq(a)
    <3>1. x \in Seq(S) /\ y \in Seq(S) /\ t \in Seq(S)
      BY <2>1, <2>6
    <3> HIDE DEF x, y
    <3>2. (x \o y) \o t = x \o (y \o t)
      BY <3>1, SMTT(30)
    <3>3. QED
      BY <3>2 DEF x, y
  <2>8. FlattenSeq(ss \o Append(a, t)) = FlattenSeq(ss) \o FlattenSeq(Append(a, t))
    BY <2>2, <2>3, <2>4, <2>5, <2>7
  <2>9. QED
    BY <2>1, <2>8
<1>3. \A n \in 0..Len(tt) : P(n)
  <2> DEFINE T == {k \in 0..Len(tt) : P(k)}
  <2> HIDE DEF P
  <2>1. 0 \in T
    BY <1>1
  <2>2. \A n \in 0..(Len(tt) - 1) : n \in T => n + 1 \in T
    BY <1>2
  <2> HIDE DEF T
  <2>3. \A n \in 0..Len(tt) : n \in T
    BY <2>1, <2>2, InductionUpTo
  <2>4. QED
    BY <2>3 DEF T
<1>4. SubSeq(tt, 1, Len(tt)) = tt /\ P(Len(tt))
  <2> HIDE DEF P
  <2>1. QED
    BY <1>3
<1>5. QED
  BY <1>4

-------------------------------------------------------------------------------
(* Recursive functions *)

(* A function on 0..n that is given by its first value and by what each value
   is made of the one before. *)
Recursion(f, a, n, h) == f = [i \in 0..n |-> IF i = 0 THEN a ELSE h[i][f[i - 1]]]

(* A recursion along 0..n with a step for each index has a solution. *)
LEMMA RecursiveFunction ==
  ASSUME NEW V, NEW a \in V, NEW n \in Nat, NEW h \in [1..n -> [V -> V]]
  PROVE  \E f \in [0..n -> V] : Recursion(f, a, n, h)
<1> DEFINE Is(f, k) == \A i \in 0..k : f[i] = IF i = 0 THEN a ELSE h[i][f[i - 1]]
           P(k) == \E f \in [0..k -> V] : Is(f, k)
<1>1. P(0)
  <2> DEFINE e == [i \in 0..0 |-> a]
  <2>1. e \in [0..0 -> V] /\ Is(e, 0)
    OBVIOUS
  <2> HIDE DEF e, Is
  <2>2. QED
    BY <2>1
<1>2. ASSUME NEW k \in 0..(n - 1), P(k)  PROVE P(k + 1)
  <2>1. PICK f \in [0..k -> V] : Is(f, k)
    BY <1>2
  <2> DEFINE g == [i \in 0..(k + 1) |-> IF i <= k THEN f[i] ELSE h[k + 1][f[k]]]
  <2>2. k \in Nat /\ k + 1 \in 1..n /\ f[k] \in V /\ h[k + 1] \in [V -> V]
    OBVIOUS
  <2>3. h[k + 1][f[k]] \in V /\ \A i \in 0..(k + 1) : i <= k => f[i] \in V
    BY <2>2
  <2>4. g \in [0..(k + 1) -> V]
    BY <2>3
  <2>5. ASSUME NEW i \in 0..(k + 1)  PROVE g[i] = IF i = 0 THEN a ELSE h[i][g[i - 1]]
    <3>1. CASE i <= k
      <4>1. i \in 0..k /\ g[i] = f[i] /\ (i # 0 => g[i - 1] = f[i - 1])
        BY <3>1
      <4>2. QED
        BY <4>1, <2>1
    <3>2. CASE i = k + 1
      <4>1. i # 0 /\ i - 1 = k /\ ~(i <= k) /\ k \in 0..(k + 1)
        BY <3>2
      <4>2. g[k] = f[k] /\ g[i] = h[k + 1][f[k]]
        BY <4>1
      <4>3. QED
        BY <4>1, <4>2, <3>2
    <3>3. QED
      BY <3>1, <3>2
  <2>6. Is(g, k + 1)
    BY <2>5
  <2> HIDE DEF g, Is
  <2>7. QED
    BY <2>4, <2>6
<1>3. \A k \in 0..n : P(k)
  <2> DEFINE T == {k \in 0..n : P(k)}
  <2> HIDE DEF P
  <2>1. 0 \in T
    BY <1>1
  <2>2. \A k \in 0..(n - 1) : k \in T => k + 1 \in T
    BY <1>2
  <2> HIDE DEF T
  <2>3. \A k \in 0..n : k \in T
    BY <2>1, <2>2, InductionUpTo
  <2>4. QED
    BY <2>3 DEF T
<1>4. P(n)
  <2> HIDE DEF P
  <2>1. QED
    BY <1>3
<1>5. PICK f \in [0..n -> V] : Is(f, n)
  BY <1>4
<1>6. f = [i \in 0..n |-> f[i]]
  BY <1>5
<1>7. QED
  BY <1>5, <1>6 DEF Recursion

-------------------------------------------------------------------------------
(* Numbers *)

(* What the constants of the format say about a byte and the mark that starts a long number. *)
LEMMA ByteBounds == Base \in Nat /\ Base > 2 /\ MAGICNUMCHAR \in Nat /\ MAGICNUMCHAR = Base - 1 /\ MAGICNUMCHAR > 1
BY DatabaseAssumption DEF MAGICNUMCHAR

(* Quotient and remainder by the size of a byte make the number up again, and the quotient is smaller. *)
LEMMA DivMod ==
  ASSUME NEW t \in Nat
  PROVE  /\ t \div Base \in Nat /\ t % Base \in 0..(Base - 1)
         /\ \A q, r : q = t \div Base /\ r = t % Base => q * Base + r = t
         /\ t >= 1 => t \div Base < t
         /\ t \div Base <= t
         /\ t >= Base => t \div Base >= 1
<1>1. Base \in Nat /\ Base > 2
  BY DatabaseAssumption
<1>2. t \div Base \in Nat
  BY <1>1
<1>3. t % Base \in 0..(Base - 1)
  BY <1>1
<1>4. t % Base = t - Base * (t \div Base)
  BY <1>1, Z3
<1>5. ASSUME NEW q, NEW r, q = t \div Base, r = t % Base  PROVE q * Base + r = t
  <2>1. q \in Nat /\ r \in Int /\ r = t - Base * q
    BY <1>2, <1>3, <1>4, <1>5
  <2>2. QED
    BY <1>1, <2>1
<1>6. t >= 1 => t \div Base < t
  BY <1>1
<1>7. t \div Base <= t
  BY <1>1
<1>8. t >= Base => t \div Base >= 1
  <2> DEFINE q == t \div Base
             r == t % Base
  <2>a. q \in Nat /\ r \in 0..(Base - 1)
    BY <1>2, <1>3
  <2>b. q = t \div Base /\ r = t % Base
    OBVIOUS
  <2> HIDE DEF q, r
  <2>1. q \in Nat /\ r \in 0..(Base - 1) /\ q * Base + r = t
    BY <2>a, <2>b, <1>5
  <2>2. q = 0 => t = r
    BY <1>1, <2>1
  <2>3. q = 0 => t < Base
    BY <1>1, <2>1, <2>2
  <2>4. t >= Base => q >= 1
    BY <1>1, <2>1, <2>3
  <2>5. QED
    BY <2>4 DEF q
<1>9. QED
  BY <1>2, <1>3, <1>5, <1>6, <1>7, <1>8

(* Shifted(t) is the sequence of the quotients of t that write_num's loop goes through. *)
LEMMA ShiftedIs ==
  ASSUME NEW t \in Nat
  PROVE  /\ Shifted(t) \in [0..t -> Nat]
         /\ Shifted(t)[0] = t
         /\ \A i \in 1..t : Shifted(t)[i] = Shifted(t)[i - 1] \div Base
<1> DEFINE h == [i \in 1..t |-> [v \in Nat |-> v \div Base]]
           s == CHOOSE f : f = [i \in 0..t |-> IF i = 0 THEN t ELSE f[i - 1] \div Base]
<1>1. h \in [1..t -> [Nat -> Nat]]
  BY DivMod
<1>2. PICK f \in [0..t -> Nat] : Recursion(f, t, t, h)
  <2> HIDE DEF h
  <2>1. QED
    BY <1>1, RecursiveFunction
<1>3. \A i \in 0..t : i # 0 => f[i - 1] \in Nat /\ h[i][f[i - 1]] = f[i - 1] \div Base
  OBVIOUS
<1> HIDE DEF h
<1>4. [i \in 0..t |-> IF i = 0 THEN t ELSE h[i][f[i - 1]]]
        = [i \in 0..t |-> IF i = 0 THEN t ELSE f[i - 1] \div Base]
  BY <1>3
<1>5. f = [i \in 0..t |-> IF i = 0 THEN t ELSE f[i - 1] \div Base]
  BY <1>2, <1>4 DEF Recursion
<1>6. s = [i \in 0..t |-> IF i = 0 THEN t ELSE s[i - 1] \div Base]
  BY <1>5
<1>7. Shifted(t) = s
  BY DEF Shifted
<1> HIDE DEF s
<1>8. s[0] = t /\ \A i \in 1..t : s[i] = s[i - 1] \div Base
  BY <1>6
<1>9. \A i \in 0..t : s[i] \in Nat
  <2> DEFINE P(i) == s[i] \in Nat
             T == {i \in 0..t : P(i)}
  <2>1. 0 \in T
    BY <1>8
  <2>2. \A i \in 0..(t - 1) : i \in T => i + 1 \in T
    <3>1. ASSUME NEW i \in 0..(t - 1), i \in T  PROVE i + 1 \in T
      <4>1. i + 1 \in 1..t /\ (i + 1) - 1 = i /\ i + 1 \in 0..t
        OBVIOUS
      <4>2. s[i + 1] = s[i] \div Base
        BY <1>8, <4>1
      <4>3. QED
        BY <3>1, <4>1, <4>2, DivMod, SMTT(30), ZenonT(30)
    <3>2. QED
      BY <3>1
  <2> HIDE DEF T
  <2>3. \A i \in 0..t : i \in T
    BY <2>1, <2>2, InductionUpTo
  <2>4. QED
    BY <2>3 DEF T
<1>10. s = [i \in 0..t |-> s[i]]
  BY <1>6
<1>11. s \in [0..t -> Nat]
  BY <1>9, <1>10
<1>12. QED
  BY <1>7, <1>8, <1>11

(* The shifts go down to 0. *)
LEMMA LeadingDigitIs ==
  ASSUME NEW t \in Nat
  PROVE  /\ LeadingDigit(t) \in 0..t
         /\ Shifted(t)[LeadingDigit(t)] < Base
         /\ LeadingDigit(t) > 0 => Shifted(t)[LeadingDigit(t) - 1] >= Base
<1> DEFINE s == Shifted(t)
           P(i) == s[i] <= t - i
           T == {i \in 0..t : P(i)}
<1>1. s \in [0..t -> Nat] /\ s[0] = t /\ \A i \in 1..t : s[i] = s[i - 1] \div Base
  BY ShiftedIs
<1> HIDE DEF s
<1>2. 0 \in T
  BY <1>1
<1>3. \A i \in 0..(t - 1) : i \in T => i + 1 \in T
  <2>1. ASSUME NEW i \in 0..(t - 1), i \in T  PROVE i + 1 \in T
    <3>1. i + 1 \in 1..t /\ (i + 1) - 1 = i /\ i + 1 \in 0..t /\ i \in 0..t
      OBVIOUS
    <3>2. s[i + 1] = s[i] \div Base /\ s[i] \in Nat /\ s[i] <= t - i
      BY <1>1, <2>1, <3>1
    <3>3. s[i] \div Base \in Nat /\ (s[i] >= 1 => s[i] \div Base < s[i]) /\ s[i] \div Base <= s[i]
      BY <3>2, DivMod
    <3> DEFINE x == s[i] \div Base
    <3> HIDE DEF x
    <3>4. s[i + 1] = x /\ x \in Nat /\ (s[i] >= 1 => x < s[i]) /\ x <= s[i]
      BY <3>2, <3>3 DEF x
    <3>5. x <= t - (i + 1)
      BY <3>1, <3>2, <3>4
    <3>6. QED
      BY <3>1, <3>4, <3>5
  <2>2. QED
    BY <2>1
<1>4. t \in T
  <2> HIDE DEF T
  <2>1. \A i \in 0..t : i \in T
    BY <1>2, <1>3, InductionUpTo
  <2>2. QED
    BY <2>1
<1> DEFINE U == {i \in 0..t : s[i] < Base}
<1>5. t \in U
  BY <1>1, <1>4, ByteBounds
<1>6. U \subseteq Nat /\ U # {}
  BY <1>5
<1> HIDE DEF U
<1>7. PICK m \in U : \A i \in U : m <= i
  BY <1>6, LeastNatural
<1>8. m \in 0..t /\ s[m] < Base
  BY <1>7 DEF U
<1>9. m > 0 => s[m - 1] >= Base
  <2>1. SUFFICES ASSUME m > 0  PROVE s[m - 1] >= Base
    OBVIOUS
  <2>2. m - 1 \in 0..t /\ ~(m <= m - 1)
    BY <1>8, <2>1
  <2>3. m - 1 \notin U
    BY <1>7, <2>2
  <2>4. s[m - 1] \in Nat
    BY <1>1, <2>2
  <2>5. QED
    BY <2>2, <2>3, <2>4, ByteBounds DEF U
<1>10. QED
  BY <1>8, <1>9 DEF LeadingDigit, s

(* A number that is not written as one byte: count bytes after the first one,
   flagged by zero bytes MAGICNUMCHAR. *)
Shape(w, t, s, count, flags) ==
  /\ count \in Nat /\ flags \in {count, count + 1} /\ flags >= 1
  /\ s \in [0..count -> Nat]
  /\ s[0] = t
  /\ \A i \in 1..count : s[i] = s[i - 1] \div Base
  /\ IF flags = count THEN s[count] \notin {0, MAGICNUMCHAR} ELSE s[count] = MAGICNUMCHAR
  /\ Len(w) = flags + 1 + count
  /\ \A i \in 1..flags : w[i] = MAGICNUMCHAR
  /\ w[flags + 1] = IF flags = count THEN s[count] ELSE 0
  /\ \A i \in 1..count : w[flags + 1 + i] = s[count - i] % Base

(* What write_num writes for a number that takes more than one byte: marks that count, perhaps the
   mark of a leading MAGICNUMCHAR, then the digits; counted_num counts as many bytes. *)
LEMMA WriteNumShape ==
  ASSUME NEW t \in Nat, t >= MAGICNUMCHAR
  PROVE  /\ write_num(t) \in Seq(Byte)
         /\ counted_num(t) = Len(write_num(t))
         /\ \E s, count, flags : Shape(write_num(t), t, s, count, flags)
<1>0. 0 \in Byte /\ MAGICNUMCHAR \in Byte /\ \A x : x \in Byte <=> x \in Nat /\ x < Base
  BY ByteBounds DEF Byte
<1>1. CASE t < Base
  <2>1. t = MAGICNUMCHAR /\ write_num(t) = <<t, 0>> /\ counted_num(t) = 2
    BY <1>1, ByteBounds DEF write_num, counted_num
  <2> DEFINE s == [i \in 0..0 |-> t]
             w == <<t, 0>>
  <2>2. w \in Seq(Byte) /\ Len(w) = 2 /\ w[1] = t /\ w[2] = 0
    BY <2>1, <1>0
  <2>3. s \in [0..0 -> Nat] /\ s[0] = t
    OBVIOUS
  <2> HIDE DEF s, w
  <2>4. Shape(w, t, s, 0, 1)
    BY <2>1, <2>2, <2>3, ByteBounds DEF Shape
  <2>5. QED
    BY <2>1, <2>2, <2>4 DEF w
<1>2. CASE t >= Base
  <2> DEFINE count == LeadingDigit(t)
             s == Shifted(t)
             d == s[count]
             a == [i \in 1..count |-> MAGICNUMCHAR]
             b == IF d = MAGICNUMCHAR THEN <<d, 0>> ELSE <<d>>
             c == [i \in 1..count |-> s[count - i] % Base]
             w == a \o b \o c
             flags == IF d = MAGICNUMCHAR THEN count + 1 ELSE count
             r == [i \in 0..count |-> s[i]]
  <2>1. s \in [0..t -> Nat] /\ s[0] = t /\ \A i \in 1..t : s[i] = s[i - 1] \div Base
    BY ShiftedIs
  <2>2. count \in 0..t /\ d < Base /\ (count > 0 => s[count - 1] >= Base)
    BY LeadingDigitIs
  <2>3. write_num(t) = w /\ counted_num(t) = (IF d = MAGICNUMCHAR THEN 2 ELSE 1) + 2 * count
    <3>1. ~(t < Base)
      BY <1>2, ByteBounds
    <3>2. write_num(t) = w
      BY <3>1 DEF write_num
    <3>3. QED
      BY <3>1, <3>2 DEF counted_num
  <2> HIDE DEF s, count
  <2>4. count \in Nat /\ count > 0
    BY <1>2, <2>1, <2>2, ByteBounds
  <2>5. d \in Nat /\ d # 0 /\ d \in Byte
    <3>1. count \in 1..t /\ count - 1 \in 0..t /\ d \in Nat /\ s[count - 1] \in Nat
      BY <2>1, <2>2, <2>4
    <3>2. d = s[count - 1] \div Base
      BY <2>1, <3>1
    <3>3. d >= 1
      BY <2>2, <2>4, <3>1, <3>2, DivMod
    <3>4. QED
      BY <2>2, <3>1, <3>3, <1>0
  <2> HIDE DEF d
  <2>6. a \in Seq(Byte) /\ Len(a) = count /\ \A i \in 1..count : a[i] = MAGICNUMCHAR
    BY <2>4, <1>0
  <2>7. b \in Seq(Byte) /\ b[1] = d /\ Len(b) = flags + 1 - count /\ (d = MAGICNUMCHAR => b[2] = 0)
    BY <2>4, <2>5, <1>0
  <2>8. c \in Seq(Byte) /\ Len(c) = count /\ \A i \in 1..count : c[i] = s[count - i] % Base
    <3>1. \A i \in 1..count : s[count - i] \in Nat /\ s[count - i] % Base \in Byte
      <4>1. ASSUME NEW i \in 1..count  PROVE s[count - i] \in Nat /\ s[count - i] % Base \in Byte
        <5>1. count - i \in 0..t
          BY <2>2, <2>4
        <5>2. s[count - i] \in Nat
          BY <2>1, <5>1
        <5>3. s[count - i] % Base \in 0..(Base - 1)
          BY <5>2, DivMod
        <5>4. QED
          BY <5>2, <5>3, ByteBounds DEF Byte
      <4>2. QED
        BY <4>1
    <3>2. QED
      BY <2>4, <3>1
  <2>9. r \in [0..count -> Nat] /\ r[0] = t /\ (\A i \in 1..count : r[i] = r[i - 1] \div Base)
        /\ (\A i \in 0..count : r[i] = s[i])
    BY <2>1, <2>2, <2>4
  <2>10. flags \in {count, count + 1} /\ flags \in Nat /\ (flags = count <=> d # MAGICNUMCHAR)
    BY <2>4
  <2> HIDE DEF a, b, c, flags, r
  <2>a. a \o b \in Seq(Byte) /\ Len(a \o b) = flags + 1
        /\ \A i \in 1..(flags + 1) : (a \o b)[i] = IF i <= count THEN a[i] ELSE b[i - count]
    BY <2>4, <2>6, <2>7, <2>10
  <2> DEFINE ab == a \o b
  <2> HIDE DEF ab
  <2>b. ab \in Seq(Byte) /\ Len(ab) = flags + 1 /\ w = ab \o c
        /\ \A i \in 1..(flags + 1) : ab[i] = IF i <= count THEN a[i] ELSE b[i - count]
    BY <2>a DEF ab
  <2> HIDE DEF w
  <2>11. w \in Seq(Byte) /\ Len(w) = flags + 1 + count
    <3>1. c \in Seq(Byte) /\ Len(c) = count /\ ab \in Seq(Byte) /\ Len(ab) = flags + 1
      BY <2>b, <2>8
    <3>2. ab \o c \in Seq(Byte) /\ Len(ab \o c) = Len(ab) + Len(c)
      BY <3>1
    <3>3. QED
      BY <3>1, <3>2, <2>b
  <2>12. ASSUME NEW i \in 1..Len(w)
         PROVE  w[i] = IF i <= count THEN a[i] ELSE IF i <= flags + 1 THEN b[i - count]
                       ELSE c[i - (flags + 1)]
    <3>1. w[i] = IF i <= flags + 1 THEN ab[i] ELSE c[i - (flags + 1)]
      BY <2>b, <2>4, <2>8, <2>10, <2>11
    <3>2. QED
      BY <3>1, <2>b, <2>4, <2>10
  <2>13. \A i \in 1..flags : w[i] = MAGICNUMCHAR
    <3>1. SUFFICES ASSUME NEW i \in 1..flags  PROVE w[i] = MAGICNUMCHAR
      OBVIOUS
    <3>2. i \in 1..Len(w) /\ i <= flags + 1
      BY <2>4, <2>10, <2>11
    <3>3. CASE i <= count
      BY <3>2, <3>3, <2>12, <2>6, <2>4
    <3>4. CASE ~(i <= count)
      <4>1. i = count + 1 /\ d = MAGICNUMCHAR /\ i - count = 1
        BY <3>4, <2>4, <2>10
      <4>2. QED
        BY <4>1, <3>2, <3>4, <2>12, <2>7
    <3>5. QED
      BY <3>3, <3>4
  <2>14. w[flags + 1] = IF flags = count THEN d ELSE 0
    <3> DEFINE i == flags + 1
    <3>1. i \in 1..Len(w) /\ ~(i <= count) /\ i <= flags + 1 /\ i - count = IF flags = count THEN 1 ELSE 2
      BY <2>4, <2>10, <2>11
    <3> HIDE DEF i
    <3>2. w[i] = b[i - count]
      BY <3>1, <2>12
    <3>3. QED
      BY <3>1, <3>2, <2>7, <2>10 DEF i
  <2>15. \A i \in 1..count : w[flags + 1 + i] = r[count - i] % Base
    <3>1. SUFFICES ASSUME NEW i \in 1..count  PROVE w[flags + 1 + i] = r[count - i] % Base
      OBVIOUS
    <3> DEFINE j == flags + 1 + i
    <3>2. j \in 1..Len(w) /\ ~(j <= count) /\ ~(j <= flags + 1) /\ j - (flags + 1) = i
      BY <2>4, <2>10, <2>11
    <3> HIDE DEF j
    <3>3. w[j] = c[i]
      BY <3>2, <2>12
    <3>4. count - i \in 0..count
      BY <2>4
    <3>5. QED
      BY <3>3, <3>4, <2>8, <2>9 DEF j
  <2>16. r[count] = d
    BY <2>4, <2>9 DEF d
  <2>17. Shape(w, t, r, count, flags)
    BY <2>4, <2>5, <2>9, <2>10, <2>11, <2>13, <2>14, <2>15, <2>16 DEF Shape
  <2>18. counted_num(t) = Len(w)
    BY <2>3, <2>4, <2>10, <2>11
  <2>19. QED
    BY <2>3, <2>11, <2>17, <2>18
<1>3. QED
  BY <1>1, <1>2, ByteBounds

-------------------------------------------------------------------------------
(* Reading what was written *)

(* The file f, which may have been cut off, has the bytes w at offset p. *)
Occurs(w, f, p) == \A i \in 1..Len(w) : p + i <= Len(f) => f[p + i] = w[i]

(* A read that ran into the end of the file. *)
Failed(r, f) == \E q \in Nat : q >= Len(f) /\ r = [ok |-> FALSE, pos |-> q, val |-> <<>>]

(* A read of something that ends at e: v, or an error if the file ends before. *)
Reads(r, f, e, v) == r = Got(e, v) \/ (e > Len(f) /\ Failed(r, f))

(* Where a concatenation occurs in a file, its first part occurs, and its second part behind it. *)
LEMMA OccursConcat ==
  ASSUME NEW S, NEW a \in Seq(S), NEW b \in Seq(S), NEW f \in Seq(Byte), NEW p \in Nat,
         Occurs(a \o b, f, p)
  PROVE  /\ Occurs(a, f, p)
         /\ Occurs(b, f, p + Len(a))
         /\ Len(a) \in Nat /\ Len(b) \in Nat /\ Len(a \o b) = Len(a) + Len(b)
<1>1. /\ Len(a) \in Nat /\ Len(b) \in Nat /\ Len(f) \in Nat /\ Len(a \o b) = Len(a) + Len(b)
      /\ \A i \in 1..(Len(a) + Len(b)) : (a \o b)[i] = IF i <= Len(a) THEN a[i] ELSE b[i - Len(a)]
  OBVIOUS
<1> DEFINE ab == a \o b
<1>2. /\ Len(ab) = Len(a) + Len(b)
      /\ \A i \in 1..(Len(a) + Len(b)) : ab[i] = IF i <= Len(a) THEN a[i] ELSE b[i - Len(a)]
      /\ Occurs(ab, f, p)
  BY <1>1
<1> HIDE DEF ab
<1>3. Occurs(a, f, p)
  <2>1. SUFFICES ASSUME NEW i \in 1..Len(a), p + i <= Len(f)  PROVE f[p + i] = a[i]
    BY DEF Occurs
  <2>2. i \in 1..Len(ab) /\ ab[i] = a[i]
    BY <1>1, <1>2, SMTT(30), ZenonT(30)
  <2>3. QED
    BY <1>2, <2>1, <2>2 DEF Occurs
<1>4. Occurs(b, f, p + Len(a))
  <2>1. SUFFICES ASSUME NEW i \in 1..Len(b), (p + Len(a)) + i <= Len(f)
                 PROVE  f[(p + Len(a)) + i] = b[i]
    BY DEF Occurs
  <2> DEFINE j == Len(a) + i
  <2>2. j \in 1..Len(ab) /\ ab[j] = b[i] /\ p + j = (p + Len(a)) + i
    <3>1. j \in 1..(Len(a) + Len(b)) /\ ~(j <= Len(a)) /\ j - Len(a) = i
      BY <1>1
    <3>2. p + j = (p + Len(a)) + i
      BY <1>1
    <3> HIDE DEF j
    <3>3. QED
      BY <3>1, <3>2, <1>2
  <2> HIDE DEF j
  <2>3. p + j <= Len(f)
    BY <2>1, <2>2
  <2>4. f[p + j] = ab[j]
    BY <1>2, <2>2, <2>3 DEF Occurs
  <2>5. QED
    BY <2>2, <2>4
<1>5. QED
  BY <1>1, <1>3, <1>4

(* A read past the end of the file is a failed one. *)
LEMMA ReadErrorFails ==
  ASSUME NEW f \in Seq(Byte), NEW p \in Nat
  PROVE  Failed(ReadError(f, p), f)
<1>1. Len(f) \in Nat
  OBVIOUS
<1> DEFINE q == IF p > Len(f) THEN p ELSE Len(f)
<1>2. q \in Nat /\ q >= Len(f) /\ ReadError(f, p) = [ok |-> FALSE, pos |-> q, val |-> <<>>]
  BY <1>1 DEF ReadError
<1>3. QED
  BY <1>2 DEF Failed

(* The two cases of a read. *)
LEMMA ReadsCases ==
  ASSUME NEW r, NEW f, NEW e, NEW v, Reads(r, f, e, v)
  PROVE  \/ r = Got(e, v) /\ r.ok /\ r.pos = e /\ r.val = v
         \/ Failed(r, f) /\ ~ r.ok /\ e > Len(f)
BY DEF Reads, Got, Failed

(* What is read after something that could not be read fails as well. *)
LEMMA ReadsLonger ==
  ASSUME NEW f \in Seq(Byte), NEW r, NEW e \in Nat, NEW d \in Nat, NEW v, e > Len(f), Failed(r, f), d >= e
  PROVE  Reads(r, f, d, v)
<1>1. Len(f) \in Nat
  OBVIOUS
<1>2. d > Len(f)
  BY <1>1
<1>3. QED
  BY <1>2 DEF Reads

(* At the end of the file every read of a number fails. *)
LEMMA ReadNumFails ==
  ASSUME NEW f \in Seq(Byte), NEW p \in Nat, p >= Len(f)
  PROVE  Failed(read_num(f, p), f)
<1>1. read_num(f, p) = ReadError(f, p)
  BY DEF read_num
<1>2. QED
  BY <1>1, ReadErrorFails

(* Appending a digit to a number gives a number. *)
LEMMA ShiftIsNat == ASSUME NEW v \in Nat, NEW b \in Nat  PROVE v * Base + b \in Nat
<1>1. v * Base \in Nat
  BY ByteBounds
<1> DEFINE x == v * Base
<1>2. x \in Nat
  BY <1>1
<1> HIDE DEF x
<1>3. x + b \in Nat
  BY <1>2
<1>4. QED
  BY <1>3 DEF x

(* The bytes of a number from q on, folded. *)
FoldFrom(f, q, n, a) ==
  CHOOSE g : g = [i \in 0..n |-> IF i = 0 THEN a ELSE g[i - 1] * Base + f[q + i]]

(* They are the digits of s[0] after the digit a. *)
Digits(s, f, q, n, a) ==
  /\ s \in [0..n -> Nat] /\ s[n] = a
  /\ \A i \in 1..n : s[i] = s[i - 1] \div Base
  /\ \A i \in 1..n : f[q + i] = s[n - i] % Base

(* The loop of read_num over the digits of a number gives the number back. *)
LEMMA FoldOfBytes ==
  ASSUME NEW f \in Seq(Byte), NEW q \in Nat, NEW n \in Nat, NEW a \in Nat, q + n <= Len(f),
         NEW s, Digits(s, f, q, n, a)
  PROVE  FoldFrom(f, q, n, a)[n] = s[0]
<1> DEFINE ret == FoldFrom(f, q, n, a)
<1>d. /\ s \in [0..n -> Nat] /\ s[n] = a
      /\ \A i \in 1..n : s[i] = s[i - 1] \div Base
      /\ \A i \in 1..n : f[q + i] = s[n - i] % Base
  BY DEF Digits
<1>0. Len(f) \in Nat /\ Base \in Nat
  BY ByteBounds
<1> USE <1>0
<1> DEFINE step(i) == [v \in Nat |-> v * Base + f[q + i]]
           h == [i \in 1..n |-> step(i)]
<1>1. \A i \in 1..n : f[q + i] \in Nat
  <2>1. \A i \in 1..n : q + i \in 1..Len(f)
    OBVIOUS
  <2>2. \A i \in 1..n : f[q + i] \in Byte
    BY <2>1
  <2>3. QED
    BY <2>2, ByteBounds DEF Byte
<1>2. h \in [1..n -> [Nat -> Nat]]
  <2>1. ASSUME NEW i \in 1..n  PROVE step(i) \in [Nat -> Nat]
    BY <1>1, ShiftIsNat
  <2> HIDE DEF step
  <2>2. QED
    BY <2>1
<1>3. PICK g \in [0..n -> Nat] : Recursion(g, a, n, h)
  <2> HIDE DEF h
  <2>1. QED
    BY <1>2, RecursiveFunction
<1>4. \A i \in 0..n : i # 0 => g[i - 1] \in Nat /\ h[i][g[i - 1]] = g[i - 1] * Base + f[q + i]
  <2>1. SUFFICES ASSUME NEW i \in 0..n, i # 0
                 PROVE  g[i - 1] \in Nat /\ h[i][g[i - 1]] = g[i - 1] * Base + f[q + i]
    OBVIOUS
  <2>2. i \in 1..n /\ i - 1 \in 0..n
    BY <2>1
  <2>3. g[i - 1] \in Nat /\ h[i] = [v \in Nat |-> v * Base + f[q + i]]
    BY <2>2
  <2>4. QED
    BY <2>3
<1> HIDE DEF h
<1>5. [i \in 0..n |-> IF i = 0 THEN a ELSE h[i][g[i - 1]]]
        = [i \in 0..n |-> IF i = 0 THEN a ELSE g[i - 1] * Base + f[q + i]]
  BY <1>4
<1>6. g = [i \in 0..n |-> IF i = 0 THEN a ELSE g[i - 1] * Base + f[q + i]]
  BY <1>3, <1>5 DEF Recursion
<1>7. ret = [i \in 0..n |-> IF i = 0 THEN a ELSE ret[i - 1] * Base + f[q + i]]
  BY <1>6 DEF FoldFrom
<1> HIDE DEF ret
<1>8. ret[0] = a /\ \A i \in 1..n : ret[i] = ret[i - 1] * Base + f[q + i]
  <2> DEFINE F(g1, i) == IF i = 0 THEN a ELSE g1[i - 1] * Base + f[q + i]
  <2>1. ret = [i \in 0..n |-> F(ret, i)]
    BY <1>7
  <2> HIDE DEF F
  <2>2. \A i \in 0..n : ret[i] = F(ret, i)
    BY <2>1
  <2>3. 0 \in 0..n /\ \A i \in 1..n : i \in 0..n /\ i # 0
    OBVIOUS
  <2>4. F(ret, 0) = a /\ \A i \in 1..n : F(ret, i) = ret[i - 1] * Base + f[q + i]
    BY <2>3 DEF F
  <2>5. QED
    BY <2>2, <2>3, <2>4
<1> DEFINE P(i) == ret[i] = s[n - i]
           T == {i \in 0..n : P(i)}
<1>9. 0 \in T
  BY <1>8, <1>d
<1>10. \A i \in 0..(n - 1) : i \in T => i + 1 \in T
  <2>1. ASSUME NEW i \in 0..(n - 1), i \in T  PROVE i + 1 \in T
    <3> DEFINE j == i + 1
               k == n - i
    <3>1. j \in 1..n /\ j - 1 = i /\ k \in 1..n /\ n - j = k - 1 /\ k - 1 \in 0..n /\ j \in 0..n
      OBVIOUS
    <3> HIDE DEF j
    <3>2. ret[i] = s[k]
      BY <2>1
    <3> HIDE DEF k
    <3> DEFINE b == f[q + j]
    <3>a. b = s[k - 1] % Base
      BY <3>1, <1>d
    <3> HIDE DEF b
    <3>3. ret[j] = s[k] * Base + b
      BY <1>8, <3>1, <3>2 DEF b
    <3>4. s[k] = s[k - 1] \div Base /\ s[k - 1] \in Nat
      BY <3>1, <1>d
    <3>5. ret[j] = s[k - 1]
      <4> DEFINE x == s[k - 1]
                 d == s[k]
      <4>1. x \in Nat /\ b = x % Base /\ d = x \div Base /\ ret[j] = d * Base + b
        BY <3>3, <3>4, <3>a
      <4> HIDE DEF x, d
      <4>2. d * Base + b = x
        BY <4>1, DivMod
      <4>3. QED
        BY <4>1, <4>2 DEF x
    <3>6. QED
      BY <3>1, <3>5 DEF j
  <2>2. QED
    BY <2>1
<1>11. n \in T
  <2> HIDE DEF T
  <2>1. \A i \in 0..n : i \in T
    BY <1>9, <1>10, InductionUpTo
  <2>2. QED
    BY <2>1
<1>12. ret[n] = s[n - n] /\ n - n = 0
  BY <1>11
<1>13. QED
  BY <1>12 DEF ret

(* For every natural number: what Database::write_num writes, the marks, a digit that looks like a mark and
   the digits, read_num reads as that number, taking exactly these bytes; counted_num is their number. *)
THEOREM ReadNumReads ==
  ASSUME NEW f \in Seq(Byte), NEW p \in Nat, NEW t \in Nat, Occurs(write_num(t), f, p)
  PROVE  /\ Reads(read_num(f, p), f, p + Len(write_num(t)), t)
         /\ write_num(t) \in Seq(Byte)
         /\ Len(write_num(t)) \in Nat \ {0}
         /\ counted_num(t) = Len(write_num(t))
<1>0. Len(f) \in Nat /\ Base \in Nat /\ Base > 2 /\ MAGICNUMCHAR = Base - 1 /\ MAGICNUMCHAR \in Nat
  BY ByteBounds
<1> DEFINE w == write_num(t)
<1>1. CASE t < MAGICNUMCHAR
  <2>1. t < Base /\ t # MAGICNUMCHAR
    BY <1>0, <1>1
  <2>2. w = <<t>> /\ counted_num(t) = 1
    BY <2>1 DEF write_num, counted_num
  <2> HIDE DEF w
  <2>3. t \in Byte /\ Len(w) = 1 /\ w[1] = t /\ w \in Seq(Byte)
    BY <2>1, <2>2, <1>0 DEF Byte
  <2>4. CASE p >= Len(f)
    <3>1. Failed(read_num(f, p), f) /\ p + 1 > Len(f)
      BY <2>4, <1>0, ReadNumFails
    <3>2. QED
      BY <3>1, <2>2, <2>3 DEF Reads, w
  <2>5. CASE p < Len(f)
    <3>1. ~(p >= Len(f)) /\ p + 1 <= Len(f) /\ 1 \in 1..Len(w)
      BY <2>5, <1>0, <2>3
    <3>2. f[p + 1] = t
      BY <3>1, <2>3 DEF Occurs, w
    <3>3. read_num(f, p) = Got(p + 1, t)
      BY <3>1, <3>2, <2>1 DEF read_num
    <3>4. QED
      BY <3>3, <2>2, <2>3 DEF Reads, w
  <2>6. QED
    BY <2>4, <2>5, <1>0
<1>2. CASE t >= MAGICNUMCHAR
  <2>1. w \in Seq(Byte) /\ counted_num(t) = Len(w)
    BY <1>2, WriteNumShape
  <2>2. PICK s, count, flags : Shape(w, t, s, count, flags)
    BY <1>2, WriteNumShape
  <2>a. Occurs(w, f, p)
    OBVIOUS
  <2> HIDE DEF w
  <2>3. /\ count \in Nat /\ flags \in Nat /\ flags \in {count, count + 1} /\ flags >= 1
        /\ s \in [0..count -> Nat] /\ s[0] = t
        /\ \A i \in 1..count : s[i] = s[i - 1] \div Base
        /\ Len(w) = flags + 1 + count
    BY <2>2 DEF Shape
  <2>4. \A i \in 1..flags : w[i] = MAGICNUMCHAR
    BY <2>2 DEF Shape
  <2>5. \A i \in 1..count : w[flags + 1 + i] = s[count - i] % Base
    BY <2>2 DEF Shape
  <2> DEFINE c == IF flags = count THEN s[count] ELSE 0
  <2>6. w[flags + 1] = c /\ c # MAGICNUMCHAR /\ (c = 0 <=> flags # count)
        /\ (flags # count => s[count] = MAGICNUMCHAR)
    BY <2>2, <1>0 DEF Shape
  <2> HIDE DEF c
  <2>7. Reads(read_num(f, p), f, p + Len(w), t)
    <3> DEFINE ends == {q \in (p + 1)..(Len(f) - 1) : f[q + 1] # MAGICNUMCHAR}
    <3>1. \A q \in (p + 1)..(Len(f) - 1) : q < p + flags => f[q + 1] = MAGICNUMCHAR
      <4>1. SUFFICES ASSUME NEW q \in (p + 1)..(Len(f) - 1), q < p + flags
                     PROVE  f[q + 1] = MAGICNUMCHAR
        OBVIOUS
      <4> DEFINE i == (q + 1) - p
      <4>2. i \in 1..flags /\ i \in 1..Len(w) /\ p + i = q + 1 /\ p + i <= Len(f)
        BY <4>1, <1>0, <2>3
      <4> HIDE DEF i
      <4>3. f[p + i] = w[i] /\ w[i] = MAGICNUMCHAR
        BY <4>2, <2>4, <2>a DEF Occurs
      <4>4. QED
        BY <4>2, <4>3
    <3>2. CASE p >= Len(f)
      <4>1. Failed(read_num(f, p), f) /\ p + Len(w) > Len(f)
        BY <3>2, <1>0, <2>3, ReadNumFails
      <4>2. QED
        BY <4>1 DEF Reads
    <3>3. CASE ~(p >= Len(f))
      <4>1. p + 1 <= Len(f) /\ 1 \in 1..flags /\ 1 \in 1..Len(w)
        BY <3>3, <1>0, <2>3
      <4>2. f[p + 1] = MAGICNUMCHAR
        BY <4>1, <2>4, <2>a DEF Occurs
      <4>3. CASE p + flags + 1 > Len(f)
        <5>1. \A q \in (p + 1)..(Len(f) - 1) : q < p + flags
          BY <4>3, <1>0, <2>3
        <5>2. ends = {}
          BY <5>1, <3>1
        <5>3. read_num(f, p) = ReadError(f, p)
          BY <3>3, <4>2, <5>2 DEF read_num
        <5>4. p + Len(w) > Len(f)
          BY <4>3, <1>0, <2>3
        <5>5. QED
          BY <5>3, <5>4, ReadErrorFails DEF Reads
      <4>4. CASE p + flags + 1 <= Len(f)
        <5> DEFINE q == p + flags
        <5>1. q \in Nat /\ q \in (p + 1)..(Len(f) - 1)
          BY <4>4, <1>0, <2>3
        <5>2. f[q + 1] = c
          <6>1. flags + 1 \in 1..Len(w) /\ p + (flags + 1) = q + 1 /\ p + (flags + 1) <= Len(f)
            BY <4>4, <1>0, <2>3
          <6>2. f[p + (flags + 1)] = w[flags + 1]
            BY <6>1, <2>a DEF Occurs
          <6>3. QED
            BY <6>1, <6>2, <2>6
        <5>3. q \in ends
          BY <5>1, <5>2, <2>6
        <5>4. \A r \in ends : ~(r < q)
          BY <3>1
        <5>5. ends \subseteq Nat /\ ends # {}
          BY <5>3, <1>0
        <5> DEFINE m == Min(ends)
        <5>6. m \in ends /\ \A r \in ends : m <= r
          <6> HIDE DEF ends
          <6>1. QED
            BY <5>5, MinIsLeast
        <5>7. m = q
          <6>1. m \in Nat /\ m <= q /\ ~(m < q)
            BY <5>3, <5>4, <5>5, <5>6
          <6> HIDE DEF m
          <6>2. QED
            BY <6>1, <5>1
        <5> DEFINE b == f[m + 1]
                   toget == IF b = 0 THEN m - p - 1 ELSE m - p
                   a == IF b = 0 THEN MAGICNUMCHAR ELSE b
                   ret == CHOOSE g : g = [i \in 0..toget |-> IF i = 0 THEN a
                                                 ELSE g[i - 1] * Base + f[m + 1 + i]]
        <5>8. toget = count
          <6> HIDE DEF m
          <6>1. b = c
            BY <5>7, <5>2
          <6>2. QED
            BY <6>1, <5>7, <2>3, <2>6
        <5>9. a = s[count] /\ a \in Nat
          <6> HIDE DEF m
          <6>1. s[count] \in Nat /\ b = c
            BY <2>3, <5>7, <5>2
          <6>2. QED
            BY <6>1, <2>6 DEF c
        <5>11. read_num(f, p) = IF m + 1 + toget > Len(f) THEN ReadError(f, p)
                                ELSE Got(m + 1 + toget, ret[toget])
          <6>1. ~(f[p + 1] # MAGICNUMCHAR) /\ ~(ends = {}) /\ ~(p >= Len(f))
            BY <4>2, <5>5, <3>3
          <6>2. QED
            BY <6>1 DEF read_num
        <5>12. m + 1 + toget = p + Len(w) /\ m + 1 \in Nat /\ m \in Nat
          <6> HIDE DEF m
          <6>1. m + 1 + toget = (p + flags) + 1 + count
            BY <5>7, <5>8
          <6>2. QED
            BY <6>1, <5>1, <5>7, <2>3
        <5>10. ret = FoldFrom(f, m + 1, toget, a)
          BY DEF FoldFrom
        <5> HIDE DEF m, b, toget, a, ret
        <5>13. CASE m + 1 + toget > Len(f)
          <6>1. read_num(f, p) = ReadError(f, p) /\ p + Len(w) > Len(f)
            BY <5>11, <5>12, <5>13
          <6>2. QED
            BY <6>1, ReadErrorFails DEF Reads
        <5>14. CASE ~(m + 1 + toget > Len(f))
          <6>1. \A i \in 1..count : f[(m + 1) + i] = s[count - i] % Base
            <7>1. SUFFICES ASSUME NEW i \in 1..count  PROVE f[(m + 1) + i] = s[count - i] % Base
              OBVIOUS
            <7> DEFINE j == flags + 1 + i
            <7>2. j \in 1..Len(w) /\ p + j = (m + 1) + i /\ p + j <= Len(f)
              BY <5>7, <5>8, <5>12, <5>14, <2>3, <1>0
            <7>3. w[j] = s[count - i] % Base
              BY <2>5
            <7> HIDE DEF j
            <7>4. f[p + j] = w[j]
              BY <7>2, <2>a DEF Occurs
            <7>5. QED
              BY <7>2, <7>3, <7>4
          <6>2. ret = FoldFrom(f, m + 1, count, a)
            BY <5>10, <5>8
          <6>3. (m + 1) + count <= Len(f)
            BY <5>8, <5>12, <5>14, <1>0, <2>3
          <6>4. ret[count] = s[0]
            <7> DEFINE n == m + 1
            <7>1. n \in Nat /\ n + count <= Len(f) /\ (\A i \in 1..count : f[n + i] = s[count - i] % Base)
                  /\ ret = FoldFrom(f, n, count, a)
              BY <6>1, <6>2, <6>3, <5>12
            <7> HIDE DEF n
            <7>2. Digits(s, f, n, count, a)
              BY <7>1, <5>9, <2>3 DEF Digits
            <7>3. count \in Nat /\ a \in Nat /\ n \in Nat /\ n + count <= Len(f)
              BY <7>1, <5>9, <2>3
            <7>4. FoldFrom(f, n, count, a)[count] = s[0]
              BY <7>2, <7>3, FoldOfBytes
            <7>5. QED
              BY <7>1, <7>4
          <6>5. read_num(f, p) = Got(p + Len(w), t)
            BY <5>11, <5>12, <5>14, <5>8, <6>4, <2>3
          <6>6. QED
            BY <6>5 DEF Reads
        <5>15. QED
          BY <5>13, <5>14
      <4>5. QED
        BY <4>3, <4>4, <1>0, <2>3
    <3>4. QED
      BY <3>2, <3>3
  <2>8. Len(w) \in Nat \ {0}
    BY <2>3
  <2>9. QED
    BY <2>1, <2>7, <2>8 DEF w
<1>3. QED
  BY <1>0, <1>1, <1>2

-------------------------------------------------------------------------------
(* Items and their bytes *)

Item == [kind : {"num"}, val : Nat] \cup [kind : {"char"}, val : Byte]
          \cup [kind : {"plain"}, val : ByteString]

(* The elements of Append(s, e). *)
LEMMA AppendElements ==
  ASSUME NEW S, NEW s \in Seq(S), NEW e \in S
  PROVE  /\ Append(s, e) \in Seq(S) /\ Len(Append(s, e)) = Len(s) + 1 /\ Len(s) \in Nat
         /\ \A i \in 1..(Len(s) + 1) : Append(s, e)[i] = IF i <= Len(s) THEN s[i] ELSE e
OBVIOUS

(* The bytes of a number: at least one, and as many as are counted. *)
LEMMA NumberBytes ==
  ASSUME NEW t \in Nat
  PROVE  /\ write_num(t) \in Seq(Byte)
         /\ Len(write_num(t)) \in Nat \ {0}
         /\ counted_num(t) = Len(write_num(t))
<1> DEFINE f == <<>>
           w == write_num(t)
<1>1. f \in Seq(Byte) /\ Len(f) = 0
  OBVIOUS
<1>2. Occurs(w, f, 0)
  <2> HIDE DEF w
  <2>1. SUFFICES ASSUME NEW i \in 1..Len(w), 0 + i <= Len(f)  PROVE f[0 + i] = w[i]
    BY DEF Occurs
  <2>2. 0 + i > 0
    BY <2>1
  <2>3. QED
    BY <1>1, <2>1, <2>2
<1>3. w \in Seq(Byte) /\ Len(w) \in Nat \ {0} /\ counted_num(t) = Len(w)
  <2>1. f \in Seq(Byte) /\ 0 \in Nat /\ Occurs(write_num(t), f, 0)
    BY <1>1, <1>2
  <2> HIDE DEF f
  <2>2. QED
    BY <2>1, ReadNumReads
<1>4. QED
  BY <1>3

(* The three kinds of items, and what is put into the file. *)
LEMMA ItemBytes ==
  /\ \A t \in Nat : Num(t) \in Item /\ put(Num(t)) = write_num(t)
  /\ \A c \in Byte : Char(c) \in Item /\ put(Char(c)) = <<c>>
  /\ \A s \in ByteString : Plain(s) \in Item /\ put(Plain(s)) = s
  /\ \A i \in Item : /\ put(i) \in Seq(Byte)
                     /\ counted(i) = Len(put(i))
                     /\ Len(put(i)) \in Nat
<1>1. /\ \A t \in Nat : Num(t) \in Item /\ put(Num(t)) = write_num(t)
      /\ \A c \in Byte : Char(c) \in Item /\ put(Char(c)) = <<c>>
      /\ \A s \in ByteString : Plain(s) \in Item /\ put(Plain(s)) = s
  BY DEF Item, Num, Char, Plain, put
<1>2. ASSUME NEW i \in Item
      PROVE  put(i) \in Seq(Byte) /\ counted(i) = Len(put(i)) /\ Len(put(i)) \in Nat
  <2>1. CASE i \in [kind : {"num"}, val : Nat]
    <3>1. i.val \in Nat /\ put(i) = write_num(i.val) /\ counted(i) = counted_num(i.val)
      BY <2>1 DEF put, counted
    <3>2. QED
      BY <3>1, NumberBytes
  <2>2. CASE i \in [kind : {"char"}, val : Byte]
    <3>1. i.val \in Byte /\ put(i) = <<i.val>> /\ counted(i) = 1
      BY <2>2 DEF put, counted
    <3>2. QED
      BY <3>1
  <2>3. CASE i \in [kind : {"plain"}, val : ByteString]
    <3>1. i.val \in Seq(Byte) /\ put(i) = i.val /\ counted(i) = Len(i.val)
      BY <2>3 DEF put, counted, ByteString
    <3>2. QED
      BY <3>1
  <2>4. QED
    BY <2>1, <2>2, <2>3 DEF Item
<1>3. QED
  BY <1>1, <1>2

(* The bytes of all items, one by one. *)
Puts(items) == [i \in DOMAIN items |-> put(items[i])]

(* The bytes of each item, in order. *)
LEMMA PutsType ==
  ASSUME NEW items \in Seq(Item)
  PROVE  Puts(items) \in Seq(Seq(Byte)) /\ Len(Puts(items)) = Len(items)
<1>1. DOMAIN items = 1..Len(items) /\ Len(items) \in Nat /\ \A i \in 1..Len(items) : items[i] \in Item
  OBVIOUS
<1>2. \A i \in 1..Len(items) : put(items[i]) \in Seq(Byte)
  BY <1>1, ItemBytes
<1>3. QED
  BY <1>1, <1>2 DEF Puts

(* Items are written as bytes. *)
LEMMA BytesType ==
  ASSUME NEW items \in Seq(Item)
  PROVE  Bytes(items) \in Seq(Byte) /\ Len(Bytes(items)) \in Nat
<1>1. Bytes(items) = FlattenSeq(Puts(items))
  BY DEF Bytes, Puts
<1>2. Bytes(items) \in Seq(Byte)
  BY <1>1, PutsType, FlattenType
<1>3. QED
  BY <1>2

(* Items written one after the other are the concatenation of their bytes. *)
LEMMA BytesConcat ==
  ASSUME NEW a \in Seq(Item), NEW b \in Seq(Item)
  PROVE  Bytes(a \o b) = Bytes(a) \o Bytes(b)
<1>0. Len(a) \in Nat /\ Len(b) \in Nat
  OBVIOUS
<1>1. a \o b \in Seq(Item) /\ Len(a \o b) = Len(a) + Len(b)
  OBVIOUS
<1>2. Puts(a \o b) = Puts(a) \o Puts(b)
  <2> DEFINE x == Puts(a)
             y == Puts(b)
             z == Puts(a \o b)
  <2>1. x \in Seq(Seq(Byte)) /\ Len(x) = Len(a) /\ y \in Seq(Seq(Byte)) /\ Len(y) = Len(b)
        /\ z \in Seq(Seq(Byte)) /\ Len(z) = Len(a) + Len(b)
    BY <1>1, PutsType
  <2>2. \A i \in 1..Len(a) : x[i] = put(a[i])
    BY <1>0 DEF Puts
  <2>3. \A i \in 1..Len(b) : y[i] = put(b[i])
    BY <1>0 DEF Puts
  <2>4. \A i \in 1..(Len(a) + Len(b)) : z[i] = put((a \o b)[i])
    BY <1>0, <1>1 DEF Puts
  <2>5. \A i \in 1..(Len(a) + Len(b)) : z[i] = IF i <= Len(a) THEN x[i] ELSE y[i - Len(a)]
    <3>1. ASSUME NEW i \in 1..(Len(a) + Len(b))
          PROVE  z[i] = IF i <= Len(a) THEN x[i] ELSE y[i - Len(a)]
      <4>1. CASE i <= Len(a)
        <5>1. i \in 1..Len(a) /\ (a \o b)[i] = a[i]
          BY <4>1, <1>0
        <5>2. QED
          BY <5>1, <4>1, <2>2, <2>4
      <4>2. CASE ~(i <= Len(a))
        <5>1. i - Len(a) \in 1..Len(b) /\ (a \o b)[i] = b[i - Len(a)]
          BY <4>2, <1>0
        <5>2. QED
          BY <5>1, <4>2, <2>3, <2>4
      <4>3. QED
        BY <4>1, <4>2
    <3>2. QED
      BY <3>1
  <2> HIDE DEF x, y, z
  <2> DEFINE xy == x \o y
  <2>a. xy \in Seq(Seq(Byte)) /\ Len(xy) = Len(a) + Len(b)
        /\ \A i \in 1..(Len(a) + Len(b)) : xy[i] = IF i <= Len(a) THEN x[i] ELSE y[i - Len(a)]
    <3>1. x \in Seq(Seq(Byte)) /\ y \in Seq(Seq(Byte))
      BY <2>1
    <3>2. xy \in Seq(Seq(Byte)) /\ Len(xy) = Len(x) + Len(y)
          /\ \A i \in 1..(Len(x) + Len(y)) : xy[i] = IF i <= Len(x) THEN x[i] ELSE y[i - Len(x)]
      BY ONLY <3>1, ConcatProperties
    <3>3. QED
      BY <2>1, <3>2
  <2> HIDE DEF xy
  <2>b. z = xy
    BY <2>1, <2>5, <2>a, SeqEqual
  <2>6. z = x \o y
    BY <2>b DEF xy
  <2>7. QED
    BY <2>6 DEF x, y, z
<1>3. FlattenSeq(Puts(a) \o Puts(b)) = FlattenSeq(Puts(a)) \o FlattenSeq(Puts(b))
  BY PutsType, FlattenConcat
<1>4. Bytes(a \o b) = FlattenSeq(Puts(a \o b)) /\ Bytes(a) = FlattenSeq(Puts(a))
      /\ Bytes(b) = FlattenSeq(Puts(b))
  BY DEF Bytes, Puts
<1>5. QED
  BY <1>2, <1>3, <1>4

(* No items are no bytes. *)
LEMMA BytesEmpty == Bytes(<<>>) = <<>>
<1>1. Bytes(<<>>) = FlattenSeq(<<>>)
  BY DEF Bytes
<1>2. QED
  BY <1>1, FlattenEmpty

(* Concatenating one sequence gives it. *)
LEMMA FlattenOne ==
  ASSUME NEW S, NEW s \in Seq(S)
  PROVE  FlattenSeq(<<s>>) = s
<1> DEFINE e == <<>>
<1>1. e \in Seq(Seq(S)) /\ Append(e, s) = <<s>> /\ FlattenSeq(e) = e /\ e \o s = s
  BY FlattenEmpty
<1> HIDE DEF e
<1>2. FlattenSeq(Append(e, s)) = FlattenSeq(e) \o s
  BY <1>1, FlattenAppend
<1>3. QED
  BY <1>1, <1>2

(* The bytes of one item. *)
LEMMA BytesOne ==
  ASSUME NEW i \in Item
  PROVE  Bytes(<<i>>) = put(i)
<1>1. Bytes(<<i>>) = FlattenSeq(<<put(i)>>)
  <2>1. [j \in DOMAIN <<i>> |-> put(<<i>>[j])] = <<put(i)>>
    OBVIOUS
  <2>2. QED
    BY <2>1 DEF Bytes
<1>2. QED
  BY <1>1, ItemBytes, FlattenOne

(* The bytes of several sequences of items. *)
EachBytes(iss) == [i \in DOMAIN iss |-> Bytes(iss[i])]

(* The bytes of each list of items, in order. *)
LEMMA EachBytesType ==
  ASSUME NEW iss \in Seq(Seq(Item))
  PROVE  EachBytes(iss) \in Seq(Seq(Byte)) /\ Len(EachBytes(iss)) = Len(iss)
<1>1. DOMAIN iss = 1..Len(iss) /\ Len(iss) \in Nat /\ \A i \in 1..Len(iss) : iss[i] \in Seq(Item)
  OBVIOUS
<1>2. \A i \in 1..Len(iss) : Bytes(iss[i]) \in Seq(Byte)
  BY <1>1, BytesType
<1>3. QED
  BY <1>1, <1>2 DEF EachBytes

(* Lists of items written one after the other are the concatenation of their bytes. *)
LEMMA BytesFlatten ==
  ASSUME NEW iss \in Seq(Seq(Item))
  PROVE  Bytes(FlattenSeq(iss)) = FlattenSeq(EachBytes(iss))
<1>0. Len(iss) \in Nat
  OBVIOUS
<1> USE <1>0
<1> DEFINE P(k) == Bytes(FlattenSeq(SubSeq(iss, 1, k))) = FlattenSeq(EachBytes(SubSeq(iss, 1, k)))
<1>1. P(0)
  <2>1. SubSeq(iss, 1, 0) = <<>>
    OBVIOUS
  <2>2. EachBytes(<<>>) = <<>>
    BY DEF EachBytes
  <2>3. QED
    BY <2>1, <2>2, FlattenEmpty, BytesEmpty
<1>2. ASSUME NEW n \in 0..(Len(iss) - 1), P(n)  PROVE P(n + 1)
  <2> DEFINE a == SubSeq(iss, 1, n)
             s == iss[n + 1]
  <2>1. a \in Seq(Seq(Item)) /\ s \in Seq(Item) /\ SubSeq(iss, 1, n + 1) = Append(a, s)
    OBVIOUS
  <2>a. Bytes(FlattenSeq(a)) = FlattenSeq(EachBytes(a))
    BY <1>2
  <2> HIDE DEF a, s
  <2>2. EachBytes(Append(a, s)) = Append(EachBytes(a), Bytes(s))
    <3>1. Len(a) \in Nat /\ Append(a, s) \in Seq(Seq(Item)) /\ Len(Append(a, s)) = Len(a) + 1
          /\ \A i \in 1..(Len(a) + 1) : Append(a, s)[i] = IF i <= Len(a) THEN a[i] ELSE s
      BY <2>1
    <3> DEFINE x == EachBytes(Append(a, s))
               y == EachBytes(a)
               z == Bytes(s)
    <3>2. x \in Seq(Seq(Byte)) /\ Len(x) = Len(a) + 1 /\ y \in Seq(Seq(Byte)) /\ Len(y) = Len(a)
          /\ z \in Seq(Byte)
      BY <2>1, <3>1, EachBytesType, BytesType
    <3>3. \A i \in 1..(Len(a) + 1) : x[i] = Bytes(Append(a, s)[i])
      BY <3>1 DEF EachBytes
    <3>4. \A i \in 1..Len(a) : y[i] = Bytes(a[i])
      BY <2>1, <3>1 DEF EachBytes
    <3> HIDE DEF x, y
    <3>5. ASSUME NEW i \in 1..(Len(a) + 1)
          PROVE  x[i] = IF i <= Len(a) THEN y[i] ELSE z
      <4>1. CASE i <= Len(a)
        <5>1. i \in 1..Len(a)
          BY <4>1, <3>1
        <5>2. Append(a, s)[i] = a[i]
          BY <3>1, <4>1
        <5>3. QED
          BY <5>1, <5>2, <4>1, <3>3, <3>4
      <4>2. CASE ~(i <= Len(a))
        <5>1. Append(a, s)[i] = s
          BY <3>1, <4>2
        <5>2. QED
          BY <5>1, <4>2, <3>3
      <4>3. QED
        BY <4>1, <4>2
    <3> HIDE DEF z
    <3> DEFINE yz == Append(y, z)
    <3>a. yz \in Seq(Seq(Byte)) /\ Len(yz) = Len(a) + 1
          /\ \A i \in 1..(Len(a) + 1) : yz[i] = IF i <= Len(a) THEN y[i] ELSE z
      <4>1. y \in Seq(Seq(Byte)) /\ z \in Seq(Byte) /\ Len(y) \in Nat
        BY <3>2
      <4>2. yz \in Seq(Seq(Byte)) /\ Len(yz) = Len(y) + 1
            /\ \A i \in 1..(Len(y) + 1) : yz[i] = IF i <= Len(y) THEN y[i] ELSE z
        BY ONLY <4>1, AppendElements
      <4>3. QED
        BY <3>2, <4>2
    <3> HIDE DEF yz
    <3>b. x = yz
      BY <3>2, <3>5, <3>a, SeqEqual
    <3>6. x = Append(y, z)
      BY <3>b DEF yz
    <3>7. QED
      BY <3>6 DEF x, y, z
  <2>3. FlattenSeq(Append(a, s)) = FlattenSeq(a) \o s
    BY <2>1, FlattenAppend
  <2>4. FlattenSeq(a) \in Seq(Item)
    BY <2>1, FlattenType
  <2>5. Bytes(FlattenSeq(a) \o s) = Bytes(FlattenSeq(a)) \o Bytes(s)
    BY <2>1, <2>4, BytesConcat
  <2>6. FlattenSeq(Append(EachBytes(a), Bytes(s))) = FlattenSeq(EachBytes(a)) \o Bytes(s)
    BY <2>1, EachBytesType, BytesType, FlattenAppend
  <2>7. QED
    BY <2>1, <2>2, <2>3, <2>5, <2>6, <2>a
<1>3. \A n \in 0..Len(iss) : P(n)
  <2> DEFINE T == {k \in 0..Len(iss) : P(k)}
  <2> HIDE DEF P
  <2>1. 0 \in T
    BY <1>1
  <2>2. \A n \in 0..(Len(iss) - 1) : n \in T => n + 1 \in T
    BY <1>2
  <2> HIDE DEF T
  <2>3. \A n \in 0..Len(iss) : n \in T
    BY <2>1, <2>2, InductionUpTo
  <2>4. QED
    BY <2>3 DEF T
<1>4. SubSeq(iss, 1, Len(iss)) = iss /\ P(Len(iss))
  <2> HIDE DEF P
  <2>1. SubSeq(iss, 1, Len(iss)) = iss
    OBVIOUS
  <2>2. QED
    BY <1>3, <2>1
<1>5. QED
  BY <1>4

(* The counting pass of Database::write_package, which writes nothing, finds exactly the number of bytes that
   the writing pass then writes behind it: the length in front of a package is right. *)
THEOREM CounterCounts ==
  ASSUME NEW items \in Seq(Item)
  PROVE  counter(items) = Len(Bytes(items))
<1>0. Len(items) \in Nat
  OBVIOUS
<1> USE <1>0
<1> DEFINE L(k) == Len(Bytes(SubSeq(items, 1, k)))
           g == [i \in 0..Len(items) |-> L(i)]
<1>1. L(0) = 0
  <2>1. SubSeq(items, 1, 0) = <<>>
    OBVIOUS
  <2>2. L(0) = Len(<<>>)
    BY <2>1, BytesEmpty
  <2>3. QED
    BY <2>2
<1>2. ASSUME NEW i \in 1..Len(items)
      PROVE  L(i) = L(i - 1) + counted(items[i]) /\ L(i - 1) \in Nat /\ L(i) \in Nat
  <2> DEFINE a == SubSeq(items, 1, i - 1)
             t == items[i]
             b == <<t>>
  <2>1. a \in Seq(Item) /\ t \in Item /\ b \in Seq(Item) /\ SubSeq(items, 1, i) = a \o b
    <3>1. a \in Seq(Item) /\ t \in Item /\ SubSeq(items, 1, i) = Append(a, t)
      OBVIOUS
    <3> HIDE DEF a, t
    <3>2. Append(a, t) = a \o <<t>> /\ <<t>> \in Seq(Item)
      BY <3>1, AppendIsConcat
    <3>3. QED
      BY <3>1, <3>2
  <2>2. L(i) = Len(Bytes(a \o b)) /\ L(i - 1) = Len(Bytes(a))
    BY <2>1
  <2> HIDE DEF a, t, L
  <2>3. Bytes(a \o b) = Bytes(a) \o Bytes(b) /\ Bytes(b) = put(t)
    BY <2>1, BytesConcat, BytesOne
  <2>4. Bytes(a) \in Seq(Byte) /\ put(t) \in Seq(Byte) /\ counted(t) = Len(put(t))
        /\ Len(Bytes(a)) \in Nat /\ Len(put(t)) \in Nat
    BY <2>1, BytesType, ItemBytes
  <2>5. Len(Bytes(a) \o put(t)) = Len(Bytes(a)) + Len(put(t))
    BY <2>4
  <2>6. QED
    BY <2>2, <2>3, <2>4, <2>5 DEF t
<1> HIDE DEF L
<1> DEFINE count == CHOOSE c : c = [i \in 0..Len(items) |->
                                      IF i = 0 THEN 0 ELSE c[i - 1] + counted(items[i])]
<1>3. g = [i \in 0..Len(items) |-> IF i = 0 THEN 0 ELSE g[i - 1] + counted(items[i])]
  <2>1. \A i \in 0..Len(items) : g[i] = IF i = 0 THEN 0 ELSE g[i - 1] + counted(items[i])
    <3>1. ASSUME NEW i \in 0..Len(items)
          PROVE  g[i] = IF i = 0 THEN 0 ELSE g[i - 1] + counted(items[i])
      <4>1. CASE i = 0
        BY <4>1, <1>1
      <4>2. CASE i # 0
        <5>1. i \in 1..Len(items) /\ i - 1 \in 0..Len(items)
          BY <4>2
        <5>2. g[i] = L(i) /\ g[i - 1] = L(i - 1)
          BY <5>1
        <5>3. QED
          BY <5>1, <5>2, <1>2, <4>2
      <4>3. QED
        BY <4>1, <4>2
    <3>2. QED
      BY <3>1
  <2>2. g = [i \in 0..Len(items) |-> g[i]]
    OBVIOUS
  <2> HIDE DEF g
  <2>3. QED
    BY <2>1, <2>2
<1>4. count = [i \in 0..Len(items) |-> IF i = 0 THEN 0 ELSE count[i - 1] + counted(items[i])]
  <2> HIDE DEF g
  <2>1. QED
    BY <1>3
<1>5. counter(items) = count[Len(items)]
  BY DEF counter
<1> HIDE DEF count
<1>6. \A n \in 0..Len(items) : count[n] = L(n)
  <2> DEFINE P(n) == count[n] = L(n)
  <2>1. P(0)
    BY <1>1, <1>4
  <2>2. ASSUME NEW n \in 0..(Len(items) - 1), P(n)  PROVE P(n + 1)
    <3> DEFINE j == n + 1
    <3>1. j \in 1..Len(items) /\ j - 1 = n /\ j \in 0..Len(items) /\ j # 0
      OBVIOUS
    <3> HIDE DEF j
    <3>2. count[j] = count[n] + counted(items[j])
      BY <1>4, <3>1
    <3>3. L(j) = L(n) + counted(items[j])
      BY <1>2, <3>1
    <3>4. count[j] = L(j)
      BY <3>2, <3>3, <2>2
    <3>5. QED
      BY <3>4 DEF j
  <2> DEFINE T == {k \in 0..Len(items) : P(k)}
  <2> HIDE DEF P
  <2>3. 0 \in T
    BY <2>1
  <2>4. \A n \in 0..(Len(items) - 1) : n \in T => n + 1 \in T
    BY <2>2
  <2> HIDE DEF T
  <2>5. \A n \in 0..Len(items) : n \in T
    BY <2>3, <2>4, InductionUpTo
  <2>6. QED
    BY <2>5 DEF T, P
<1>7. SubSeq(items, 1, Len(items)) = items
  OBVIOUS
<1>8. L(Len(items)) = Len(Bytes(items))
  BY <1>7 DEF L
<1>9. Len(items) \in 0..Len(items)
  OBVIOUS
<1>10. QED
  BY <1>5, <1>6, <1>8, <1>9

-------------------------------------------------------------------------------
(* One read after another *)

(* What the next reader makes of what was read so far. *)
NextRead(rd, x) ==
  IF x.ok THEN IF rd[x.pos].ok THEN Got(rd[x.pos].pos, Append(x.val, rd[x.pos].val))
                               ELSE rd[x.pos]
          ELSE x

Runs(g, rs, p, n) == g[0] = Got(p, <<>>) /\ \A i \in 1..n : g[i] = NextRead(rs[i], g[i - 1])

(* ReadEach threads the position through its readers, first to last. *)
LEMMA ReadEachRuns ==
  ASSUME NEW rs, NEW p, Len(rs) \in Nat
  PROVE  \E g : ReadEach(rs, p) = g[Len(rs)] /\ Runs(g, rs, p, Len(rs))
<1> DEFINE n == Len(rs)
           F(g, i) == IF i = 0 THEN Got(p, <<>>) ELSE NextRead(rs[i], g[i - 1])
           P(k) == \E g : g = [i \in 0..k |-> F(g, i)]
<1>1. P(0)
  <2> DEFINE g == [i \in 0..0 |-> Got(p, <<>>)]
  <2>1. \A i \in 0..0 : F(g, i) = Got(p, <<>>)
    OBVIOUS
  <2> HIDE DEF F
  <2>2. g = [i \in 0..0 |-> F(g, i)]
    BY <2>1
  <2>3. QED
    BY <2>2
<1>2. ASSUME NEW k \in 0..(n - 1), P(k)  PROVE P(k + 1)
  <2>1. PICK g : g = [i \in 0..k |-> F(g, i)]
    BY <1>2
  <2> DEFINE h == [i \in 0..(k + 1) |-> IF i <= k THEN g[i] ELSE NextRead(rs[k + 1], g[k])]
  <2>2. ASSUME NEW i \in 0..(k + 1)  PROVE h[i] = F(h, i)
    <3>1. CASE i <= k
      <4>1. i \in 0..k /\ h[i] = g[i] /\ (i # 0 => h[i - 1] = g[i - 1])
        BY <3>1
      <4> HIDE DEF h
      <4>2. F(h, i) = F(g, i)
        BY <4>1
      <4> HIDE DEF F
      <4>3. g[i] = F(g, i)
        BY <4>1, <2>1
      <4>4. QED
        BY <4>1, <4>2, <4>3
    <3>2. CASE i = k + 1
      <4>1. i # 0 /\ i - 1 = k /\ ~(i <= k) /\ k \in 0..(k + 1)
        BY <3>2
      <4>2. h[k] = g[k] /\ h[i] = NextRead(rs[k + 1], g[k])
        BY <4>1
      <4> HIDE DEF h
      <4>3. QED
        BY <4>1, <4>2, <3>2
    <3>3. QED
      BY <3>1, <3>2
  <2>3. h = [i \in 0..(k + 1) |-> h[i]]
    OBVIOUS
  <2> HIDE DEF h, F
  <2>4. h = [i \in 0..(k + 1) |-> F(h, i)]
    BY <2>2, <2>3
  <2>5. QED
    BY <2>4
<1>3. \A k \in 0..n : P(k)
  <2> DEFINE T == {k \in 0..n : P(k)}
  <2> HIDE DEF P
  <2>1. 0 \in T
    BY <1>1
  <2>2. \A k \in 0..(n - 1) : k \in T => k + 1 \in T
    BY <1>2
  <2> HIDE DEF T
  <2>3. \A k \in 0..n : k \in T
    BY <2>1, <2>2, InductionUpTo
  <2>4. QED
    BY <2>3 DEF T
<1>4. PICK g : g = [i \in 0..n |-> F(g, i)]
  <2>1. P(n)
    <3> HIDE DEF P
    <3>1. n \in 0..n
      OBVIOUS
    <3>2. QED
      BY <1>3, <3>1
  <2>2. QED
    BY <2>1
<1> DEFINE G(a) == [i \in 0..Len(rs) |->
             IF i = 0 THEN Got(p, <<>>)
             ELSE Then(a[i - 1], LAMBDA q, vals :
                    Then(rs[i][q], LAMBDA r, v : Got(r, Append(vals, v))))]
           after == CHOOSE a : a = G(a)
<1>5. ReadEach(rs, p) = after[Len(rs)]
  BY DEF ReadEach
<1>6. \A a, i : Then(a[i - 1], LAMBDA q, vals :
                    Then(rs[i][q], LAMBDA r, v : Got(r, Append(vals, v))))
                 = NextRead(rs[i], a[i - 1])
  BY DEF Then, NextRead
<1>7. \A a : G(a) = [i \in 0..n |-> F(a, i)]
  BY <1>6
<1>8. after = [i \in 0..n |-> F(after, i)]
  <2> HIDE DEF G, F
  <2>1. g = G(g)
    BY <1>4, <1>7
  <2>2. after = G(after)
    BY <2>1
  <2>3. QED
    BY <1>7, <2>2
<1> HIDE DEF after
<1>9. Runs(after, rs, p, n)
  <2>1. 0 \in 0..n /\ \A i \in 1..n : i \in 0..n /\ i # 0
    OBVIOUS
  <2>2. F(after, 0) = Got(p, <<>>) /\ \A i \in 1..n : F(after, i) = NextRead(rs[i], after[i - 1])
    BY <2>1
  <2> HIDE DEF F
  <2>3. \A i \in 0..n : after[i] = F(after, i)
    BY <1>8
  <2>4. QED
    BY <2>1, <2>2, <2>3 DEF Runs
<1>10. QED
  BY <1>5, <1>9

-------------------------------------------------------------------------------
(* Readers that read what was written *)

(* Wherever w is in the file, the reader finds v. *)
Decodes(rd, f, w, v) == \A p \in Nat : Occurs(w, f, p) => Reads(rd[p], f, p + Len(w), v)

(* The parts of a concatenation are where the parts before them end. *)
LEMMA OccursParts ==
  ASSUME NEW f \in Seq(Byte), NEW p \in Nat, NEW ws \in Seq(Seq(Byte)),
         Occurs(FlattenSeq(ws), f, p), NEW i \in 1..Len(ws)
  PROVE  /\ Occurs(ws[i], f, p + Len(FlattenSeq(SubSeq(ws, 1, i - 1))))
         /\ Len(ws[i]) \in Nat
         /\ Len(FlattenSeq(SubSeq(ws, 1, i - 1))) \in Nat
         /\ Len(FlattenSeq(SubSeq(ws, 1, i)))
              = Len(FlattenSeq(SubSeq(ws, 1, i - 1))) + Len(ws[i])
         /\ Len(FlattenSeq(SubSeq(ws, 1, i))) <= Len(FlattenSeq(ws))
<1>0. Len(ws) \in Nat
  OBVIOUS
<1> USE <1>0
<1> DEFINE a == SubSeq(ws, 1, i - 1)
           w == ws[i]
           c == SubSeq(ws, 1, i)
           d == SubSeq(ws, i + 1, Len(ws))
<1>1. a \in Seq(Seq(Byte)) /\ w \in Seq(Byte) /\ c = Append(a, w) /\ c \in Seq(Seq(Byte))
  OBVIOUS
<1>2. d \in Seq(Seq(Byte))
  OBVIOUS
<1>3. ws = c \o d
  <2>1. c \o d = SubSeq(ws, 1, Len(ws))
    <3>1. i \in 0..Len(ws) /\ 1 \in 1..(Len(ws) + 1) /\ i \in (1 - 1)..Len(ws) /\ Len(ws) \in i..Len(ws)
      OBVIOUS
    <3>2. QED
      BY <3>1, ConcatAdjacentSubSeq
  <2>2. SubSeq(ws, 1, Len(ws)) = ws
    OBVIOUS
  <2>3. QED
    BY <2>1, <2>2
<1> HIDE DEF a, w, c, d
<1> DEFINE fa == FlattenSeq(a)
           fc == FlattenSeq(c)
           fd == FlattenSeq(d)
<1>4. FlattenSeq(ws) = fc \o fd
  BY <1>1, <1>2, <1>3, FlattenConcat
<1>5. fc = fa \o w
  BY <1>1, FlattenAppend
<1>6. fa \in Seq(Byte) /\ fc \in Seq(Byte) /\ fd \in Seq(Byte)
  BY <1>1, <1>2, FlattenType
<1>7. Occurs(fc \o fd, f, p)
  BY <1>4
<1> HIDE DEF fa, fc, fd
<1>8. Occurs(fc, f, p) /\ Len(fc) \in Nat /\ Len(fd) \in Nat /\ Len(fc \o fd) = Len(fc) + Len(fd)
  BY <1>6, <1>7, OccursConcat
<1>9. Occurs(w, f, p + Len(fa)) /\ Len(fa) \in Nat /\ Len(w) \in Nat /\ Len(fc) = Len(fa) + Len(w)
  BY <1>1, <1>5, <1>6, <1>8, OccursConcat
<1>10. Len(fc) <= Len(FlattenSeq(ws))
  BY <1>4, <1>8
<1>11. QED
  BY <1>9, <1>10 DEF a, w, c, fa, fc

EachDecodes(rs, f, ws, vs) ==
  /\ Len(rs) = Len(ws) /\ Len(vs) = Len(ws)
  /\ \A i \in 1..Len(ws) : Decodes(rs[i], f, ws[i], vs[i])

(* Readers that each decode what one writer wrote decode, one after the other, what the writers wrote
   one after the other. *)
LEMMA ReadEachReads ==
  ASSUME NEW f \in Seq(Byte), NEW p \in Nat, NEW rs, NEW ws \in Seq(Seq(Byte)),
         NEW V, NEW vs \in Seq(V), EachDecodes(rs, f, ws, vs), Occurs(FlattenSeq(ws), f, p)
  PROVE  Reads(ReadEach(rs, p), f, p + Len(FlattenSeq(ws)), vs)
<1> DEFINE n == Len(ws)
           E(i) == p + Len(FlattenSeq(SubSeq(ws, 1, i)))
           V1(i) == SubSeq(vs, 1, i)
<1>0. n \in Nat /\ Len(rs) = n /\ Len(vs) = n /\ Len(f) \in Nat
  BY DEF EachDecodes
<1> USE <1>0
<1>1. PICK g : ReadEach(rs, p) = g[n] /\ Runs(g, rs, p, n)
  BY ReadEachRuns
<1>2. ASSUME NEW i \in 1..n
      PROVE  Occurs(ws[i], f, E(i - 1)) /\ E(i) = E(i - 1) + Len(ws[i]) /\ E(i - 1) \in Nat
             /\ E(i) \in Nat /\ E(i - 1) <= E(i)
  <2> DEFINE x == Len(FlattenSeq(SubSeq(ws, 1, i - 1)))
             y == Len(FlattenSeq(SubSeq(ws, 1, i)))
  <2>1. Occurs(ws[i], f, p + x) /\ x \in Nat /\ y = x + Len(ws[i]) /\ Len(ws[i]) \in Nat
    BY OccursParts, SMTT(30), ZenonT(30)
  <2> DEFINE z == Len(ws[i])
  <2>a. x \in Nat /\ z \in Nat /\ y = x + z
    BY <2>1
  <2> HIDE DEF x, y, z
  <2>2. p + y = (p + x) + z /\ p + x \in Nat /\ p + y \in Nat /\ p + x <= p + y
    BY <2>a
  <2>3. QED
    BY <2>1, <2>2 DEF x, y, z
<1>3. E(0) = p /\ V1(0) = <<>>
  <2>1. SubSeq(ws, 1, 0) = <<>> /\ SubSeq(vs, 1, 0) = <<>>
    OBVIOUS
  <2>a. FlattenSeq(SubSeq(ws, 1, 0)) = <<>>
    BY <2>1, FlattenEmpty
  <2>2. Len(FlattenSeq(SubSeq(ws, 1, 0))) = 0
    BY <2>a
  <2>3. QED
    BY <2>1, <2>2
<1>4. \A i \in 1..n : V1(i) = Append(V1(i - 1), vs[i])
  OBVIOUS
<1>5. E(n) = p + Len(FlattenSeq(ws)) /\ V1(n) = vs
  <2>1. SubSeq(ws, 1, n) = ws /\ SubSeq(vs, 1, n) = vs
    OBVIOUS
  <2>2. QED
    BY <2>1
<1> HIDE DEF E, V1
<1> DEFINE P(i) == Reads(g[i], f, E(i), V1(i))
<1>6. P(0)
  BY <1>1, <1>3 DEF Runs, Reads
<1>7. ASSUME NEW k \in 0..(n - 1), P(k)  PROVE P(k + 1)
  <2> DEFINE i == k + 1
  <2>1. i \in 1..n /\ i - 1 = k
    OBVIOUS
  <2> HIDE DEF i
  <2>2. g[i] = NextRead(rs[i], g[k])
    BY <1>1, <2>1 DEF Runs
  <2>3. Occurs(ws[i], f, E(k)) /\ E(i) = E(k) + Len(ws[i]) /\ E(k) \in Nat /\ E(i) \in Nat
        /\ E(k) <= E(i) /\ V1(i) = Append(V1(k), vs[i])
    BY <1>2, <1>4, <2>1
  <2>4. Reads(g[k], f, E(k), V1(k))
    BY <1>7
  <2>5. CASE g[k] = Got(E(k), V1(k))
    <3>1. g[k].ok /\ g[k].pos = E(k) /\ g[k].val = V1(k)
      BY <2>5 DEF Got
    <3>2. Decodes(rs[i], f, ws[i], vs[i])
      BY <2>1 DEF EachDecodes
    <3> DEFINE r == rs[i][E(k)]
    <3>3. Reads(r, f, E(i), vs[i])
      BY <3>2, <2>3 DEF Decodes
    <3>4. g[i] = IF r.ok THEN Got(r.pos, Append(V1(k), r.val)) ELSE r
      BY <3>1, <2>2 DEF NextRead
    <3> HIDE DEF r
    <3>5. \/ r = Got(E(i), vs[i]) /\ r.ok /\ r.pos = E(i) /\ r.val = vs[i]
          \/ Failed(r, f) /\ ~ r.ok /\ E(i) > Len(f)
      BY <3>3, ReadsCases
    <3>6. Reads(g[i], f, E(i), V1(i))
      BY <3>4, <3>5, <2>3 DEF Reads
    <3>7. QED
      BY <3>6 DEF i
  <2>6. CASE E(k) > Len(f) /\ Failed(g[k], f)
    <3>1. ~ g[k].ok
      BY <2>6 DEF Failed
    <3>2. g[i] = g[k]
      BY <3>1, <2>2 DEF NextRead
    <3>3. E(i) > Len(f)
      BY <2>6, <2>3, SMTT(30), ZenonT(30)
    <3>4. Reads(g[i], f, E(i), V1(i))
      BY <3>2, <3>3, <2>6 DEF Reads
    <3>5. QED
      BY <3>4 DEF i
  <2>7. QED
    BY <2>4, <2>5, <2>6 DEF Reads
<1>8. \A k \in 0..n : P(k)
  <2> DEFINE T == {k \in 0..n : P(k)}
  <2> HIDE DEF P
  <2>1. 0 \in T
    BY <1>6
  <2>2. \A k \in 0..(n - 1) : k \in T => k + 1 \in T
    BY <1>7
  <2> HIDE DEF T
  <2>3. \A k \in 0..n : k \in T
    BY <2>1, <2>2, InductionUpTo
  <2>4. QED
    BY <2>3 DEF T
<1>9. P(n)
  <2> HIDE DEF P
  <2>1. n \in 0..n
    OBVIOUS
  <2>2. QED
    BY <1>8, <2>1
<1>10. QED
  BY <1>1, <1>5, <1>9

-------------------------------------------------------------------------------
(* Characters, strings and indices *)

(* Two reads, one after the other. *)
LEMMA ReadsThen ==
  ASSUME NEW f \in Seq(Byte), NEW d \in Nat, NEW e \in Nat, d <= e, NEW u, NEW v, NEW r1, NEW r,
         Reads(r1, f, d, u), r1 = Got(d, u) => Reads(r, f, e, v), ~ r1.ok => r = r1
  PROVE  Reads(r, f, e, v)
<1>0. Len(f) \in Nat
  OBVIOUS
<1>1. CASE r1 = Got(d, u)
  BY <1>1
<1>2. CASE d > Len(f) /\ Failed(r1, f)
  <2>1. r = r1 /\ e > Len(f)
    BY <1>0, <1>2 DEF Failed
  <2>2. QED
    BY <1>2, <2>1 DEF Reads
<1>3. QED
  BY <1>1, <1>2 DEF Reads

(* readUChar decodes a byte. *)
LEMMA CharReads ==
  ASSUME NEW f \in Seq(Byte), NEW p \in Nat, NEW c \in Byte, Occurs(<<c>>, f, p)
  PROVE  Reads(readUChar(f, p), f, p + Len(<<c>>), c)
<1>0. Len(f) \in Nat /\ Len(<<c>>) = 1
  OBVIOUS
<1>1. CASE p >= Len(f)
  <2>1. readUChar(f, p) = ReadError(f, p) /\ p + 1 > Len(f)
    BY <1>0, <1>1 DEF readUChar
  <2>2. Failed(ReadError(f, p), f)
    BY ReadErrorFails
  <2>3. QED
    BY <1>0, <2>1, <2>2 DEF Reads
<1>2. CASE ~(p >= Len(f))
  <2>1. readUChar(f, p) = Got(p + 1, f[p + 1]) /\ p + 1 <= Len(f)
    BY <1>0, <1>2 DEF readUChar
  <2>2. f[p + 1] = c
    BY <1>0, <2>1 DEF Occurs
  <2>3. QED
    BY <1>0, <2>1, <2>2 DEF Reads
<1>3. QED
  BY <1>1, <1>2

(* read_string_plain decodes the bytes of a string when it is told their number. *)
LEMMA PlainReads ==
  ASSUME NEW f \in Seq(Byte), NEW p \in Nat, NEW s \in ByteString, Occurs(s, f, p)
  PROVE  Reads(read_string_plain(f, p, Len(s)), f, p + Len(s), s)
<1>0. Len(f) \in Nat /\ Len(s) \in Nat /\ s \in Seq(Byte)
  BY DEF ByteString
<1>1. CASE Len(s) = 0
  <2>1. s = <<>> /\ read_string_plain(f, p, Len(s)) = Got(p, <<>>) /\ p + Len(s) = p
    BY <1>0, <1>1 DEF read_string_plain
  <2>2. QED
    BY <2>1 DEF Reads
<1>2. CASE Len(s) # 0 /\ p + Len(s) > Len(f)
  <2>1. read_string_plain(f, p, Len(s)) = ReadError(f, p)
    BY <1>2 DEF read_string_plain
  <2>2. QED
    BY <1>2, <2>1, ReadErrorFails DEF Reads
<1>3. CASE Len(s) # 0 /\ ~(p + Len(s) > Len(f))
  <2> DEFINE n == Len(s)
             t == SubSeq(f, p + 1, p + n)
  <2>1. read_string_plain(f, p, n) = Got(p + n, t)
    BY <1>3 DEF read_string_plain
  <2>2. \A i \in (p + 1)..(p + n) : f[i] \in Byte
    BY <1>0, <1>3
  <2>3. t \in Seq(Byte) /\ Len(t) = n /\ \A i \in 1..n : t[i] = f[p + i]
    <3> HIDE DEF n
    <3>1. n \in Nat /\ p + 1 \in Int /\ p + n \in Int /\ p + 1 <= p + n
      BY <1>0, <1>3 DEF n
    <3>2. (p + n) - (p + 1) + 1 = n /\ \A i \in 1..n : ((p + 1) + i) - 1 = p + i
      BY <3>1
    <3> DEFINE a == p + 1
               b == p + n
    <3>3. a \in Int /\ b \in Int /\ a <= b /\ b - a + 1 = n /\ \A i \in a..b : f[i] \in Byte
      BY <2>2, <3>1, <3>2
    <3>4. \A i \in 1..n : (a + i) - 1 = p + i
      BY <3>1
    <3>5. t = SubSeq(f, a, b)
      OBVIOUS
    <3> HIDE DEF t, a, b
    <3>6. t \in Seq(Byte) /\ Len(t) = b - a + 1 /\ \A i \in 1..(b - a + 1) : t[i] = f[a + i - 1]
      BY <3>3, <3>5, SubSeqProperties
    <3>7. QED
      <4>1. \A i \in 1..n : t[i] = f[(a + i) - 1]
        BY <3>3, <3>6
      <4>2. Len(t) = n
        BY <3>3, <3>6
      <4>3. QED
        BY <3>4, <3>6, <4>1, <4>2
  <2>4. \A i \in 1..n : f[p + i] = s[i]
    <3>1. \A i \in 1..n : p + i <= Len(f)
      BY <1>0, <1>3
    <3>2. QED
      BY <3>1 DEF Occurs
  <2>5. t = s
    <3> HIDE DEF t
    <3>1. QED
      BY <1>0, <2>3, <2>4, SeqEqual
  <2>6. QED
    BY <2>1, <2>5 DEF Reads
<1>4. QED
  BY <1>1, <1>2, <1>3

(* A pair is the concatenation of its two elements. *)
LEMMA TwoElements ==
  ASSUME NEW S, NEW x \in S, NEW y \in S
  PROVE  <<x>> \in Seq(S) /\ <<y>> \in Seq(S) /\ <<x, y>> \in Seq(S) /\ <<x, y>> = <<x>> \o <<y>>
<1>1. <<x>> \in Seq(S) /\ <<y>> \in Seq(S) /\ <<x, y>> \in Seq(S) /\ <<x, y>> = Append(<<x>>, y)
  OBVIOUS
<1>2. QED
  BY <1>1, AppendIsConcat

(* A number and then a string of that length. *)
LEMMA StringBytes ==
  ASSUME NEW s \in ByteString
  PROVE  /\ write_string(s) \in Seq(Item)
         /\ Bytes(write_string(s)) = write_num(Len(s)) \o s
         /\ Len(s) \in Nat /\ s \in Seq(Byte)
<1>0. Len(s) \in Nat /\ s \in Seq(Byte)
  BY DEF ByteString
<1> DEFINE a == Num(Len(s))
           b == Plain(s)
<1>1. a \in Item /\ b \in Item /\ put(a) = write_num(Len(s)) /\ put(b) = s
  BY <1>0, ItemBytes
<1>2. write_string(s) = <<a, b>>
  BY DEF write_string
<1> HIDE DEF a, b
<1>3. <<a>> \in Seq(Item) /\ <<b>> \in Seq(Item) /\ <<a, b>> = <<a>> \o <<b>>
      /\ <<a, b>> \in Seq(Item)
  BY <1>1, TwoElements
<1>4. Bytes(<<a>> \o <<b>>) = put(a) \o put(b)
  BY <1>1, <1>3, BytesConcat, BytesOne
<1>5. write_string(s) \in Seq(Item)
  BY <1>2, <1>3
<1>6. Bytes(write_string(s)) = put(a) \o put(b)
  BY <1>2, <1>3, <1>4
<1>7. QED
  BY <1>0, <1>1, <1>5, <1>6

(* read_string decodes what write_string wrote. *)
LEMMA StringReads ==
  ASSUME NEW f \in Seq(Byte), NEW p \in Nat, NEW s \in ByteString,
         Occurs(Bytes(write_string(s)), f, p)
  PROVE  Reads(read_string(f, p), f, p + Len(Bytes(write_string(s))), s)
<1> DEFINE n == Len(s)
           w == write_num(n)
<1>1. Bytes(write_string(s)) = w \o s /\ n \in Nat /\ s \in Seq(Byte)
  BY StringBytes
<1> HIDE DEF n
<1>2. w \in Seq(Byte)
  BY <1>1, NumberBytes
<1>3. Occurs(w, f, p) /\ Occurs(s, f, p + Len(w)) /\ Len(w) \in Nat /\ Len(w \o s) = Len(w) + n
  BY <1>1, <1>2, OccursConcat DEF n
<1> DEFINE d == p + Len(w)
           e == p + Len(w \o s)
           r1 == read_num(f, p)
           r == read_string(f, p)
<1>4. Reads(r1, f, d, n)
  BY <1>1, <1>3, ReadNumReads
<1>5. r1 = Got(d, n) => r = read_string_plain(f, d, n)
  BY DEF read_string, Then, Got
<1>6. ~ r1.ok => r = r1
  BY DEF read_string, Then
<1>7. d \in Nat /\ e \in Nat /\ d <= e /\ e = d + n
  BY <1>1, <1>3
<1>8. Reads(read_string_plain(f, d, n), f, e, s)
  <2>1. Occurs(s, f, d) /\ d \in Nat
    BY <1>3, <1>7
  <2> HIDE DEF d, e
  <2>2. Reads(read_string_plain(f, d, Len(s)), f, d + Len(s), s)
    BY <2>1, PlainReads
  <2>3. QED
    BY <2>2, <1>7 DEF n
<1> HIDE DEF d, e, r1, r
<1>9. Reads(r, f, e, s)
  BY <1>4, <1>5, <1>6, <1>7, <1>8, ReadsThen
<1>10. QED
  BY <1>1, <1>9 DEF r, e

(* Something of known length that is not read. *)
LEMMA SkipReads ==
  ASSUME NEW f \in Seq(Byte), NEW p \in Nat, NEW s \in Seq(Byte),
         Occurs(write_num(Len(s)) \o s, f, p)
  PROVE  Reads(skip_string(f, p), f, p + Len(write_num(Len(s)) \o s), <<>>)
<1> DEFINE n == Len(s)
           w == write_num(n)
<1>1. n \in Nat
  OBVIOUS
<1>a. Occurs(w \o s, f, p)
  OBVIOUS
<1> HIDE DEF n
<1>2. w \in Seq(Byte)
  BY <1>1, NumberBytes
<1>3. Occurs(w, f, p) /\ Len(w) \in Nat /\ Len(w \o s) = Len(w) + n
  BY <1>a, <1>2, OccursConcat DEF n
<1> DEFINE d == p + Len(w)
           e == p + Len(w \o s)
           r1 == read_num(f, p)
           r == skip_string(f, p)
<1>4. Reads(r1, f, d, n)
  BY <1>1, <1>3, ReadNumReads
<1>5. r1 = Got(d, n) => r = Got(d + n, <<>>)
  BY DEF skip_string, Then, Got
<1>6. ~ r1.ok => r = r1
  BY DEF skip_string, Then
<1>7. d \in Nat /\ e \in Nat /\ d <= e /\ e = d + n
  BY <1>1, <1>3
<1>8. Reads(Got(d + n, <<>>), f, e, <<>>)
  BY <1>7 DEF Reads
<1> HIDE DEF d, e, r1, r
<1>9. Reads(r, f, e, <<>>)
  BY <1>4, <1>5, <1>6, <1>7, <1>8, ReadsThen
<1>10. QED
  BY <1>9 DEF r, e, n

(* An index into a hash. *)
LEMMA IndexIs ==
  ASSUME NEW S, NEW hash \in Seq(S), NEW s \in ToSet(hash)
  PROVE  get_index(hash, s) \in Nat /\ get_index(hash, s) < Len(hash)
         /\ hash[get_index(hash, s) + 1] = s
<1> DEFINE i == CHOOSE j \in DOMAIN hash : hash[j] = s
<1>1. Len(hash) \in Nat /\ DOMAIN hash = 1..Len(hash)
  OBVIOUS
<1>2. \E j \in DOMAIN hash : hash[j] = s
  BY DEF ToSet
<1>3. i \in 1..Len(hash) /\ hash[i] = s
  BY <1>1, <1>2
<1>4. get_index(hash, s) = i - 1
  BY DEF get_index
<1> HIDE DEF i
<1>5. i - 1 \in Nat /\ i - 1 < Len(hash) /\ (i - 1) + 1 = i
  BY <1>1, <1>3
<1>6. QED
  BY <1>3, <1>4, <1>5

(* A hashed word is written as its index. *)
LEMMA HashStringBytes ==
  ASSUME NEW S, NEW hash \in Seq(S), NEW s \in ToSet(hash)
  PROVE  /\ write_hash_string(hash, s) \in Seq(Item)
         /\ Bytes(write_hash_string(hash, s)) = write_num(get_index(hash, s))
<1> DEFINE n == get_index(hash, s)
           i == Num(n)
<1>1. n \in Nat
  BY IndexIs
<1> HIDE DEF n
<1>2. i \in Item /\ put(i) = write_num(n)
  BY <1>1, ItemBytes
<1>3. write_hash_string(hash, s) = <<i>>
  BY DEF write_hash_string, n
<1> HIDE DEF i
<1>4. Bytes(<<i>>) = put(i) /\ <<i>> \in Seq(Item)
  BY <1>2, BytesOne
<1>5. QED
  BY <1>2, <1>3, <1>4 DEF n

(* read_hash_string decodes a word of the hash that write_hash_string wrote. *)
LEMMA HashStringReads ==
  ASSUME NEW S, NEW hash \in Seq(S), NEW s \in ToSet(hash), NEW f \in Seq(Byte), NEW p \in Nat,
         Occurs(Bytes(write_hash_string(hash, s)), f, p)
  PROVE  Reads(read_hash_string(hash, f, p), f, p + Len(Bytes(write_hash_string(hash, s))), s)
<1> DEFINE n == get_index(hash, s)
           w == write_num(n)
           d == p + Len(w)
           r1 == read_num(f, p)
           r == read_hash_string(hash, f, p)
<1>1. n \in Nat /\ n < Len(hash) /\ hash[n + 1] = s
  BY IndexIs
<1>2. Bytes(write_hash_string(hash, s)) = w
  BY HashStringBytes
<1>a. Occurs(w, f, p)
  BY <1>2
<1> HIDE DEF n
<1>3. Reads(r1, f, d, n) /\ Len(w) \in Nat
  BY <1>1, <1>a, ReadNumReads
<1> HIDE DEF d
<1>4. r1 = Got(d, n) => r = Got(d, s)
  <2>1. r = IF r1.ok THEN IF r1.val < Len(hash) THEN Got(r1.pos, hash[r1.val + 1])
                                                ELSE ReadError(f, r1.pos)
                     ELSE r1
    BY DEF read_hash_string, Then
  <2> HIDE DEF r1, r
  <2>2. SUFFICES ASSUME r1 = Got(d, n)  PROVE r = Got(d, s)
    OBVIOUS
  <2>3. r1.ok /\ r1.pos = d /\ r1.val = n
    BY <2>2 DEF Got
  <2>4. QED
    BY <2>1, <2>3, <1>1
<1>5. ~ r1.ok => r = r1
  BY DEF read_hash_string, Then
<1>6. d \in Nat
  BY <1>3 DEF d
<1>7. Reads(Got(d, s), f, d, s)
  BY DEF Reads
<1> HIDE DEF r1, r
<1>b. d <= d
  BY <1>6
<1>8. Reads(r, f, d, s)
  BY <1>3, <1>4, <1>5, <1>6, <1>7, <1>b, ReadsThen
<1>9. QED
  BY <1>2, <1>8 DEF r, d

-------------------------------------------------------------------------------
(* Lists *)

(* A number of things, and then the things. *)
List(iss) == <<Num(Len(iss))>> \o FlattenSeq(iss)

ManyDecode(rd, f, iss, vs) ==
  Len(vs) = Len(iss) /\ \A i \in 1..Len(iss) : Decodes(rd, f, Bytes(iss[i]), vs[i])

(* A counted list is written as its length and then its elements. *)
LEMMA ListBytes ==
  ASSUME NEW iss \in Seq(Seq(Item))
  PROVE  /\ List(iss) \in Seq(Item)
         /\ Bytes(List(iss)) = write_num(Len(iss)) \o FlattenSeq(EachBytes(iss))
<1> DEFINE n == Len(iss)
           i == Num(n)
           a == <<i>>
           b == FlattenSeq(iss)
<1>0. n \in Nat
  OBVIOUS
<1> HIDE DEF n
<1>1. i \in Item /\ put(i) = write_num(n)
  BY <1>0, ItemBytes
<1> HIDE DEF i
<1>2. a \in Seq(Item) /\ Bytes(a) = put(i)
  BY <1>1, BytesOne
<1>3. b \in Seq(Item) /\ Bytes(b) = FlattenSeq(EachBytes(iss))
  BY FlattenType, BytesFlatten
<1>4. List(iss) = a \o b
  BY DEF List, i, n
<1> HIDE DEF a, b
<1>5. a \o b \in Seq(Item) /\ Bytes(a \o b) = Bytes(a) \o Bytes(b)
  BY <1>2, <1>3, BytesConcat
<1>6. QED
  BY <1>1, <1>2, <1>3, <1>4, <1>5 DEF n

(* ReadMany decodes a counted list when its reader decodes each element. *)
LEMMA ListReads ==
  ASSUME NEW f \in Seq(Byte), NEW p \in Nat, NEW rd, NEW iss \in Seq(Seq(Item)),
         NEW V, NEW vs \in Seq(V), ManyDecode(rd, f, iss, vs), Occurs(Bytes(List(iss)), f, p)
  PROVE  Reads(ReadMany(rd, f, p), f, p + Len(Bytes(List(iss))), vs)
<1> DEFINE n == Len(iss)
           w == write_num(n)
           ws == EachBytes(iss)
           s == FlattenSeq(ws)
           rs == [i \in 1..n |-> rd]
           d == p + Len(w)
           e == p + Len(w \o s)
           r1 == read_num(f, p)
           r == ReadMany(rd, f, p)
<1>1. n \in Nat /\ Len(vs) = n
  BY DEF ManyDecode
<1>2. ws \in Seq(Seq(Byte)) /\ Len(ws) = n /\ \A i \in 1..n : ws[i] = Bytes(iss[i])
  BY EachBytesType DEF EachBytes
<1>3. Len(rs) = n /\ \A i \in 1..n : rs[i] = rd
  BY <1>1
<1>4. Occurs(w \o s, f, p)
  BY ListBytes
<1>a. EachDecodes(rs, f, ws, vs)
  <2>1. \A i \in 1..n : Decodes(rd, f, Bytes(iss[i]), vs[i])
    BY DEF ManyDecode
  <2> HIDE DEF n, rs, ws
  <2>2. QED
    BY <1>1, <1>2, <1>3, <2>1 DEF EachDecodes
<1> HIDE DEF n, rs, ws
<1>5. w \in Seq(Byte) /\ s \in Seq(Byte)
  BY <1>1, <1>2, NumberBytes, FlattenType
<1>6. Occurs(w, f, p) /\ Occurs(s, f, p + Len(w)) /\ Len(w) \in Nat /\ Len(s) \in Nat
      /\ Len(w \o s) = Len(w) + Len(s)
  BY <1>4, <1>5, OccursConcat
<1>7. Reads(r1, f, d, n)
  BY <1>1, <1>6, ReadNumReads
<1>8. r1 = Got(d, n) => r = ReadEach(rs, d)
  BY DEF ReadMany, Then, Got, rs
<1>9. ~ r1.ok => r = r1
  BY DEF ReadMany, Then
<1>10. d \in Nat /\ e \in Nat /\ d <= e /\ e = d + Len(s)
  BY <1>6
<1>11. Reads(ReadEach(rs, d), f, e, vs)
  <2>1. Occurs(FlattenSeq(ws), f, d) /\ d \in Nat /\ e = d + Len(FlattenSeq(ws))
    BY <1>6, <1>10
  <2> HIDE DEF d, e
  <2>2. QED
    BY <2>1, <1>2, <1>a, ReadEachReads
<1>12. e = p + Len(Bytes(List(iss)))
  BY ListBytes DEF n, ws
<1> HIDE DEF d, e, r1, r
<1>13. Reads(r, f, e, vs)
  BY <1>7, <1>8, <1>9, <1>10, <1>11, ReadsThen
<1>14. QED
  BY <1>12, <1>13 DEF r

-------------------------------------------------------------------------------
(* The lists of words, of strings, of parts and of overlays *)

(* write_hash_words writes a counted list of hashed words. *)
LEMMA WordsBytes ==
  ASSUME NEW S, NEW hash \in Seq(S), NEW words \in Seq(ToSet(hash))
  PROVE  \E iss \in Seq(Seq(Item)) :
           /\ Len(iss) = Len(words)
           /\ \A i \in 1..Len(iss) : iss[i] = write_hash_string(hash, words[i])
           /\ write_hash_words(hash, words) = List(iss)
<1>0. Len(words) \in Nat /\ DOMAIN words = 1..Len(words)
  OBVIOUS
<1> DEFINE iss == [i \in 1..Len(words) |-> write_hash_string(hash, words[i])]
<1>1. \A i \in 1..Len(words) : write_hash_string(hash, words[i]) \in Seq(Item)
  <2>1. ASSUME NEW i \in 1..Len(words)  PROVE write_hash_string(hash, words[i]) \in Seq(Item)
    <3>1. words[i] \in ToSet(hash)
      OBVIOUS
    <3> DEFINE s == words[i]
    <3> HIDE DEF s
    <3>2. write_hash_string(hash, s) \in Seq(Item)
      BY <3>1, HashStringBytes DEF s
    <3>3. QED
      BY <3>2 DEF s
  <2>2. QED
    BY <2>1
<1>2. iss \in Seq(Seq(Item)) /\ Len(iss) = Len(words)
  BY <1>0, <1>1
<1>3. write_hash_words(hash, words) = List(iss)
  BY <1>0, <1>2 DEF write_hash_words, WriteAll, List
<1>4. \A i \in 1..Len(iss) : iss[i] = write_hash_string(hash, words[i])
  BY <1>2
<1> HIDE DEF iss
<1>5. QED
  BY <1>2, <1>3, <1>4

(* read_hash_words decodes words of the hash that write_hash_words wrote. *)
LEMMA WordsRead ==
  ASSUME NEW S, NEW hash \in Seq(S), NEW words \in Seq(ToSet(hash)), NEW f \in Seq(Byte),
         NEW p \in Nat, Occurs(Bytes(write_hash_words(hash, words)), f, p)
  PROVE  Reads(read_hash_words(hash, f, p), f, p + Len(Bytes(write_hash_words(hash, words))), words)
<1> DEFINE rd == [q \in Nat |-> read_hash_string(hash, f, q)]
<1>1. PICK iss \in Seq(Seq(Item)) :
           /\ Len(iss) = Len(words)
           /\ \A i \in 1..Len(iss) : iss[i] = write_hash_string(hash, words[i])
           /\ write_hash_words(hash, words) = List(iss)
  BY WordsBytes
<1>2. ASSUME NEW i \in 1..Len(iss)  PROVE Decodes(rd, f, Bytes(iss[i]), words[i])
  <2> DEFINE s == words[i]
             w == Bytes(write_hash_string(hash, s))
  <2>1. s \in ToSet(hash) /\ Bytes(iss[i]) = w
    BY <1>1
  <2>2. SUFFICES ASSUME NEW q \in Nat, Occurs(w, f, q)  PROVE Reads(rd[q], f, q + Len(w), s)
    BY <2>1 DEF Decodes
  <2> HIDE DEF s
  <2>3. Reads(read_hash_string(hash, f, q), f, q + Len(w), s)
    BY <2>1, <2>2, HashStringReads
  <2>4. rd[q] = read_hash_string(hash, f, q)
    OBVIOUS
  <2>5. QED
    BY <2>3, <2>4
<1>3. read_hash_words(hash, f, p) = ReadMany(rd, f, p)
  BY DEF read_hash_words
<1> HIDE DEF rd
<1>4. ManyDecode(rd, f, iss, words)
  BY <1>1, <1>2 DEF ManyDecode
<1>5. Occurs(Bytes(List(iss)), f, p)
  BY <1>1
<1>6. Reads(ReadMany(rd, f, p), f, p + Len(Bytes(List(iss))), words)
  BY <1>4, <1>5, ListReads
<1>7. QED
  BY <1>1, <1>3, <1>6

(* Words that are not wanted: the same bytes, and no value. *)
LEMMA WordsSkipped ==
  ASSUME NEW S, NEW hash \in Seq(S), NEW words \in Seq(ToSet(hash)), NEW f \in Seq(Byte),
         NEW p \in Nat, Occurs(Bytes(write_hash_words(hash, words)), f, p)
  PROVE  Reads(skip_hash_words(f, p), f, p + Len(Bytes(write_hash_words(hash, words))), <<>>)
<1> DEFINE rd == [q \in Nat |-> read_num(f, q)]
           vs == [i \in 1..Len(words) |-> get_index(hash, words[i])]
           e == p + Len(Bytes(write_hash_words(hash, words)))
           r1 == ReadMany(rd, f, p)
           r == skip_hash_words(f, p)
<1>0. Len(words) \in Nat
  OBVIOUS
<1>1. PICK iss \in Seq(Seq(Item)) :
           /\ Len(iss) = Len(words)
           /\ \A i \in 1..Len(iss) : iss[i] = write_hash_string(hash, words[i])
           /\ write_hash_words(hash, words) = List(iss)
  BY WordsBytes
<1>2. ASSUME NEW i \in 1..Len(words)
      PROVE  /\ get_index(hash, words[i]) \in Nat
             /\ Bytes(iss[i]) = write_num(get_index(hash, words[i]))
  <2> DEFINE s == words[i]
  <2>1. s \in ToSet(hash) /\ iss[i] = write_hash_string(hash, s)
    BY <1>1
  <2> HIDE DEF s
  <2>2. get_index(hash, s) \in Nat /\ Bytes(write_hash_string(hash, s)) = write_num(get_index(hash, s))
    BY <2>1, IndexIs, HashStringBytes
  <2>3. QED
    BY <2>1, <2>2 DEF s
<1>3. vs \in Seq(Nat) /\ Len(vs) = Len(words) /\ \A i \in 1..Len(words) : vs[i] = get_index(hash, words[i])
  BY <1>0, <1>2
<1>4. ASSUME NEW i \in 1..Len(iss)  PROVE Decodes(rd, f, Bytes(iss[i]), vs[i])
  <2> DEFINE t == vs[i]
  <2>1. t \in Nat /\ Bytes(iss[i]) = write_num(t)
    BY <1>1, <1>2, <1>3
  <2>2. SUFFICES ASSUME NEW q \in Nat, Occurs(write_num(t), f, q)
                 PROVE  Reads(rd[q], f, q + Len(write_num(t)), t)
    BY <2>1 DEF Decodes
  <2> HIDE DEF t
  <2>3. Reads(read_num(f, q), f, q + Len(write_num(t)), t)
    BY <2>1, <2>2, ReadNumReads
  <2>4. rd[q] = read_num(f, q)
    OBVIOUS
  <2>5. QED
    BY <2>3, <2>4
<1> HIDE DEF vs
<1>5. r = IF r1.ok THEN Got(r1.pos, <<>>) ELSE r1
  BY DEF skip_hash_words, Then
<1> HIDE DEF rd
<1>6. ManyDecode(rd, f, iss, vs)
  BY <1>1, <1>3, <1>4 DEF ManyDecode
<1>7. Occurs(Bytes(List(iss)), f, p)
  BY <1>1
<1>8. Reads(r1, f, e, vs)
  BY <1>1, <1>3, <1>6, <1>7, ListReads
<1> HIDE DEF r, r1, e
<1>9. \/ r1.ok /\ r1.pos = e
      \/ Failed(r1, f) /\ ~ r1.ok /\ e > Len(f)
  BY <1>8, ReadsCases
<1>10. Reads(r, f, e, <<>>)
  BY <1>5, <1>9 DEF Reads
<1>11. QED
  BY <1>10 DEF r, e

(* read_hash decodes the hash that write_hash wrote. *)
LEMMA HashReads ==
  ASSUME NEW hash \in Seq(ByteString), NEW f \in Seq(Byte), NEW p \in Nat,
         Occurs(Bytes(write_hash(hash)), f, p)
  PROVE  Reads(read_hash(f, p), f, p + Len(Bytes(write_hash(hash))), hash)
<1> DEFINE rd == [q \in Nat |-> read_string(f, q)]
           iss == [i \in 1..Len(hash) |-> write_string(hash[i])]
<1>0. Len(hash) \in Nat /\ DOMAIN hash = 1..Len(hash)
  OBVIOUS
<1>1. \A i \in 1..Len(hash) : write_string(hash[i]) \in Seq(Item) /\ hash[i] \in ByteString
  BY StringBytes
<1>2. iss \in Seq(Seq(Item)) /\ Len(iss) = Len(hash)
      /\ \A i \in 1..Len(hash) : iss[i] = write_string(hash[i])
  BY <1>0, <1>1
<1>3. write_hash(hash) = List(iss)
  BY <1>0, <1>2 DEF write_hash, WriteAll, List
<1> HIDE DEF iss
<1>4. ASSUME NEW i \in 1..Len(iss)  PROVE Decodes(rd, f, Bytes(iss[i]), hash[i])
  <2> DEFINE s == hash[i]
             w == Bytes(write_string(s))
  <2>1. s \in ByteString /\ Bytes(iss[i]) = w
    BY <1>1, <1>2
  <2>2. SUFFICES ASSUME NEW q \in Nat, Occurs(w, f, q)  PROVE Reads(rd[q], f, q + Len(w), s)
    BY <2>1 DEF Decodes
  <2> HIDE DEF s
  <2>3. Reads(read_string(f, q), f, q + Len(w), s)
    BY <2>1, <2>2, StringReads
  <2>4. rd[q] = read_string(f, q)
    OBVIOUS
  <2>5. QED
    BY <2>3, <2>4
<1>5. read_hash(f, p) = ReadMany(rd, f, p)
  BY DEF read_hash
<1> HIDE DEF rd
<1>6. ManyDecode(rd, f, iss, hash)
  BY <1>2, <1>4 DEF ManyDecode
<1>7. Occurs(Bytes(List(iss)), f, p)
  BY <1>3
<1>8. Reads(ReadMany(rd, f, p), f, p + Len(Bytes(List(iss))), hash)
  BY <1>2, <1>6, <1>7, ListReads
<1>9. QED
  BY <1>3, <1>5, <1>8

(* The type of a part and the length of its content in one number. *)
LEMMA PartNumber ==
  ASSUME NEW n \in Nat, NEW t \in 0..(max_type - 1)
  PROVE  /\ n * max_type + t \in Nat
         /\ (n * max_type + t) \div max_type = n
         /\ (n * max_type + t) % max_type = t
BY DEF max_type

(* A part of a version is written as length and type in one number, then its content. *)
LEMMA PartBytes ==
  ASSUME NEW part \in Part
  PROVE  /\ write_Part(part) \in Seq(Item)
         /\ part.content \in Seq(Byte) /\ part.content \in ByteString
         /\ part.type \in 0..(max_type - 1)
         /\ Len(part.content) \in Nat
         /\ Bytes(write_Part(part))
              = write_num(Len(part.content) * max_type + part.type) \o part.content
<1> DEFINE c == part.content
           m == Len(c) * max_type + part.type
           i == Num(m)
           j == Plain(c)
           a == <<i>>
           b == IF c = <<>> THEN <<>> ELSE <<j>>
<1>1. c \in Seq(Byte) /\ c \in ByteString /\ part.type \in 0..(max_type - 1) /\ Len(c) \in Nat
  BY DEF Part, ByteString
<1>2. m \in Nat
  <2> DEFINE n == Len(c)
             t == part.type
  <2>1. n \in Nat /\ t \in 0..(max_type - 1)
    BY <1>1
  <2> HIDE DEF n, t
  <2>2. n * max_type + t \in Nat
    BY <2>1, PartNumber
  <2>3. QED
    BY <2>2 DEF n, t
<1>3. write_Part(part) = a \o b
  BY DEF write_Part
<1> HIDE DEF c, m
<1>4. i \in Item /\ put(i) = write_num(m) /\ j \in Item /\ put(j) = c
  BY <1>1, <1>2, ItemBytes
<1> HIDE DEF i, j
<1>5. a \in Seq(Item) /\ Bytes(a) = write_num(m)
  BY <1>4, BytesOne
<1>6. b \in Seq(Item) /\ Bytes(b) = c
  <2>1. CASE c = <<>>
    <3>1. b = <<>>
      BY <2>1
    <3>2. QED
      BY <3>1, <2>1, BytesEmpty
  <2>2. CASE c # <<>>
    <3>1. b = <<j>>
      BY <2>2
    <3>2. QED
      BY <3>1, <1>4, BytesOne
  <2>3. QED
    BY <2>1, <2>2
<1> HIDE DEF a, b
<1>7. a \o b \in Seq(Item) /\ Bytes(a \o b) = Bytes(a) \o Bytes(b)
  BY <1>5, <1>6, BytesConcat, SMTT(30), ZenonT(30)
<1>8. QED
  BY <1>1, <1>3, <1>5, <1>6, <1>7 DEF c, m

(* read_Part decodes what write_Part wrote: the type and the length come apart again. *)
LEMMA PartReads ==
  ASSUME NEW part \in Part, NEW f \in Seq(Byte), NEW p \in Nat,
         Occurs(Bytes(write_Part(part)), f, p)
  PROVE  Reads(read_Part(f, p), f, p + Len(Bytes(write_Part(part))), part)
<1> DEFINE s == part.content
           n == Len(s)
           t == part.type
           m == n * max_type + t
           w == write_num(m)
           d == p + Len(w)
           e == p + Len(w \o s)
           r1 == read_num(f, p)
           r2 == read_string_plain(f, d, n)
           r == read_Part(f, p)
<1>1. Bytes(write_Part(part)) = w \o s /\ n \in Nat /\ s \in Seq(Byte) /\ s \in ByteString
      /\ t \in 0..(max_type - 1)
  BY PartBytes
<1>a. part = [type |-> t, content |-> s]
  BY DEF Part
<1> HIDE DEF s, t
<1>b. Occurs(w \o s, f, p)
  BY <1>1
<1>c. n \in Nat /\ m \in Nat /\ m \div max_type = n /\ m % max_type = t
  <2> HIDE DEF n
  <2>1. QED
    BY <1>1, PartNumber
<1> HIDE DEF m
<1>2. w \in Seq(Byte)
  BY <1>c, NumberBytes
<1>3. Occurs(w, f, p) /\ Occurs(s, f, p + Len(w)) /\ Len(w) \in Nat /\ Len(w \o s) = Len(w) + n
  BY <1>1, <1>b, <1>2, OccursConcat
<1>4. Reads(r1, f, d, m)
  BY <1>c, <1>3, ReadNumReads
<1>5. r1 = Got(d, m) => r = IF r2.ok THEN Got(r2.pos, [type |-> t, content |-> r2.val]) ELSE r2
  <2>1. r = IF r1.ok THEN LET r3 == read_string_plain(f, r1.pos, r1.val \div max_type)
                          IN  IF r3.ok THEN Got(r3.pos, [type |-> r1.val % max_type, content |-> r3.val])
                                       ELSE r3
                     ELSE r1
    BY DEF read_Part, Then
  <2> HIDE DEF r, r1
  <2>2. SUFFICES ASSUME r1 = Got(d, m)
                 PROVE  r = IF r2.ok THEN Got(r2.pos, [type |-> t, content |-> r2.val]) ELSE r2
    OBVIOUS
  <2>3. r1.ok /\ r1.pos = d /\ r1.val = m
    BY <2>2 DEF Got
  <2> HIDE DEF d
  <2>4. QED
    BY <2>1, <2>3, <1>c
<1>6. ~ r1.ok => r = r1
  BY DEF read_Part, Then
<1>7. d \in Nat /\ e \in Nat /\ d <= e /\ e = d + n
  BY <1>1, <1>3
<1>8. Reads(r2, f, e, s)
  <2>1. Occurs(s, f, d) /\ d \in Nat
    BY <1>3, <1>7
  <2> HIDE DEF d, e
  <2>2. Reads(read_string_plain(f, d, Len(s)), f, d + Len(s), s)
    BY <2>1, <1>1, PlainReads
  <2>3. QED
    BY <2>2, <1>7 DEF n
<1> HIDE DEF d, e, r1, r, r2, n
<1>9. r1 = Got(d, m) => Reads(r, f, e, part)
  <2>1. SUFFICES ASSUME r1 = Got(d, m)  PROVE Reads(r, f, e, part)
    OBVIOUS
  <2>2. r = IF r2.ok THEN Got(r2.pos, [type |-> t, content |-> r2.val]) ELSE r2
    BY <2>1, <1>5
  <2>3. \/ r2.ok /\ r2.pos = e /\ r2.val = s
        \/ Failed(r2, f) /\ ~ r2.ok /\ e > Len(f)
    BY <1>8, ReadsCases
  <2>4. QED
    BY <2>2, <2>3, <1>a DEF Reads
<1>10. Reads(r, f, e, part)
  BY <1>4, <1>6, <1>7, <1>9, ReadsThen
<1>11. QED
  BY <1>1, <1>10 DEF r, e

PartItems(parts) == [i \in 1..Len(parts) |-> write_Part(parts[i])]

(* The parts of a version are written as a counted list. *)
LEMMA PartsBytes ==
  ASSUME NEW parts \in Seq(Part)
  PROVE  /\ PartItems(parts) \in Seq(Seq(Item))
         /\ Len(PartItems(parts)) = Len(parts)
         /\ <<Num(Len(parts))>> \o WriteAll(write_Part, parts) = List(PartItems(parts))
<1>0. Len(parts) \in Nat /\ DOMAIN parts = 1..Len(parts)
  OBVIOUS
<1>1. \A i \in 1..Len(parts) : write_Part(parts[i]) \in Seq(Item)
  <2>1. \A i \in 1..Len(parts) : parts[i] \in Part
    OBVIOUS
  <2>2. QED
    BY <2>1, PartBytes
<1>2. PartItems(parts) \in Seq(Seq(Item)) /\ Len(PartItems(parts)) = Len(parts)
  BY <1>0, <1>1 DEF PartItems
<1>3. <<Num(Len(parts))>> \o WriteAll(write_Part, parts) = List(PartItems(parts))
  BY <1>0, <1>2 DEF WriteAll, List, PartItems
<1>4. QED
  BY <1>2, <1>3

(* The loop of read_version over the parts decodes them. *)
LEMMA PartsRead ==
  ASSUME NEW parts \in Seq(Part), NEW f \in Seq(Byte), NEW p \in Nat,
         Occurs(Bytes(List(PartItems(parts))), f, p)
  PROVE  Reads(ReadMany([q \in Nat |-> read_Part(f, q)], f, p), f,
               p + Len(Bytes(List(PartItems(parts)))), parts)
<1> DEFINE rd == [q \in Nat |-> read_Part(f, q)]
           iss == PartItems(parts)
<1>1. iss \in Seq(Seq(Item)) /\ Len(iss) = Len(parts)
  BY PartsBytes
<1>2. ASSUME NEW i \in 1..Len(iss)  PROVE Decodes(rd, f, Bytes(iss[i]), parts[i])
  <2> DEFINE s == parts[i]
             w == Bytes(write_Part(s))
  <2>1. s \in Part /\ Bytes(iss[i]) = w
    BY <1>1 DEF PartItems
  <2>2. SUFFICES ASSUME NEW q \in Nat, Occurs(w, f, q)  PROVE Reads(rd[q], f, q + Len(w), s)
    BY <2>1 DEF Decodes
  <2> HIDE DEF s
  <2>3. Reads(read_Part(f, q), f, q + Len(w), s)
    BY <2>1, <2>2, PartReads
  <2>4. rd[q] = read_Part(f, q)
    OBVIOUS
  <2>5. QED
    BY <2>3, <2>4
<1>a. Occurs(Bytes(List(iss)), f, p)
  OBVIOUS
<1> HIDE DEF rd, iss
<1>3. ManyDecode(rd, f, iss, parts)
  BY <1>1, <1>2 DEF ManyDecode
<1>4. Reads(ReadMany(rd, f, p), f, p + Len(Bytes(List(iss))), parts)
  BY <1>1, <1>3, <1>a, ListReads
<1>5. QED
  BY <1>4 DEF rd, iss

-------------------------------------------------------------------------------
(* Overlays *)

(* An overlay is written as its path and its label. *)
LEMMA OverlayBytes ==
  ASSUME NEW o \in OverlayIdent
  PROVE  /\ write_overlay(o) \in Seq(Item)
         /\ o.path \in ByteString /\ o.label \in ByteString
         /\ Bytes(write_overlay(o)) = Bytes(write_string(o.path)) \o Bytes(write_string(o.label))
<1> DEFINE s == o.path
           t == o.label
<1>1. s \in ByteString /\ t \in ByteString /\ write_overlay(o) = write_string(s) \o write_string(t)
  BY DEF OverlayIdent, write_overlay
<1> HIDE DEF s, t
<1> DEFINE a == write_string(s)
           b == write_string(t)
<1>2. a \in Seq(Item) /\ b \in Seq(Item)
  BY <1>1, StringBytes
<1> HIDE DEF a, b
<1>3. a \o b \in Seq(Item) /\ Bytes(a \o b) = Bytes(a) \o Bytes(b)
  BY <1>2, BytesConcat
<1>4. QED
  BY <1>1, <1>3 DEF a, b, s, t

(* read_overlay decodes what write_overlay wrote. *)
LEMMA OverlayReads ==
  ASSUME NEW o \in OverlayIdent, NEW f \in Seq(Byte), NEW p \in Nat,
         Occurs(Bytes(write_overlay(o)), f, p)
  PROVE  Reads(read_overlay(f, p), f, p + Len(Bytes(write_overlay(o))), o)
<1> DEFINE s == o.path
           t == o.label
           a == Bytes(write_string(s))
           b == Bytes(write_string(t))
           d == p + Len(a)
           e == p + Len(a \o b)
           r1 == read_string(f, p)
           r2 == read_string(f, d)
           r == read_overlay(f, p)
<1>1. s \in ByteString /\ t \in ByteString /\ Bytes(write_overlay(o)) = a \o b
  BY OverlayBytes
<1>a. o = [path |-> s, label |-> t]
  BY DEF OverlayIdent
<1>b. Occurs(a \o b, f, p)
  BY <1>1
<1> HIDE DEF s, t
<1>2. a \in Seq(Byte) /\ b \in Seq(Byte)
  BY <1>1, StringBytes, BytesType
<1>3. Occurs(a, f, p) /\ Occurs(b, f, p + Len(a)) /\ Len(a) \in Nat /\ Len(b) \in Nat
      /\ Len(a \o b) = Len(a) + Len(b)
  BY <1>b, <1>2, OccursConcat
<1>4. Reads(r1, f, d, s)
  BY <1>1, <1>3, StringReads
<1>5. d \in Nat /\ e \in Nat /\ d <= e /\ e = d + Len(b)
  BY <1>3
<1>6. Reads(r2, f, e, t)
  <2>1. Occurs(b, f, d)
    BY <1>3
  <2> HIDE DEF d, e
  <2>2. Reads(r2, f, d + Len(b), t)
    BY <2>1, <1>1, <1>5, StringReads
  <2>3. QED
    BY <2>2, <1>5
<1>7. r = IF r1.ok THEN LET r3 == read_string(f, r1.pos)
                        IN  IF r3.ok THEN Got(r3.pos, [path |-> r1.val, label |-> r3.val]) ELSE r3
                   ELSE r1
  BY DEF read_overlay, Then
<1> HIDE DEF r, r1, e
<1>8. r1 = Got(d, s) => Reads(r, f, e, o)
  <2>1. SUFFICES ASSUME r1 = Got(d, s)  PROVE Reads(r, f, e, o)
    OBVIOUS
  <2>2. r1.ok /\ r1.pos = d /\ r1.val = s
    BY <2>1 DEF Got
  <2> HIDE DEF d
  <2>3. r = IF r2.ok THEN Got(r2.pos, [path |-> s, label |-> r2.val]) ELSE r2
    BY <1>7, <2>2
  <2> HIDE DEF r2
  <2>4. \/ r2.ok /\ r2.pos = e /\ r2.val = t
        \/ Failed(r2, f) /\ ~ r2.ok /\ e > Len(f)
    BY <1>6, ReadsCases
  <2>5. QED
    BY <2>3, <2>4, <1>a DEF Reads
<1>9. ~ r1.ok => r = r1
  BY <1>7
<1> HIDE DEF d
<1>10. Reads(r, f, e, o)
  BY <1>4, <1>5, <1>8, <1>9, ReadsThen
<1>11. QED
  BY <1>1, <1>10 DEF r, e

OverlayItems(os) == [i \in 1..Len(os) |-> write_overlay(os[i])]

(* The overlays are written as a counted list. *)
LEMMA OverlaysBytes ==
  ASSUME NEW os \in Seq(OverlayIdent)
  PROVE  /\ OverlayItems(os) \in Seq(Seq(Item))
         /\ Len(OverlayItems(os)) = Len(os)
         /\ <<Num(Len(os))>> \o WriteAll(write_overlay, os)
              = List(OverlayItems(os))
<1>0. Len(os) \in Nat /\ DOMAIN os = 1..Len(os)
  OBVIOUS
<1>1. \A i \in 1..Len(os) : write_overlay(os[i]) \in Seq(Item)
  BY OverlayBytes
<1>2. OverlayItems(os) \in Seq(Seq(Item)) /\ Len(OverlayItems(os)) = Len(os)
  BY <1>0, <1>1 DEF OverlayItems
<1>3. <<Num(Len(os))>> \o WriteAll(write_overlay, os)
        = List(OverlayItems(os))
  BY <1>0, <1>2 DEF WriteAll, List, OverlayItems
<1>4. QED
  BY <1>2, <1>3

(* The loop of read_header over the overlays decodes them. *)
LEMMA OverlaysRead ==
  ASSUME NEW os \in Seq(OverlayIdent), NEW f \in Seq(Byte), NEW p \in Nat,
         Occurs(Bytes(List(OverlayItems(os))), f, p)
  PROVE  Reads(ReadMany([q \in Nat |-> read_overlay(f, q)], f, p), f,
               p + Len(Bytes(List(OverlayItems(os)))), os)
<1> DEFINE rd == [q \in Nat |-> read_overlay(f, q)]
           iss == OverlayItems(os)
<1>1. iss \in Seq(Seq(Item)) /\ Len(iss) = Len(os)
  BY OverlaysBytes
<1>2. ASSUME NEW i \in 1..Len(iss)  PROVE Decodes(rd, f, Bytes(iss[i]), os[i])
  <2> DEFINE s == os[i]
             w == Bytes(write_overlay(s))
  <2>1. s \in OverlayIdent /\ Bytes(iss[i]) = w
    BY <1>1 DEF OverlayItems
  <2>2. SUFFICES ASSUME NEW q \in Nat, Occurs(w, f, q)  PROVE Reads(rd[q], f, q + Len(w), s)
    BY <2>1 DEF Decodes
  <2> HIDE DEF s
  <2>3. Reads(read_overlay(f, q), f, q + Len(w), s)
    BY <2>1, <2>2, OverlayReads
  <2>4. rd[q] = read_overlay(f, q)
    OBVIOUS
  <2>5. QED
    BY <2>3, <2>4
<1>a. Occurs(Bytes(List(iss)), f, p)
  OBVIOUS
<1> HIDE DEF rd, iss
<1>3. ManyDecode(rd, f, iss, os)
  BY <1>1, <1>2 DEF ManyDecode
<1>4. Reads(ReadMany(rd, f, p), f, p + Len(Bytes(List(iss))), os)
  BY <1>1, <1>3, <1>a, ListReads
<1>5. QED
  BY <1>4 DEF rd, iss

-------------------------------------------------------------------------------
(* Records *)

FieldName ==
  {"eapi", "maskflags", "propertiesFlags", "restrictFlags", "keywords", "parts", "slot",
   "overlay_key", "iuse", "required_use", "dependencies", "depend", "rdepend", "pdepend",
   "bdepend", "idepend", "src_uri", "name", "desc", "homepage", "licenses", "size", "version",
   "overlays", "eapi_hash", "license_hash", "keywords_hash", "iuse_hash", "slot_hash",
   "world_sets", "bitmask"}

How ==
  {<<"num">>, <<"char">>, <<"string">>, <<"skip">>, <<"parts">>, <<"skip words">>, <<"hash">>,
   <<"overlays">>} \cup ({"hash string", "hash words"} \X Seq(ByteString))
Field == FieldName \X How

FieldReader(field, f) == [q \in Nat |-> ReadField(field[2], f, q)]

(* The bytes w are read as the field of the record rec, if its name is in K,
   and as something otherwise. *)
FieldReads(field, f, w, rec, K) ==
  w \in Seq(Byte) /\ \E v : Decodes(FieldReader(field, f), f, w, v) /\ (field[1] \in K => v = rec[field[1]])

FieldsRead(fields, f, ws, rec, K) ==
  /\ fields \in Seq(Field) /\ ws \in Seq(Seq(Byte)) /\ Len(ws) = Len(fields)
  /\ \A i \in 1..Len(ws) : FieldReads(fields[i], f, ws[i], rec, K)

Names(fields) == {fields[i][1] : i \in DOMAIN fields}

RecordReader(fields, f) == [q \in Nat |-> ReadRecord(fields, f, q)]

(* Fields that are each read as they were written are read as a record whose wanted fields hold what
   was written. *)
LEMMA RecordReads ==
  ASSUME NEW f \in Seq(Byte), NEW fields, NEW ws, NEW rec, NEW K, FieldsRead(fields, f, ws, rec, K)
  PROVE  \E r : /\ Decodes(RecordReader(fields, f), f, FlattenSeq(ws), r)
                /\ DOMAIN r = Names(fields)
                /\ \A n \in DOMAIN r : n \in K => r[n] = rec[n]
<1>1. /\ fields \in Seq(Field) /\ ws \in Seq(Seq(Byte)) /\ Len(ws) = Len(fields)
      /\ \A i \in 1..Len(ws) : FieldReads(fields[i], f, ws[i], rec, K)
      /\ Len(fields) \in Nat /\ DOMAIN fields = 1..Len(fields)
  <2>1. /\ fields \in Seq(Field) /\ ws \in Seq(Seq(Byte)) /\ Len(ws) = Len(fields)
        /\ \A i \in 1..Len(ws) : FieldReads(fields[i], f, ws[i], rec, K)
    BY DEF FieldsRead
  <2>2. QED
    BY <2>1
<1> DEFINE n == Len(fields)
           Is(i, v) == /\ Decodes(FieldReader(fields[i], f), f, ws[i], v)
                       /\ fields[i][1] \in K => v = rec[fields[i][1]]
           vs == [i \in 1..n |-> CHOOSE v : Is(i, v)]
           V == {vs[i] : i \in 1..n}
           rs == [i \in DOMAIN fields |-> [q \in Nat |-> ReadField(fields[i][2], f, q)]]
           r == [m \in Names(fields) |-> vs[CHOOSE i \in DOMAIN fields : fields[i][1] = m]]
<1>2. ASSUME NEW i \in 1..n  PROVE Is(i, vs[i])
  <2>1. \E v : Is(i, v)
    BY <1>1 DEF FieldReads
  <2> HIDE DEF Is
  <2>2. vs[i] = CHOOSE v : Is(i, v)
    OBVIOUS
  <2> HIDE DEF vs
  <2>3. QED
    BY <2>1, <2>2
<1>3. vs \in Seq(V) /\ Len(vs) = n
  <2>1. DOMAIN vs = 1..n /\ n \in Nat /\ vs = [i \in 1..n |-> vs[i]] /\ \A i \in 1..n : vs[i] \in V
    BY <1>1
  <2> HIDE DEF vs, V
  <2>2. vs \in [1..n -> V]
    BY <2>1
  <2>3. QED
    BY <2>1, <2>2
<1>4. Len(rs) = n /\ \A i \in 1..n : rs[i] = FieldReader(fields[i], f)
  BY <1>1 DEF FieldReader
<1>5. \A p : ReadRecord(fields, f, p)
               = LET x == ReadEach(rs, p)
                 IN  IF x.ok THEN Got(x.pos, [m \in Names(fields) |->
                                x.val[CHOOSE i \in DOMAIN fields : fields[i][1] = m]])
                             ELSE x
  BY DEF ReadRecord, Then, Names
<1>6. EachDecodes(rs, f, ws, vs)
  <2> HIDE DEF rs, vs
  <2>1. QED
    BY <1>1, <1>2, <1>3, <1>4 DEF EachDecodes
<1>7. Decodes(RecordReader(fields, f), f, FlattenSeq(ws), r)
  <2>1. SUFFICES ASSUME NEW p \in Nat, Occurs(FlattenSeq(ws), f, p)
                 PROVE  Reads(RecordReader(fields, f)[p], f, p + Len(FlattenSeq(ws)), r)
    BY DEF Decodes
  <2> DEFINE x == ReadEach(rs, p)
             e == p + Len(FlattenSeq(ws))
  <2>2. RecordReader(fields, f)[p]
          = IF x.ok THEN Got(x.pos, [m \in Names(fields) |->
                                x.val[CHOOSE i \in DOMAIN fields : fields[i][1] = m]])
                    ELSE x
    BY <1>5 DEF RecordReader
  <2> HIDE DEF rs
  <2>a. r = [m \in Names(fields) |-> vs[CHOOSE i \in DOMAIN fields : fields[i][1] = m]]
    OBVIOUS
  <2> HIDE DEF vs, V, r
  <2>3. Reads(x, f, e, vs)
    BY <1>1, <1>3, <1>6, <2>1, ReadEachReads
  <2> HIDE DEF x, e
  <2>4. \/ x.ok /\ x.pos = e /\ x.val = vs
        \/ Failed(x, f) /\ ~ x.ok /\ e > Len(f)
    BY <2>3, ReadsCases
  <2>5. CASE x.ok /\ x.pos = e /\ x.val = vs
    <3>1. RecordReader(fields, f)[p] = Got(e, r)
      BY <2>2, <2>5, <2>a
    <3>2. QED
      BY <3>1 DEF Reads, e
  <2>6. CASE Failed(x, f) /\ ~ x.ok /\ e > Len(f)
    <3>1. RecordReader(fields, f)[p] = x
      BY <2>2, <2>6
    <3>2. QED
      BY <3>1, <2>6 DEF Reads, e
  <2>7. QED
    BY <2>4, <2>5, <2>6
<1>8. DOMAIN r = Names(fields)
  OBVIOUS
<1>9. ASSUME NEW m \in DOMAIN r, m \in K  PROVE r[m] = rec[m]
  <2> DEFINE i == CHOOSE j \in DOMAIN fields : fields[j][1] = m
  <2>1. \E j \in DOMAIN fields : fields[j][1] = m
    BY DEF Names
  <2>2. i \in 1..n /\ fields[i][1] = m
    BY <2>1, <1>1
  <2>3. r[m] = vs[i]
    OBVIOUS
  <2> HIDE DEF i, r
  <2>4. Is(i, vs[i])
    BY <1>2, <2>2
  <2> HIDE DEF vs
  <2>5. vs[i] = rec[fields[i][1]]
    BY <2>2, <2>4, <1>9
  <2>6. QED
    BY <2>2, <2>3, <2>5
<1> HIDE DEF r
<1>10. QED
  BY <1>7, <1>8, <1>9

(* Fields read as written, followed by fields read as written. *)
LEMMA FieldsConcat ==
  ASSUME NEW f, NEW rec, NEW K, NEW us, NEW vs, NEW bs, NEW ws,
         FieldsRead(us, f, vs, rec, K), FieldsRead(bs, f, ws, rec, K)
  PROVE  FieldsRead(us \o bs, f, vs \o ws, rec, K)
<1>1. us \in Seq(Field) /\ vs \in Seq(Seq(Byte)) /\ Len(vs) = Len(us) /\ Len(us) \in Nat
      /\ \A i \in 1..Len(us) : FieldReads(us[i], f, vs[i], rec, K)
  <2>1. us \in Seq(Field) /\ vs \in Seq(Seq(Byte)) /\ Len(vs) = Len(us)
        /\ \A i \in 1..Len(vs) : FieldReads(us[i], f, vs[i], rec, K)
    BY DEF FieldsRead
  <2>2. Len(us) \in Nat
    BY <2>1, LenProperties
  <2>3. QED
    BY <2>1, <2>2
<1>2. bs \in Seq(Field) /\ ws \in Seq(Seq(Byte)) /\ Len(ws) = Len(bs) /\ Len(bs) \in Nat
      /\ \A i \in 1..Len(bs) : FieldReads(bs[i], f, ws[i], rec, K)
  <2>1. bs \in Seq(Field) /\ ws \in Seq(Seq(Byte)) /\ Len(ws) = Len(bs)
        /\ \A i \in 1..Len(ws) : FieldReads(bs[i], f, ws[i], rec, K)
    BY DEF FieldsRead
  <2>2. Len(bs) \in Nat
    BY <2>1, LenProperties
  <2>3. QED
    BY <2>1, <2>2
<1> DEFINE cs == us \o bs
           xs == vs \o ws
<1>3. cs \in Seq(Field) /\ Len(cs) = Len(us) + Len(bs)
      /\ \A i \in 1..(Len(us) + Len(bs)) : cs[i] = IF i <= Len(us) THEN us[i] ELSE bs[i - Len(us)]
  BY <1>1, <1>2, ConcatProperties
<1>4. xs \in Seq(Seq(Byte)) /\ Len(xs) = Len(us) + Len(bs)
      /\ \A i \in 1..(Len(us) + Len(bs)) : xs[i] = IF i <= Len(us) THEN vs[i] ELSE ws[i - Len(us)]
  <2>1. vs \in Seq(Seq(Byte)) /\ ws \in Seq(Seq(Byte))
    BY <1>1, <1>2
  <2>2. xs \in Seq(Seq(Byte)) /\ Len(xs) = Len(vs) + Len(ws)
        /\ \A i \in 1..(Len(vs) + Len(ws)) : xs[i] = IF i <= Len(vs) THEN vs[i] ELSE ws[i - Len(vs)]
    BY ONLY <2>1, ConcatProperties
  <2>3. QED
    BY <1>1, <1>2, <2>2
<1> HIDE DEF cs, xs
<1>5. ASSUME NEW i \in 1..Len(xs)  PROVE FieldReads(cs[i], f, xs[i], rec, K)
  <2> DEFINE n == Len(us)
             m == Len(bs)
  <2>0. n \in Nat /\ m \in Nat /\ i \in 1..(n + m)
        /\ cs[i] = (IF i <= n THEN us[i] ELSE bs[i - n])
        /\ xs[i] = (IF i <= n THEN vs[i] ELSE ws[i - n])
        /\ (\A k \in 1..n : FieldReads(us[k], f, vs[k], rec, K))
        /\ (\A k \in 1..m : FieldReads(bs[k], f, ws[k], rec, K))
    BY <1>1, <1>2, <1>3, <1>4
  <2> HIDE DEF n, m
  <2>1. CASE i <= n
    <3>1. i \in 1..n /\ cs[i] = us[i] /\ xs[i] = vs[i]
      BY <2>0, <2>1
    <3>2. QED
      BY <2>0, <3>1
  <2>2. CASE ~(i <= n)
    <3> DEFINE j == i - n
    <3>1. j \in 1..m /\ cs[i] = bs[j] /\ xs[i] = ws[j]
      BY <2>0, <2>2
    <3> HIDE DEF j
    <3>2. QED
      BY <2>0, <3>1
  <2>3. QED
    BY <2>1, <2>2
<1>6. FieldsRead(cs, f, xs, rec, K)
  BY <1>3, <1>4, <1>5 DEF FieldsRead
<1>7. QED
  BY <1>6 DEF cs, xs

(* No fields are read as written. *)
LEMMA FieldsNone ==
  ASSUME NEW f, NEW rec, NEW K
  PROVE  FieldsRead(<<>>, f, <<>>, rec, K)
BY DEF FieldsRead

(* One field. *)
LEMMA FieldsOne ==
  ASSUME NEW f, NEW rec, NEW K, NEW field \in Field, NEW w, FieldReads(field, f, w, rec, K)
  PROVE  FieldsRead(<<field>>, f, <<w>>, rec, K)
<1>1. w \in Seq(Byte)
  BY DEF FieldReads
<1>2. <<field>> \in Seq(Field) /\ <<w>> \in Seq(Seq(Byte)) /\ Len(<<w>>) = 1 /\ Len(<<field>>) = 1
      /\ <<field>>[1] = field /\ <<w>>[1] = w
  BY <1>1
<1>3. \A i \in 1..Len(<<w>>) : i = 1
  BY <1>2
<1>4. \A i \in 1..Len(<<w>>) : FieldReads(<<field>>[i], f, <<w>>[i], rec, K)
  BY <1>2, <1>3
<1>5. QED
  BY <1>2, <1>4 DEF FieldsRead

(* Some of the fields, one after the other. *)
LEMMA FieldsSome ==
  ASSUME NEW f, NEW rec, NEW K, NEW fields, NEW ws, FieldsRead(fields, f, ws, rec, K),
         NEW i \in Nat \ {0}, NEW j \in Nat, j <= Len(fields)
  PROVE  FieldsRead(SubSeq(fields, i, j), f, SubSeq(ws, i, j), rec, K)
<1>1. fields \in Seq(Field) /\ ws \in Seq(Seq(Byte)) /\ Len(ws) = Len(fields) /\ Len(fields) \in Nat
      /\ \A k \in 1..Len(fields) : FieldReads(fields[k], f, ws[k], rec, K)
  <2>1. fields \in Seq(Field) /\ ws \in Seq(Seq(Byte)) /\ Len(ws) = Len(fields)
        /\ \A k \in 1..Len(ws) : FieldReads(fields[k], f, ws[k], rec, K)
    BY DEF FieldsRead
  <2>2. QED
    BY <2>1
<1>2. CASE j < i
  <2>1. SubSeq(fields, i, j) = <<>> /\ SubSeq(ws, i, j) = <<>>
    BY <1>2, SubSeqEmpty
  <2>2. QED
    BY <2>1, FieldsNone
<1>3. CASE i <= j
  <2> DEFINE cs == SubSeq(fields, i, j)
             xs == SubSeq(ws, i, j)
             n == j - i + 1
  <2>1. \A k \in i..j : k \in 1..Len(fields) /\ fields[k] \in Field /\ ws[k] \in Seq(Byte)
    BY <1>1, <1>3
  <2>2. cs \in Seq(Field) /\ Len(cs) = n /\ \A k \in 1..n : cs[k] = fields[i + k - 1]
    BY <1>3, <2>1, SubSeqProperties
  <2>3. xs \in Seq(Seq(Byte)) /\ Len(xs) = n /\ \A k \in 1..n : xs[k] = ws[i + k - 1]
    BY <1>3, <2>1, SubSeqProperties
  <2>4. \A k \in 1..n : i + k - 1 \in 1..Len(fields)
    BY <1>1, <1>3
  <2> HIDE DEF cs, xs
  <2>5. \A k \in 1..n : FieldReads(cs[k], f, xs[k], rec, K)
    BY <1>1, <2>2, <2>3, <2>4
  <2>6. FieldsRead(cs, f, xs, rec, K)
    BY <2>2, <2>3, <2>5 DEF FieldsRead
  <2>7. QED
    BY <2>6 DEF cs, xs
<1>4. QED
  BY <1>1, <1>2, <1>3

-------------------------------------------------------------------------------
(* The hashes of the header *)

(* SetToSeq lists a finite set. *)
LEMMA SetToSeqIs ==
  ASSUME NEW S, IsFiniteSet(S)
  PROVE  SetToSeq(S) \in Seq(S) /\ ToSet(SetToSeq(S)) = S
<1> DEFINE n == Cardinality(S)
           g == SetToSeq(S)
<1>1. n \in Nat /\ ExistsBijection(1..n, S)
  BY FS_CardinalityType
<1>2. \E h \in [1..n -> S] : IsInjective(h)
  BY <1>1 DEF ExistsBijection, Bijection, Injection
<1>3. g \in [1..n -> S] /\ IsInjective(g)
  BY <1>2 DEF SetToSeq
<1> HIDE DEF g
<1>4. g \in Injection(1..n, S)
  BY <1>3 DEF Injection
<1>5. Cardinality(1..n) = Cardinality(S) /\ IsFiniteSet(1..n)
  <2> HIDE DEF n
  <2>1. 1 \in Int /\ n \in Int
    BY <1>1
  <2>2. IsFiniteSet(1..n) /\ Cardinality(1..n) = IF 1 > n THEN 0 ELSE n - 1 + 1
    BY <2>1, FS_Interval
  <2>3. Cardinality(1..n) = n
    BY <1>1, <2>2
  <2>4. QED
    BY <2>2, <2>3 DEF n
<1>6. g \in Surjection(1..n, S)
  BY <1>4, <1>5, FS_Injection
<1>7. \A s \in S : \E i \in 1..n : g[i] = s
  BY <1>6 DEF Surjection
<1> HIDE DEF n
<1>8. g \in Seq(S) /\ DOMAIN g = 1..n
  BY <1>1, <1>3
<1>9. ToSet(g) = S
  BY <1>3, <1>7, <1>8 DEF ToSet
<1>10. QED
  BY <1>8, <1>9 DEF g

(* The elements of a sequence are a finite set. *)
LEMMA ToSetFinite ==
  ASSUME NEW S, NEW s \in Seq(S)
  PROVE  IsFiniteSet(ToSet(s)) /\ ToSet(s) \subseteq S /\ \A i \in 1..Len(s) : s[i] \in ToSet(s)
<1>1. Len(s) \in Nat /\ DOMAIN s = 1..Len(s) /\ s \in [1..Len(s) -> S]
  OBVIOUS
<1>2. s \in [1..Len(s) -> ToSet(s)] /\ \A t \in ToSet(s) : \E i \in 1..Len(s) : s[i] = t
  BY <1>1 DEF ToSet
<1>3. s \in Surjection(1..Len(s), ToSet(s))
  BY <1>2 DEF Surjection
<1>4. IsFiniteSet(1..Len(s))
  BY <1>1, FS_Interval
<1>5. IsFiniteSet(ToSet(s))
  BY <1>3, <1>4, FS_Surjection
<1>6. QED
  BY <1>1, <1>5 DEF ToSet

(* The image of a finite set is finite. *)
LEMMA ImageFinite ==
  ASSUME NEW D, IsFiniteSet(D), NEW g, DOMAIN g = D, g = [x \in D |-> g[x]]
  PROVE  IsFiniteSet({g[x] : x \in D})
<1> DEFINE T == {g[x] : x \in D}
<1>1. g \in [D -> T] /\ \A t \in T : \E x \in D : g[x] = t
  OBVIOUS
<1> HIDE DEF T
<1>2. g \in Surjection(D, T)
  BY <1>1 DEF Surjection
<1>3. IsFiniteSet(T)
  BY <1>2, FS_Surjection
<1>4. QED
  BY <1>3 DEF T

(* A finite union of finite sets is finite. *)
LEMMA UnionFinite ==
  ASSUME NEW D, IsFiniteSet(D), NEW g, DOMAIN g = D, g = [x \in D |-> g[x]],
         \A x \in D : IsFiniteSet(g[x])
  PROVE  IsFiniteSet(UNION {g[x] : x \in D})
<1> DEFINE T == {g[x] : x \in D}
<1>1. IsFiniteSet(T)
  BY ImageFinite
<1>2. \A U \in T : IsFiniteSet(U)
  OBVIOUS
<1> HIDE DEF T
<1>3. IsFiniteSet(UNION T)
  BY <1>1, <1>2, FS_UNION
<1>4. QED
  BY <1>3 DEF T

(* A tree has finitely many packages and versions. *)
LEMMA TreeFinite ==
  ASSUME NEW t \in Seq(Category)
  PROVE  /\ IsFiniteSet(Packages(t)) /\ Packages(t) \subseteq Package
         /\ IsFiniteSet(Versions(t)) /\ Versions(t) \subseteq Version
         /\ \A c \in 1..Len(t) : \A k \in 1..Len(t[c].packages) : t[c].packages[k] \in Packages(t)
         /\ \A p \in Packages(t) : \A i \in 1..Len(p.versions) : p.versions[i] \in Versions(t)
<1>1. Len(t) \in Nat /\ DOMAIN t = 1..Len(t) /\ \A c \in 1..Len(t) : t[c] \in Category
  OBVIOUS
<1>2. \A c \in 1..Len(t) : t[c].packages \in Seq(Package)
  BY <1>1 DEF Category
<1>3. \A c \in 1..Len(t) : /\ IsFiniteSet(ToSet(t[c].packages)) /\ ToSet(t[c].packages) \subseteq Package
                           /\ \A k \in 1..Len(t[c].packages) : t[c].packages[k] \in ToSet(t[c].packages)
  BY <1>2, ToSetFinite
<1>4. IsFiniteSet(Packages(t)) /\ Packages(t) \subseteq Package
      /\ \A c \in 1..Len(t) : \A k \in 1..Len(t[c].packages) : t[c].packages[k] \in Packages(t)
  <2> DEFINE g == [c \in 1..Len(t) |-> ToSet(t[c].packages)]
             D == 1..Len(t)
  <2>1. IsFiniteSet(D)
    BY <1>1, FS_Interval
  <2>2. DOMAIN g = D /\ g = [x \in D |-> g[x]] /\ \A x \in D : IsFiniteSet(g[x])
    BY <1>3
  <2>3. Packages(t) = UNION {g[x] : x \in D}
    BY <1>1 DEF Packages
  <2> HIDE DEF g, D
  <2>4. IsFiniteSet(UNION {g[x] : x \in D})
    BY <2>1, <2>2, UnionFinite
  <2>5. Packages(t) \subseteq Package
    BY <1>1, <1>3 DEF Packages
  <2>6. \A c \in 1..Len(t) : \A k \in 1..Len(t[c].packages) : t[c].packages[k] \in Packages(t)
    BY <1>1, <1>3 DEF Packages
  <2>7. QED
    BY <2>3, <2>4, <2>5, <2>6
<1>5. \A p \in Packages(t) : p.versions \in Seq(Version)
  BY <1>4 DEF Package
<1>6. \A p \in Packages(t) : /\ IsFiniteSet(ToSet(p.versions)) /\ ToSet(p.versions) \subseteq Version
                             /\ \A i \in 1..Len(p.versions) : p.versions[i] \in ToSet(p.versions)
  BY <1>5, ToSetFinite
<1>7. IsFiniteSet(Versions(t)) /\ Versions(t) \subseteq Version
      /\ \A p \in Packages(t) : \A i \in 1..Len(p.versions) : p.versions[i] \in Versions(t)
  <2> DEFINE D == Packages(t)
             g == [p \in D |-> ToSet(p.versions)]
  <2>1. IsFiniteSet(D)
    BY <1>4
  <2>2. DOMAIN g = D /\ g = [x \in D |-> g[x]] /\ \A x \in D : IsFiniteSet(g[x])
    BY <1>6
  <2>3. Versions(t) = UNION {g[x] : x \in D}
    BY DEF Versions
  <2> HIDE DEF g, D
  <2>4. IsFiniteSet(UNION {g[x] : x \in D})
    BY <2>1, <2>2, UnionFinite
  <2>5. Versions(t) \subseteq Version
    BY <1>6 DEF Versions
  <2>6. \A p \in Packages(t) : \A i \in 1..Len(p.versions) : p.versions[i] \in Versions(t)
    BY <1>6 DEF Versions
  <2>7. QED
    BY <2>3, <2>4, <2>5, <2>6
<1>8. QED
  BY <1>4, <1>7

WordFields == {"keywords", "iuse", "required_use", "depend", "rdepend", "pdepend", "bdepend", "idepend"}

(* A tree has finitely many words of each kind. *)
LEMMA WordsFinite ==
  ASSUME NEW t \in Seq(Category), NEW n \in WordFields
  PROVE  /\ IsFiniteSet(WordsOf(t, n)) /\ WordsOf(t, n) \subseteq ByteString
         /\ \A v \in Versions(t) : v[n] \in Seq(ByteString) /\ ToSet(v[n]) \subseteq WordsOf(t, n)
<1> DEFINE D == Versions(t)
           g == [v \in D |-> ToSet(v[n])]
<1>1. IsFiniteSet(D) /\ D \subseteq Version
  BY TreeFinite
<1>2. \A v \in D : v[n] \in Seq(ByteString)
  BY <1>1 DEF Version, WordFields
<1>3. \A v \in D : IsFiniteSet(ToSet(v[n])) /\ ToSet(v[n]) \subseteq ByteString
  BY <1>2, ToSetFinite
<1>4. DOMAIN g = D /\ g = [x \in D |-> g[x]] /\ \A x \in D : IsFiniteSet(g[x])
  BY <1>3
<1>5. WordsOf(t, n) = UNION {g[x] : x \in D}
  BY DEF WordsOf
<1>6. WordsOf(t, n) \subseteq ByteString /\ \A v \in D : ToSet(v[n]) \subseteq WordsOf(t, n)
  BY <1>3 DEF WordsOf
<1> HIDE DEF g
<1>7. IsFiniteSet(UNION {g[x] : x \in D})
  BY <1>1, <1>4, UnionFinite
<1>8. QED
  BY <1>2, <1>5, <1>6, <1>7

(* A sequence over a part of the hashed words. *)
LEMMA WordsHashed ==
  ASSUME NEW S, NEW words \in Seq(S), NEW T, ToSet(words) \subseteq T, NEW hash, ToSet(hash) = T
  PROVE  words \in Seq(ToSet(hash))
<1>1. \A i \in 1..Len(words) : words[i] \in T
  BY ToSetFinite
<1>2. QED
  BY <1>1

(* What the header has of a version. *)
VersionHashed(v, hdr) ==
  /\ v.eapi \in ToSet(hdr.eapi_hash)
  /\ v.slot \in ToSet(hdr.slot_hash)
  /\ v.keywords \in Seq(ToSet(hdr.keywords_hash))
  /\ v.iuse \in Seq(ToSet(hdr.iuse_hash))
  /\ hdr.use_required_use => v.required_use \in Seq(ToSet(hdr.iuse_hash))
  /\ hdr.use_depend => /\ v.depend \in Seq(ToSet(hdr.depend_hash))
                       /\ v.rdepend \in Seq(ToSet(hdr.depend_hash))
                       /\ v.pdepend \in Seq(ToSet(hdr.depend_hash))
                       /\ v.bdepend \in Seq(ToSet(hdr.depend_hash))
                       /\ v.idepend \in Seq(ToSet(hdr.depend_hash))

GoodHeader(hdr) ==
  /\ hdr.use_depend \in BOOLEAN /\ hdr.use_required_use \in BOOLEAN /\ hdr.use_src_uri \in BOOLEAN
  /\ hdr.eapi_hash \in Seq(ByteString) /\ hdr.license_hash \in Seq(ByteString)
  /\ hdr.keywords_hash \in Seq(ByteString) /\ hdr.iuse_hash \in Seq(ByteString)
  /\ hdr.slot_hash \in Seq(ByteString) /\ hdr.depend_hash \in Seq(ByteString)

(* The hash of a finite set of words holds exactly these words. *)
LEMMA HashOf ==
  ASSUME NEW S, S \subseteq ByteString, IsFiniteSet(S)
  PROVE  SetToSeq(S) \in Seq(ByteString) /\ ToSet(SetToSeq(S)) = S
<1>1. SetToSeq(S) \in Seq(S) /\ ToSet(SetToSeq(S)) = S
  BY SetToSeqIs
<1>2. QED
  BY <1>1, SeqMonotonic

DependWords(t) == UNION {WordsOf(t, DependFields[d]) : d \in DOMAIN DependFields}

(* The words of the five kinds of dependencies are finitely many. *)
LEMMA DependFinite ==
  ASSUME NEW t \in Seq(Category)
  PROVE  /\ IsFiniteSet(DependWords(t)) /\ DependWords(t) \subseteq ByteString
         /\ \A n \in {"depend", "rdepend", "pdepend", "bdepend", "idepend"} :
              WordsOf(t, n) \subseteq DependWords(t)
<1> DEFINE D == 1..5
           g == [d \in D |-> WordsOf(t, DependFields[d])]
<1>1. DOMAIN DependFields = D /\ \A d \in D : DependFields[d] \in WordFields
  BY DEF DependFields, WordFields
<1>2. IsFiniteSet(D)
  <2>1. ASSUME NEW n \in Nat  PROVE IsFiniteSet(1..n)
    BY FS_Interval
  <2>2. QED
    BY <2>1
<1>3. \A d \in D : IsFiniteSet(WordsOf(t, DependFields[d])) /\ WordsOf(t, DependFields[d]) \subseteq ByteString
  BY <1>1, WordsFinite
<1>4. DOMAIN g = D /\ g = [x \in D |-> g[x]] /\ \A x \in D : IsFiniteSet(g[x])
  BY <1>3
<1>5. DependWords(t) = UNION {g[x] : x \in D}
  BY <1>1 DEF DependWords
<1>6. DependWords(t) \subseteq ByteString
  BY <1>1, <1>3 DEF DependWords
<1>7. \A n \in {"depend", "rdepend", "pdepend", "bdepend", "idepend"} : WordsOf(t, n) \subseteq DependWords(t)
  <2>1. ASSUME NEW n \in {"depend", "rdepend", "pdepend", "bdepend", "idepend"}
        PROVE  \E d \in D : DependFields[d] = n
    <3>1. /\ DependFields[1] = "depend" /\ DependFields[2] = "rdepend" /\ DependFields[3] = "pdepend"
          /\ DependFields[4] = "bdepend" /\ DependFields[5] = "idepend"
      BY DEF DependFields
    <3>2. QED
      BY <3>1
  <2>2. QED
    BY <1>1, <2>1 DEF DependWords
<1> HIDE DEF g, D
<1>8. IsFiniteSet(UNION {g[x] : x \in D})
  BY <1>2, <1>4, UnionFinite
<1>9. QED
  BY <1>5, <1>6, <1>7, <1>8

(* prep_header_hashs collects every word that a version or a package of the tree writes by its index. *)
LEMMA HashesHold ==
  ASSUME NEW t \in Seq(Category), NEW use \in UseOptions
  PROVE  LET hdr == prep_header_hashs(t, use)
         IN  /\ GoodHeader(hdr)
             /\ \A v \in Versions(t) : VersionHashed(v, hdr)
             /\ \A p \in Packages(t) : p.licenses \in ToSet(hdr.license_hash)
             /\ hdr.use_depend = use.depend /\ hdr.use_required_use = use.required_use
             /\ hdr.use_src_uri = use.src_uri
<1> DEFINE hdr == prep_header_hashs(t, use)
           VS == Versions(t)
           PS == Packages(t)
           E == {v.eapi : v \in VS}
           L == {p.licenses : p \in PS}
           K == WordsOf(t, "keywords")
           I == WordsOf(t, "iuse") \cup (IF use.required_use THEN WordsOf(t, "required_use") ELSE {})
           O == {v.slot : v \in VS}
           D == IF use.depend THEN DependWords(t) ELSE {}
<1>1. /\ hdr.use_depend = use.depend /\ hdr.use_required_use = use.required_use
      /\ hdr.use_src_uri = use.src_uri
      /\ hdr.eapi_hash = SetToSeq(E) /\ hdr.license_hash = SetToSeq(L)
      /\ hdr.keywords_hash = SetToSeq(K) /\ hdr.iuse_hash = SetToSeq(I)
      /\ hdr.slot_hash = SetToSeq(O) /\ hdr.depend_hash = SetToSeq(D)
  BY DEF prep_header_hashs, DependWords
<1>2. use.depend \in BOOLEAN /\ use.required_use \in BOOLEAN /\ use.src_uri \in BOOLEAN
  BY DEF UseOptions
<1>3. IsFiniteSet(VS) /\ VS \subseteq Version /\ IsFiniteSet(PS) /\ PS \subseteq Package
  BY TreeFinite
<1> HIDE DEF VS, PS, hdr
<1>4. IsFiniteSet(E) /\ E \subseteq ByteString
  <2> DEFINE g == [v \in VS |-> v.eapi]
  <2>1. DOMAIN g = VS /\ g = [x \in VS |-> g[x]] /\ E = {g[x] : x \in VS}
    OBVIOUS
  <2> HIDE DEF g
  <2>2. IsFiniteSet({g[x] : x \in VS})
    BY <1>3, <2>1, ImageFinite
  <2>3. E \subseteq ByteString
    BY <1>3 DEF Version
  <2>4. QED
    BY <2>1, <2>2, <2>3
<1>5. IsFiniteSet(O) /\ O \subseteq ByteString
  <2> DEFINE g == [v \in VS |-> v.slot]
  <2>1. DOMAIN g = VS /\ g = [x \in VS |-> g[x]] /\ O = {g[x] : x \in VS}
    OBVIOUS
  <2> HIDE DEF g
  <2>2. IsFiniteSet({g[x] : x \in VS})
    BY <1>3, <2>1, ImageFinite
  <2>3. O \subseteq ByteString
    BY <1>3 DEF Version
  <2>4. QED
    BY <2>1, <2>2, <2>3
<1>6. IsFiniteSet(L) /\ L \subseteq ByteString
  <2> DEFINE g == [p \in PS |-> p.licenses]
  <2>1. DOMAIN g = PS /\ g = [x \in PS |-> g[x]] /\ L = {g[x] : x \in PS}
    OBVIOUS
  <2> HIDE DEF g
  <2>2. IsFiniteSet({g[x] : x \in PS})
    BY <1>3, <2>1, ImageFinite
  <2>3. L \subseteq ByteString
    BY <1>3 DEF Package
  <2>4. QED
    BY <2>1, <2>2, <2>3
<1>7. /\ IsFiniteSet(K) /\ K \subseteq ByteString
      /\ \A v \in VS : v.keywords \in Seq(ByteString) /\ ToSet(v.keywords) \subseteq K
  <2>1. "keywords" \in WordFields
    BY DEF WordFields
  <2>2. QED
    BY <2>1, WordsFinite DEF VS
<1>8. /\ IsFiniteSet(I) /\ I \subseteq ByteString
      /\ \A v \in VS : v.iuse \in Seq(ByteString) /\ ToSet(v.iuse) \subseteq I
      /\ use.required_use => \A v \in VS : /\ v.required_use \in Seq(ByteString)
                                           /\ ToSet(v.required_use) \subseteq I
  <2>1. "iuse" \in WordFields /\ "required_use" \in WordFields
    BY DEF WordFields
  <2>2. /\ IsFiniteSet(WordsOf(t, "iuse")) /\ WordsOf(t, "iuse") \subseteq ByteString
        /\ \A v \in VS : v.iuse \in Seq(ByteString) /\ ToSet(v.iuse) \subseteq WordsOf(t, "iuse")
    BY <2>1, WordsFinite DEF VS
  <2>3. /\ IsFiniteSet(WordsOf(t, "required_use")) /\ WordsOf(t, "required_use") \subseteq ByteString
        /\ \A v \in VS : /\ v.required_use \in Seq(ByteString)
                         /\ ToSet(v.required_use) \subseteq WordsOf(t, "required_use")
    BY <2>1, WordsFinite DEF VS
  <2> DEFINE A == WordsOf(t, "iuse")
             B == IF use.required_use THEN WordsOf(t, "required_use") ELSE {}
  <2>4. IsFiniteSet(A) /\ IsFiniteSet(B) /\ A \subseteq ByteString /\ B \subseteq ByteString
    BY <2>2, <2>3, FS_EmptySet
  <2>5. IsFiniteSet(A \cup B)
    <3> HIDE DEF A, B
    <3>1. QED
      BY <2>4, FS_Union
  <2>6. I = A \cup B
    OBVIOUS
  <2>7. QED
    BY <2>2, <2>3, <2>4, <2>5, <2>6
<1>9. /\ IsFiniteSet(D) /\ D \subseteq ByteString
      /\ use.depend => \A v \in VS : \A n \in {"depend", "rdepend", "pdepend", "bdepend", "idepend"} :
                         v[n] \in Seq(ByteString) /\ ToSet(v[n]) \subseteq D
  <2>1. IsFiniteSet(D) /\ D \subseteq ByteString
    BY DependFinite, FS_EmptySet
  <2>2. ASSUME use.depend, NEW v \in VS, NEW n \in {"depend", "rdepend", "pdepend", "bdepend", "idepend"}
        PROVE  v[n] \in Seq(ByteString) /\ ToSet(v[n]) \subseteq D
    <3>1. n \in WordFields
      BY DEF WordFields
    <3>2. v[n] \in Seq(ByteString) /\ ToSet(v[n]) \subseteq WordsOf(t, n)
      BY <3>1, WordsFinite DEF VS
    <3>3. WordsOf(t, n) \subseteq DependWords(t) /\ D = DependWords(t)
      BY <2>2, DependFinite
    <3>4. QED
      BY <3>2, <3>3
  <2>3. QED
    BY <2>1, <2>2
<1> HIDE DEF E, L, K, I, O, D
<1>10. /\ hdr.eapi_hash \in Seq(ByteString) /\ ToSet(hdr.eapi_hash) = E
       /\ hdr.license_hash \in Seq(ByteString) /\ ToSet(hdr.license_hash) = L
       /\ hdr.keywords_hash \in Seq(ByteString) /\ ToSet(hdr.keywords_hash) = K
       /\ hdr.iuse_hash \in Seq(ByteString) /\ ToSet(hdr.iuse_hash) = I
       /\ hdr.slot_hash \in Seq(ByteString) /\ ToSet(hdr.slot_hash) = O
       /\ hdr.depend_hash \in Seq(ByteString) /\ ToSet(hdr.depend_hash) = D
  BY <1>1, <1>4, <1>5, <1>6, <1>7, <1>8, <1>9, HashOf
<1>11. GoodHeader(hdr)
  BY <1>1, <1>2, <1>10 DEF GoodHeader
<1>12. ASSUME NEW v \in VS  PROVE VersionHashed(v, hdr)
  <2>1. v.eapi \in ToSet(hdr.eapi_hash) /\ v.slot \in ToSet(hdr.slot_hash)
    BY <1>10 DEF E, O
  <2>2. v.keywords \in Seq(ToSet(hdr.keywords_hash)) /\ v.iuse \in Seq(ToSet(hdr.iuse_hash))
    BY <1>7, <1>8, <1>10, WordsHashed
  <2>3. hdr.use_required_use => v.required_use \in Seq(ToSet(hdr.iuse_hash))
    BY <1>1, <1>8, <1>10, WordsHashed
  <2>4. ASSUME hdr.use_depend, NEW n \in {"depend", "rdepend", "pdepend", "bdepend", "idepend"}
        PROVE  v[n] \in Seq(ToSet(hdr.depend_hash))
    <3>1. v[n] \in Seq(ByteString) /\ ToSet(v[n]) \subseteq D
      BY <1>1, <1>9, <2>4
    <3> DEFINE words == v[n]
    <3> HIDE DEF words
    <3>2. words \in Seq(ToSet(hdr.depend_hash))
      BY <3>1, <1>10, WordsHashed DEF words
    <3>3. QED
      BY <3>2 DEF words
  <2>5. QED
    BY <2>1, <2>2, <2>3, <2>4 DEF VersionHashed
<1>13. \A p \in PS : p.licenses \in ToSet(hdr.license_hash)
  BY <1>10 DEF L
<1>14. QED
  BY <1>1, <1>11, <1>12, <1>13 DEF hdr, VS, PS

-------------------------------------------------------------------------------
(* The kinds of fields *)

(* The reader of each kind of field. *)
LEMMA FieldKinds ==
  ASSUME NEW f, NEW p
  PROVE  /\ ReadField(<<"num">>, f, p) = read_num(f, p)
         /\ ReadField(<<"char">>, f, p) = readUChar(f, p)
         /\ ReadField(<<"string">>, f, p) = read_string(f, p)
         /\ ReadField(<<"skip">>, f, p) = skip_string(f, p)
         /\ ReadField(<<"parts">>, f, p) = ReadMany([q \in Nat |-> read_Part(f, q)], f, p)
         /\ \A h : ReadField(<<"hash string", h>>, f, p) = read_hash_string(h, f, p)
         /\ \A h : ReadField(<<"hash words", h>>, f, p) = read_hash_words(h, f, p)
         /\ ReadField(<<"skip words">>, f, p) = skip_hash_words(f, p)
         /\ ReadField(<<"hash">>, f, p) = read_hash(f, p)
         /\ ReadField(<<"overlays">>, f, p) = ReadMany([q \in Nat |-> read_overlay(f, q)], f, p)
<1>1. ReadField(<<"num">>, f, p) = read_num(f, p)
  BY DEF ReadField
<1>2. ReadField(<<"char">>, f, p) = readUChar(f, p)
  BY DEF ReadField
<1>3. ReadField(<<"string">>, f, p) = read_string(f, p)
  BY DEF ReadField
<1>4. ReadField(<<"skip">>, f, p) = skip_string(f, p)
  BY DEF ReadField
<1>5. ReadField(<<"parts">>, f, p) = ReadMany([q \in Nat |-> read_Part(f, q)], f, p)
  BY DEF ReadField
<1>6. \A h : ReadField(<<"hash string", h>>, f, p) = read_hash_string(h, f, p)
  BY DEF ReadField
<1>7. \A h : ReadField(<<"hash words", h>>, f, p) = read_hash_words(h, f, p)
  BY DEF ReadField
<1>8. ReadField(<<"skip words">>, f, p) = skip_hash_words(f, p)
  BY DEF ReadField
<1>9. ReadField(<<"hash">>, f, p) = read_hash(f, p)
  BY DEF ReadField
<1>10. ReadField(<<"overlays">>, f, p) = ReadMany([q \in Nat |-> read_overlay(f, q)], f, p)
  BY DEF ReadField
<1>11. QED
  BY <1>1, <1>2, <1>3, <1>4, <1>5, <1>6, <1>7, <1>8, <1>9, <1>10

(* A field is read as written when its reader decodes what was written, and what it decodes is wanted
   only if it is the record's. *)
LEMMA FieldFrom ==
  ASSUME NEW f, NEW n, NEW how, NEW w \in Seq(Byte), NEW v, NEW rec, NEW K, n \in K => v = rec[n],
         \A p \in Nat : Occurs(w, f, p) => Reads(ReadField(how, f, p), f, p + Len(w), v)
  PROVE  FieldReads(<<n, how>>, f, w, rec, K)
<1> DEFINE field == <<n, how>>
<1>1. field[1] = n /\ field[2] = how
  OBVIOUS
<1> HIDE DEF field
<1>2. \A p \in Nat : FieldReader(field, f)[p] = ReadField(how, f, p)
  BY <1>1 DEF FieldReader
<1>3. Decodes(FieldReader(field, f), f, w, v)
  BY <1>2 DEF Decodes
<1>4. FieldReads(field, f, w, rec, K)
  BY <1>1, <1>3 DEF FieldReads
<1>5. QED
  BY <1>4 DEF field

(* A field that is a number. *)
LEMMA NumField ==
  ASSUME NEW f \in Seq(Byte), NEW n \in FieldName, NEW t \in Nat, NEW rec, NEW K, n \in K => rec[n] = t
  PROVE  /\ <<n, <<"num">>>> \in Field
         /\ FieldReads(<<n, <<"num">>>>, f, write_num(t), rec, K)
<1>1. <<n, <<"num">>>> \in Field
  BY DEF Field, How
<1>2. write_num(t) \in Seq(Byte)
  BY NumberBytes
<1>3. ASSUME NEW p \in Nat, Occurs(write_num(t), f, p)
      PROVE  Reads(ReadField(<<"num">>, f, p), f, p + Len(write_num(t)), t)
  <2>1. Reads(read_num(f, p), f, p + Len(write_num(t)), t)
    BY <1>3, ReadNumReads
  <2>2. QED
    BY <2>1, FieldKinds
<1>4. n \in K => t = rec[n]
  OBVIOUS
<1> DEFINE w == write_num(t)
           how == <<"num">>
           v == t
<1>5. w \in Seq(Byte) /\ \A p \in Nat : Occurs(w, f, p) => Reads(ReadField(how, f, p), f, p + Len(w), v)
  BY <1>2, <1>3
<1>6. n \in K => v = rec[n]
  BY <1>4
<1> HIDE DEF w, how, v
<1>7. FieldReads(<<n, how>>, f, w, rec, K)
  BY <1>5, <1>6, FieldFrom
<1>8. QED
  BY <1>1, <1>7 DEF w, how

(* A field that is a byte. *)
LEMMA CharField ==
  ASSUME NEW f \in Seq(Byte), NEW n \in FieldName, NEW c \in Byte, NEW rec, NEW K, n \in K => rec[n] = c
  PROVE  /\ <<n, <<"char">>>> \in Field
         /\ FieldReads(<<n, <<"char">>>>, f, <<c>>, rec, K)
<1>1. <<n, <<"char">>>> \in Field
  BY DEF Field, How
<1>2. <<c>> \in Seq(Byte)
  BY TwoElements
<1>3. ASSUME NEW p \in Nat, Occurs(<<c>>, f, p)
      PROVE  Reads(ReadField(<<"char">>, f, p), f, p + Len(<<c>>), c)
  <2>1. Reads(readUChar(f, p), f, p + Len(<<c>>), c)
    BY <1>3, CharReads
  <2>2. QED
    BY <2>1, FieldKinds
<1>4. n \in K => c = rec[n]
  OBVIOUS
<1> DEFINE w == <<c>>
           how == <<"char">>
           v == c
<1>5. w \in Seq(Byte) /\ \A p \in Nat : Occurs(w, f, p) => Reads(ReadField(how, f, p), f, p + Len(w), v)
  BY <1>2, <1>3
<1>6. n \in K => v = rec[n]
  BY <1>4
<1> HIDE DEF w, how, v
<1>7. FieldReads(<<n, how>>, f, w, rec, K)
  BY <1>5, <1>6, FieldFrom
<1>8. QED
  BY <1>1, <1>7 DEF w, how

(* A field that is a string. *)
LEMMA StringField ==
  ASSUME NEW f \in Seq(Byte), NEW n \in FieldName, NEW s \in ByteString, NEW rec, NEW K, n \in K => rec[n] = s
  PROVE  /\ <<n, <<"string">>>> \in Field
         /\ FieldReads(<<n, <<"string">>>>, f, Bytes(write_string(s)), rec, K)
<1>1. <<n, <<"string">>>> \in Field
  BY DEF Field, How
<1>2. Bytes(write_string(s)) \in Seq(Byte)
  BY StringBytes, BytesType
<1>3. ASSUME NEW p \in Nat, Occurs(Bytes(write_string(s)), f, p)
      PROVE  Reads(ReadField(<<"string">>, f, p), f, p + Len(Bytes(write_string(s))), s)
  <2>1. Reads(read_string(f, p), f, p + Len(Bytes(write_string(s))), s)
    BY <1>3, StringReads
  <2>2. QED
    BY <2>1, FieldKinds
<1>4. n \in K => s = rec[n]
  OBVIOUS
<1> DEFINE w == Bytes(write_string(s))
           how == <<"string">>
           v == s
<1>5. w \in Seq(Byte) /\ \A p \in Nat : Occurs(w, f, p) => Reads(ReadField(how, f, p), f, p + Len(w), v)
  BY <1>2, <1>3
<1>6. n \in K => v = rec[n]
  BY <1>4
<1> HIDE DEF w, how, v
<1>7. FieldReads(<<n, how>>, f, w, rec, K)
  BY <1>5, <1>6, FieldFrom
<1>8. QED
  BY <1>1, <1>7 DEF w, how

(* A string that is skipped is passed over and not wanted. *)
LEMMA SkippedField ==
  ASSUME NEW f \in Seq(Byte), NEW n \in FieldName, NEW s \in Seq(Byte), NEW rec, NEW K, n \notin K
  PROVE  /\ <<n, <<"skip">>>> \in Field
         /\ FieldReads(<<n, <<"skip">>>>, f, write_num(Len(s)) \o s, rec, K)
<1>1. <<n, <<"skip">>>> \in Field
  BY DEF Field, How
<1>2. write_num(Len(s)) \o s \in Seq(Byte)
  BY NumberBytes, ConcatProperties
<1>3. ASSUME NEW p \in Nat, Occurs(write_num(Len(s)) \o s, f, p)
      PROVE  Reads(ReadField(<<"skip">>, f, p), f, p + Len(write_num(Len(s)) \o s), <<>>)
  <2>1. Reads(skip_string(f, p), f, p + Len(write_num(Len(s)) \o s), <<>>)
    BY <1>3, SkipReads
  <2>2. QED
    BY <2>1, FieldKinds
<1>4. n \in K => <<>> = rec[n]
  OBVIOUS
<1> DEFINE w == write_num(Len(s)) \o s
           how == <<"skip">>
           v == <<>>
<1>5. w \in Seq(Byte) /\ \A p \in Nat : Occurs(w, f, p) => Reads(ReadField(how, f, p), f, p + Len(w), v)
  BY <1>2, <1>3
<1>6. n \in K => v = rec[n]
  BY <1>4
<1> HIDE DEF w, how, v
<1>7. FieldReads(<<n, how>>, f, w, rec, K)
  BY <1>5, <1>6, FieldFrom
<1>8. QED
  BY <1>1, <1>7 DEF w, how

(* The field of the parts of a version. *)
LEMMA PartsField ==
  ASSUME NEW f \in Seq(Byte), NEW n \in FieldName, NEW parts \in Seq(Part), NEW rec, NEW K, n \in K => rec[n] = parts
  PROVE  /\ <<n, <<"parts">>>> \in Field
         /\ FieldReads(<<n, <<"parts">>>>, f, Bytes(List(PartItems(parts))), rec, K)
<1>1. <<n, <<"parts">>>> \in Field
  BY DEF Field, How
<1>2. Bytes(List(PartItems(parts))) \in Seq(Byte)
  BY PartsBytes, ListBytes, BytesType
<1>3. ASSUME NEW p \in Nat, Occurs(Bytes(List(PartItems(parts))), f, p)
      PROVE  Reads(ReadField(<<"parts">>, f, p), f, p + Len(Bytes(List(PartItems(parts)))), parts)
  <2>1. Reads(ReadMany([q \in Nat |-> read_Part(f, q)], f, p), f, p + Len(Bytes(List(PartItems(parts)))), parts)
    BY <1>3, PartsRead
  <2>2. QED
    BY <2>1, FieldKinds
<1>4. n \in K => parts = rec[n]
  OBVIOUS
<1> DEFINE w == Bytes(List(PartItems(parts)))
           how == <<"parts">>
           v == parts
<1>5. w \in Seq(Byte) /\ \A p \in Nat : Occurs(w, f, p) => Reads(ReadField(how, f, p), f, p + Len(w), v)
  BY <1>2, <1>3
<1>6. n \in K => v = rec[n]
  BY <1>4
<1> HIDE DEF w, how, v
<1>7. FieldReads(<<n, how>>, f, w, rec, K)
  BY <1>5, <1>6, FieldFrom
<1>8. QED
  BY <1>1, <1>7 DEF w, how

(* A field that is a hashed word. *)
LEMMA HashStringField ==
  ASSUME NEW f \in Seq(Byte), NEW n \in FieldName, NEW hash \in Seq(ByteString), NEW s \in ToSet(hash), NEW rec, NEW K, n \in K => rec[n] = s
  PROVE  /\ <<n, <<"hash string", hash>>>> \in Field
         /\ FieldReads(<<n, <<"hash string", hash>>>>, f, Bytes(write_hash_string(hash, s)), rec, K)
<1>1. <<n, <<"hash string", hash>>>> \in Field
  BY DEF Field, How
<1>2. Bytes(write_hash_string(hash, s)) \in Seq(Byte)
  BY HashStringBytes, BytesType
<1>3. ASSUME NEW p \in Nat, Occurs(Bytes(write_hash_string(hash, s)), f, p)
      PROVE  Reads(ReadField(<<"hash string", hash>>, f, p), f, p + Len(Bytes(write_hash_string(hash, s))), s)
  <2>1. Reads(read_hash_string(hash, f, p), f, p + Len(Bytes(write_hash_string(hash, s))), s)
    BY <1>3, HashStringReads
  <2>2. QED
    BY <2>1, FieldKinds
<1>4. n \in K => s = rec[n]
  OBVIOUS
<1> DEFINE w == Bytes(write_hash_string(hash, s))
           how == <<"hash string", hash>>
           v == s
<1>5. w \in Seq(Byte) /\ \A p \in Nat : Occurs(w, f, p) => Reads(ReadField(how, f, p), f, p + Len(w), v)
  BY <1>2, <1>3
<1>6. n \in K => v = rec[n]
  BY <1>4
<1> HIDE DEF w, how, v
<1>7. FieldReads(<<n, how>>, f, w, rec, K)
  BY <1>5, <1>6, FieldFrom
<1>8. QED
  BY <1>1, <1>7 DEF w, how

(* A field that is a list of hashed words. *)
LEMMA HashWordsField ==
  ASSUME NEW f \in Seq(Byte), NEW n \in FieldName, NEW hash \in Seq(ByteString), NEW words \in Seq(ToSet(hash)), NEW rec, NEW K, n \in K => rec[n] = words
  PROVE  /\ <<n, <<"hash words", hash>>>> \in Field
         /\ FieldReads(<<n, <<"hash words", hash>>>>, f, Bytes(write_hash_words(hash, words)), rec, K)
<1>1. <<n, <<"hash words", hash>>>> \in Field
  BY DEF Field, How
<1>2. Bytes(write_hash_words(hash, words)) \in Seq(Byte)
  BY WordsBytes, ListBytes, BytesType
<1>3. ASSUME NEW p \in Nat, Occurs(Bytes(write_hash_words(hash, words)), f, p)
      PROVE  Reads(ReadField(<<"hash words", hash>>, f, p), f, p + Len(Bytes(write_hash_words(hash, words))), words)
  <2>1. Reads(read_hash_words(hash, f, p), f, p + Len(Bytes(write_hash_words(hash, words))), words)
    BY <1>3, WordsRead
  <2>2. QED
    BY <2>1, FieldKinds
<1>4. n \in K => words = rec[n]
  OBVIOUS
<1> DEFINE w == Bytes(write_hash_words(hash, words))
           how == <<"hash words", hash>>
           v == words
<1>5. w \in Seq(Byte) /\ \A p \in Nat : Occurs(w, f, p) => Reads(ReadField(how, f, p), f, p + Len(w), v)
  BY <1>2, <1>3
<1>6. n \in K => v = rec[n]
  BY <1>4
<1> HIDE DEF w, how, v
<1>7. FieldReads(<<n, how>>, f, w, rec, K)
  BY <1>5, <1>6, FieldFrom
<1>8. QED
  BY <1>1, <1>7 DEF w, how

(* A list of hashed words that is skipped is passed over and not wanted. *)
LEMMA SkippedWordsField ==
  ASSUME NEW f \in Seq(Byte), NEW n \in FieldName, NEW hash \in Seq(ByteString), NEW words \in Seq(ToSet(hash)), NEW rec, NEW K, n \notin K
  PROVE  /\ <<n, <<"skip words">>>> \in Field
         /\ FieldReads(<<n, <<"skip words">>>>, f, Bytes(write_hash_words(hash, words)), rec, K)
<1>1. <<n, <<"skip words">>>> \in Field
  BY DEF Field, How
<1>2. Bytes(write_hash_words(hash, words)) \in Seq(Byte)
  BY WordsBytes, ListBytes, BytesType
<1>3. ASSUME NEW p \in Nat, Occurs(Bytes(write_hash_words(hash, words)), f, p)
      PROVE  Reads(ReadField(<<"skip words">>, f, p), f, p + Len(Bytes(write_hash_words(hash, words))), <<>>)
  <2>1. Reads(skip_hash_words(f, p), f, p + Len(Bytes(write_hash_words(hash, words))), <<>>)
    BY <1>3, WordsSkipped
  <2>2. QED
    BY <2>1, FieldKinds
<1>4. n \in K => <<>> = rec[n]
  OBVIOUS
<1> DEFINE w == Bytes(write_hash_words(hash, words))
           how == <<"skip words">>
           v == <<>>
<1>5. w \in Seq(Byte) /\ \A p \in Nat : Occurs(w, f, p) => Reads(ReadField(how, f, p), f, p + Len(w), v)
  BY <1>2, <1>3
<1>6. n \in K => v = rec[n]
  BY <1>4
<1> HIDE DEF w, how, v
<1>7. FieldReads(<<n, how>>, f, w, rec, K)
  BY <1>5, <1>6, FieldFrom
<1>8. QED
  BY <1>1, <1>7 DEF w, how

(* A hash is written as items. *)
LEMMA HashBytes ==
  ASSUME NEW hash \in Seq(ByteString)
  PROVE  write_hash(hash) \in Seq(Item)
<1> DEFINE iss == [i \in 1..Len(hash) |-> write_string(hash[i])]
<1>0. Len(hash) \in Nat /\ DOMAIN hash = 1..Len(hash)
  OBVIOUS
<1>1. \A i \in 1..Len(hash) : write_string(hash[i]) \in Seq(Item)
  BY StringBytes
<1>2. iss \in Seq(Seq(Item)) /\ Len(iss) = Len(hash)
  BY <1>0, <1>1
<1>3. write_hash(hash) = List(iss)
  BY <1>0, <1>2 DEF write_hash, WriteAll, List
<1> HIDE DEF iss
<1>4. QED
  BY <1>2, <1>3, ListBytes

(* A field that is a hash. *)
LEMMA HashField ==
  ASSUME NEW f \in Seq(Byte), NEW n \in FieldName, NEW hash \in Seq(ByteString), NEW rec, NEW K, n \in K => rec[n] = hash
  PROVE  /\ <<n, <<"hash">>>> \in Field
         /\ FieldReads(<<n, <<"hash">>>>, f, Bytes(write_hash(hash)), rec, K)
<1>1. <<n, <<"hash">>>> \in Field
  BY DEF Field, How
<1>2. Bytes(write_hash(hash)) \in Seq(Byte)
  BY HashBytes, BytesType
<1>3. ASSUME NEW p \in Nat, Occurs(Bytes(write_hash(hash)), f, p)
      PROVE  Reads(ReadField(<<"hash">>, f, p), f, p + Len(Bytes(write_hash(hash))), hash)
  <2>1. Reads(read_hash(f, p), f, p + Len(Bytes(write_hash(hash))), hash)
    BY <1>3, HashReads
  <2>2. QED
    BY <2>1, FieldKinds
<1>4. n \in K => hash = rec[n]
  OBVIOUS
<1> DEFINE w == Bytes(write_hash(hash))
           how == <<"hash">>
           v == hash
<1>5. w \in Seq(Byte) /\ \A p \in Nat : Occurs(w, f, p) => Reads(ReadField(how, f, p), f, p + Len(w), v)
  BY <1>2, <1>3
<1>6. n \in K => v = rec[n]
  BY <1>4
<1> HIDE DEF w, how, v
<1>7. FieldReads(<<n, how>>, f, w, rec, K)
  BY <1>5, <1>6, FieldFrom
<1>8. QED
  BY <1>1, <1>7 DEF w, how

(* The field of the overlays. *)
LEMMA OverlaysField ==
  ASSUME NEW f \in Seq(Byte), NEW n \in FieldName, NEW os \in Seq(OverlayIdent), NEW rec, NEW K, n \in K => rec[n] = os
  PROVE  /\ <<n, <<"overlays">>>> \in Field
         /\ FieldReads(<<n, <<"overlays">>>>, f, Bytes(List(OverlayItems(os))), rec, K)
<1>1. <<n, <<"overlays">>>> \in Field
  BY DEF Field, How
<1>2. Bytes(List(OverlayItems(os))) \in Seq(Byte)
  BY OverlaysBytes, ListBytes, BytesType
<1>3. ASSUME NEW p \in Nat, Occurs(Bytes(List(OverlayItems(os))), f, p)
      PROVE  Reads(ReadField(<<"overlays">>, f, p), f, p + Len(Bytes(List(OverlayItems(os)))), os)
  <2>1. Reads(ReadMany([q \in Nat |-> read_overlay(f, q)], f, p), f, p + Len(Bytes(List(OverlayItems(os)))), os)
    BY <1>3, OverlaysRead
  <2>2. QED
    BY <2>1, FieldKinds
<1>4. n \in K => os = rec[n]
  OBVIOUS
<1> DEFINE w == Bytes(List(OverlayItems(os)))
           how == <<"overlays">>
           v == os
<1>5. w \in Seq(Byte) /\ \A p \in Nat : Occurs(w, f, p) => Reads(ReadField(how, f, p), f, p + Len(w), v)
  BY <1>2, <1>3
<1>6. n \in K => v = rec[n]
  BY <1>4
<1> HIDE DEF w, how, v
<1>7. FieldReads(<<n, how>>, f, w, rec, K)
  BY <1>5, <1>6, FieldFrom
<1>8. QED
  BY <1>1, <1>7 DEF w, how

-------------------------------------------------------------------------------
(* Versions *)

(* The items are read as these fields. *)
FieldsWritten(fields, f, items, rec, K) ==
  items \in Seq(Item) /\ \E ws : FieldsRead(fields, f, ws, rec, K) /\ Bytes(items) = FlattenSeq(ws)

(* The types of what FieldsRead speaks of. *)
LEMMA FieldsWrittenType ==
  ASSUME NEW fields, NEW f, NEW ws, NEW rec, NEW K, FieldsRead(fields, f, ws, rec, K)
  PROVE  ws \in Seq(Seq(Byte)) /\ fields \in Seq(Field)
BY DEF FieldsRead

(* Items written for fields, followed by items written for more fields. *)
LEMMA WrittenConcat ==
  ASSUME NEW f, NEW rec, NEW K, NEW us, NEW a, NEW vs, NEW b,
         FieldsWritten(us, f, a, rec, K), FieldsWritten(vs, f, b, rec, K)
  PROVE  FieldsWritten(us \o vs, f, a \o b, rec, K)
<1>1. PICK x : FieldsRead(us, f, x, rec, K) /\ Bytes(a) = FlattenSeq(x)
  BY DEF FieldsWritten
<1>2. PICK y : FieldsRead(vs, f, y, rec, K) /\ Bytes(b) = FlattenSeq(y)
  BY DEF FieldsWritten
<1>3. a \in Seq(Item) /\ b \in Seq(Item)
  BY DEF FieldsWritten
<1>4. FieldsRead(us \o vs, f, x \o y, rec, K)
  BY <1>1, <1>2, FieldsConcat
<1>5. x \in Seq(Seq(Byte)) /\ y \in Seq(Seq(Byte))
  BY <1>1, <1>2, FieldsWrittenType
<1>6. FlattenSeq(x \o y) = FlattenSeq(x) \o FlattenSeq(y)
  BY <1>5, FlattenConcat
<1>7. Bytes(a \o b) = Bytes(a) \o Bytes(b)
  BY <1>3, BytesConcat
<1>8. a \o b \in Seq(Item)
  BY <1>3
<1>9. Bytes(a \o b) = FlattenSeq(x \o y)
  BY <1>1, <1>2, <1>6, <1>7
<1> DEFINE c == us \o vs
           d == a \o b
           z == x \o y
<1>10. FieldsRead(c, f, z, rec, K) /\ d \in Seq(Item) /\ Bytes(d) = FlattenSeq(z)
  BY <1>4, <1>8, <1>9
<1> HIDE DEF c, d, z
<1>11. FieldsWritten(c, f, d, rec, K)
  BY <1>10 DEF FieldsWritten
<1>12. QED
  BY <1>11 DEF c, d

(* No items are written for no fields. *)
LEMMA WrittenNone ==
  ASSUME NEW f, NEW rec, NEW K
  PROVE  FieldsWritten(<<>>, f, <<>>, rec, K)
<1> DEFINE e == <<>>
<1>1. FieldsRead(e, f, e, rec, K) /\ e \in Seq(Item) /\ Bytes(e) = FlattenSeq(e)
  BY FieldsNone, BytesEmpty, FlattenEmpty
<1> HIDE DEF e
<1>2. FieldsWritten(e, f, e, rec, K)
  BY <1>1 DEF FieldsWritten
<1>3. QED
  BY <1>2 DEF e

(* The items of one field. *)
LEMMA WrittenOne ==
  ASSUME NEW f, NEW rec, NEW K, NEW field \in Field, NEW items \in Seq(Item),
         FieldReads(field, f, Bytes(items), rec, K)
  PROVE  FieldsWritten(<<field>>, f, items, rec, K)
<1> DEFINE w == Bytes(items)
<1>1. w \in Seq(Byte)
  BY BytesType
<1>2. FieldsRead(<<field>>, f, <<w>>, rec, K)
  BY FieldsOne
<1> HIDE DEF w
<1>3. FlattenSeq(<<w>>) = w
  BY <1>1, FlattenOne
<1>4. QED
  BY <1>2, <1>3 DEF FieldsWritten, w

(* Fields that are written one by one. *)
ItemsOf(fields, f, iss, rec, K) ==
  /\ fields \in Seq(Field) /\ iss \in Seq(Seq(Item)) /\ Len(iss) = Len(fields)
  /\ \A i \in 1..Len(fields) : FieldReads(fields[i], f, Bytes(iss[i]), rec, K)

(* Fields with the items of each are fields read as written. *)
LEMMA ItemsRead ==
  ASSUME NEW fields, NEW f, NEW iss, NEW rec, NEW K, ItemsOf(fields, f, iss, rec, K)
  PROVE  FieldsRead(fields, f, EachBytes(iss), rec, K)
<1>1. /\ fields \in Seq(Field) /\ iss \in Seq(Seq(Item)) /\ Len(iss) = Len(fields)
      /\ \A i \in 1..Len(fields) : FieldReads(fields[i], f, Bytes(iss[i]), rec, K)
  BY DEF ItemsOf
<1> DEFINE ws == EachBytes(iss)
<1>2. ws \in Seq(Seq(Byte)) /\ Len(ws) = Len(iss)
  BY <1>1, EachBytesType
<1>3. DOMAIN iss = 1..Len(iss)
  BY <1>1
<1>4. \A i \in 1..Len(iss) : ws[i] = Bytes(iss[i])
  BY <1>3 DEF EachBytes
<1> HIDE DEF ws
<1>5. FieldsRead(fields, f, ws, rec, K)
  BY <1>1, <1>2, <1>4 DEF FieldsRead
<1>6. QED
  BY <1>5 DEF ws

(* Fields with the items of each are fields written one after the other. *)
LEMMA ItemsWritten ==
  ASSUME NEW fields, NEW f, NEW iss, NEW rec, NEW K, ItemsOf(fields, f, iss, rec, K)
  PROVE  FieldsWritten(fields, f, FlattenSeq(iss), rec, K)
<1>1. FieldsRead(fields, f, EachBytes(iss), rec, K)
  BY ItemsRead
<1>2. iss \in Seq(Seq(Item))
  BY DEF ItemsOf
<1>3. FlattenSeq(iss) \in Seq(Item) /\ Bytes(FlattenSeq(iss)) = FlattenSeq(EachBytes(iss))
  BY <1>2, FlattenType, BytesFlatten
<1>4. QED
  BY <1>1, <1>3 DEF FieldsWritten

(* Items written for fields are read as a record whose wanted fields hold what was written. *)
LEMMA WrittenRecord ==
  ASSUME NEW f \in Seq(Byte), NEW fields, NEW items, NEW rec, NEW K,
         FieldsWritten(fields, f, items, rec, K)
  PROVE  \E r : /\ Decodes(RecordReader(fields, f), f, Bytes(items), r)
                /\ DOMAIN r = Names(fields) /\ DOMAIN r \subseteq FieldName
                /\ \A n \in DOMAIN r : n \in K => r[n] = rec[n]
<1>1. PICK ws : FieldsRead(fields, f, ws, rec, K) /\ Bytes(items) = FlattenSeq(ws)
  BY DEF FieldsWritten
<1>2. PICK r : /\ Decodes(RecordReader(fields, f), f, FlattenSeq(ws), r)
               /\ DOMAIN r = Names(fields)
               /\ \A n \in DOMAIN r : n \in K => r[n] = rec[n]
  BY <1>1, RecordReads
<1>3. fields \in Seq(Field)
  BY <1>1, FieldsWrittenType
<1>4. Names(fields) \subseteq FieldName
  BY <1>3 DEF Names, Field
<1>5. QED
  BY <1>1, <1>2, <1>4

(* The header that was read, as far as somebody needs it. *)
SameHeader(h, hdr, use) ==
  /\ h.use_depend = hdr.use_depend /\ h.use_required_use = hdr.use_required_use
  /\ h.use_src_uri = hdr.use_src_uri
  /\ h.eapi_hash = hdr.eapi_hash /\ h.license_hash = hdr.license_hash
  /\ h.keywords_hash = hdr.keywords_hash /\ h.iuse_hash = hdr.iuse_hash
  /\ h.slot_hash = hdr.slot_hash
  /\ hdr.use_depend /\ use.depend => h.depend_hash = hdr.depend_hash

(* The names of the fields that have the values that were written. *)
Wanted(use) ==
  {n \in FieldName : /\ n = "required_use" => use.required_use
                     /\ n = "src_uri" => use.src_uri
                     /\ n # "dependencies"}

FixedItems(v, hdr) ==
  <<write_hash_string(hdr.eapi_hash, v.eapi), <<Char(v.maskflags)>>,
    <<Char(v.propertiesFlags)>>, <<Num(v.restrictFlags)>>,
    write_hash_words(hdr.keywords_hash, v.keywords), write_parts(v.parts),
    write_hash_string(hdr.slot_hash, v.slot), <<Num(v.overlay_key)>>,
    write_hash_words(hdr.iuse_hash, v.iuse)>>

FixedFields(h) ==
  << <<"eapi", <<"hash string", h.eapi_hash>> >>, <<"maskflags", <<"num">> >>,
     <<"propertiesFlags", <<"char">> >>, <<"restrictFlags", <<"num">> >>,
     <<"keywords", <<"hash words", h.keywords_hash>> >>, <<"parts", <<"parts">> >>,
     <<"slot", <<"hash string", h.slot_hash>> >>, <<"overlay_key", <<"num">> >>,
     <<"iuse", <<"hash words", h.iuse_hash>> >> >>

(* A small number is its character. *)
LEMMA CharIsNum ==
  ASSUME NEW c \in 0..(MAGICNUMCHAR - 1)
  PROVE  c \in Nat /\ c \in Byte /\ write_num(c) = <<c>>
<1>1. c \in Nat /\ c \in Byte /\ c < Base /\ c # MAGICNUMCHAR
  BY ByteBounds DEF Byte
<1>2. QED
  BY <1>1 DEF write_num

(* A single number or byte as items. *)
LEMMA OneItem ==
  /\ \A t \in Nat : <<Num(t)>> \in Seq(Item) /\ Bytes(<<Num(t)>>) = write_num(t)
  /\ \A c \in Byte : <<Char(c)>> \in Seq(Item) /\ Bytes(<<Char(c)>>) = <<c>>
<1>1. ASSUME NEW t \in Nat  PROVE <<Num(t)>> \in Seq(Item) /\ Bytes(<<Num(t)>>) = write_num(t)
  <2> DEFINE i == Num(t)
  <2>1. i \in Item /\ put(i) = write_num(t)
    BY ItemBytes
  <2> HIDE DEF i
  <2>2. QED
    BY <2>1, BytesOne DEF i
<1>2. ASSUME NEW c \in Byte  PROVE <<Char(c)>> \in Seq(Item) /\ Bytes(<<Char(c)>>) = <<c>>
  <2> DEFINE i == Char(c)
  <2>1. i \in Item /\ put(i) = <<c>>
    BY ItemBytes
  <2> HIDE DEF i
  <2>2. <<i>> \in Seq(Item) /\ Bytes(<<i>>) = put(i)
    BY <2>1, BytesOne
  <2>3. QED
    BY <2>1, <2>2 DEF i
<1>3. QED
  BY <1>1, <1>2

(* The fields every version has are read as written. *)
LEMMA FixedOf ==
  ASSUME NEW f \in Seq(Byte), NEW v \in Version, NEW hdr, GoodHeader(hdr), VersionHashed(v, hdr),
         NEW h, NEW use, SameHeader(h, hdr, use)
  PROVE  ItemsOf(FixedFields(h), f, FixedItems(v, hdr), v, Wanted(use))
<1> DEFINE K == Wanted(use)
           a1 == <<"eapi", <<"hash string", h.eapi_hash>> >>
           a2 == <<"maskflags", <<"num">> >>
           a3 == <<"propertiesFlags", <<"char">> >>
           a4 == <<"restrictFlags", <<"num">> >>
           a5 == <<"keywords", <<"hash words", h.keywords_hash>> >>
           a6 == <<"parts", <<"parts">> >>
           a7 == <<"slot", <<"hash string", h.slot_hash>> >>
           a8 == <<"overlay_key", <<"num">> >>
           a9 == <<"iuse", <<"hash words", h.iuse_hash>> >>
           i1 == write_hash_string(hdr.eapi_hash, v.eapi)
           i2 == <<Char(v.maskflags)>>
           i3 == <<Char(v.propertiesFlags)>>
           i4 == <<Num(v.restrictFlags)>>
           i5 == write_hash_words(hdr.keywords_hash, v.keywords)
           i6 == write_parts(v.parts)
           i7 == write_hash_string(hdr.slot_hash, v.slot)
           i8 == <<Num(v.overlay_key)>>
           i9 == write_hash_words(hdr.iuse_hash, v.iuse)
           R(a, i) == a \in Field /\ i \in Seq(Item) /\ FieldReads(a, f, Bytes(i), v, K)
<1>1. /\ v.maskflags \in 0..(MAGICNUMCHAR - 1) /\ v.propertiesFlags \in Byte
      /\ v.restrictFlags \in Nat /\ v.overlay_key \in Nat /\ v.parts \in Seq(Part)
  BY DEF Version
<1>2. /\ hdr.eapi_hash \in Seq(ByteString) /\ hdr.keywords_hash \in Seq(ByteString)
      /\ hdr.slot_hash \in Seq(ByteString) /\ hdr.iuse_hash \in Seq(ByteString)
  BY DEF GoodHeader
<1>3. /\ h.eapi_hash = hdr.eapi_hash /\ h.keywords_hash = hdr.keywords_hash
      /\ h.iuse_hash = hdr.iuse_hash /\ h.slot_hash = hdr.slot_hash
  BY DEF SameHeader
<1>4. /\ v.eapi \in ToSet(hdr.eapi_hash) /\ v.slot \in ToSet(hdr.slot_hash)
      /\ v.keywords \in Seq(ToSet(hdr.keywords_hash)) /\ v.iuse \in Seq(ToSet(hdr.iuse_hash))
  BY DEF VersionHashed
<1> HIDE DEF K
<1>5. R(a1, i1)
  <2>1. a1 \in Field /\ FieldReads(a1, f, Bytes(i1), v, K)
    <3> DEFINE n == "eapi"
               t == v.eapi
               g == hdr.eapi_hash
    <3>4. n \in FieldName
      BY DEF FieldName
    <3>5. v[n] = t
      OBVIOUS
    <3>6. g \in Seq(ByteString) /\ t \in ToSet(g)
      BY <1>2, <1>4
    <3>1. n \in FieldName /\ (n \in K => v[n] = t) /\ g \in Seq(ByteString) /\ t \in ToSet(g)
      BY <3>4, <3>5, <3>6
    <3> HIDE DEF n, t, g
    <3>2. <<n, <<"hash string", g>>>> \in Field /\ FieldReads(<<n, <<"hash string", g>>>>, f, Bytes(write_hash_string(g, t)), v, K)
      BY <3>1, HashStringField
    <3>3. QED
      BY <3>2, <1>3 DEF n, t, g
  <2>2. i1 \in Seq(Item)
    BY <1>2, <1>4, HashStringBytes
  <2>3. QED
    BY <2>1, <2>2
<1>6. R(a2, i2)
  <2> DEFINE c == v.maskflags
  <2>1. c \in Nat /\ c \in Byte /\ write_num(c) = <<c>>
    BY <1>1, CharIsNum
  <2>2. i2 \in Seq(Item) /\ Bytes(i2) = write_num(c)
    BY <2>1, OneItem
  <2>3. a2 \in Field /\ FieldReads(a2, f, write_num(c), v, K)
    <3> DEFINE n == "maskflags"
               t == c
    <3>4. n \in FieldName
      BY DEF FieldName
    <3>5. v[n] = t
      OBVIOUS
    <3>6. t \in Nat
      BY <2>1
    <3>1. n \in FieldName /\ (n \in K => v[n] = t) /\ t \in Nat
      BY <3>4, <3>5, <3>6
    <3> HIDE DEF n, t
    <3>2. <<n, <<"num">>>> \in Field /\ FieldReads(<<n, <<"num">>>>, f, write_num(t), v, K)
      BY <3>1, NumField
    <3>3. QED
      BY <3>2 DEF n, t
  <2>4. QED
    BY <2>2, <2>3
<1>7. R(a3, i3)
  <2> DEFINE c == v.propertiesFlags
  <2>1. c \in Byte
    BY <1>1
  <2>2. i3 \in Seq(Item) /\ Bytes(i3) = <<c>>
    BY <2>1, OneItem
  <2>3. a3 \in Field /\ FieldReads(a3, f, <<c>>, v, K)
    <3> DEFINE n == "propertiesFlags"
               t == c
    <3>4. n \in FieldName
      BY DEF FieldName
    <3>5. v[n] = t
      OBVIOUS
    <3>6. t \in Byte
      BY <2>1
    <3>1. n \in FieldName /\ (n \in K => v[n] = t) /\ t \in Byte
      BY <3>4, <3>5, <3>6
    <3> HIDE DEF n, t
    <3>2. <<n, <<"char">>>> \in Field /\ FieldReads(<<n, <<"char">>>>, f, <<t>>, v, K)
      BY <3>1, CharField
    <3>3. QED
      BY <3>2 DEF n, t
  <2>4. QED
    BY <2>2, <2>3
<1>8. R(a4, i4)
  <2>1. i4 \in Seq(Item) /\ Bytes(i4) = write_num(v.restrictFlags)
    BY <1>1, OneItem
  <2>2. a4 \in Field /\ FieldReads(a4, f, write_num(v.restrictFlags), v, K)
    <3> DEFINE n == "restrictFlags"
               t == v.restrictFlags
    <3>4. n \in FieldName
      BY DEF FieldName
    <3>5. v[n] = t
      OBVIOUS
    <3>6. t \in Nat
      BY <1>1
    <3>1. n \in FieldName /\ (n \in K => v[n] = t) /\ t \in Nat
      BY <3>4, <3>5, <3>6
    <3> HIDE DEF n, t
    <3>2. <<n, <<"num">>>> \in Field /\ FieldReads(<<n, <<"num">>>>, f, write_num(t), v, K)
      BY <3>1, NumField
    <3>3. QED
      BY <3>2 DEF n, t
  <2>3. QED
    BY <2>1, <2>2
<1>9. R(a5, i5)
  <2>1. a5 \in Field /\ FieldReads(a5, f, Bytes(i5), v, K)
    <3> DEFINE n == "keywords"
               t == v.keywords
               g == hdr.keywords_hash
    <3>4. n \in FieldName
      BY DEF FieldName
    <3>5. v[n] = t
      OBVIOUS
    <3>6. g \in Seq(ByteString) /\ t \in Seq(ToSet(g))
      BY <1>2, <1>4
    <3>1. n \in FieldName /\ (n \in K => v[n] = t) /\ g \in Seq(ByteString) /\ t \in Seq(ToSet(g))
      BY <3>4, <3>5, <3>6
    <3> HIDE DEF n, t, g
    <3>2. <<n, <<"hash words", g>>>> \in Field /\ FieldReads(<<n, <<"hash words", g>>>>, f, Bytes(write_hash_words(g, t)), v, K)
      BY <3>1, HashWordsField
    <3>3. QED
      BY <3>2, <1>3 DEF n, t, g
  <2>2. i5 \in Seq(Item)
    BY <1>2, <1>4, WordsBytes, ListBytes
  <2>3. QED
    BY <2>1, <2>2
<1>10. R(a6, i6)
  <2>1. i6 = List(PartItems(v.parts)) /\ i6 \in Seq(Item)
    BY <1>1, PartsBytes, ListBytes DEF write_parts
  <2>2. a6 \in Field /\ FieldReads(a6, f, Bytes(List(PartItems(v.parts))), v, K)
    <3> DEFINE n == "parts"
               t == v.parts
    <3>4. n \in FieldName
      BY DEF FieldName
    <3>5. v[n] = t
      OBVIOUS
    <3>6. t \in Seq(Part)
      BY <1>1
    <3>1. n \in FieldName /\ (n \in K => v[n] = t) /\ t \in Seq(Part)
      BY <3>4, <3>5, <3>6
    <3> HIDE DEF n, t
    <3>2. <<n, <<"parts">>>> \in Field /\ FieldReads(<<n, <<"parts">>>>, f, Bytes(List(PartItems(t))), v, K)
      BY <3>1, PartsField
    <3>3. QED
      BY <3>2 DEF n, t
  <2>3. QED
    BY <2>1, <2>2
<1>11. R(a7, i7)
  <2>1. a7 \in Field /\ FieldReads(a7, f, Bytes(i7), v, K)
    <3> DEFINE n == "slot"
               t == v.slot
               g == hdr.slot_hash
    <3>4. n \in FieldName
      BY DEF FieldName
    <3>5. v[n] = t
      OBVIOUS
    <3>6. g \in Seq(ByteString) /\ t \in ToSet(g)
      BY <1>2, <1>4
    <3>1. n \in FieldName /\ (n \in K => v[n] = t) /\ g \in Seq(ByteString) /\ t \in ToSet(g)
      BY <3>4, <3>5, <3>6
    <3> HIDE DEF n, t, g
    <3>2. <<n, <<"hash string", g>>>> \in Field /\ FieldReads(<<n, <<"hash string", g>>>>, f, Bytes(write_hash_string(g, t)), v, K)
      BY <3>1, HashStringField
    <3>3. QED
      BY <3>2, <1>3 DEF n, t, g
  <2>2. i7 \in Seq(Item)
    BY <1>2, <1>4, HashStringBytes
  <2>3. QED
    BY <2>1, <2>2
<1>12. R(a8, i8)
  <2>1. i8 \in Seq(Item) /\ Bytes(i8) = write_num(v.overlay_key)
    BY <1>1, OneItem
  <2>2. a8 \in Field /\ FieldReads(a8, f, write_num(v.overlay_key), v, K)
    <3> DEFINE n == "overlay_key"
               t == v.overlay_key
    <3>4. n \in FieldName
      BY DEF FieldName
    <3>5. v[n] = t
      OBVIOUS
    <3>6. t \in Nat
      BY <1>1
    <3>1. n \in FieldName /\ (n \in K => v[n] = t) /\ t \in Nat
      BY <3>4, <3>5, <3>6
    <3> HIDE DEF n, t
    <3>2. <<n, <<"num">>>> \in Field /\ FieldReads(<<n, <<"num">>>>, f, write_num(t), v, K)
      BY <3>1, NumField
    <3>3. QED
      BY <3>2 DEF n, t
  <2>3. QED
    BY <2>1, <2>2
<1>13. R(a9, i9)
  <2>1. a9 \in Field /\ FieldReads(a9, f, Bytes(i9), v, K)
    <3> DEFINE n == "iuse"
               t == v.iuse
               g == hdr.iuse_hash
    <3>4. n \in FieldName
      BY DEF FieldName
    <3>5. v[n] = t
      OBVIOUS
    <3>6. g \in Seq(ByteString) /\ t \in Seq(ToSet(g))
      BY <1>2, <1>4
    <3>1. n \in FieldName /\ (n \in K => v[n] = t) /\ g \in Seq(ByteString) /\ t \in Seq(ToSet(g))
      BY <3>4, <3>5, <3>6
    <3> HIDE DEF n, t, g
    <3>2. <<n, <<"hash words", g>>>> \in Field /\ FieldReads(<<n, <<"hash words", g>>>>, f, Bytes(write_hash_words(g, t)), v, K)
      BY <3>1, HashWordsField
    <3>3. QED
      BY <3>2, <1>3 DEF n, t, g
  <2>2. i9 \in Seq(Item)
    BY <1>2, <1>4, WordsBytes, ListBytes
  <2>3. QED
    BY <2>1, <2>2
<1>14. FixedFields(h) = <<a1, a2, a3, a4, a5, a6, a7, a8, a9>>
  BY DEF FixedFields
<1>15. FixedItems(v, hdr) = <<i1, i2, i3, i4, i5, i6, i7, i8, i9>>
  BY DEF FixedItems
<1> HIDE DEF a1, a2, a3, a4, a5, a6, a7, a8, a9, i1, i2, i3, i4, i5, i6, i7, i8, i9
<1> DEFINE as9 == <<a1, a2, a3, a4, a5, a6, a7, a8, a9>>
           is9 == <<i1, i2, i3, i4, i5, i6, i7, i8, i9>>
<1>16. as9 \in Seq(Field) /\ is9 \in Seq(Seq(Item)) /\ Len(as9) = 9 /\ Len(is9) = 9
  BY <1>5, <1>6, <1>7, <1>8, <1>9, <1>10, <1>11, <1>12, <1>13
<1>17. ASSUME NEW k \in 1..9  PROVE FieldReads(as9[k], f, Bytes(is9[k]), v, K)
  <2>1. k = 1 \/ k = 2 \/ k = 3 \/ k = 4 \/ k = 5 \/ k = 6 \/ k = 7 \/ k = 8 \/ k = 9
    OBVIOUS
  <2>2. QED
    BY <2>1, <1>5, <1>6, <1>7, <1>8, <1>9, <1>10, <1>11, <1>12, <1>13, SMTT(30), ZenonT(30)
<1> HIDE DEF as9, is9, R
<1>18. ItemsOf(as9, f, is9, v, K)
  BY <1>16, <1>17 DEF ItemsOf
<1>19. QED
  BY <1>14, <1>15, <1>18 DEF as9, is9, K

(* What the header and the options say of a version that is read. *)
VersionIn(f, v, hdr, h, use) ==
  /\ f \in Seq(Byte) /\ v \in Version /\ GoodHeader(hdr) /\ VersionHashed(v, hdr)
  /\ SameHeader(h, hdr, use) /\ use \in UseOptions

RequiredUseItems(v, hdr) ==
  IF hdr.use_required_use THEN write_hash_words(hdr.iuse_hash, v.required_use) ELSE <<>>

DependItems(v, hdr) ==
  IF hdr.use_depend THEN WRITE_COUNTER(write_depend(v, hdr)) ELSE <<>>

SrcUriItems(v, hdr) == IF hdr.use_src_uri THEN write_string(v.src_uri) ELSE <<>>

(* A field a client does not ask for is not wanted; the lump of skipped dependencies never is. *)
LEMMA WantedNames ==
  ASSUME NEW use
  PROVE  /\ "required_use" \in Wanted(use) => use.required_use
         /\ "src_uri" \in Wanted(use) => use.src_uri
         /\ "dependencies" \notin Wanted(use)
<1>1. "required_use" \in Wanted(use) => use.required_use
  BY DEF Wanted
<1>2. "src_uri" \in Wanted(use) => use.src_uri
  BY DEF Wanted
<1>3. "dependencies" \notin Wanted(use)
  BY DEF Wanted
<1>4. QED
  BY <1>1, <1>2, <1>3

(* REQUIRED_USE is read, skipped or absent as it was written. *)
LEMMA RequiredUseWritten ==
  ASSUME NEW f, NEW v, NEW hdr, NEW h, NEW use, VersionIn(f, v, hdr, h, use)
  PROVE  FieldsWritten(required_use_fields(h, use), f, RequiredUseItems(v, hdr), v, Wanted(use))
<1>0. /\ f \in Seq(Byte) /\ v \in Version /\ GoodHeader(hdr) /\ VersionHashed(v, hdr)
      /\ SameHeader(h, hdr, use) /\ use \in UseOptions
  BY DEF VersionIn
<1> DEFINE K == Wanted(use)
           n == "required_use"
           g == hdr.iuse_hash
           t == v.required_use
           items == write_hash_words(g, t)
<1>1. /\ h.use_required_use = hdr.use_required_use /\ h.iuse_hash = g
      /\ hdr.use_required_use \in BOOLEAN /\ g \in Seq(ByteString)
  BY <1>0 DEF SameHeader, GoodHeader
<1>2. n \in FieldName
  BY DEF FieldName
<1>3. n \in K => use.required_use
  BY WantedNames
<1>4. hdr.use_required_use => t \in Seq(ToSet(g))
  BY <1>0 DEF VersionHashed
<1>5. v[n] = t
  OBVIOUS
<1>6. CASE ~ hdr.use_required_use
  <2>1. required_use_fields(h, use) = <<>> /\ RequiredUseItems(v, hdr) = <<>>
    BY <1>1, <1>6 DEF required_use_fields, RequiredUseItems
  <2>2. QED
    BY <2>1, WrittenNone
<1>7. CASE hdr.use_required_use /\ use.required_use
  <2> DEFINE a == <<n, <<"hash words", g>>>>
  <2>1. required_use_fields(h, use) = <<a>> /\ RequiredUseItems(v, hdr) = items
    BY <1>1, <1>7 DEF required_use_fields, RequiredUseItems
  <2>2. t \in Seq(ToSet(g)) /\ (n \in K => v[n] = t)
    BY <1>4, <1>5, <1>7
  <2>3. items \in Seq(Item)
    BY <1>1, <2>2, WordsBytes, ListBytes
  <2>4. a \in Field /\ FieldReads(a, f, Bytes(items), v, K)
    <3> HIDE DEF n, g, t, K
    <3>1. QED
      BY <1>0, <1>1, <1>2, <2>2, HashWordsField
  <2> HIDE DEF a, items, K
  <2>5. FieldsWritten(<<a>>, f, items, v, K)
    BY <2>3, <2>4, WrittenOne
  <2>6. QED
    BY <2>1, <2>5 DEF K
<1>8. CASE hdr.use_required_use /\ ~ use.required_use
  <2> DEFINE a == <<n, <<"skip words">>>>
  <2>1. required_use_fields(h, use) = <<a>> /\ RequiredUseItems(v, hdr) = items
    BY <1>1, <1>8 DEF required_use_fields, RequiredUseItems
  <2>2. t \in Seq(ToSet(g)) /\ n \notin K
    BY <1>3, <1>4, <1>8
  <2>3. items \in Seq(Item)
    BY <1>1, <2>2, WordsBytes, ListBytes
  <2>4. a \in Field /\ FieldReads(a, f, Bytes(items), v, K)
    <3> HIDE DEF n, g, t, K
    <3>1. QED
      BY <1>0, <1>1, <1>2, <2>2, SkippedWordsField
  <2> HIDE DEF a, items, K
  <2>5. FieldsWritten(<<a>>, f, items, v, K)
    BY <2>3, <2>4, WrittenOne
  <2>6. QED
    BY <2>1, <2>5 DEF K
<1>9. QED
  BY <1>6, <1>7, <1>8

(* SRC_URI is read, skipped or absent as it was written. *)
LEMMA SrcUriWritten ==
  ASSUME NEW f, NEW v, NEW hdr, NEW h, NEW use, VersionIn(f, v, hdr, h, use)
  PROVE  FieldsWritten(src_uri_fields(h, use), f, SrcUriItems(v, hdr), v, Wanted(use))
<1>0. /\ f \in Seq(Byte) /\ v \in Version /\ GoodHeader(hdr) /\ VersionHashed(v, hdr)
      /\ SameHeader(h, hdr, use) /\ use \in UseOptions
  BY DEF VersionIn
<1> DEFINE K == Wanted(use)
           n == "src_uri"
           t == v.src_uri
           items == write_string(t)
<1>1. h.use_src_uri = hdr.use_src_uri /\ hdr.use_src_uri \in BOOLEAN
  BY <1>0 DEF SameHeader, GoodHeader
<1>2. n \in FieldName
  BY DEF FieldName
<1>3. n \in K => use.src_uri
  BY WantedNames
<1>4. t \in ByteString
  BY <1>0 DEF Version
<1>5. v[n] = t
  OBVIOUS
<1>51. items \in Seq(Item) /\ Bytes(items) = write_num(Len(t)) \o t /\ t \in Seq(Byte)
  BY <1>4, StringBytes
<1>6. CASE ~ hdr.use_src_uri
  <2>1. src_uri_fields(h, use) = <<>> /\ SrcUriItems(v, hdr) = <<>>
    BY <1>1, <1>6 DEF src_uri_fields, SrcUriItems
  <2>2. QED
    BY <2>1, WrittenNone
<1>7. CASE hdr.use_src_uri /\ use.src_uri
  <2> DEFINE a == <<n, <<"string">>>>
  <2>1. src_uri_fields(h, use) = <<a>> /\ SrcUriItems(v, hdr) = items
    BY <1>1, <1>7 DEF src_uri_fields, SrcUriItems
  <2>2. n \in K => v[n] = t
    BY <1>5
  <2>4. a \in Field /\ FieldReads(a, f, Bytes(items), v, K)
    <3> HIDE DEF n, t, K
    <3>1. QED
      BY <1>0, <1>2, <1>4, <2>2, StringField
  <2> HIDE DEF a, items, K
  <2>5. FieldsWritten(<<a>>, f, items, v, K)
    BY <1>51, <2>4, WrittenOne
  <2>6. QED
    BY <2>1, <2>5 DEF K
<1>8. CASE hdr.use_src_uri /\ ~ use.src_uri
  <2> DEFINE a == <<n, <<"skip">>>>
  <2>1. src_uri_fields(h, use) = <<a>> /\ SrcUriItems(v, hdr) = items
    BY <1>1, <1>8 DEF src_uri_fields, SrcUriItems
  <2>2. n \notin K
    BY <1>3, <1>8
  <2>4. a \in Field /\ FieldReads(a, f, Bytes(items), v, K)
    <3>1. a \in Field /\ FieldReads(a, f, write_num(Len(t)) \o t, v, K)
      <4> HIDE DEF n, t, K
      <4>1. QED
        BY <1>0, <1>2, <1>51, <2>2, SkippedField
    <3>2. QED
      BY <3>1, <1>51
  <2> HIDE DEF a, items, K
  <2>5. FieldsWritten(<<a>>, f, items, v, K)
    BY <1>51, <2>4, WrittenOne
  <2>6. QED
    BY <2>1, <2>5 DEF K
<1>9. QED
  BY <1>6, <1>7, <1>8

(* A counter is a number and what it counts. *)
LEMMA CountedBytes ==
  ASSUME NEW items \in Seq(Item)
  PROVE  /\ <<Num(counter(items))>> \in Seq(Item) /\ counter(items) \in Nat
         /\ WRITE_COUNTER(items) \in Seq(Item)
         /\ Bytes(<<Num(counter(items))>>) = write_num(Len(Bytes(items)))
         /\ Bytes(WRITE_COUNTER(items)) = write_num(Len(Bytes(items))) \o Bytes(items)
         /\ Bytes(items) \in Seq(Byte)
<1> DEFINE a == <<Num(counter(items))>>
<1>1. counter(items) = Len(Bytes(items)) /\ Bytes(items) \in Seq(Byte) /\ Len(Bytes(items)) \in Nat
  BY CounterCounts, BytesType
<1>2. a \in Seq(Item) /\ Bytes(a) = write_num(Len(Bytes(items)))
  BY <1>1, OneItem
<1>3. WRITE_COUNTER(items) = a \o items
  BY DEF WRITE_COUNTER
<1> HIDE DEF a
<1>4. Bytes(a \o items) = Bytes(a) \o Bytes(items)
  BY <1>2, BytesConcat
<1>5. a \o items \in Seq(Item)
  BY <1>2
<1>6. QED
  BY <1>1, <1>2, <1>3, <1>4, <1>5 DEF a

(* The words of the dependencies, one sequence of items for each kind. *)
DependParts(v, hdr) ==
  [d \in DOMAIN DependFields |-> write_hash_words(hdr.depend_hash, v[DependFields[d]])]

DependReaders(hash) == [d \in DOMAIN DependFields |-> <<DependFields[d], <<"hash words", hash>>>>]

(* The five kinds of dependencies are read as written. *)
LEMMA DependOf ==
  ASSUME NEW f, NEW v, NEW hdr, NEW h, NEW use, VersionIn(f, v, hdr, h, use), hdr.use_depend
  PROVE  ItemsOf(DependReaders(hdr.depend_hash), f, DependParts(v, hdr), v, Wanted(use))
<1>0. /\ f \in Seq(Byte) /\ v \in Version /\ GoodHeader(hdr) /\ VersionHashed(v, hdr)
  BY DEF VersionIn
<1> DEFINE K == Wanted(use)
           g == hdr.depend_hash
           fields == DependReaders(g)
           iss == DependParts(v, hdr)
<1>1. g \in Seq(ByteString)
  BY <1>0 DEF GoodHeader
<1>2. DOMAIN DependFields = 1..5 /\ \A d \in 1..5 : DependFields[d] \in FieldName
  BY DEF DependFields, FieldName
<1>3. \A d \in 1..5 : v[DependFields[d]] \in Seq(ToSet(g))
  BY <1>0 DEF VersionHashed, DependFields
<1>4. ASSUME NEW d \in 1..5
      PROVE  /\ fields[d] \in Field /\ iss[d] \in Seq(Item)
             /\ FieldReads(fields[d], f, Bytes(iss[d]), v, K)
  <2> DEFINE n == DependFields[d]
             t == v[n]
             a == <<n, <<"hash words", g>>>>
             i == write_hash_words(g, t)
  <2>1. fields[d] = a /\ iss[d] = i
    BY <1>2 DEF DependReaders, DependParts
  <2>2. n \in FieldName /\ t \in Seq(ToSet(g)) /\ (n \in K => v[n] = t)
    BY <1>2, <1>3
  <2> HIDE DEF n, t, g, K
  <2>3. a \in Field /\ FieldReads(a, f, Bytes(i), v, K)
    BY <1>0, <1>1, <2>2, HashWordsField
  <2>4. i \in Seq(Item)
    BY <1>1, <2>2, WordsBytes, ListBytes
  <2> HIDE DEF a, i
  <2>5. QED
    BY <2>1, <2>3, <2>4
<1>5. DOMAIN fields = 1..5 /\ fields = [d \in 1..5 |-> fields[d]]
  BY <1>2 DEF DependReaders
<1>6. DOMAIN iss = 1..5 /\ iss = [d \in 1..5 |-> iss[d]]
  BY <1>2 DEF DependParts
<1> HIDE DEF fields, iss, K
<1>7. fields \in Seq(Field) /\ Len(fields) = 5
  BY <1>4, <1>5
<1>8. iss \in Seq(Seq(Item)) /\ Len(iss) = 5
  BY <1>4, <1>6
<1>9. ItemsOf(fields, f, iss, v, K)
  BY <1>4, <1>7, <1>8 DEF ItemsOf
<1>10. QED
  BY <1>9 DEF fields, iss, K

(* The dependencies are read, skipped by their length or absent as they were written. *)
LEMMA DependWritten ==
  ASSUME NEW f, NEW v, NEW hdr, NEW h, NEW use, VersionIn(f, v, hdr, h, use)
  PROVE  FieldsWritten(read_depend_fields(h, use), f, DependItems(v, hdr), v, Wanted(use))
<1>0. /\ f \in Seq(Byte) /\ v \in Version /\ GoodHeader(hdr) /\ VersionHashed(v, hdr)
      /\ SameHeader(h, hdr, use) /\ use \in UseOptions
  BY DEF VersionIn
<1> DEFINE K == Wanted(use)
           n == "dependencies"
           g == hdr.depend_hash
           iss == DependParts(v, hdr)
           items == FlattenSeq(iss)
           first == <<Num(counter(items))>>
<1>1. h.use_depend = hdr.use_depend /\ hdr.use_depend \in BOOLEAN
      /\ (hdr.use_depend /\ use.depend => h.depend_hash = g)
  BY <1>0 DEF SameHeader, GoodHeader
<1>2. n \in FieldName /\ n \notin K
  BY WantedNames DEF FieldName
<1>3. CASE ~ hdr.use_depend
  <2>1. read_depend_fields(h, use) = <<>> /\ DependItems(v, hdr) = <<>>
    BY <1>1, <1>3 DEF read_depend_fields, DependItems
  <2>2. QED
    BY <2>1, WrittenNone
<1>4. CASE hdr.use_depend
  <2>1. ItemsOf(DependReaders(g), f, iss, v, K)
    BY <1>4, DependOf
  <2>2. iss \in Seq(Seq(Item))
    BY <2>1 DEF ItemsOf
  <2>3. FieldsWritten(DependReaders(g), f, items, v, K)
    <3> HIDE DEF g, iss, K
    <3>1. QED
      BY <2>1, ItemsWritten
  <2>4. items \in Seq(Item)
    BY <2>2, FlattenType
  <2>5. DependItems(v, hdr) = WRITE_COUNTER(items)
    BY <1>4 DEF DependItems, write_depend, DependParts
  <2> HIDE DEF items, n, K, g
  <2>6. /\ first \in Seq(Item) /\ WRITE_COUNTER(items) \in Seq(Item)
        /\ Bytes(first) = write_num(Len(Bytes(items))) /\ Len(Bytes(items)) \in Nat
        /\ Bytes(WRITE_COUNTER(items)) = write_num(Len(Bytes(items))) \o Bytes(items)
        /\ Bytes(items) \in Seq(Byte)
    BY <2>4, CountedBytes, BytesType
  <2>7. WRITE_COUNTER(items) = first \o items
    BY DEF WRITE_COUNTER
  <2> HIDE DEF first
  <2>8. CASE use.depend
    <3> DEFINE a == <<n, <<"num">>>>
               t == Len(Bytes(items))
    <3>1. read_depend_fields(h, use) = <<a>> \o DependReaders(g)
      BY <1>1, <1>4, <2>8 DEF read_depend_fields, DependReaders, n
    <3>2. n \in K => v[n] = t
      BY <1>2
    <3>3. a \in Field /\ FieldReads(a, f, write_num(t), v, K)
      <4> HIDE DEF t
      <4>1. t \in Nat
        BY <2>6 DEF t
      <4>2. QED
        BY <1>0, <1>2, <3>2, <4>1, NumField
    <3>4. FieldReads(a, f, Bytes(first), v, K)
      BY <2>6, <3>3
    <3> HIDE DEF a, t
    <3>5. FieldsWritten(<<a>>, f, first, v, K)
      BY <2>6, <3>3, <3>4, WrittenOne
    <3> DEFINE aa == <<a>>
               bb == DependReaders(g)
    <3> HIDE DEF aa, bb
    <3>6. FieldsWritten(aa, f, first, v, K) /\ FieldsWritten(bb, f, items, v, K)
      BY <3>5, <2>3 DEF aa, bb
    <3>7. FieldsWritten(aa \o bb, f, first \o items, v, K)
      BY <3>6, WrittenConcat
    <3>8. QED
      BY <3>1, <3>7, <2>5, <2>7 DEF aa, bb, K
  <2>9. CASE ~ use.depend
    <3> DEFINE a == <<n, <<"skip">>>>
               s == Bytes(items)
               i == WRITE_COUNTER(items)
    <3>1. read_depend_fields(h, use) = <<a>>
      BY <1>1, <1>4, <2>9 DEF read_depend_fields, n
    <3>2. a \in Field /\ FieldReads(a, f, write_num(Len(s)) \o s, v, K)
      <4> HIDE DEF s
      <4>1. s \in Seq(Byte)
        BY <2>6 DEF s
      <4>2. QED
        BY <1>0, <1>2, <4>1, SkippedField
    <3>3. FieldReads(a, f, Bytes(i), v, K) /\ i \in Seq(Item)
      BY <2>6, <3>2
    <3> HIDE DEF a, i
    <3>4. FieldsWritten(<<a>>, f, i, v, K)
      BY <3>2, <3>3, WrittenOne
    <3>5. QED
      BY <3>1, <3>4, <2>5 DEF i, K
  <2>10. QED
    BY <2>8, <2>9
<1>5. QED
  BY <1>1, <1>3, <1>4

(* For every version and all options of the writer and of the reader: read_version takes exactly the bytes of
   write_version, and every field it is told to keep is the one written; fields that the file has not
   or the reader does not want are passed over. *)
THEOREM VersionReads ==
  ASSUME NEW f, NEW v, NEW hdr, NEW h, NEW use, VersionIn(f, v, hdr, h, use)
  PROVE  /\ write_version(v, hdr) \in Seq(Item)
         /\ \E r : /\ Decodes([q \in Nat |-> read_version(f, q, h, use)], f,
                              Bytes(write_version(v, hdr)), r)
                   /\ DOMAIN r \subseteq FieldName
                   /\ \A n \in DOMAIN r : n \in Wanted(use) => r[n] = v[n]
<1>0. /\ f \in Seq(Byte) /\ v \in Version /\ GoodHeader(hdr) /\ VersionHashed(v, hdr)
      /\ SameHeader(h, hdr, use) /\ use \in UseOptions
  BY DEF VersionIn
<1> DEFINE K == Wanted(use)
           a == FixedFields(h)
           b == required_use_fields(h, use)
           c == read_depend_fields(h, use)
           d == src_uri_fields(h, use)
           i == FlattenSeq(FixedItems(v, hdr))
           j == RequiredUseItems(v, hdr)
           k == DependItems(v, hdr)
           l == SrcUriItems(v, hdr)
<1>1. FieldsWritten(a, f, i, v, K)
  BY <1>0, FixedOf, ItemsWritten
<1>2. FieldsWritten(b, f, j, v, K)
  BY RequiredUseWritten
<1>3. FieldsWritten(c, f, k, v, K)
  BY DependWritten
<1>4. FieldsWritten(d, f, l, v, K)
  BY SrcUriWritten
<1>5. version_fields(h, use) = a \o b \o c \o d
  BY DEF version_fields, FixedFields
<1>6. write_version(v, hdr) = i \o j \o k \o l
  BY DEF write_version, FixedItems, RequiredUseItems, DependItems, SrcUriItems
<1> HIDE DEF K, a, b, c, d, i, j, k, l
<1>7. FieldsWritten(a \o b, f, i \o j, v, K)
  BY <1>1, <1>2, WrittenConcat
<1>8. FieldsWritten((a \o b) \o c, f, (i \o j) \o k, v, K)
  <2> DEFINE x == a \o b
             y == i \o j
  <2>1. FieldsWritten(x, f, y, v, K)
    BY <1>7
  <2> HIDE DEF x, y
  <2>2. FieldsWritten(x \o c, f, y \o k, v, K)
    BY <2>1, <1>3, WrittenConcat
  <2>3. QED
    BY <2>2 DEF x, y
<1>9. FieldsWritten(version_fields(h, use), f, write_version(v, hdr), v, K)
  <2> DEFINE x == (a \o b) \o c
             y == (i \o j) \o k
  <2>1. FieldsWritten(x, f, y, v, K)
    BY <1>8
  <2> HIDE DEF x, y
  <2>2. FieldsWritten(x \o d, f, y \o l, v, K)
    BY <2>1, <1>4, WrittenConcat
  <2>3. QED
    BY <2>2, <1>5, <1>6 DEF x, y
<1> DEFINE fields == version_fields(h, use)
           items == write_version(v, hdr)
<1>10. [q \in Nat |-> read_version(f, q, h, use)] = RecordReader(fields, f)
  BY DEF read_version, RecordReader
<1> HIDE DEF fields, items
<1>11. FieldsWritten(fields, f, items, v, K)
  BY <1>9 DEF fields, items
<1>12. \E r : /\ Decodes(RecordReader(fields, f), f, Bytes(items), r)
              /\ DOMAIN r = Names(fields) /\ DOMAIN r \subseteq FieldName
              /\ \A n \in DOMAIN r : n \in K => r[n] = v[n]
  BY <1>0, <1>11, WrittenRecord
<1>13. items \in Seq(Item)
  BY <1>11 DEF FieldsWritten
<1>14. QED
  BY <1>10, <1>12, <1>13 DEF items, K

-------------------------------------------------------------------------------
(* Packages *)

PackageIn(f, p, hdr, h, use) ==
  /\ f \in Seq(Byte) /\ p \in Package /\ GoodHeader(hdr) /\ SameHeader(h, hdr, use) /\ use \in UseOptions
  /\ \A i \in 1..Len(p.versions) : VersionHashed(p.versions[i], hdr)
  /\ p.licenses \in ToSet(hdr.license_hash)

(* The versions that were read are those that were written, as far as wanted. *)
SameFields(r, v, use) ==
  DOMAIN r \subseteq FieldName /\ \A n \in DOMAIN r : n \in Wanted(use) => r[n] = v[n]

SameVersions(rs, vs, use) ==
  Len(rs) = Len(vs) /\ DOMAIN rs = 1..Len(vs) /\ \A i \in 1..Len(vs) : SameFields(rs[i], vs[i], use)

VersionItems(vs, hdr) == [i \in 1..Len(vs) |-> write_version(vs[i], hdr)]

(* A version of a package of the file is a version of the file. *)
LEMMA VersionOf ==
  ASSUME NEW f, NEW p, NEW hdr, NEW h, NEW use, PackageIn(f, p, hdr, h, use), NEW i \in 1..Len(p.versions)
  PROVE  VersionIn(f, p.versions[i], hdr, h, use)
<1>1. p.versions \in Seq(Version)
  BY DEF PackageIn, Package
<1>2. p.versions[i] \in Version
  BY <1>1
<1>3. QED
  BY <1>2 DEF PackageIn, VersionIn

(* The versions of a package are written as a counted list. *)
LEMMA VersionsBytes ==
  ASSUME NEW f, NEW p, NEW hdr, NEW h, NEW use, PackageIn(f, p, hdr, h, use)
  PROVE  /\ VersionItems(p.versions, hdr) \in Seq(Seq(Item))
         /\ Len(VersionItems(p.versions, hdr)) = Len(p.versions) /\ Len(p.versions) \in Nat
         /\ write_versions(p.versions, hdr) = List(VersionItems(p.versions, hdr))
<1> DEFINE vs == p.versions
<1>1. vs \in Seq(Version)
  BY DEF PackageIn, Package
<1>2. Len(vs) \in Nat /\ DOMAIN vs = 1..Len(vs)
  BY <1>1
<1>3. \A i \in 1..Len(vs) : write_version(vs[i], hdr) \in Seq(Item)
  <2>1. ASSUME NEW i \in 1..Len(vs)  PROVE write_version(vs[i], hdr) \in Seq(Item)
    <3>1. VersionIn(f, vs[i], hdr, h, use)
      BY VersionOf
    <3> DEFINE v == vs[i]
    <3> HIDE DEF v
    <3>2. VersionIn(f, v, hdr, h, use)
      BY <3>1 DEF v
    <3>3. write_version(v, hdr) \in Seq(Item)
      BY <3>2, VersionReads
    <3>4. QED
      BY <3>3 DEF v
  <2>2. QED
    BY <2>1
<1> HIDE DEF vs
<1>4. VersionItems(vs, hdr) \in Seq(Seq(Item)) /\ Len(VersionItems(vs, hdr)) = Len(vs)
  BY <1>2, <1>3 DEF VersionItems
<1>5. write_versions(vs, hdr) = List(VersionItems(vs, hdr))
  BY <1>2, <1>4 DEF WriteAll, List, VersionItems, write_versions
<1>6. QED
  BY <1>2, <1>4, <1>5 DEF vs

(* read_versions decodes the versions that write_versions wrote. *)
LEMMA VersionsRead ==
  ASSUME NEW f, NEW p, NEW hdr, NEW h, NEW use, PackageIn(f, p, hdr, h, use)
  PROVE  /\ write_versions(p.versions, hdr) \in Seq(Item)
         /\ \E rs : /\ SameVersions(rs, p.versions, use)
                    /\ \A q \in Nat :
                         Occurs(Bytes(write_versions(p.versions, hdr)), f, q)
                           => Reads(read_versions(f, q, h, use), f,
                                    q + Len(Bytes(write_versions(p.versions, hdr))), rs)
<1> DEFINE vs == p.versions
           iss == VersionItems(vs, hdr)
           rd == [q \in Nat |-> read_version(f, q, h, use)]
           Good(i, r) == Decodes(rd, f, Bytes(iss[i]), r) /\ SameFields(r, vs[i], use)
           rs == [i \in 1..Len(vs) |-> CHOOSE r : Good(i, r)]
           V == {rs[i] : i \in 1..Len(vs)}
<1>1. /\ iss \in Seq(Seq(Item)) /\ Len(iss) = Len(vs) /\ Len(vs) \in Nat
      /\ write_versions(vs, hdr) = List(iss)
  BY VersionsBytes
<1>2. ASSUME NEW i \in 1..Len(vs)  PROVE \E r : Good(i, r)
  <2> DEFINE v == vs[i]
  <2>1. VersionIn(f, v, hdr, h, use)
    BY VersionOf
  <2>2. iss[i] = write_version(v, hdr)
    BY DEF VersionItems
  <2> HIDE DEF v, iss
  <2>3. \E r : /\ Decodes([q \in Nat |-> read_version(f, q, h, use)], f, Bytes(write_version(v, hdr)), r)
               /\ DOMAIN r \subseteq FieldName
               /\ \A n \in DOMAIN r : n \in Wanted(use) => r[n] = v[n]
    BY <2>1, VersionReads
  <2>4. PICK r : /\ Decodes(rd, f, Bytes(write_version(v, hdr)), r)
                 /\ DOMAIN r \subseteq FieldName
                 /\ \A n \in DOMAIN r : n \in Wanted(use) => r[n] = v[n]
    BY <2>3
  <2>5. SameFields(r, v, use)
    BY <2>4 DEF SameFields
  <2>6. Good(i, r)
    BY <2>2, <2>4, <2>5 DEF v
  <2>7. QED
    BY <2>6
<1>3. \A i \in 1..Len(vs) : Good(i, rs[i])
  <2> HIDE DEF Good
  <2>1. ASSUME NEW i \in 1..Len(vs)  PROVE Good(i, rs[i])
    <3>1. rs[i] = CHOOSE r : Good(i, r)
      OBVIOUS
    <3>2. Good(i, CHOOSE r : Good(i, r))
      BY <1>2
    <3>3. QED
      BY <3>1, <3>2
  <2>2. QED
    BY <2>1
<1>4. rs \in Seq(V) /\ Len(rs) = Len(vs) /\ DOMAIN rs = 1..Len(vs)
  <2> HIDE DEF Good, vs
  <2>1. QED
    BY <1>1, SMTT(30), ZenonT(30)
<1> HIDE DEF rd, rs, iss, V, vs
<1>5. ManyDecode(rd, f, iss, rs)
  BY <1>1, <1>3, <1>4 DEF ManyDecode
<1>6. SameVersions(rs, vs, use)
  BY <1>3, <1>4 DEF SameVersions
<1>7. f \in Seq(Byte)
  BY DEF PackageIn
<1>8. ASSUME NEW q \in Nat, Occurs(Bytes(List(iss)), f, q)
      PROVE  Reads(read_versions(f, q, h, use), f, q + Len(Bytes(List(iss))), rs)
  <2>1. Reads(ReadMany(rd, f, q), f, q + Len(Bytes(List(iss))), rs)
    BY <1>1, <1>4, <1>5, <1>7, <1>8, ListReads
  <2>2. read_versions(f, q, h, use) = ReadMany(rd, f, q)
    BY DEF read_versions, rd
  <2>3. QED
    BY <2>1, <2>2
<1>9. List(iss) \in Seq(Item)
  BY <1>1, ListBytes
<1>10. QED
  BY <1>1, <1>6, <1>8, <1>9 DEF vs

(* What is before the versions, field by field. *)
PureItems(p, hdr) ==
  <<write_string(p.name), write_string(p.desc), write_string(p.homepage),
    write_hash_string(hdr.license_hash, p.licenses)>>

PureFields(h) ==
  << <<"name", <<"string">> >>, <<"desc", <<"string">> >>, <<"homepage", <<"string">> >>,
     <<"licenses", <<"hash string", h.license_hash>> >> >>

(* The fields of a package other than its versions are read as written. *)
LEMMA PureOf ==
  ASSUME NEW f, NEW p, NEW hdr, NEW h, NEW use, PackageIn(f, p, hdr, h, use)
  PROVE  ItemsOf(PureFields(h), f, PureItems(p, hdr), p, FieldName)
<1> DEFINE K == FieldName
           g == hdr.license_hash
           a1 == <<"name", <<"string">> >>
           a2 == <<"desc", <<"string">> >>
           a3 == <<"homepage", <<"string">> >>
           a4 == <<"licenses", <<"hash string", g>> >>
           s1 == p.name
           s2 == p.desc
           s3 == p.homepage
           s4 == p.licenses
           i1 == write_string(s1)
           i2 == write_string(s2)
           i3 == write_string(s3)
           i4 == write_hash_string(g, s4)
           R(a, i) == a \in Field /\ i \in Seq(Item) /\ FieldReads(a, f, Bytes(i), p, K)
<1>1. f \in Seq(Byte) /\ s1 \in ByteString /\ s2 \in ByteString /\ s3 \in ByteString
  BY DEF PackageIn, Package
<1>2. g \in Seq(ByteString) /\ s4 \in ToSet(g) /\ h.license_hash = g
  BY DEF PackageIn, GoodHeader, SameHeader
<1>3. "name" \in FieldName /\ "desc" \in FieldName /\ "homepage" \in FieldName /\ "licenses" \in FieldName
  BY DEF FieldName
<1> HIDE DEF K
<1>4. R(a1, i1)
  <2> DEFINE n == "name"
  <2>1. n \in FieldName /\ (n \in K => p[n] = s1)
    BY <1>3
  <2> HIDE DEF n, s1
  <2>2. <<n, <<"string">>>> \in Field /\ FieldReads(<<n, <<"string">>>>, f, Bytes(write_string(s1)), p, K)
    BY <1>1, <2>1, StringField
  <2>3. i1 \in Seq(Item)
    BY <1>1, StringBytes
  <2>4. QED
    BY <2>2, <2>3 DEF n
<1>5. R(a2, i2)
  <2> DEFINE n == "desc"
  <2>1. n \in FieldName /\ (n \in K => p[n] = s2)
    BY <1>3
  <2> HIDE DEF n, s2
  <2>2. <<n, <<"string">>>> \in Field /\ FieldReads(<<n, <<"string">>>>, f, Bytes(write_string(s2)), p, K)
    BY <1>1, <2>1, StringField
  <2>3. i2 \in Seq(Item)
    BY <1>1, StringBytes
  <2>4. QED
    BY <2>2, <2>3 DEF n
<1>6. R(a3, i3)
  <2> DEFINE n == "homepage"
  <2>1. n \in FieldName /\ (n \in K => p[n] = s3)
    BY <1>3
  <2> HIDE DEF n, s3
  <2>2. <<n, <<"string">>>> \in Field /\ FieldReads(<<n, <<"string">>>>, f, Bytes(write_string(s3)), p, K)
    BY <1>1, <2>1, StringField
  <2>3. i3 \in Seq(Item)
    BY <1>1, StringBytes
  <2>4. QED
    BY <2>2, <2>3 DEF n
<1>7. R(a4, i4)
  <2> DEFINE n == "licenses"
  <2>1. n \in FieldName /\ (n \in K => p[n] = s4)
    BY <1>3
  <2> HIDE DEF n, s4, g
  <2>2. <<n, <<"hash string", g>>>> \in Field /\ FieldReads(<<n, <<"hash string", g>>>>, f, Bytes(write_hash_string(g, s4)), p, K)
    BY <1>1, <1>2, <2>1, HashStringField
  <2>3. i4 \in Seq(Item)
    BY <1>2, HashStringBytes
  <2>4. QED
    BY <2>2, <2>3 DEF n
<1>8. PureFields(h) = <<a1, a2, a3, a4>> /\ PureItems(p, hdr) = <<i1, i2, i3, i4>>
  BY <1>2 DEF PureFields, PureItems
<1> HIDE DEF a1, a2, a3, a4, i1, i2, i3, i4
<1> DEFINE as4 == <<a1, a2, a3, a4>>
           is4 == <<i1, i2, i3, i4>>
<1>9. as4 \in Seq(Field) /\ is4 \in Seq(Seq(Item)) /\ Len(as4) = 4 /\ Len(is4) = 4
  BY <1>4, <1>5, <1>6, <1>7
<1>10. \A k \in 1..4 : FieldReads(as4[k], f, Bytes(is4[k]), p, K)
  <2>1. ASSUME NEW k \in 1..4  PROVE FieldReads(as4[k], f, Bytes(is4[k]), p, K)
    <3>1. k = 1 \/ k = 2 \/ k = 3 \/ k = 4
      OBVIOUS
    <3>2. QED
      BY <3>1, <1>4, <1>5, <1>6, <1>7
  <2>2. QED
    BY <2>1
<1> HIDE DEF as4, is4, R
<1>11. ItemsOf(as4, f, is4, p, K)
  BY <1>9, <1>10 DEF ItemsOf
<1>12. QED
  BY <1>8, <1>11 DEF as4, is4, K

-------------------------------------------------------------------------------
(* The headers *)

(* read_category_header decodes what write_category_header wrote. *)
LEMMA CategoryReads ==
  ASSUME NEW f \in Seq(Byte), NEW name \in ByteString, NEW size \in Nat
  PROVE  /\ write_category_header(name, size) \in Seq(Item)
         /\ \E r : /\ r.name = name /\ r.size = size
                   /\ \A q \in Nat : Occurs(Bytes(write_category_header(name, size)), f, q) =>
                        Reads(read_category_header(f, q), f,
                              q + Len(Bytes(write_category_header(name, size))), r)
<1> DEFINE K == FieldName
           n1 == "name"
           n2 == "size"
           rec == [name |-> name, size |-> size]
           a1 == <<n1, <<"string">> >>
           a2 == <<n2, <<"num">> >>
           i1 == write_string(name)
           i2 == <<Num(size)>>
<1>1. n1 \in FieldName /\ n2 \in FieldName /\ rec[n1] = name /\ rec[n2] = size /\ n1 # n2
  BY DEF FieldName
<1>2. rec.name = name /\ rec.size = size
  OBVIOUS
<1>3. a1 \in Field /\ FieldReads(a1, f, Bytes(i1), rec, K)
  <2> HIDE DEF n1, rec, K
  <2>1. QED
    BY <1>1, StringField
<1>4. i2 \in Seq(Item) /\ Bytes(i2) = write_num(size)
  BY OneItem
<1>5. a2 \in Field /\ FieldReads(a2, f, Bytes(i2), rec, K)
  <2> HIDE DEF n2, rec, K
  <2>1. a2 \in Field /\ FieldReads(a2, f, write_num(size), rec, K)
    BY <1>1, NumField
  <2>2. QED
    BY <1>4, <2>1
<1>6. i1 \in Seq(Item)
  BY StringBytes
<1> DEFINE fields == <<a1, a2>>
           items == write_category_header(name, size)
<1>7. fields = <<a1>> \o <<a2>> /\ Names(fields) = {n1, n2}
  <2>1. fields = <<a1>> \o <<a2>>
    OBVIOUS
  <2>2. DOMAIN fields = {1, 2} /\ fields[1][1] = n1 /\ fields[2][1] = n2
    OBVIOUS
  <2> HIDE DEF fields
  <2>3. Names(fields) = {n1, n2}
    BY <2>2 DEF Names
  <2>4. QED
    BY <2>1, <2>3
<1>8. items = i1 \o i2
  BY DEF write_category_header
<1>9. RecordReader(fields, f) = [q \in Nat |-> read_category_header(f, q)]
  BY DEF RecordReader, read_category_header
<1> HIDE DEF a1, a2, i1, i2, fields, items, rec, K, n1, n2
<1>10. FieldsWritten(<<a1>>, f, i1, rec, K) /\ FieldsWritten(<<a2>>, f, i2, rec, K)
  BY <1>3, <1>4, <1>5, <1>6, WrittenOne
<1>11. FieldsWritten(fields, f, items, rec, K)
  <2> DEFINE x == <<a1>>
             y == <<a2>>
  <2>1. FieldsWritten(x, f, i1, rec, K) /\ FieldsWritten(y, f, i2, rec, K)
    BY <1>10
  <2> HIDE DEF x, y
  <2>2. FieldsWritten(x \o y, f, i1 \o i2, rec, K)
    BY <2>1, WrittenConcat
  <2>3. QED
    BY <2>2, <1>7, <1>8 DEF x, y
<1>12. PICK r : /\ Decodes(RecordReader(fields, f), f, Bytes(items), r)
                /\ DOMAIN r = Names(fields)
                /\ \A n \in DOMAIN r : n \in K => r[n] = rec[n]
  BY <1>11, WrittenRecord
<1>13. r[n1] = name /\ r[n2] = size
  BY <1>1, <1>7, <1>12 DEF K
<1>14. \A q \in Nat : Occurs(Bytes(items), f, q) =>
         Reads(read_category_header(f, q), f, q + Len(Bytes(items)), r)
  BY <1>9, <1>12 DEF Decodes
<1>15. items \in Seq(Item)
  BY <1>11 DEF FieldsWritten
<1>16. r.name = name /\ r.size = size
  BY <1>13 DEF n1, n2
<1>17. QED
  BY <1>14, <1>15, <1>16 DEF items

(* The header as a record. *)
HeaderRecord(hdr, size, os, ws) ==
  [version |-> current, size |-> size, overlays |-> os, eapi_hash |-> hdr.eapi_hash,
   license_hash |-> hdr.license_hash, keywords_hash |-> hdr.keywords_hash,
   iuse_hash |-> hdr.iuse_hash, slot_hash |-> hdr.slot_hash, world_sets |-> ws,
   bitmask |-> SaveBitmask(hdr)]

HeaderItems(hdr, size, os, ws) ==
  << <<Num(current)>>, <<Num(size)>>, write_overlays(os),
     write_hash(hdr.eapi_hash), write_hash(hdr.license_hash),
     write_hash(hdr.keywords_hash), write_hash(hdr.iuse_hash),
     write_hash(hdr.slot_hash), write_hash(ws),
     <<Num(SaveBitmask(hdr))>> >>

(* The bits that the header saves are the options it was written with. *)
LEMMA BitmaskHolds ==
  ASSUME NEW hdr, GoodHeader(hdr)
  PROVE  /\ SaveBitmask(hdr) \in Nat
         /\ HasBit(SaveBitmask(hdr), 1) = hdr.use_depend
         /\ HasBit(SaveBitmask(hdr), 2) = hdr.use_required_use
         /\ HasBit(SaveBitmask(hdr), 4) = hdr.use_src_uri
<1> DEFINE a == hdr.use_depend
           b == hdr.use_required_use
           c == hdr.use_src_uri
<1>1. a \in BOOLEAN /\ b \in BOOLEAN /\ c \in BOOLEAN
  BY DEF GoodHeader
<1>2. SaveBitmask(hdr) = (IF a THEN 1 ELSE 0) + (IF b THEN 2 ELSE 0) + (IF c THEN 4 ELSE 0)
  BY DEF SaveBitmask
<1> DEFINE m == SaveBitmask(hdr)
<1> HIDE DEF a, b, c, m
<1>3. m \in Nat /\ (HasBit(m, 1) <=> a) /\ (HasBit(m, 2) <=> b) /\ (HasBit(m, 4) <=> c)
  BY <1>1, <1>2 DEF m, HasBit
<1>4. HasBit(m, 1) \in BOOLEAN /\ HasBit(m, 2) \in BOOLEAN /\ HasBit(m, 4) \in BOOLEAN
  BY DEF HasBit
<1>5. QED
  BY <1>1, <1>3, <1>4 DEF a, b, c, m

(* The fields of the header that are always there are read as written. *)
LEMMA HeaderOf ==
  ASSUME NEW f \in Seq(Byte), NEW hdr, GoodHeader(hdr), NEW size \in Nat,
         NEW os \in Seq(OverlayIdent), NEW ws \in Seq(ByteString)
  PROVE  /\ ItemsOf(header_fields, f, HeaderItems(hdr, size, os, ws), HeaderRecord(hdr, size, os, ws), FieldName)
         /\ Names(header_fields) = {"version", "size", "overlays", "eapi_hash", "license_hash",
              "keywords_hash", "iuse_hash", "slot_hash", "world_sets", "bitmask"}
<1> DEFINE K == FieldName
           rec == HeaderRecord(hdr, size, os, ws)
           R(a, i) == a \in Field /\ i \in Seq(Item) /\ FieldReads(a, f, Bytes(i), rec, K)
           a1 == <<"version", <<"num">> >>
           a2 == <<"size", <<"num">> >>
           a3 == <<"overlays", <<"overlays">> >>
           a4 == <<"eapi_hash", <<"hash">> >>
           a5 == <<"license_hash", <<"hash">> >>
           a6 == <<"keywords_hash", <<"hash">> >>
           a7 == <<"iuse_hash", <<"hash">> >>
           a8 == <<"slot_hash", <<"hash">> >>
           a9 == <<"world_sets", <<"hash">> >>
           a10 == <<"bitmask", <<"num">> >>
           i1 == <<Num(current)>>
           i2 == <<Num(size)>>
           i3 == write_overlays(os)
           i4 == write_hash(hdr.eapi_hash)
           i5 == write_hash(hdr.license_hash)
           i6 == write_hash(hdr.keywords_hash)
           i7 == write_hash(hdr.iuse_hash)
           i8 == write_hash(hdr.slot_hash)
           i9 == write_hash(ws)
           i10 == <<Num(SaveBitmask(hdr))>>
<1>1. /\ hdr.eapi_hash \in Seq(ByteString) /\ hdr.license_hash \in Seq(ByteString)
      /\ hdr.keywords_hash \in Seq(ByteString) /\ hdr.slot_hash \in Seq(ByteString)
      /\ hdr.iuse_hash \in Seq(ByteString)
  BY DEF GoodHeader
<1>2. current \in Nat /\ SaveBitmask(hdr) \in Nat
  BY BitmaskHolds DEF current
<1> HIDE DEF K
<1>11. R(a1, i1)
  <2> DEFINE n == "version"
             t == current
  <2>1. n \in FieldName
    BY DEF FieldName
  <2>2. rec[n] = t
    BY DEF HeaderRecord
  <2>3. t \in Nat
    BY <1>1, <1>2
  <2> HIDE DEF n, t, rec
  <2>4. <<n, <<"num">>>> \in Field /\ FieldReads(<<n, <<"num">>>>, f, write_num(t), rec, K)
    BY <2>1, <2>2, <2>3, NumField
  <2>5. <<Num(t)>> \in Seq(Item) /\ Bytes(<<Num(t)>>) = write_num(t)
    BY <2>3, OneItem
  <2>6. QED
    BY <2>4, <2>5 DEF n, t
<1>12. R(a2, i2)
  <2> DEFINE n == "size"
             t == size
  <2>1. n \in FieldName
    BY DEF FieldName
  <2>2. rec[n] = t
    BY DEF HeaderRecord
  <2>3. t \in Nat
    BY <1>1, <1>2
  <2> HIDE DEF n, t, rec
  <2>4. <<n, <<"num">>>> \in Field /\ FieldReads(<<n, <<"num">>>>, f, write_num(t), rec, K)
    BY <2>1, <2>2, <2>3, NumField
  <2>5. <<Num(t)>> \in Seq(Item) /\ Bytes(<<Num(t)>>) = write_num(t)
    BY <2>3, OneItem
  <2>6. QED
    BY <2>4, <2>5 DEF n, t
<1>13. R(a3, i3)
  <2> DEFINE n == "overlays"
             t == os
  <2>1. n \in FieldName
    BY DEF FieldName
  <2>2. rec[n] = t
    BY DEF HeaderRecord
  <2>3. t \in Seq(OverlayIdent)
    BY <1>1, <1>2
  <2> HIDE DEF n, t, rec
  <2>4. <<n, <<"overlays">>>> \in Field /\ FieldReads(<<n, <<"overlays">>>>, f, Bytes(List(OverlayItems(t))), rec, K)
    BY <2>1, <2>2, <2>3, OverlaysField
  <2>5. write_overlays(t) = List(OverlayItems(t)) /\ List(OverlayItems(t)) \in Seq(Item)
    BY <2>3, OverlaysBytes, ListBytes DEF write_overlays
  <2>6. QED
    BY <2>4, <2>5 DEF n, t
<1>14. R(a4, i4)
  <2> DEFINE n == "eapi_hash"
             t == hdr.eapi_hash
  <2>1. n \in FieldName
    BY DEF FieldName
  <2>2. rec[n] = t
    BY DEF HeaderRecord
  <2>3. t \in Seq(ByteString)
    BY <1>1, <1>2
  <2> HIDE DEF n, t, rec
  <2>4. <<n, <<"hash">>>> \in Field /\ FieldReads(<<n, <<"hash">>>>, f, Bytes(write_hash(t)), rec, K)
    BY <2>1, <2>2, <2>3, HashField
  <2>5. write_hash(t) \in Seq(Item)
    BY <2>3, HashBytes
  <2>6. QED
    BY <2>4, <2>5 DEF n, t
<1>15. R(a5, i5)
  <2> DEFINE n == "license_hash"
             t == hdr.license_hash
  <2>1. n \in FieldName
    BY DEF FieldName
  <2>2. rec[n] = t
    BY DEF HeaderRecord
  <2>3. t \in Seq(ByteString)
    BY <1>1, <1>2
  <2> HIDE DEF n, t, rec
  <2>4. <<n, <<"hash">>>> \in Field /\ FieldReads(<<n, <<"hash">>>>, f, Bytes(write_hash(t)), rec, K)
    BY <2>1, <2>2, <2>3, HashField
  <2>5. write_hash(t) \in Seq(Item)
    BY <2>3, HashBytes
  <2>6. QED
    BY <2>4, <2>5 DEF n, t
<1>16. R(a6, i6)
  <2> DEFINE n == "keywords_hash"
             t == hdr.keywords_hash
  <2>1. n \in FieldName
    BY DEF FieldName
  <2>2. rec[n] = t
    BY DEF HeaderRecord
  <2>3. t \in Seq(ByteString)
    BY <1>1, <1>2
  <2> HIDE DEF n, t, rec
  <2>4. <<n, <<"hash">>>> \in Field /\ FieldReads(<<n, <<"hash">>>>, f, Bytes(write_hash(t)), rec, K)
    BY <2>1, <2>2, <2>3, HashField
  <2>5. write_hash(t) \in Seq(Item)
    BY <2>3, HashBytes
  <2>6. QED
    BY <2>4, <2>5 DEF n, t
<1>17. R(a7, i7)
  <2> DEFINE n == "iuse_hash"
             t == hdr.iuse_hash
  <2>1. n \in FieldName
    BY DEF FieldName
  <2>2. rec[n] = t
    BY DEF HeaderRecord
  <2>3. t \in Seq(ByteString)
    BY <1>1, <1>2
  <2> HIDE DEF n, t, rec
  <2>4. <<n, <<"hash">>>> \in Field /\ FieldReads(<<n, <<"hash">>>>, f, Bytes(write_hash(t)), rec, K)
    BY <2>1, <2>2, <2>3, HashField
  <2>5. write_hash(t) \in Seq(Item)
    BY <2>3, HashBytes
  <2>6. QED
    BY <2>4, <2>5 DEF n, t
<1>18. R(a8, i8)
  <2> DEFINE n == "slot_hash"
             t == hdr.slot_hash
  <2>1. n \in FieldName
    BY DEF FieldName
  <2>2. rec[n] = t
    BY DEF HeaderRecord
  <2>3. t \in Seq(ByteString)
    BY <1>1, <1>2
  <2> HIDE DEF n, t, rec
  <2>4. <<n, <<"hash">>>> \in Field /\ FieldReads(<<n, <<"hash">>>>, f, Bytes(write_hash(t)), rec, K)
    BY <2>1, <2>2, <2>3, HashField
  <2>5. write_hash(t) \in Seq(Item)
    BY <2>3, HashBytes
  <2>6. QED
    BY <2>4, <2>5 DEF n, t
<1>19. R(a9, i9)
  <2> DEFINE n == "world_sets"
             t == ws
  <2>1. n \in FieldName
    BY DEF FieldName
  <2>2. rec[n] = t
    BY DEF HeaderRecord
  <2>3. t \in Seq(ByteString)
    BY <1>1, <1>2
  <2> HIDE DEF n, t, rec
  <2>4. <<n, <<"hash">>>> \in Field /\ FieldReads(<<n, <<"hash">>>>, f, Bytes(write_hash(t)), rec, K)
    BY <2>1, <2>2, <2>3, HashField
  <2>5. write_hash(t) \in Seq(Item)
    BY <2>3, HashBytes
  <2>6. QED
    BY <2>4, <2>5 DEF n, t
<1>20. R(a10, i10)
  <2> DEFINE n == "bitmask"
             t == SaveBitmask(hdr)
  <2>1. n \in FieldName
    BY DEF FieldName
  <2>2. rec[n] = t
    BY DEF HeaderRecord
  <2>3. t \in Nat
    BY <1>1, <1>2
  <2> HIDE DEF n, t, rec
  <2>4. <<n, <<"num">>>> \in Field /\ FieldReads(<<n, <<"num">>>>, f, write_num(t), rec, K)
    BY <2>1, <2>2, <2>3, NumField
  <2>5. <<Num(t)>> \in Seq(Item) /\ Bytes(<<Num(t)>>) = write_num(t)
    BY <2>3, OneItem
  <2>6. QED
    BY <2>4, <2>5 DEF n, t
<1>30. header_fields = <<a1, a2, a3, a4, a5, a6, a7, a8, a9, a10>>
  BY DEF header_fields
<1>31. HeaderItems(hdr, size, os, ws) = <<i1, i2, i3, i4, i5, i6, i7, i8, i9, i10>>
  BY DEF HeaderItems
<1> DEFINE as10 == <<a1, a2, a3, a4, a5, a6, a7, a8, a9, a10>>
           is10 == <<i1, i2, i3, i4, i5, i6, i7, i8, i9, i10>>
<1>32. Names(header_fields) = {"version", "size", "overlays", "eapi_hash", "license_hash",
              "keywords_hash", "iuse_hash", "slot_hash", "world_sets", "bitmask"}
  <2>1. DOMAIN header_fields = 1..10
    BY DEF header_fields
  <2>2. /\ header_fields[1][1] = "version" /\ header_fields[2][1] = "size" /\ header_fields[3][1] = "overlays"
        /\ header_fields[4][1] = "eapi_hash" /\ header_fields[5][1] = "license_hash"
        /\ header_fields[6][1] = "keywords_hash" /\ header_fields[7][1] = "iuse_hash"
        /\ header_fields[8][1] = "slot_hash" /\ header_fields[9][1] = "world_sets" /\ header_fields[10][1] = "bitmask"
    BY DEF header_fields
  <2>3. 1..10 = {1, 2, 3, 4, 5, 6, 7, 8, 9, 10}
    OBVIOUS
  <2>4. QED
    BY <2>1, <2>2, <2>3, SMTT(30), ZenonT(30) DEF Names
<1> HIDE DEF a1, a2, a3, a4, a5, a6, a7, a8, a9, a10, i1, i2, i3, i4, i5, i6, i7, i8, i9, i10, rec
<1>33. as10 \in Seq(Field) /\ is10 \in Seq(Seq(Item)) /\ Len(as10) = 10 /\ Len(is10) = 10
  BY <1>11, <1>12, <1>13, <1>14, <1>15, <1>16, <1>17, <1>18, <1>19, <1>20
<1>34. \A k \in 1..10 : FieldReads(as10[k], f, Bytes(is10[k]), rec, K)
  <2>1. ASSUME NEW k \in 1..10  PROVE FieldReads(as10[k], f, Bytes(is10[k]), rec, K)
    <3>1. k = 1 \/ k = 2 \/ k = 3 \/ k = 4 \/ k = 5 \/ k = 6 \/ k = 7 \/ k = 8 \/ k = 9 \/ k = 10
      OBVIOUS
    <3>2. CASE k = 1
      BY <3>2, <1>11
    <3>3. CASE k = 2
      BY <3>3, <1>12
    <3>4. CASE k = 3
      BY <3>4, <1>13
    <3>5. CASE k = 4
      BY <3>5, <1>14
    <3>6. CASE k = 5
      BY <3>6, <1>15
    <3>7. CASE k = 6
      BY <3>7, <1>16
    <3>8. CASE k = 7
      BY <3>8, <1>17
    <3>9. CASE k = 8
      BY <3>9, <1>18
    <3>10. CASE k = 9
      BY <3>10, <1>19
    <3>11. CASE k = 10
      BY <3>11, <1>20
    <3>12. QED
      BY <3>1, <3>2, <3>3, <3>4, <3>5, <3>6, <3>7, <3>8, <3>9, <3>10, <3>11
  <2>2. QED
    BY <2>1
<1> HIDE DEF as10, is10, R
<1>35. ItemsOf(as10, f, is10, rec, K)
  BY <1>33, <1>34 DEF ItemsOf
<1>36. QED
  BY <1>30, <1>31, <1>32, <1>35 DEF as10, is10, K, rec

DependHashItems(hdr) ==
  IF hdr.use_depend THEN WRITE_COUNTER(write_hash(hdr.depend_hash)) ELSE <<>>

(* The header is the magic, its fixed fields, and the hash of the dependencies if it is used. *)
LEMMA HeaderBytes ==
  ASSUME NEW hdr, GoodHeader(hdr), NEW size \in Nat, NEW os \in Seq(OverlayIdent), NEW ws \in Seq(ByteString)
  PROVE  /\ write_header(hdr, size, os, ws) \in Seq(Item)
         /\ Bytes(write_header(hdr, size, os, ws))
              = (magic \o Bytes(FlattenSeq(HeaderItems(hdr, size, os, ws)))) \o Bytes(DependHashItems(hdr))
         /\ magic \in ByteString /\ Len(magic) = 2
         /\ FlattenSeq(HeaderItems(hdr, size, os, ws)) \in Seq(Item)
         /\ DependHashItems(hdr) \in Seq(Item)
         /\ hdr.use_depend => Bytes(DependHashItems(hdr))
              = write_num(Len(Bytes(write_hash(hdr.depend_hash)))) \o Bytes(write_hash(hdr.depend_hash))
<1>1. magic \in ByteString /\ Len(magic) = 2
  BY ByteBounds DEF magic, ByteString, Byte
<1> DEFINE i == Plain(magic)
           a == <<i>>
           b == FlattenSeq(HeaderItems(hdr, size, os, ws))
           c == DependHashItems(hdr)
           w == write_hash(hdr.depend_hash)
<1>2. i \in Item /\ put(i) = magic
  BY <1>1, ItemBytes
<1>3. a \in Seq(Item) /\ Bytes(a) = magic
  <2> HIDE DEF i
  <2>1. QED
    BY <1>2, BytesOne
<1>4. b \in Seq(Item)
  <2> DEFINE f == <<>>
             iss == HeaderItems(hdr, size, os, ws)
  <2>1. f \in Seq(Byte)
    OBVIOUS
  <2> HIDE DEF f
  <2>2. ItemsOf(header_fields, f, iss, HeaderRecord(hdr, size, os, ws), FieldName)
    BY <2>1, HeaderOf
  <2>3. iss \in Seq(Seq(Item))
    BY <2>2 DEF ItemsOf
  <2> HIDE DEF iss
  <2>4. FlattenSeq(iss) \in Seq(Item)
    BY <2>3, FlattenType
  <2>5. QED
    BY <2>4 DEF iss
<1>5. w \in Seq(Item) /\ hdr.use_depend \in BOOLEAN
  BY HashBytes DEF GoodHeader
<1>6. /\ WRITE_COUNTER(w) \in Seq(Item)
      /\ Bytes(WRITE_COUNTER(w)) = write_num(Len(Bytes(w))) \o Bytes(w)
  <2> HIDE DEF w
  <2>1. QED
    BY <1>5, CountedBytes
<1>7. c \in Seq(Item) /\ (hdr.use_depend => Bytes(c) = write_num(Len(Bytes(w))) \o Bytes(w))
  BY <1>5, <1>6 DEF DependHashItems
<1>8. write_header(hdr, size, os, ws) = (a \o b) \o c
  BY DEF write_header, HeaderItems, DependHashItems
<1> HIDE DEF a, b, c
<1>9. a \o b \in Seq(Item) /\ Bytes(a \o b) = Bytes(a) \o Bytes(b)
  <2>1. Bytes(a \o b) = Bytes(a) \o Bytes(b)
    BY <1>3, <1>4, BytesConcat
  <2>2. a \o b \in Seq(Item)
    BY <1>3, <1>4
  <2>3. QED
    BY <2>1, <2>2
<1> DEFINE ab == a \o b
<1> HIDE DEF ab
<1>10. ab \o c \in Seq(Item) /\ Bytes(ab \o c) = Bytes(ab) \o Bytes(c)
  <2>1. ab \in Seq(Item)
    BY <1>9 DEF ab
  <2>2. Bytes(ab \o c) = Bytes(ab) \o Bytes(c)
    BY <1>7, <2>1, BytesConcat
  <2>3. ab \o c \in Seq(Item)
    BY <1>7, <2>1
  <2>4. QED
    BY <2>2, <2>3
<1>11. QED
  BY <1>1, <1>3, <1>4, <1>7, <1>8, <1>9, <1>10 DEF ab, b, c

(* read_header after the fields of the header. *)
HeaderDepend(f, q, h, use) ==
  IF ~ HasBit(h.bitmask, 1) THEN Got(q, <<>>)
  ELSE IF use.depend
    THEN LET r == read_num(f, q) IN IF r.ok THEN read_hash(f, r.pos) ELSE r
    ELSE skip_string(f, q)

HeaderFrom(h, depend_hash) ==
  [size |-> h.size, overlays |-> h.overlays, eapi_hash |-> h.eapi_hash,
   license_hash |-> h.license_hash, keywords_hash |-> h.keywords_hash,
   iuse_hash |-> h.iuse_hash, slot_hash |-> h.slot_hash, world_sets |-> h.world_sets,
   use_depend |-> HasBit(h.bitmask, 1), use_required_use |-> HasBit(h.bitmask, 2),
   use_src_uri |-> HasBit(h.bitmask, 4), depend_hash |-> depend_hash]

HeaderRest(f, q, h, m, use) ==
  IF m # magic \/ h.version # current THEN ReadError(f, q)
  ELSE LET r == HeaderDepend(f, q, h, use)
       IN  IF r.ok THEN Got(r.pos, HeaderFrom(h, r.val)) ELSE r

(* The bytes of the hash of the dependencies. *)
IsDependHash(C, hdr) ==
  /\ C = Bytes(DependHashItems(hdr))
  /\ hdr.use_depend => C = write_num(Len(Bytes(write_hash(hdr.depend_hash)))) \o Bytes(write_hash(hdr.depend_hash))

DependHashIs(r, f, e, hdr, use, dh) ==
  Reads(r, f, e, dh) /\ (hdr.use_depend /\ use.depend => dh = hdr.depend_hash)

(* The hash of the dependencies is read, skipped by its length or absent as it was written. *)
LEMMA DependHashReads ==
  ASSUME NEW f \in Seq(Byte), NEW hdr, GoodHeader(hdr), NEW use \in UseOptions, NEW q \in Nat, NEW h,
         h.bitmask = SaveBitmask(hdr), NEW C, IsDependHash(C, hdr), Occurs(C, f, q)
  PROVE  \E dh : DependHashIs(HeaderDepend(f, q, h, use), f, q + Len(C), hdr, use, dh)
<1> DEFINE g == hdr.depend_hash
           w == Bytes(write_hash(g))
           n == write_num(Len(w))
<1>1. g \in Seq(ByteString) /\ hdr.use_depend \in BOOLEAN
  BY DEF GoodHeader
<1>2. HasBit(h.bitmask, 1) = hdr.use_depend
  BY BitmaskHolds
<1>3. CASE ~ hdr.use_depend
  <2>1. C = <<>>
    BY <1>3, BytesEmpty DEF DependHashItems, IsDependHash
  <2>2. HeaderDepend(f, q, h, use) = Got(q, <<>>)
    BY <1>2, <1>3 DEF HeaderDepend
  <2>3. Reads(HeaderDepend(f, q, h, use), f, q + Len(C), <<>>)
    BY <2>1, <2>2 DEF Reads
  <2>4. QED
    BY <1>3, <2>3 DEF DependHashIs
<1>4. CASE hdr.use_depend /\ ~ use.depend
  <2>1. C = n \o w
    BY <1>4 DEF IsDependHash
  <2>2. w \in Seq(Byte)
    BY <1>1, HashBytes, BytesType
  <2>3. HeaderDepend(f, q, h, use) = skip_string(f, q)
    BY <1>2, <1>4 DEF HeaderDepend
  <2> HIDE DEF w
  <2>4. Reads(skip_string(f, q), f, q + Len(n \o w), <<>>)
    BY <2>1, <2>2, SkipReads
  <2>5. QED
    BY <1>4, <2>1, <2>3, <2>4 DEF DependHashIs
<1>5. CASE hdr.use_depend /\ use.depend
  <2>1. C = n \o w
    BY <1>5 DEF IsDependHash
  <2>2. w \in Seq(Byte) /\ Len(w) \in Nat
    BY <1>1, HashBytes, BytesType
  <2> DEFINE r1 == read_num(f, q)
             r == HeaderDepend(f, q, h, use)
             d == q + Len(n)
             e == q + Len(C)
  <2>3. r = IF r1.ok THEN read_hash(f, r1.pos) ELSE r1
    BY <1>2, <1>5 DEF HeaderDepend
  <2>4. n \in Seq(Byte)
    BY <2>2, NumberBytes
  <2>5. /\ Occurs(n, f, q) /\ Occurs(w, f, q + Len(n)) /\ Len(n) \in Nat /\ Len(w) \in Nat
        /\ Len(n \o w) = Len(n) + Len(w)
    <3> HIDE DEF n, w
    <3>1. QED
      BY <2>1, <2>2, <2>4, OccursConcat
  <2>6. Reads(r1, f, d, Len(w))
    BY <2>2, <2>5, ReadNumReads
  <2>7. d \in Nat /\ e \in Nat /\ d <= e /\ e = d + Len(w)
    BY <2>1, <2>5
  <2>8. Reads(read_hash(f, d), f, d + Len(w), g)
    <3>1. Occurs(Bytes(write_hash(g)), f, d)
      BY <2>5
    <3> HIDE DEF d, g
    <3>2. QED
      BY <1>1, <2>7, <3>1, HashReads
  <2> HIDE DEF r, r1, d, e, w
  <2>9. r1 = Got(d, Len(w)) => Reads(r, f, e, g)
    BY <2>3, <2>7, <2>8 DEF Got
  <2>10. ~ r1.ok => r = r1
    BY <2>3
  <2>11. Reads(r, f, e, g)
    BY <2>6, <2>7, <2>9, <2>10, ReadsThen
  <2>12. QED
    BY <2>11 DEF r, e, DependHashIs
<1>6. QED
  BY <1>1, <1>3, <1>4, <1>5

HeaderIs(r, f, e, hdr, use, size, x) ==
  Reads(r, f, e, x) /\ SameHeader(x, hdr, use) /\ x.size = size

HeaderFieldsAre(h, hdr, size, os, ws) ==
  \A n \in Names(header_fields) : h[n] = HeaderRecord(hdr, size, os, ws)[n]

(* Behind the fixed fields of the header the options are set and the rest is read as written. *)
LEMMA HeaderRestReads ==
  ASSUME NEW f \in Seq(Byte), NEW hdr, GoodHeader(hdr), NEW use \in UseOptions, NEW q \in Nat, NEW h,
         NEW size \in Nat, NEW os \in Seq(OverlayIdent), NEW ws \in Seq(ByteString),
         HeaderFieldsAre(h, hdr, size, os, ws),
         NEW C, IsDependHash(C, hdr), Occurs(C, f, q), Len(C) \in Nat
  PROVE  \E x : HeaderIs(HeaderRest(f, q, h, magic, use), f, q + Len(C), hdr, use, size, x)
<1> DEFINE rec == HeaderRecord(hdr, size, os, ws)
<1>1. /\ h.version = current /\ h.size = size
      /\ h.eapi_hash = hdr.eapi_hash /\ h.license_hash = hdr.license_hash
      /\ h.keywords_hash = hdr.keywords_hash /\ h.iuse_hash = hdr.iuse_hash
      /\ h.slot_hash = hdr.slot_hash /\ h.bitmask = SaveBitmask(hdr)
  <2>1. /\ h["version"] = rec["version"] /\ h["size"] = rec["size"]
        /\ h["eapi_hash"] = rec["eapi_hash"] /\ h["license_hash"] = rec["license_hash"]
        /\ h["keywords_hash"] = rec["keywords_hash"] /\ h["iuse_hash"] = rec["iuse_hash"]
        /\ h["slot_hash"] = rec["slot_hash"] /\ h["bitmask"] = rec["bitmask"]
    <3> HIDE DEF rec
    <3>1. Names(header_fields) = {"version", "size", "overlays", "eapi_hash", "license_hash",
              "keywords_hash", "iuse_hash", "slot_hash", "world_sets", "bitmask"}
      BY HeaderOf
    <3>2. \A n \in Names(header_fields) : h[n] = rec[n]
      BY DEF rec, HeaderFieldsAre
    <3>3. QED
      BY <3>1, <3>2
  <2>2. QED
    BY <2>1 DEF HeaderRecord
<1>20. h.bitmask = SaveBitmask(hdr)
  BY <1>1
<1>2. PICK dh : DependHashIs(HeaderDepend(f, q, h, use), f, q + Len(C), hdr, use, dh)
  BY <1>20, DependHashReads
<1> DEFINE x == HeaderFrom(h, dh)
           r1 == HeaderDepend(f, q, h, use)
           r == HeaderRest(f, q, h, magic, use)
           e == q + Len(C)
<1>3. /\ HasBit(h.bitmask, 1) = hdr.use_depend /\ HasBit(h.bitmask, 2) = hdr.use_required_use
      /\ HasBit(h.bitmask, 4) = hdr.use_src_uri
  BY <1>1, BitmaskHolds
<1>4. SameHeader(x, hdr, use) /\ x.size = size
  BY <1>1, <1>2, <1>3 DEF HeaderFrom, SameHeader, DependHashIs
<1>5. r = IF r1.ok THEN Got(r1.pos, HeaderFrom(h, r1.val)) ELSE r1
  BY <1>1 DEF HeaderRest
<1>6. e \in Nat
  OBVIOUS
<1> HIDE DEF r, r1, e
<1>7. r1 = Got(e, dh) => Reads(r, f, e, x)
  <2>1. ASSUME r1 = Got(e, dh)  PROVE Reads(r, f, e, x)
    <3>1. r1.ok /\ r1.pos = e /\ r1.val = dh
      BY <2>1 DEF Got
    <3>2. r = Got(e, x)
      BY <1>5, <3>1
    <3>3. QED
      BY <3>2 DEF Reads
  <2>2. QED
    BY <2>1
<1>8. ~ r1.ok => r = r1
  BY <1>5
<1>9. Reads(r1, f, e, dh)
  BY <1>2 DEF r1, e, DependHashIs
<1>10. Reads(r, f, e, x)
  BY <1>6, <1>7, <1>8, <1>9, ReadsThen
<1>11. QED
  BY <1>4, <1>10 DEF r, e, HeaderIs

(* The header of Database::write_header is read by read_header with the same number of categories, the same
   hashes and the same options, whether or not the reader wants the hash of the dependencies. *)
THEOREM HeaderReads ==
  ASSUME NEW f \in Seq(Byte), NEW hdr, GoodHeader(hdr), NEW use \in UseOptions,
         NEW size \in Nat, NEW os \in Seq(OverlayIdent), NEW ws \in Seq(ByteString),
         Occurs(Bytes(write_header(hdr, size, os, ws)), f, 0)
  PROVE  \E x : /\ Reads(read_header(f, use), f, Len(Bytes(write_header(hdr, size, os, ws))), x)
                /\ SameHeader(x, hdr, use) /\ x.size = size
<1> DEFINE A == magic
           iss == HeaderItems(hdr, size, os, ws)
           bi == FlattenSeq(iss)
           B == Bytes(bi)
           C == Bytes(DependHashItems(hdr))
           W == Bytes(write_header(hdr, size, os, ws))
           rec == HeaderRecord(hdr, size, os, ws)
<1>1. /\ W = (A \o B) \o C /\ A \in ByteString /\ Len(A) = 2
      /\ hdr.use_depend => C = write_num(Len(Bytes(write_hash(hdr.depend_hash)))) \o Bytes(write_hash(hdr.depend_hash))
  BY HeaderBytes
<1>2. A \in Seq(Byte) /\ B \in Seq(Byte) /\ C \in Seq(Byte) /\ A \o B \in Seq(Byte)
  <2>1. bi \in Seq(Item) /\ DependHashItems(hdr) \in Seq(Item)
    BY HeaderBytes
  <2>2. B \in Seq(Byte) /\ C \in Seq(Byte)
    <3> HIDE DEF bi
    <3>1. QED
      BY <2>1, BytesType
  <2> HIDE DEF A, B, C
  <2>3. A \in Seq(Byte)
    BY <1>1 DEF ByteString
  <2>4. QED
    BY <2>2, <2>3
<1>3. ItemsOf(header_fields, f, iss, rec, FieldName)
  BY HeaderOf
<1> HIDE DEF iss, rec
<1>4. FieldsWritten(header_fields, f, bi, rec, FieldName)
  BY <1>3, ItemsWritten
<1> HIDE DEF bi
<1>5. PICK h : /\ Decodes(RecordReader(header_fields, f), f, B, h)
               /\ DOMAIN h = Names(header_fields) /\ DOMAIN h \subseteq FieldName
               /\ \A n \in DOMAIN h : n \in FieldName => h[n] = rec[n]
  BY <1>4, WrittenRecord
<1>6. \A n \in Names(header_fields) : h[n] = rec[n]
  BY <1>5
<1>7. Occurs((A \o B) \o C, f, 0)
  BY <1>1
<1> DEFINE d == 2 + Len(B)
           e == 2 + Len(B) + Len(C)
<1>8. /\ Occurs(A, f, 0) /\ Occurs(B, f, 2) /\ Occurs(C, f, d)
      /\ Len(W) = e /\ Len(B) \in Nat /\ Len(C) \in Nat
  <2> HIDE DEF A, B, C, W
  <2> DEFINE AB == A \o B
  <2> HIDE DEF AB
  <2>1. AB \in Seq(Byte) /\ Occurs(AB \o C, f, 0)
    BY <1>2, <1>7 DEF AB
  <2>2. /\ Occurs(AB, f, 0) /\ Occurs(C, f, 0 + Len(AB)) /\ Len(AB) \in Nat /\ Len(C) \in Nat
        /\ Len(AB \o C) = Len(AB) + Len(C)
    BY <2>1, <1>2, OccursConcat
  <2>3. Occurs(A \o B, f, 0)
    BY <2>2 DEF AB
  <2>4. /\ Occurs(A, f, 0) /\ Occurs(B, f, 0 + Len(A)) /\ Len(B) \in Nat
        /\ Len(A \o B) = Len(A) + Len(B)
    BY <2>3, <1>2, OccursConcat
  <2>5. Len(AB) = 2 + Len(B)
    BY <2>4, <1>1 DEF AB
  <2>6. W = AB \o C
    BY <1>1 DEF AB
  <2>7. 0 + Len(A) = 2 /\ 0 + Len(AB) = d /\ Len(AB) + Len(C) = e
    BY <1>1, <2>2, <2>4, <2>5
  <2>8. QED
    BY <2>2, <2>4, <2>6, <2>7
<1> DEFINE r1 == read_string_plain(f, 0, Len(magic))
           r2 == ReadRecord(header_fields, f, 2)
           r3 == HeaderRest(f, d, h, magic, use)
           r == read_header(f, use)
<1>9. Reads(r1, f, 2, magic)
  <2>1. Reads(read_string_plain(f, 0, Len(A)), f, 0 + Len(A), A)
    <3> HIDE DEF A
    <3>1. QED
      BY <1>1, <1>8, PlainReads
  <2>2. 0 + Len(A) = 2
    BY <1>1
  <2>3. QED
    BY <2>1, <2>2
<1>10. Reads(r2, f, d, h)
  <2>1. Reads(RecordReader(header_fields, f)[2], f, 2 + Len(B), h)
    BY <1>5, <1>8 DEF Decodes
  <2>2. RecordReader(header_fields, f)[2] = r2
    BY DEF RecordReader
  <2>3. QED
    BY <2>1, <2>2
<1>11. d \in Nat /\ e \in Nat /\ 2 <= d /\ d <= e /\ e = d + Len(C)
  BY <1>8
<1>12. PICK x : Reads(r3, f, e, x) /\ SameHeader(x, hdr, use) /\ x.size = size
  <2> HIDE DEF d, e
  <2>1. \E x : Reads(r3, f, d + Len(C), x) /\ SameHeader(x, hdr, use) /\ x.size = size
    <3> DEFINE CC == C
    <3>1. IsDependHash(CC, hdr) /\ Occurs(CC, f, d) /\ Len(CC) \in Nat
      BY <1>1, <1>8 DEF IsDependHash
    <3>2. HeaderFieldsAre(h, hdr, size, os, ws)
      BY <1>6 DEF rec, HeaderFieldsAre
    <3> HIDE DEF CC
    <3>3. \E x : HeaderIs(HeaderRest(f, d, h, magic, use), f, d + Len(CC), hdr, use, size, x)
      BY <3>1, <3>2, <1>11, HeaderRestReads
    <3>4. QED
      BY <3>3 DEF CC, HeaderIs
  <2>2. QED
    BY <2>1, <1>11
<1>13. r = IF r1.ok THEN LET s == ReadRecord(header_fields, f, r1.pos)
                         IN  IF s.ok THEN HeaderRest(f, s.pos, s.val, r1.val, use) ELSE s
                    ELSE r1
  BY DEF read_header, Then, HeaderRest, HeaderDepend, HeaderFrom
<1>14. r1 = Got(2, magic) => r = IF r2.ok THEN HeaderRest(f, r2.pos, r2.val, magic, use) ELSE r2
  <2>1. ASSUME r1 = Got(2, magic)  PROVE r1.ok /\ r1.pos = 2 /\ r1.val = magic
    BY <2>1 DEF Got
  <2> HIDE DEF r, r1
  <2>2. QED
    BY <1>13, <2>1
<1>15. r2 = Got(d, h) => r2.ok /\ r2.pos = d /\ r2.val = h
  BY DEF Got
<1>16. ~ r1.ok => r = r1
  <2> HIDE DEF r, r1
  <2>1. QED
    BY <1>13
<1> HIDE DEF r, r1, r2, r3, d, e
<1>17. r1 = Got(2, magic) => Reads(r, f, e, x)
  <2>1. ASSUME r1 = Got(2, magic)  PROVE Reads(r, f, e, x)
    <3>1. r = IF r2.ok THEN HeaderRest(f, r2.pos, r2.val, magic, use) ELSE r2
      BY <1>14, <2>1
    <3>2. r2 = Got(d, h) => r = r3
      BY <1>15, <3>1 DEF r3
    <3>3. r2 = Got(d, h) => Reads(r, f, e, x)
      BY <1>12, <3>2
    <3>4. ~ r2.ok => r = r2
      BY <3>1
    <3>5. QED
      BY <1>10, <1>11, <3>3, <3>4, ReadsThen
  <2>2. QED
    BY <2>1
<1>18. 2 <= e
  BY <1>11
<1>19. Reads(r, f, e, x)
  BY <1>9, <1>11, <1>16, <1>17, <1>18, ReadsThen
<1>20. QED
  BY <1>8, <1>12, <1>19 DEF r

-------------------------------------------------------------------------------
(* What is left of a sequence of sequences *)

From(ss, k) == FlattenSeq(SubSeq(ss, k + 1, Len(ss)))

(* What is left of a concatenation is a sequence. *)
LEMMA FromType ==
  ASSUME NEW S, NEW ss \in Seq(Seq(S)), NEW k \in Nat
  PROVE  From(ss, k) \in Seq(S) /\ SubSeq(ss, k + 1, Len(ss)) \in Seq(Seq(S))
<1>1. SubSeq(ss, k + 1, Len(ss)) \in Seq(Seq(S))
  <2> DEFINE T == Seq(S)
  <2>1. ss \in Seq(T)
    OBVIOUS
  <2> HIDE DEF T
  <2>2. SubSeq(ss, k + 1, Len(ss)) \in Seq(T)
    <3>1. k + 1 \in Nat /\ k + 1 >= 1 /\ Len(ss) \in Nat
      BY <2>1
    <3>2. QED
      BY <2>1, <3>1, SubSeqProperties
  <2>3. QED
    BY <2>2 DEF T
<1> DEFINE tt == SubSeq(ss, k + 1, Len(ss))
<1> HIDE DEF tt
<1>2. FlattenSeq(tt) \in Seq(S)
  BY <1>1, FlattenType DEF tt
<1>3. QED
  BY <1>1, <1>2 DEF From, tt

(* A suffix of a sequence splits at any later index. *)
LEMMA SubSeqSplit ==
  ASSUME NEW T, NEW s \in Seq(T), NEW k \in Nat, NEW m \in Nat, k <= m, m <= Len(s)
  PROVE  /\ SubSeq(s, k + 1, Len(s)) = SubSeq(s, k + 1, m) \o SubSeq(s, m + 1, Len(s))
         /\ SubSeq(s, k + 1, m) \in Seq(T) /\ SubSeq(s, m + 1, Len(s)) \in Seq(T)
         /\ SubSeq(s, k + 1, Len(s)) \in Seq(T)
<1>0. Len(s) \in Nat
  OBVIOUS
<1> DEFINE a == SubSeq(s, k + 1, m)
           b == SubSeq(s, m + 1, Len(s))
           c == SubSeq(s, k + 1, Len(s))
<1>1. /\ a \in Seq(T) /\ Len(a) = m - k /\ \A i \in 1..(m - k) : a[i] = s[k + i]
  <2>1. Len(a) = m - k
    BY <1>0
  <2>2. \A i \in 1..(m - k) : a[i] = s[k + i]
    BY <1>0
  <2>3. a \in Seq(T)
    BY <1>0
  <2>4. QED
    BY <2>1, <2>2, <2>3
<1>2. /\ b \in Seq(T) /\ Len(b) = Len(s) - m /\ \A i \in 1..(Len(s) - m) : b[i] = s[m + i]
  <2>1. Len(b) = Len(s) - m
    BY <1>0
  <2>2. \A i \in 1..(Len(s) - m) : b[i] = s[m + i]
    BY <1>0
  <2>3. b \in Seq(T)
    BY <1>0
  <2>4. QED
    BY <2>1, <2>2, <2>3
<1>3. /\ c \in Seq(T) /\ Len(c) = Len(s) - k /\ \A i \in 1..(Len(s) - k) : c[i] = s[k + i]
  <2>1. Len(c) = Len(s) - k
    BY <1>0
  <2>2. \A i \in 1..(Len(s) - k) : c[i] = s[k + i]
    BY <1>0
  <2>3. c \in Seq(T)
    BY <1>0
  <2>4. QED
    BY <2>1, <2>2, <2>3
<1> HIDE DEF a, b, c
<1>4. /\ a \o b \in Seq(T) /\ Len(a \o b) = Len(s) - k
      /\ \A i \in 1..(Len(s) - k) : (a \o b)[i] = IF i <= m - k THEN a[i] ELSE b[i - (m - k)]
  BY <1>0, <1>1, <1>2
<1>5. \A i \in 1..(Len(s) - k) : (a \o b)[i] = s[k + i]
  <2>1. ASSUME NEW i \in 1..(Len(s) - k)  PROVE (a \o b)[i] = s[k + i]
    <3>1. (a \o b)[i] = IF i <= m - k THEN a[i] ELSE b[i - (m - k)]
      BY <1>4
    <3>2. CASE i <= m - k
      <4>1. i \in 1..(m - k)
        BY <3>2, <1>0
      <4>2. a[i] = s[k + i]
        BY <4>1, <1>1
      <4>3. QED
        BY <3>1, <3>2, <4>2
    <3>3. CASE ~ (i <= m - k)
      <4>1. i - (m - k) \in 1..(Len(s) - m) /\ m + (i - (m - k)) = k + i
        BY <3>3, <1>0
      <4>2. b[i - (m - k)] = s[m + (i - (m - k))]
        BY <4>1, <1>2
      <4>3. QED
        BY <3>1, <3>3, <4>1, <4>2
    <3>4. QED
      BY <3>2, <3>3
  <2>2. QED
    BY <2>1
<1> DEFINE d == a \o b
<1>6. d \in Seq(T) /\ Len(d) = Len(c) /\ \A i \in 1..Len(d) : d[i] = c[i]
  BY <1>3, <1>4, <1>5
<1> HIDE DEF d
<1>7. d = c
  BY <1>3, <1>6, SeqEqual
<1>8. QED
  BY <1>1, <1>2, <1>3, <1>7 DEF a, b, c, d

(* What is left of a concatenation splits at any later index. *)
LEMMA FromSplit ==
  ASSUME NEW S, NEW ss \in Seq(Seq(S)), NEW k \in Nat, NEW m \in Nat, k <= m, m <= Len(ss)
  PROVE  /\ From(ss, k) = FlattenSeq(SubSeq(ss, k + 1, m)) \o From(ss, m)
         /\ FlattenSeq(SubSeq(ss, k + 1, m)) \in Seq(S)
<1> DEFINE T == Seq(S)
           a == SubSeq(ss, k + 1, m)
           b == SubSeq(ss, m + 1, Len(ss))
           c == SubSeq(ss, k + 1, Len(ss))
<1>1. ss \in Seq(T)
  OBVIOUS
<1>2. c = a \o b /\ a \in Seq(T) /\ b \in Seq(T)
  <2> HIDE DEF T
  <2>1. QED
    BY <1>1, SubSeqSplit
<1> HIDE DEF a, b, c
<1>3. a \in Seq(Seq(S)) /\ b \in Seq(Seq(S))
  BY <1>2
<1>4. FlattenSeq(a \o b) = FlattenSeq(a) \o FlattenSeq(b) /\ FlattenSeq(a) \in Seq(S)
  BY <1>3, FlattenConcat, FlattenType
<1>5. QED
  BY <1>2, <1>4 DEF From, a, b, c

(* What is left of a concatenation starts with the next of its sequences. *)
LEMMA FromNext ==
  ASSUME NEW S, NEW ss \in Seq(Seq(S)), NEW k \in Nat, k < Len(ss)
  PROVE  From(ss, k) = ss[k + 1] \o From(ss, k + 1) /\ ss[k + 1] \in Seq(S)
<1> DEFINE T == Seq(S)
           m == k + 1
           e == ss[m]
           a == SubSeq(ss, m, m)
<1>1. m \in Nat /\ k <= m /\ m <= Len(ss) /\ e \in T
  OBVIOUS
<1>2. From(ss, k) = FlattenSeq(SubSeq(ss, k + 1, m)) \o From(ss, m)
  <2> HIDE DEF m
  <2>1. QED
    BY <1>1, FromSplit
<1>3. a = <<e>>
  <2>1. Len(a) = 1 /\ a[1] = e /\ a \in Seq(T)
    OBVIOUS
  <2> HIDE DEF a, e, T
  <2>2. <<e>> \in Seq(T) /\ Len(<<e>>) = 1 /\ <<e>>[1] = e
    BY <1>1
  <2> DEFINE o == <<e>>
  <2>3. o \in Seq(T) /\ Len(o) = Len(a) /\ \A i \in 1..Len(o) : o[i] = a[i]
    BY <2>1, <2>2
  <2> HIDE DEF o
  <2>4. o = a
    BY <2>1, <2>3, SeqEqual
  <2>5. QED
    BY <2>4 DEF o
<1> HIDE DEF e
<1>4. FlattenSeq(<<e>>) = e
  BY <1>1, FlattenOne
<1>5. QED
  BY <1>1, <1>2, <1>3, <1>4 DEF e

(* Nothing is left at the end. *)
LEMMA FromEnd ==
  ASSUME NEW ss, Len(ss) \in Nat, NEW k \in Nat, k >= Len(ss)
  PROVE  From(ss, k) = <<>>
<1>1. SubSeq(ss, k + 1, Len(ss)) = <<>>
  OBVIOUS
<1>2. QED
  BY <1>1, FlattenEmpty DEF From

(* The elements before those of the c-th sequence. *)
Before(ss, c) == Len(FlattenSeq(SubSeq(ss, 1, c - 1)))

(* Before(ss, c) + k is the place of element k of sequence c in the concatenation. *)
LEMMA BeforeIs ==
  ASSUME NEW S, NEW ss \in Seq(Seq(S)), NEW c \in 1..Len(ss)
  PROVE  /\ Before(ss, c) \in Nat /\ Len(ss[c]) \in Nat
         /\ Len(FlattenSeq(ss)) \in Nat
         /\ Before(ss, c + 1) = Before(ss, c) + Len(ss[c])
         /\ c = 1 => Before(ss, c) = 0
         /\ c = Len(ss) => Before(ss, c + 1) = Len(FlattenSeq(ss))
         /\ \A k \in 1..Len(ss[c]) : /\ Before(ss, c) + k \in 1..Len(FlattenSeq(ss))
                                     /\ FlattenSeq(ss)[Before(ss, c) + k] = ss[c][k]
<1> DEFINE n == c - 1
           x == FlattenSeq(SubSeq(ss, 1, n))
           y == ss[c]
           z == From(ss, c)
           all == FlattenSeq(ss)
<1>1. n \in Nat /\ n < Len(ss) /\ n + 1 = c /\ Len(ss) \in Nat /\ c \in Nat /\ 0 <= n /\ c <= Len(ss)
  OBVIOUS
<1>2. From(ss, 0) = all
  <2>1. SubSeq(ss, 0 + 1, Len(ss)) = ss
    <3> DEFINE T == Seq(S)
               t == SubSeq(ss, 1, Len(ss))
    <3>1. ss \in Seq(T)
      OBVIOUS
    <3>2. t \in Seq(T) /\ Len(t) = Len(ss) /\ \A i \in 1..Len(t) : t[i] = ss[i]
      <4> HIDE DEF T
      <4>1. QED
        BY <1>1, <3>1
    <3> HIDE DEF T, t
    <3>3. t = ss
      BY <3>1, <3>2, SeqEqual
    <3>4. QED
      BY <3>3 DEF t
  <2>2. QED
    BY <2>1 DEF From
<1>3. From(ss, 0) = x \o From(ss, n) /\ x \in Seq(S)
  <2>1. From(ss, 0) = FlattenSeq(SubSeq(ss, 0 + 1, n)) \o From(ss, n) /\ FlattenSeq(SubSeq(ss, 0 + 1, n)) \in Seq(S)
    <3> HIDE DEF n
    <3>1. 0 \in Nat /\ n <= Len(ss)
      BY <1>1
    <3>2. QED
      BY <1>1, <3>1, FromSplit
  <2>2. QED
    BY <2>1
<1>4. From(ss, n) = y \o z /\ y \in Seq(S)
  <2>1. From(ss, n) = ss[n + 1] \o From(ss, n + 1) /\ ss[n + 1] \in Seq(S)
    <3> HIDE DEF n
    <3>1. QED
      BY <1>1, FromNext
  <2>2. QED
    BY <2>1, <1>1
<1>5. z \in Seq(S)
  BY <1>1, FromType
<1>6. all \in Seq(S)
  BY FlattenType
<1>7. Before(ss, c) = Len(x) /\ Before(ss, c + 1) = Len(FlattenSeq(SubSeq(ss, 1, c)))
  <2>1. (c + 1) - 1 = c
    OBVIOUS
  <2>2. QED
    BY <2>1 DEF Before
<1>8. FlattenSeq(SubSeq(ss, 1, c)) = x \o y
  <2> DEFINE T == Seq(S)
             u == SubSeq(ss, 1, n)
  <2>1. SubSeq(ss, 1, c) = Append(u, y) /\ u \in Seq(T) /\ y \in T
    <3>1. ss \in Seq(T) /\ y \in T
      BY <1>4
    <3> HIDE DEF T
    <3> DEFINE v == SubSeq(ss, 1, c)
               w == Append(u, y)
    <3>2. u \in Seq(T) /\ Len(u) = n /\ \A i \in 1..n : u[i] = ss[i]
      BY <1>1, <3>1
    <3>3. v \in Seq(T) /\ Len(v) = c /\ \A i \in 1..c : v[i] = ss[i]
      BY <1>1, <3>1
    <3> HIDE DEF u, v
    <3>4. w \in Seq(T) /\ Len(w) = n + 1 /\ \A i \in 1..(n + 1) : w[i] = IF i <= n THEN u[i] ELSE y
      BY <3>1, <3>2, AppendElements
    <3> HIDE DEF w
    <3>5. \A i \in 1..Len(v) : w[i] = v[i]
      <4>1. ASSUME NEW i \in 1..c  PROVE w[i] = v[i]
        <5>1. CASE i <= n
          <6>1. i \in 1..n /\ i \in 1..(n + 1)
            BY <5>1, <1>1
          <6>2. w[i] = u[i]
            BY <6>1, <5>1, <3>4
          <6>3. QED
            BY <6>1, <6>2, <3>2, <3>3
        <5>2. CASE i = c
          <6>1. i \in 1..(n + 1) /\ ~ (i <= n) /\ i \in 1..c
            BY <5>2, <1>1
          <6>2. w[i] = y
            BY <6>1, <3>4
          <6>3. v[i] = y
            BY <5>2, <6>1, <3>3
          <6>4. QED
            BY <6>2, <6>3
        <5>3. QED
          BY <5>1, <5>2, <1>1
      <4>2. QED
        BY <4>1, <3>3
    <3>6. w = v
      BY <1>1, <3>3, <3>4, <3>5, SeqEqual
    <3>7. QED
      BY <3>1, <3>2, <3>6 DEF v, w
  <2> HIDE DEF u, y
  <2>2. u \in Seq(Seq(S)) /\ y \in Seq(S)
    BY <2>1
  <2>3. FlattenSeq(Append(u, y)) = FlattenSeq(u) \o y
    BY <2>2, FlattenAppend
  <2>4. QED
    BY <2>1, <2>3 DEF u
<1>9. all = x \o (y \o z)
  BY <1>2, <1>3, <1>4
<1>10. c = 1 => Before(ss, c) = 0
  <2>1. ASSUME c = 1  PROVE Before(ss, c) = 0
    <3>1. SubSeq(ss, 1, c - 1) = <<>>
      BY <2>1
    <3>2. FlattenSeq(SubSeq(ss, 1, c - 1)) = <<>>
      BY <3>1, FlattenEmpty
    <3>3. QED
      BY <3>2 DEF Before
  <2>2. QED
    BY <2>1
<1>11. c = Len(ss) => z = <<>>
  <2>1. ASSUME c = Len(ss)  PROVE z = <<>>
    BY <1>1, <2>1, FromEnd
  <2>2. QED
    BY <2>1
<1> HIDE DEF x, y, z, all
<1>12. Len(x) \in Nat /\ Len(y) \in Nat /\ Len(z) \in Nat /\ Len(x \o y) = Len(x) + Len(y)
  BY <1>3, <1>4, <1>5
<1>13. Len(all) = Len(x) + Len(y) + Len(z)
       /\ \A k \in 1..Len(y) : all[Len(x) + k] = y[k]
  <2> DEFINE yz == y \o z
  <2>1. yz \in Seq(S) /\ Len(yz) = Len(y) + Len(z) /\ \A k \in 1..Len(y) : yz[k] = y[k]
    BY <1>4, <1>5, <1>12
  <2> HIDE DEF yz
  <2>2. /\ Len(x \o yz) = Len(x) + Len(yz)
        /\ \A k \in 1..Len(yz) : (x \o yz)[Len(x) + k] = yz[k]
    <3>1. Len(yz) \in Nat /\ Len(x) \in Nat
      BY <1>12, <2>1
    <3>2. /\ Len(x \o yz) = Len(x) + Len(yz)
          /\ \A i \in 1..(Len(x) + Len(yz)) : (x \o yz)[i] = IF i <= Len(x) THEN x[i] ELSE yz[i - Len(x)]
      <4>1. x \in Seq(S) /\ yz \in Seq(S)
        BY <1>3, <2>1
      <4>2. QED
        BY <4>1, <3>1
    <3>3. ASSUME NEW k \in 1..Len(yz)  PROVE (x \o yz)[Len(x) + k] = yz[k]
      <4>1. Len(x) + k \in 1..(Len(x) + Len(yz)) /\ ~ (Len(x) + k <= Len(x)) /\ (Len(x) + k) - Len(x) = k
        BY <3>1
      <4> DEFINE l == Len(x) + k
      <4>2. l \in 1..(Len(x) + Len(yz)) /\ ~ (l <= Len(x)) /\ l - Len(x) = k
        BY <4>1
      <4> HIDE DEF l
      <4>3. (x \o yz)[l] = yz[l - Len(x)]
        BY <3>2, <4>2
      <4>4. QED
        BY <4>2, <4>3 DEF l
    <3>4. QED
      BY <3>2, <3>3
  <2>3. QED
    BY <1>9, <1>12, <2>1, <2>2 DEF yz
<1>14. c = Len(ss) => Len(all) = Len(x) + Len(y)
  BY <1>11, <1>12, <1>13
<1>15. QED
  BY <1>7, <1>8, <1>10, <1>12, <1>13, <1>14, SMTT(30), ZenonT(30) DEF y, all

-------------------------------------------------------------------------------
(* The bytes of packages and categories *)

(* A package of a tree whose header is hdr. *)
Writable(p, hdr) ==
  /\ p \in Package /\ GoodHeader(hdr) /\ p.licenses \in ToSet(hdr.license_hash)
  /\ \A i \in 1..Len(p.versions) : VersionHashed(p.versions[i], hdr)

Parts(p, hdr) == EachBytes(PureItems(p, hdr)) \o <<Bytes(write_versions(p.versions, hdr))>>

PackageBlock(p, hdr) == Bytes(write_package(p, hdr))

Blocks(ps, hdr) == [k \in 1..Len(ps) |-> PackageBlock(ps[k], hdr)]

(* Before anything is read, everything is left. *)
LEMMA AllIsFrom ==
  ASSUME NEW S, NEW ss \in Seq(Seq(S))
  PROVE  From(ss, 0) = FlattenSeq(ss)
<1>1. SubSeq(ss, 0 + 1, Len(ss)) = ss
  <2> DEFINE T == Seq(S)
             t == SubSeq(ss, 1, Len(ss))
  <2>1. ss \in Seq(T)
    OBVIOUS
  <2>2. t \in Seq(T) /\ Len(t) = Len(ss) /\ \A i \in 1..Len(t) : t[i] = ss[i]
    <3> HIDE DEF T
    <3>1. QED
      BY <2>1
  <2> HIDE DEF T, t
  <2>3. t = ss
    BY <2>1, <2>2, SeqEqual
  <2>4. QED
    BY <2>3 DEF t
<1>2. QED
  BY <1>1 DEF From

(* A package that can be written stands in some file. *)
LEMMA WritableIn ==
  ASSUME NEW p, NEW hdr, Writable(p, hdr)
  PROVE  \E f, use : PackageIn(f, p, hdr, hdr, use)
<1> DEFINE f == <<>>
           u == [depend |-> TRUE, required_use |-> TRUE, src_uri |-> TRUE]
<1>1. f \in Seq(Byte) /\ u \in UseOptions
  BY DEF UseOptions
<1>2. SameHeader(hdr, hdr, u)
  BY DEF SameHeader
<1> HIDE DEF f, u
<1>3. PackageIn(f, p, hdr, hdr, u)
  BY <1>1, <1>2 DEF PackageIn, Writable
<1>4. QED
  BY <1>3

(* The five parts in which a package is written and which PackageReader reads one by one, and the block
   made of them behind its length. *)
LEMMA PartsAre ==
  ASSUME NEW p, NEW hdr, Writable(p, hdr)
  PROVE  /\ PureItems(p, hdr) \in Seq(Seq(Item)) /\ Len(PureItems(p, hdr)) = 4
         /\ EachBytes(PureItems(p, hdr)) \in Seq(Seq(Byte)) /\ Len(EachBytes(PureItems(p, hdr))) = 4
         /\ Parts(p, hdr) \in Seq(Seq(Byte)) /\ Len(Parts(p, hdr)) = 5
         /\ \A i \in 1..4 : Parts(p, hdr)[i] = EachBytes(PureItems(p, hdr))[i]
         /\ Parts(p, hdr)[5] = Bytes(write_versions(p.versions, hdr))
         /\ write_versions(p.versions, hdr) \in Seq(Item)
         /\ write_package(p, hdr) \in Seq(Item)
         /\ PackageBlock(p, hdr) = write_num(Len(From(Parts(p, hdr), 0))) \o From(Parts(p, hdr), 0)
         /\ From(Parts(p, hdr), 0) \in Seq(Byte)
<1> DEFINE iss == PureItems(p, hdr)
           vi == write_versions(p.versions, hdr)
           a == EachBytes(iss)
           b == Bytes(vi)
           ab == Parts(p, hdr)
<1>1. PICK f, use : PackageIn(f, p, hdr, hdr, use)
  BY WritableIn
<1>2. iss \in Seq(Seq(Item)) /\ Len(iss) = 4
  <2>1. ItemsOf(PureFields(hdr), f, iss, p, FieldName)
    BY <1>1, PureOf
  <2>2. Len(iss) = 4
    BY DEF PureItems
  <2>3. QED
    BY <2>1, <2>2 DEF ItemsOf
<1>3. vi \in Seq(Item)
  BY <1>1, VersionsRead
<1>4. write_package_pure(p, hdr) = FlattenSeq(iss) \o vi
  BY DEF write_package_pure, PureItems
<1> HIDE DEF iss, vi
<1>5. a \in Seq(Seq(Byte)) /\ Len(a) = 4
  BY <1>2, EachBytesType
<1>6. b \in Seq(Byte)
  BY <1>3, BytesType
<1>7. ab = a \o <<b>>
  BY DEF Parts, iss, vi
<1> DEFINE fi == FlattenSeq(iss)
           fa == FlattenSeq(a)
<1>8. fi \in Seq(Item) /\ Bytes(fi) = fa
  BY <1>2, FlattenType, BytesFlatten
<1> HIDE DEF a, b, ab
<1>9. <<b>> \in Seq(Seq(Byte)) /\ FlattenSeq(<<b>>) = b /\ fa \in Seq(Byte)
  BY <1>5, <1>6, FlattenOne, FlattenType
<1>10. /\ ab \in Seq(Seq(Byte)) /\ Len(ab) = 5 /\ ab[5] = b
       /\ \A i \in 1..4 : ab[i] = a[i]
  <2> DEFINE T == Seq(Byte)
             c == a \o <<b>>
  <2>1. a \in Seq(T) /\ b \in T
    BY <1>5, <1>6
  <2> HIDE DEF T
  <2> DEFINE o == <<b>>
  <2>4. o \in Seq(T) /\ Len(o) = 1 /\ o[1] = b
    BY <2>1
  <2> HIDE DEF o
  <2>5. /\ a \o o \in Seq(T) /\ Len(a \o o) = Len(a) + Len(o)
        /\ \A i \in 1..(Len(a) + Len(o)) : (a \o o)[i] = IF i <= Len(a) THEN a[i] ELSE o[i - Len(a)]
    BY <2>1, <2>4, ConcatElements
  <2>2. /\ c \in Seq(T) /\ Len(c) = 5 /\ c[5] = b
        /\ \A i \in 1..4 : c[i] = a[i]
    <3>1. a \o o \in Seq(T) /\ Len(a \o o) = 5 /\ Len(a) = 4
      BY <2>4, <2>5, <1>5
    <3>2. (a \o o)[5] = b
      BY <2>4, <2>5, <3>1
    <3>3. \A i \in 1..4 : (a \o o)[i] = a[i]
      BY <2>4, <2>5, <3>1
    <3>4. QED
      BY <3>1, <3>2, <3>3 DEF o
  <2>3. QED
    BY <2>2, <1>7 DEF T
<1>11. FlattenSeq(ab) = fa \o b
  <2> DEFINE bb == <<b>>
  <2>1. bb \in Seq(Seq(Byte)) /\ FlattenSeq(bb) = b
    BY <1>9
  <2> HIDE DEF bb
  <2>2. FlattenSeq(a \o bb) = FlattenSeq(a) \o FlattenSeq(bb)
    BY <1>5, <2>1, FlattenConcat
  <2>3. QED
    BY <1>7, <2>1, <2>2 DEF bb
<1>12. From(ab, 0) = fa \o b
  BY <1>10, <1>11, AllIsFrom
<1> HIDE DEF fi, fa
<1> DEFINE items == fi \o vi
<1>13. items \in Seq(Item) /\ Bytes(items) = fa \o b
  <2>1. Bytes(items) = Bytes(fi) \o Bytes(vi)
    BY <1>3, <1>8, BytesConcat
  <2>2. items \in Seq(Item)
    BY <1>3, <1>8
  <2>3. QED
    BY <2>1, <2>2, <1>8 DEF b
<1>14. write_package(p, hdr) = WRITE_COUNTER(items)
  BY <1>4 DEF write_package, fi
<1> HIDE DEF items
<1>15. /\ WRITE_COUNTER(items) \in Seq(Item) /\ Bytes(items) \in Seq(Byte)
       /\ Bytes(WRITE_COUNTER(items)) = write_num(Len(Bytes(items))) \o Bytes(items)
  BY <1>13, CountedBytes
<1>16. From(ab, 0) = Bytes(items)
  BY <1>12, <1>13
<1>17. QED
  BY <1>2, <1>3, <1>5, <1>10, <1>14, <1>15, <1>16 DEF PackageBlock, a, b, ab, iss, vi

(* A category is its header and then the blocks of its packages. *)
LEMMA CategoryBytes ==
  ASSUME NEW c \in Category, NEW hdr, \A k \in 1..Len(c.packages) : Writable(c.packages[k], hdr)
  PROVE  /\ c.name \in ByteString /\ Len(c.packages) \in Nat
         /\ Blocks(c.packages, hdr) \in Seq(Seq(Byte)) /\ Len(Blocks(c.packages, hdr)) = Len(c.packages)
         /\ write_category(c, hdr) \in Seq(Item)
         /\ Bytes(write_category_header(c.name, Len(c.packages))) \in Seq(Byte)
         /\ Bytes(write_category(c, hdr))
              = Bytes(write_category_header(c.name, Len(c.packages))) \o From(Blocks(c.packages, hdr), 0)
<1> DEFINE ps == c.packages
           n == Len(ps)
           iss == [k \in 1..n |-> write_package(ps[k], hdr)]
           hi == write_category_header(c.name, n)
           bs == Blocks(ps, hdr)
<1>1. c.name \in ByteString /\ ps \in Seq(Package) /\ n \in Nat /\ DOMAIN ps = 1..n
  BY DEF Category
<1>2. \A k \in 1..n : write_package(ps[k], hdr) \in Seq(Item)
  <2>1. ASSUME NEW k \in 1..n  PROVE write_package(ps[k], hdr) \in Seq(Item)
    <3> DEFINE p == ps[k]
    <3>1. Writable(p, hdr)
      OBVIOUS
    <3> HIDE DEF p
    <3>2. write_package(p, hdr) \in Seq(Item)
      BY <3>1, PartsAre
    <3>3. QED
      BY <3>2 DEF p
  <2>2. QED
    BY <2>1
<1>3. hi \in Seq(Item)
  <2> DEFINE f == <<>>
  <2>1. f \in Seq(Byte)
    OBVIOUS
  <2> HIDE DEF f, n
  <2>2. QED
    BY <1>1, <2>1, CategoryReads
<1>4. write_category(c, hdr) = hi \o FlattenSeq(iss)
  BY <1>1 DEF write_category, WriteAll
<1>5. EachBytes(iss) = bs
  BY DEF EachBytes, Blocks, PackageBlock
<1> HIDE DEF ps, hi, bs, n
<1>6. iss \in Seq(Seq(Item)) /\ Len(iss) = n
  BY <1>1, <1>2
<1> HIDE DEF iss
<1> DEFINE fi == FlattenSeq(iss)
<1>7. fi \in Seq(Item) /\ Bytes(fi) = FlattenSeq(bs) /\ bs \in Seq(Seq(Byte)) /\ Len(bs) = n
  BY <1>5, <1>6, FlattenType, BytesFlatten, EachBytesType
<1> HIDE DEF fi
<1>8. hi \o fi \in Seq(Item) /\ Bytes(hi \o fi) = Bytes(hi) \o Bytes(fi)
  <2>1. Bytes(hi \o fi) = Bytes(hi) \o Bytes(fi)
    BY <1>3, <1>7, BytesConcat
  <2>2. hi \o fi \in Seq(Item)
    BY <1>3, <1>7
  <2>3. QED
    BY <2>1, <2>2
<1>9. From(bs, 0) = FlattenSeq(bs)
  BY <1>7, AllIsFrom
<1>10. Bytes(hi) \in Seq(Byte)
  BY <1>3, BytesType
<1>11. QED
  BY <1>1, <1>4, <1>7, <1>8, <1>9, <1>10 DEF ps, hi, bs, n, fi

(* All packages of a tree can be written with its header. *)
Cats(t, hdr) == [c \in 1..Len(t) |-> Bytes(write_category(t[c], hdr))]

(* The tree is its categories one after the other. *)
LEMMA TreeBytes ==
  ASSUME NEW t \in Seq(Category), NEW hdr,
         \A c \in 1..Len(t) : \A k \in 1..Len(t[c].packages) : Writable(t[c].packages[k], hdr)
  PROVE  /\ Cats(t, hdr) \in Seq(Seq(Byte)) /\ Len(Cats(t, hdr)) = Len(t) /\ Len(t) \in Nat
         /\ write_packagetree(t, hdr) \in Seq(Item)
         /\ Bytes(write_packagetree(t, hdr)) = From(Cats(t, hdr), 0)
<1> DEFINE n == Len(t)
           iss == [c \in 1..n |-> write_category(t[c], hdr)]
           bs == Cats(t, hdr)
<1>1. n \in Nat /\ DOMAIN t = 1..n /\ \A c \in 1..n : t[c] \in Category
  OBVIOUS
<1>2. \A c \in 1..n : write_category(t[c], hdr) \in Seq(Item)
  <2>1. ASSUME NEW k \in 1..n  PROVE write_category(t[k], hdr) \in Seq(Item)
    <3> DEFINE c == t[k]
    <3>1. c \in Category /\ \A j \in 1..Len(c.packages) : Writable(c.packages[j], hdr)
      BY <1>1
    <3> HIDE DEF c
    <3>2. write_category(c, hdr) \in Seq(Item)
      BY <3>1, CategoryBytes
    <3>3. QED
      BY <3>2 DEF c
  <2>2. QED
    BY <2>1
<1>3. write_packagetree(t, hdr) = FlattenSeq(iss)
  BY <1>1 DEF write_packagetree, WriteAll
<1>4. EachBytes(iss) = bs
  BY DEF EachBytes, Cats
<1> HIDE DEF bs, n
<1>5. iss \in Seq(Seq(Item)) /\ Len(iss) = n
  BY <1>1, <1>2
<1> HIDE DEF iss
<1>6. FlattenSeq(iss) \in Seq(Item) /\ Bytes(FlattenSeq(iss)) = FlattenSeq(bs) /\ bs \in Seq(Seq(Byte)) /\ Len(bs) = n
  BY <1>4, <1>5, FlattenType, BytesFlatten, EachBytesType
<1>7. From(bs, 0) = FlattenSeq(bs)
  BY <1>6, AllIsFrom
<1>8. QED
  BY <1>1, <1>3, <1>6, <1>7 DEF bs, n

-------------------------------------------------------------------------------
(* Reading attributes *)

PureNames == {"name", "desc", "homepage", "licenses"}

(* The fields in a that have been read of the package p, of the category cat. *)
HoldsPackage(a, p, cat, use) ==
  /\ "category" \in DOMAIN a /\ DOMAIN a \subseteq PureNames \cup {"category", "versions"}
  /\ a["category"] = cat
  /\ \A n \in DOMAIN a : n \in PureNames => a[n] = p[n]
  /\ "versions" \in DOMAIN a => SameVersions(a["versions"], p.versions, use)

(* A package that is read further still holds what was written. *)
LEMMA HoldsMore ==
  ASSUME NEW a, NEW p, NEW cat, NEW use, HoldsPackage(a, p, cat, use), NEW r,
         DOMAIN r \subseteq PureNames, \A n \in DOMAIN r : r[n] = p[n]
  PROVE  /\ HoldsPackage(With(a, r), p, cat, use)
         /\ "versions" \in DOMAIN a => "versions" \in DOMAIN With(a, r)
<1>1. /\ "category" \in DOMAIN a /\ DOMAIN a \subseteq PureNames \cup {"category", "versions"}
      /\ a["category"] = cat
      /\ \A n \in DOMAIN a : n \in PureNames => a[n] = p[n]
      /\ "versions" \in DOMAIN a => SameVersions(a["versions"], p.versions, use)
  BY DEF HoldsPackage
<1> DEFINE b == With(a, r)
<1>2. DOMAIN b = DOMAIN a \cup DOMAIN r /\ \A n \in DOMAIN b : b[n] = IF n \in DOMAIN r THEN r[n] ELSE a[n]
  BY DEF With
<1>3. "category" \notin DOMAIN r /\ "versions" \notin DOMAIN r
  BY DEF PureNames
<1> HIDE DEF b
<1>4. "category" \in DOMAIN b /\ DOMAIN b \subseteq PureNames \cup {"category", "versions"}
  BY <1>1, <1>2
<1>5. b["category"] = cat
  BY <1>1, <1>2, <1>3, <1>4
<1>6. \A n \in DOMAIN b : n \in PureNames => b[n] = p[n]
  BY <1>1, <1>2
<1>7. "versions" \in DOMAIN b => SameVersions(b["versions"], p.versions, use)
  BY <1>1, <1>2, <1>3
<1>8. "versions" \in DOMAIN a => "versions" \in DOMAIN b
  BY <1>2
<1>9. QED
  BY <1>4, <1>5, <1>6, <1>7, <1>8 DEF HoldsPackage, b

(* A package whose versions are read holds what was written, and is complete. *)
LEMMA HoldsVersions ==
  ASSUME NEW a, NEW p, NEW cat, NEW use, HoldsPackage(a, p, cat, use), NEW vs,
         SameVersions(vs, p.versions, use)
  PROVE  /\ HoldsPackage(With(a, [versions |-> vs]), p, cat, use)
         /\ "versions" \in DOMAIN With(a, [versions |-> vs])
<1>1. /\ "category" \in DOMAIN a /\ DOMAIN a \subseteq PureNames \cup {"category", "versions"}
      /\ a["category"] = cat
      /\ \A n \in DOMAIN a : n \in PureNames => a[n] = p[n]
  BY DEF HoldsPackage
<1> DEFINE r == [versions |-> vs]
           b == With(a, r)
<1>2. DOMAIN b = DOMAIN a \cup DOMAIN r /\ \A n \in DOMAIN b : b[n] = IF n \in DOMAIN r THEN r[n] ELSE a[n]
  BY DEF With
<1>3. DOMAIN r = {"versions"} /\ r["versions"] = vs /\ "category" \notin DOMAIN r /\ "versions" \notin PureNames
  BY DEF PureNames
<1> HIDE DEF b, r
<1>4. "category" \in DOMAIN b /\ DOMAIN b \subseteq PureNames \cup {"category", "versions"}
  BY <1>1, <1>2, <1>3
<1>5. b["category"] = cat
  BY <1>1, <1>2, <1>3, <1>4
<1>6. \A n \in DOMAIN b : n \in PureNames => b[n] = p[n]
  BY <1>1, <1>2, <1>3
<1>7. "versions" \in DOMAIN b /\ b["versions"] = vs
  BY <1>2, <1>3
<1>8. QED
  BY <1>4, <1>5, <1>6, <1>7 DEF HoldsPackage, b, r

PureIs(r, f, q, w, x, p) ==
  /\ Reads(x, f, q + Len(w), r)
  /\ DOMAIN r \subseteq PureNames /\ \A n \in DOMAIN r : r[n] = p[n]

(* The fields of a package from one stage to another are read as written. *)
LEMMA PureRead ==
  ASSUME NEW f, NEW p, NEW hdr, NEW h, NEW use, PackageIn(f, p, hdr, h, use),
         NEW i \in Nat \ {0}, NEW j \in Nat, j <= 4, NEW q \in Nat,
         Occurs(FlattenSeq(SubSeq(EachBytes(PureItems(p, hdr)), i, j)), f, q)
  PROVE  \E r : PureIs(r, f, q, FlattenSeq(SubSeq(EachBytes(PureItems(p, hdr)), i, j)),
                       ReadRecord(SubSeq(PureFields(h), i, j), f, q), p)
<1> DEFINE fields == PureFields(h)
           iss == PureItems(p, hdr)
           ws == EachBytes(iss)
           fs == SubSeq(fields, i, j)
           us == SubSeq(ws, i, j)
<1>1. FieldsRead(fields, f, ws, p, FieldName)
  BY PureOf, ItemsRead
<1>2. Len(fields) = 4 /\ Names(fields) = PureNames
  <2>1. Len(fields) = 4 /\ DOMAIN fields = {1, 2, 3, 4}
    BY DEF PureFields
  <2>2. fields[1][1] = "name" /\ fields[2][1] = "desc" /\ fields[3][1] = "homepage" /\ fields[4][1] = "licenses"
    BY DEF PureFields
  <2> HIDE DEF fields
  <2>3. Names(fields) = {fields[1][1], fields[2][1], fields[3][1], fields[4][1]}
    BY <2>1 DEF Names
  <2>4. QED
    BY <2>1, <2>2, <2>3 DEF PureNames
<1> HIDE DEF fields, iss, ws
<1>3. FieldsRead(fs, f, us, p, FieldName)
  BY <1>1, <1>2, FieldsSome
<1>4. fields \in Seq(Field)
  BY <1>1, FieldsWrittenType
<1>5. Names(fs) \subseteq Names(fields)
  <2>1. \A k \in DOMAIN fs : \E l \in DOMAIN fields : fs[k] = fields[l]
    <3>1. ASSUME NEW k \in DOMAIN fs  PROVE \E l \in DOMAIN fields : fs[k] = fields[l]
      <4>1. Len(fields) = 4 /\ DOMAIN fields = 1..4
        BY <1>2, <1>4
      <4>2. i + k - 1 \in 1..4 /\ fs[k] = fields[i + k - 1]
        BY <1>2, <1>4, <3>1, SMTT(30), ZenonT(30)
      <4>3. QED
        BY <4>1, <4>2
    <3>2. QED
      BY <3>1
  <2>2. QED
    BY <2>1 DEF Names
<1>6. f \in Seq(Byte)
  BY DEF PackageIn
<1> HIDE DEF fs, us
<1>7. PICK r : /\ Decodes(RecordReader(fs, f), f, FlattenSeq(us), r)
               /\ DOMAIN r = Names(fs)
               /\ \A n \in DOMAIN r : n \in FieldName => r[n] = p[n]
  BY <1>3, <1>6, RecordReads
<1>8. PureNames \subseteq FieldName
  BY DEF PureNames, FieldName
<1>9. Occurs(FlattenSeq(us), f, q)
  BY DEF us, ws, iss
<1>10. Reads(ReadRecord(fs, f, q), f, q + Len(FlattenSeq(us)), r)
  <2>1. Reads(RecordReader(fs, f)[q], f, q + Len(FlattenSeq(us)), r)
    BY <1>7, <1>9 DEF Decodes
  <2>2. RecordReader(fs, f)[q] = ReadRecord(fs, f, q)
    BY DEF RecordReader
  <2>3. QED
    BY <2>1, <2>2
<1>11. DOMAIN r \subseteq PureNames /\ \A n \in DOMAIN r : r[n] = p[n]
  BY <1>2, <1>5, <1>7, <1>8
<1>12. PureIs(r, f, q, FlattenSeq(us), ReadRecord(fs, f, q), p)
  BY <1>10, <1>11 DEF PureIs
<1>13. QED
  BY <1>12 DEF fs, us, ws, iss, fields

(* The elements of a subsequence. *)
LEMMA SubSeqIs ==
  ASSUME NEW T, NEW s \in Seq(T), NEW k \in Nat, NEW m \in Nat, m <= Len(s)
  PROVE  LET x == SubSeq(s, k + 1, m)
         IN  /\ x \in Seq(T) /\ Len(x) = (IF k <= m THEN m - k ELSE 0)
             /\ \A i \in 1..Len(x) : x[i] = s[k + i]
<1> DEFINE x == SubSeq(s, k + 1, m)
<1>0. Len(s) \in Nat
  OBVIOUS
<1>1. CASE k <= m
  <2>1. Len(x) = m - k
    BY <1>0, <1>1
  <2>2. \A i \in 1..(m - k) : x[i] = s[k + i]
    BY <1>0, <1>1
  <2>3. x \in Seq(T)
    BY <1>0, <1>1
  <2>4. QED
    BY <1>1, <2>1, <2>2, <2>3
<1>2. CASE ~ (k <= m)
  <2>1. x = <<>>
    BY <1>0, <1>2
  <2>2. QED
    BY <1>2, <2>1
<1>3. QED
  BY <1>1, <1>2

(* The first four parts of a package are the bytes of its fields. *)
LEMMA PartsPure ==
  ASSUME NEW p, NEW hdr, Writable(p, hdr), NEW k \in Nat, NEW m \in Nat, m <= 4
  PROVE  SubSeq(Parts(p, hdr), k + 1, m) = SubSeq(EachBytes(PureItems(p, hdr)), k + 1, m)
<1> DEFINE a == EachBytes(PureItems(p, hdr))
           b == Parts(p, hdr)
           T == Seq(Byte)
           x == SubSeq(b, k + 1, m)
           y == SubSeq(a, k + 1, m)
<1>1. /\ a \in Seq(T) /\ Len(a) = 4 /\ b \in Seq(T) /\ Len(b) = 5
      /\ \A i \in 1..4 : b[i] = a[i]
  BY PartsAre
<1> HIDE DEF a, b, T
<1>2. x \in Seq(T) /\ Len(x) = (IF k <= m THEN m - k ELSE 0) /\ \A i \in 1..Len(x) : x[i] = b[k + i]
  <2>1. m <= Len(b) /\ b \in Seq(T)
    BY <1>1
  <2>2. QED
    BY <2>1, SubSeqIs
<1>3. y \in Seq(T) /\ Len(y) = (IF k <= m THEN m - k ELSE 0) /\ \A i \in 1..Len(y) : y[i] = a[k + i]
  <2>1. m <= Len(a) /\ a \in Seq(T)
    BY <1>1
  <2>2. QED
    BY <2>1, SubSeqIs
<1> HIDE DEF x, y
<1>4. \A i \in 1..Len(x) : x[i] = y[i]
  <2>1. ASSUME NEW i \in 1..Len(x)  PROVE x[i] = y[i]
    <3>1. k <= m /\ k + i \in 1..4 /\ i \in 1..Len(y)
      BY <1>2, <1>3
    <3>2. QED
      BY <3>1, <1>1, <1>2, <1>3
  <2>2. QED
    BY <2>1
<1>5. x = y
  BY <1>2, <1>3, <1>4, SeqEqual
<1>6. QED
  BY <1>5 DEF x, y, a, b

Reached(need) == IF have >= need THEN have ELSE need

(* The reader is at the package p, of the category cat. *)
Reading(p, h, cat) ==
  /\ PackageIn(file, p, h, header, options[2]) /\ Writable(p, h)
  /\ have \in {0, 1, 2, 3, 4, 5, 7} /\ pos \in Nat
  /\ HoldsPackage(pkg, p, cat, options[2])
  /\ have >= 5 => "versions" \in DOMAIN pkg
  /\ Occurs(From(Parts(p, h), have), file, pos)

(* The bytes x are read, as a part of the package. *)
AttributesAre(need, x, a, p, h, cat) ==
  /\ x \in Seq(Byte) /\ From(Parts(p, h), have) = x \o From(Parts(p, h), Reached(need))
  /\ Reads(Attributes(need), file, pos + Len(x), a)
  /\ HoldsPackage(a, p, cat, options[2])
  /\ Reached(need) >= 5 => "versions" \in DOMAIN a

(* Nothing of a package is left behind its fifth part. *)
LEMMA PartsEnd ==
  ASSUME NEW p, NEW h, Writable(p, h), NEW k \in Nat, k >= 5
  PROVE  From(Parts(p, h), k) = <<>>
<1>1. Len(Parts(p, h)) = 5
  BY PartsAre
<1> DEFINE ab == Parts(p, h)
<1> HIDE DEF ab
<1>2. Len(ab) \in Nat /\ k >= Len(ab)
  BY <1>1 DEF ab
<1>3. From(ab, k) = <<>>
  BY <1>2, FromEnd
<1>4. QED
  BY <1>3 DEF ab

(* What is read before the versions. *)
FirstFields(need) == IF need > 4 THEN 4 ELSE need

(* Reading the fields up to a stage takes exactly the bytes of these parts. *)
LEMMA FirstRead ==
  ASSUME NEW p, NEW h, NEW cat, Reading(p, h, cat), NEW need \in 1..7, have < need
  PROVE  \E r, y : /\ PureIs(r, file, pos, y, ReadRecord(PackageFields(have, need), file, pos), p)
                   /\ y \in Seq(Byte)
                   /\ have < 5 => From(Parts(p, h), have) = y \o From(Parts(p, h), FirstFields(need))
                   /\ have >= 5 => y = <<>>
<1> DEFINE ab == Parts(p, h)
           m == FirstFields(need)
           use == options[2]
           y == FlattenSeq(SubSeq(ab, have + 1, m))
           z == FlattenSeq(SubSeq(EachBytes(PureItems(p, h)), have + 1, m))
<1>1. /\ PackageIn(file, p, h, header, use) /\ Writable(p, h)
      /\ have \in {0, 1, 2, 3, 4, 5, 7} /\ pos \in Nat
      /\ Occurs(From(ab, have), file, pos)
  BY DEF Reading
<1>2. ab \in Seq(Seq(Byte)) /\ Len(ab) = 5
  BY <1>1, PartsAre
<1>3. m \in 1..4 /\ have \in Nat /\ have + 1 \in Nat \ {0} /\ m <= Len(ab) /\ m \in Nat /\ m <= 4
      /\ (have < 5 => have <= m)
  BY <1>1, <1>2 DEF FirstFields
<1>4. PackageFields(have, need) = SubSeq(PureFields(header), have + 1, m)
  BY DEF PackageFields, PureFields, FirstFields, LICENSE
<1> HIDE DEF m
<1>5. y = z
  <2>1. SubSeq(ab, have + 1, m) = SubSeq(EachBytes(PureItems(p, h)), have + 1, m)
    <3>1. have \in Nat /\ m \in Nat /\ m <= 4 /\ Writable(p, h)
      BY <1>1, <1>3
    <3> DEFINE k == have
    <3> HIDE DEF k
    <3>2. SubSeq(Parts(p, h), k + 1, m) = SubSeq(EachBytes(PureItems(p, h)), k + 1, m)
      BY ONLY <3>1, PartsPure DEF k
    <3>3. QED
      BY <3>2 DEF k
  <2>2. QED
    BY <2>1
<1> HIDE DEF ab
<1>6. have < 5 => From(ab, have) = y \o From(ab, m) /\ y \in Seq(Byte)
  BY <1>2, <1>3, FromSplit
<1>7. have >= 5 => y = <<>>
  <2>1. ASSUME have >= 5  PROVE y = <<>>
    <3>1. SubSeq(ab, have + 1, m) = <<>>
      BY <2>1, <1>2, <1>3
    <3>2. QED
      BY <3>1, FlattenEmpty
  <2>2. QED
    BY <2>1
<1>8. y \in Seq(Byte)
  <2>1. <<>> \in Seq(Byte)
    OBVIOUS
  <2> HIDE DEF y
  <2>2. CASE have < 5
    BY <2>2, <1>6
  <2>3. CASE have >= 5
    BY <2>3, <1>7, <2>1
  <2>4. QED
    BY <1>3, <2>2, <2>3
<1>9. Occurs(y, file, pos)
  <2>1. CASE have < 5
    <3> DEFINE w == From(ab, m)
    <3>1. w \in Seq(Byte)
      BY <1>2, <1>3, FromType
    <3>2. Occurs(y \o w, file, pos)
      BY <1>1, <1>6, <2>1
    <3>3. file \in Seq(Byte)
      BY <1>1 DEF PackageIn
    <3> HIDE DEF y, w
    <3>4. QED
      BY <1>1, <1>8, <3>1, <3>2, <3>3, OccursConcat
  <2>2. CASE have >= 5
    BY <2>2, <1>7 DEF Occurs
  <2>3. QED
    BY <1>3, <2>1, <2>2
<1>10. \E r : PureIs(r, file, pos, z, ReadRecord(SubSeq(PureFields(header), have + 1, m), file, pos), p)
  <2>1. Occurs(z, file, pos)
    BY <1>5, <1>9
  <2> DEFINE i == have + 1
  <2>2. i \in Nat \ {0}
    BY <1>3
  <2> HIDE DEF i, use
  <2>3. Occurs(FlattenSeq(SubSeq(EachBytes(PureItems(p, h)), i, m)), file, pos)
    BY <2>1 DEF i
  <2>4. \E r : PureIs(r, file, pos, FlattenSeq(SubSeq(EachBytes(PureItems(p, h)), i, m)),
                      ReadRecord(SubSeq(PureFields(header), i, m), file, pos), p)
    BY <1>1, <1>3, <2>2, <2>3, PureRead
  <2>5. QED
    BY <2>4 DEF i
<1>11. QED
  BY <1>4, <1>5, <1>6, <1>7, <1>8, <1>10 DEF ab, m

(* From every stage of reading a package, Attributes(need) finds exactly the fields that were written for
   the stages in between and leaves the position behind exactly their bytes; it fails only if the file ends
   in the middle of them (PackageReader::read and its helpers against Database::write_package_pure). *)
THEOREM AttributesRead ==
  ASSUME NEW p, NEW h, NEW cat, Reading(p, h, cat), NEW need \in 1..7
  PROVE  \E x, a : AttributesAre(need, x, a, p, h, cat)
<1> DEFINE ab == Parts(p, h)
           use == options[2]
           to == Reached(need)
           r1 == ReadRecord(PackageFields(have, need), file, pos)
           r == Attributes(need)
<1>1. /\ PackageIn(file, p, h, header, use) /\ Writable(p, h)
      /\ have \in {0, 1, 2, 3, 4, 5, 7} /\ pos \in Nat
      /\ HoldsPackage(pkg, p, cat, use)
      /\ have >= 5 => "versions" \in DOMAIN pkg
      /\ Occurs(From(ab, have), file, pos)
  BY DEF Reading
<1>2. ab \in Seq(Seq(Byte)) /\ Len(ab) = 5 /\ file \in Seq(Byte) /\ have \in Nat
  <2>1. ab \in Seq(Seq(Byte)) /\ Len(ab) = 5
    BY <1>1, PartsAre
  <2>2. file \in Seq(Byte)
    BY <1>1 DEF PackageIn
  <2>3. QED
    BY <1>1, <2>1, <2>2
<1>3. to \in Nat /\ need \in Nat
  BY <1>2 DEF Reached
<1>4. From(ab, have) \in Seq(Byte) /\ From(ab, to) \in Seq(Byte)
  <2> HIDE DEF ab, to
  <2>1. QED
    BY <1>2, <1>3, FromType
<1>5. CASE have >= need
  <2> DEFINE x == <<>>
             u == From(ab, have)
  <2>1. r = Got(pos, pkg) /\ to = have
    BY <1>5 DEF Attributes, Reached
  <2>2. x \in Seq(Byte) /\ u = x \o u /\ pos + Len(x) = pos
    BY <1>1, <1>4
  <2> HIDE DEF x
  <2>3. Reads(r, file, pos + Len(x), pkg)
    BY <2>1, <2>2 DEF Reads
  <2>4. AttributesAre(need, x, pkg, p, h, cat)
    BY <1>1, <2>1, <2>2, <2>3 DEF AttributesAre
  <2>5. QED
    BY <2>4
<1>6. CASE have < need
  <2>1. PICK fields, y :
          /\ PureIs(fields, file, pos, y, r1, p)
          /\ y \in Seq(Byte)
          /\ have < 5 => From(ab, have) = y \o From(ab, FirstFields(need))
          /\ have >= 5 => y = <<>>
    BY <1>6, FirstRead
  <2> DEFINE b == With(pkg, fields)
             d == pos + Len(y)
  <2>2. HoldsPackage(b, p, cat, use) /\ ("versions" \in DOMAIN pkg => "versions" \in DOMAIN b)
    <3>1. DOMAIN fields \subseteq PureNames /\ \A n \in DOMAIN fields : fields[n] = p[n]
      BY <2>1 DEF PureIs
    <3>2. QED
      BY <1>1, <3>1, HoldsMore
  <2>3. Reads(r1, file, d, fields) /\ d \in Nat /\ Len(y) \in Nat
    BY <1>1, <2>1 DEF PureIs
  <2>4. to = need
    BY <1>6, <1>2, <1>3 DEF Reached
  <2>5. r = IF r1.ok THEN IF have < 5 /\ need >= 5
                            THEN LET s == read_versions(file, r1.pos, header, use)
                                 IN  IF s.ok THEN Got(s.pos, With(With(pkg, r1.val), [versions |-> s.val])) ELSE s
                            ELSE Got(r1.pos, With(pkg, r1.val))
                     ELSE r1
    BY <1>2, <1>3, <1>6 DEF Attributes, Then, VERSIONS
  <2>6. CASE ~ (have < 5 /\ need >= 5)
    <3>1. r1 = Got(d, fields) => Reads(r, file, d, b)
      <4>1. ASSUME r1 = Got(d, fields)  PROVE Reads(r, file, d, b)
        <5>1. r1.ok /\ r1.pos = d /\ r1.val = fields
          BY <4>1 DEF Got
        <5> HIDE DEF r, r1
        <5>2. r = Got(d, b)
          BY <2>5, <2>6, <5>1
        <5>3. QED
          BY <5>2 DEF Reads
      <4>2. QED
        BY <4>1
    <3>2. ~ r1.ok => r = r1
      <4> HIDE DEF r, r1
      <4>1. QED
        BY <2>5
    <3>3. Reads(r, file, d, b)
      <4> HIDE DEF r, r1, d, b
      <4>1. QED
        BY <1>2, <2>3, <3>1, <3>2, ReadsThen
    <3>4. From(ab, have) = y \o From(ab, to)
      <4>1. CASE have < 5
        <5>1. FirstFields(need) = to
          BY <2>4, <2>6, <4>1, <1>3 DEF FirstFields
        <5>2. QED
          BY <2>1, <4>1, <5>1
      <4>2. CASE have >= 5
        <5>1. to >= 5
          BY <2>4, <1>6, <4>2, <1>2, <1>3
        <5>2. From(ab, have) = <<>> /\ From(ab, to) = <<>>
          <6> HIDE DEF to
          <6>1. QED
            BY <1>1, <1>2, <1>3, <4>2, <5>1, PartsEnd
        <5>3. QED
          BY <2>1, <4>2, <5>2
      <4>3. QED
        BY <4>1, <4>2, <1>2
    <3>5. to >= 5 => "versions" \in DOMAIN b
      BY <1>1, <1>2, <1>3, <2>2, <2>4, <2>6
    <3>6. AttributesAre(need, y, b, p, h, cat)
      BY <2>1, <2>2, <3>3, <3>4, <3>5 DEF AttributesAre
    <3>7. QED
      BY <3>6
  <2>7. CASE have < 5 /\ need >= 5
    <3> DEFINE v == ab[5]
               x == From(ab, have)
               e == pos + Len(x)
               vi == write_versions(p.versions, h)
               r2 == read_versions(file, d, header, use)
    <3>1. FirstFields(need) = 4
      BY <2>7, <1>3 DEF FirstFields
    <3>2. From(ab, 4) = v /\ v \in Seq(Byte)
      <4> HIDE DEF ab
      <4>1. From(ab, 4) = ab[4 + 1] \o From(ab, 4 + 1) /\ ab[4 + 1] \in Seq(Byte)
        <5>1. 4 \in Nat /\ 4 < Len(ab)
          BY <1>2
        <5>2. QED
          BY <1>2, <5>1, FromNext
      <4>2. From(ab, 5) = <<>>
        <5>1. 5 \in Nat /\ 5 >= 5
          OBVIOUS
        <5>2. QED
          BY <1>1, <5>1, PartsEnd DEF ab
      <4>3. 4 + 1 = 5
        OBVIOUS
      <4>4. QED
        BY <4>1, <4>2, <4>3, SMTT(30), ZenonT(30)
    <3>3. x = y \o v
      BY <2>1, <2>7, <3>1, <3>2
    <3>4. v = Bytes(vi) /\ vi \in Seq(Item)
      BY <1>1, PartsAre
    <3>5. Occurs(v, file, d) /\ Len(v) \in Nat /\ Len(x) = Len(y) + Len(v)
      <4> HIDE DEF v, x
      <4>1. Occurs(y \o v, file, pos)
        BY <1>1, <3>3 DEF x
      <4>2. QED
        BY <1>1, <1>2, <2>1, <3>2, <3>3, <4>1, OccursConcat
    <3>6. PICK vs : /\ SameVersions(vs, p.versions, use)
                    /\ \A q \in Nat : Occurs(Bytes(vi), file, q)
                         => Reads(read_versions(file, q, header, use), file, q + Len(Bytes(vi)), vs)
      BY <1>1, VersionsRead
    <3> DEFINE a == With(b, [versions |-> vs])
    <3>7. HoldsPackage(a, p, cat, use) /\ "versions" \in DOMAIN a
      <4> HIDE DEF b
      <4>1. QED
        BY <2>2, <3>6, HoldsVersions
    <3>8. e \in Nat /\ d <= e /\ e = d + Len(v)
      <4> HIDE DEF v, x, ab
      <4>1. pos \in Nat /\ Len(y) \in Nat /\ Len(v) \in Nat /\ Len(x) = Len(y) + Len(v)
        BY <1>1, <2>3, <3>5
      <4>2. QED
        BY <4>1
    <3>9. Reads(r2, file, e, vs)
      <4> HIDE DEF vi, v, d, e
      <4>1. Reads(r2, file, d + Len(Bytes(vi)), vs)
        BY <2>3, <3>4, <3>5, <3>6
      <4>2. QED
        BY <3>4, <3>8, <4>1
    <3>10. r1 = Got(d, fields) => r = IF r2.ok THEN Got(r2.pos, With(b, [versions |-> r2.val])) ELSE r2
      <4>1. ASSUME r1 = Got(d, fields)
            PROVE  r = IF r2.ok THEN Got(r2.pos, With(b, [versions |-> r2.val])) ELSE r2
        <5>1. r1.ok /\ r1.pos = d /\ r1.val = fields
          BY <4>1 DEF Got
        <5> HIDE DEF r, r1, d
        <5>2. QED
          BY <2>5, <2>7, <5>1
      <4>2. QED
        BY <4>1
    <3>11. r2 = Got(e, vs) => r2.ok /\ r2.pos = e /\ r2.val = vs
      BY DEF Got
    <3>12. ~ r1.ok => r = r1
      <4> HIDE DEF r, r1
      <4>1. QED
        BY <2>5
    <3> HIDE DEF r, r1, r2, d, e, b
    <3>13. r1 = Got(d, fields) => Reads(r, file, e, a)
      <4>1. ASSUME r1 = Got(d, fields)  PROVE Reads(r, file, e, a)
        <5>1. r = IF r2.ok THEN Got(r2.pos, With(b, [versions |-> r2.val])) ELSE r2
          BY <3>10, <4>1
        <5>2. r2 = Got(e, vs) => r = Got(e, a)
          BY <3>11, <5>1
        <5>3. r2 = Got(e, vs) => Reads(r, file, e, a)
          BY <5>2 DEF Reads
        <5>4. ~ r2.ok => r = r2
          BY <5>1
        <5>5. e <= e
          BY <3>8
        <5>6. QED
          BY <1>2, <3>8, <3>9, <5>3, <5>4, <5>5, ReadsThen
      <4>2. QED
        BY <4>1
    <3>14. Reads(r, file, e, a)
      BY <1>2, <2>3, <3>8, <3>12, <3>13, ReadsThen
    <3>15. From(ab, to) = <<>>
      <4>1. to >= 5
        BY <2>4, <2>7
      <4> HIDE DEF to
      <4>2. QED
        BY <1>1, <1>3, <4>1, PartsEnd
    <3>16. x = x \o From(ab, to) /\ x \in Seq(Byte)
      BY <1>4, <3>15
    <3>17. AttributesAre(need, x, a, p, h, cat)
      BY <3>7, <3>14, <3>16 DEF AttributesAre, r, e
    <3>18. QED
      BY <3>17
  <2>8. QED
    BY <2>6, <2>7
<1>7. QED
  BY <1>2, <1>3, <1>5, <1>6

-------------------------------------------------------------------------------
(* What is written after a package *)

Hdr(t, o) == WrittenHeader(t, o)

Pkgs(t, c) == IF c = 0 THEN <<>> ELSE t[c].packages

(* What follows the k-th package of the c-th category. *)
After(t, o, c, k) == From(Blocks(Pkgs(t, c), Hdr(t, o)), k) \o From(Cats(t, Hdr(t, o)), c)

CategoryStart(t, c) == Bytes(write_category_header(t[c].name, Len(t[c].packages)))

WithCategory(t, c) ==
  [p \in DOMAIN t[c].packages |-> With(t[c].packages[p], [category |-> t[c].name])]

Pss(t) == [c \in DOMAIN t |-> WithCategory(t, c)]

AllPackages(t) == FlattenSeq(Pss(t))

SeenBefore(t, c) == IF c = 0 THEN 0 ELSE Before(Pss(t), c)

GoodTree(t, o) == t \in Seq(Category) /\ o \in UseOptions \X UseOptions

(* Everything in a tree can be written with the header prepared for it. *)
LEMMA TreeWritable ==
  ASSUME NEW t, NEW o, GoodTree(t, o)
  PROVE  /\ GoodHeader(Hdr(t, o)) /\ o[1] \in UseOptions /\ o[2] \in UseOptions /\ Len(t) \in Nat
         /\ \A c \in 1..Len(t) : /\ t[c] \in Category /\ Len(t[c].packages) \in Nat
                                 /\ \A k \in 1..Len(t[c].packages) : Writable(t[c].packages[k], Hdr(t, o))
<1>1. t \in Seq(Category) /\ o[1] \in UseOptions /\ o[2] \in UseOptions
  BY DEF GoodTree
<1> DEFINE h == Hdr(t, o)
           use == o[1]
<1>2. h = prep_header_hashs(t, use)
  BY DEF Hdr, WrittenHeader
<1>3. /\ GoodHeader(h)
      /\ \A v \in Versions(t) : VersionHashed(v, h)
      /\ \A p \in Packages(t) : p.licenses \in ToSet(h.license_hash)
  <2> HIDE DEF h, use
  <2> DEFINE x == prep_header_hashs(t, use)
  <2>1. use \in UseOptions
    BY <1>1 DEF use
  <2>2. /\ GoodHeader(x)
        /\ \A v \in Versions(t) : VersionHashed(v, x)
        /\ \A p \in Packages(t) : p.licenses \in ToSet(x.license_hash)
    BY <1>1, <2>1, HashesHold
  <2>3. h = x
    BY <1>2
  <2> HIDE DEF x
  <2>4. QED
    BY <2>2, <2>3
<1>4. ASSUME NEW c \in 1..Len(t)
      PROVE  t[c] \in Category /\ Len(t[c].packages) \in Nat /\ t[c].packages \in Seq(Package)
  <2>1. t[c] \in Category
    BY <1>1
  <2> DEFINE cat == t[c]
  <2> HIDE DEF cat
  <2>2. cat \in Category
    BY <2>1 DEF cat
  <2>3. cat.packages \in Seq(Package)
    BY <2>2 DEF Category
  <2>4. Len(cat.packages) \in Nat
    BY <2>3
  <2>5. QED
    BY <2>1, <2>3, <2>4 DEF cat
<1> HIDE DEF h
<1>5. ASSUME NEW c \in 1..Len(t), NEW k \in 1..Len(t[c].packages)
      PROVE  Writable(t[c].packages[k], h)
  <2> DEFINE ps == t[c].packages
             p == ps[k]
  <2>1. ps \in Seq(Package) /\ Len(ps) \in Nat
    BY <1>4
  <2>2. p \in Package /\ p \in ToSet(ps)
    BY <2>1 DEF ToSet
  <2>3. p \in Packages(t)
    <3>1. c \in DOMAIN t
      BY <1>1
    <3> HIDE DEF p
    <3>2. QED
      BY <2>2, <3>1 DEF Packages
  <2> HIDE DEF p
  <2>4. ASSUME NEW i \in 1..Len(p.versions)  PROVE VersionHashed(p.versions[i], h)
    <3> DEFINE vs == p.versions
    <3>1. vs \in Seq(Version)
      BY <2>2 DEF Package
    <3>2. vs[i] \in ToSet(vs)
      BY <3>1 DEF ToSet
    <3>3. vs[i] \in Versions(t)
      BY <2>3, <3>2 DEF Versions
    <3>4. QED
      BY <1>3, <3>3
  <2>5. Writable(p, h)
    BY <1>3, <2>2, <2>3, <2>4 DEF Writable
  <2>6. QED
    BY <2>5 DEF p
<1>6. Len(t) \in Nat
  BY <1>1
<1>7. QED
  BY <1>1, <1>3, <1>4, <1>5, <1>6 DEF h

(* The blocks of a category's packages. *)
LEMMA BlocksAre ==
  ASSUME NEW t, NEW o, GoodTree(t, o), NEW c \in 0..Len(t)
  PROVE  /\ Blocks(Pkgs(t, c), Hdr(t, o)) \in Seq(Seq(Byte))
         /\ Len(Blocks(Pkgs(t, c), Hdr(t, o))) = Len(Pkgs(t, c)) /\ Len(Pkgs(t, c)) \in Nat
         /\ Cats(t, Hdr(t, o)) \in Seq(Seq(Byte)) /\ Len(Cats(t, Hdr(t, o))) = Len(t)
<1> DEFINE h == Hdr(t, o)
<1>0. t \in Seq(Category)
  BY DEF GoodTree
<1>1. \A d \in 1..Len(t) : /\ t[d] \in Category
                           /\ \A k \in 1..Len(t[d].packages) : Writable(t[d].packages[k], h)
  BY TreeWritable
<1> HIDE DEF h
<1>2. Cats(t, h) \in Seq(Seq(Byte)) /\ Len(Cats(t, h)) = Len(t)
  BY <1>0, <1>1, TreeBytes
<1>3. CASE c = 0
  <2>1. Pkgs(t, c) = <<>>
    BY <1>3 DEF Pkgs
  <2>2. Blocks(<<>>, h) = <<>>
    BY DEF Blocks
  <2> DEFINE e == <<>>
             x == Blocks(Pkgs(t, c), h)
             y == Pkgs(t, c)
  <2>3. e \in Seq(Seq(Byte)) /\ Len(e) = 0 /\ 0 \in Nat
    OBVIOUS
  <2>4. x = e /\ y = e
    BY <2>1, <2>2
  <2> HIDE DEF e, x, y
  <2>5. x \in Seq(Seq(Byte)) /\ Len(x) = Len(y) /\ Len(y) \in Nat
    BY <2>3, <2>4
  <2>6. QED
    BY <1>2, <2>5 DEF h, x, y
<1>4. CASE c # 0
  <2> DEFINE x == t[c]
  <2>1. x \in Category /\ \A k \in 1..Len(x.packages) : Writable(x.packages[k], h)
    BY <1>1, <1>4
  <2>2. Pkgs(t, c) = x.packages
    BY <1>4 DEF Pkgs
  <2> HIDE DEF x
  <2>3. /\ Blocks(x.packages, h) \in Seq(Seq(Byte))
        /\ Len(Blocks(x.packages, h)) = Len(x.packages) /\ Len(x.packages) \in Nat
    BY <2>1, CategoryBytes
  <2>4. QED
    BY <1>2, <2>2, <2>3 DEF h
<1>5. QED
  BY <1>3, <1>4

(* What is left of the file is a sequence of bytes. *)
LEMMA AfterType ==
  ASSUME NEW t, NEW o, GoodTree(t, o), NEW c \in 0..Len(t), NEW k \in Nat
  PROVE  After(t, o, c, k) \in Seq(Byte)
<1> DEFINE bs == Blocks(Pkgs(t, c), Hdr(t, o))
           cs == Cats(t, Hdr(t, o))
<1>1. bs \in Seq(Seq(Byte)) /\ cs \in Seq(Seq(Byte))
  BY BlocksAre
<1> HIDE DEF bs, cs
<1>2. From(bs, k) \in Seq(Byte) /\ From(cs, c) \in Seq(Byte)
  BY <1>1, FromType
<1>3. From(bs, k) \o From(cs, c) \in Seq(Byte)
  BY <1>2
<1>4. QED
  BY <1>3 DEF After, bs, cs

(* Behind the last package of a category the next category starts. *)
LEMMA AfterCategory ==
  ASSUME NEW t, NEW o, GoodTree(t, o), NEW c \in 0..Len(t), c # Len(t)
  PROVE  /\ After(t, o, c, Len(Pkgs(t, c))) = CategoryStart(t, c + 1) \o After(t, o, c + 1, 0)
         /\ CategoryStart(t, c + 1) \in Seq(Byte)
<1> DEFINE h == Hdr(t, o)
           bs == Blocks(Pkgs(t, c), h)
           cs == Cats(t, h)
           n == Len(Pkgs(t, c))
           d == c + 1
           x == t[d]
           b2 == Blocks(x.packages, h)
           s == CategoryStart(t, d)
<1>1. Len(t) \in Nat /\ c \in Nat /\ d \in 1..Len(t) /\ d # 0 /\ c < Len(t)
  BY TreeWritable
<1>2. bs \in Seq(Seq(Byte)) /\ cs \in Seq(Seq(Byte)) /\ Len(bs) = n /\ n \in Nat /\ Len(cs) = Len(t)
  BY BlocksAre
<1>3. x \in Category /\ \A k \in 1..Len(x.packages) : Writable(x.packages[k], h)
  BY <1>1, TreeWritable
<1>4. /\ b2 \in Seq(Seq(Byte)) /\ s \in Seq(Byte)
      /\ Bytes(write_category(x, h)) = s \o From(b2, 0)
  <2> HIDE DEF x, h
  <2>1. QED
    BY <1>3, CategoryBytes DEF CategoryStart, x
<1>5. cs[d] = s \o From(b2, 0)
  BY <1>1, <1>4 DEF Cats
<1>6. After(t, o, c, n) = From(bs, n) \o From(cs, c)
  BY DEF After
<1>7. After(t, o, d, 0) = From(b2, 0) \o From(cs, d)
  BY <1>1 DEF After, Pkgs
<1> HIDE DEF bs, cs, n, b2, s
<1>8. From(bs, n) = <<>>
  <2>1. Len(bs) \in Nat /\ n >= Len(bs)
    BY <1>2
  <2>2. QED
    BY <1>2, <2>1, FromEnd
<1>9. From(cs, c) = cs[d] \o From(cs, d)
  BY <1>1, <1>2, FromNext
<1>10. From(b2, 0) \in Seq(Byte) /\ From(cs, d) \in Seq(Byte)
  BY <1>1, <1>2, <1>4, FromType
<1> DEFINE y == From(b2, 0)
           z == From(cs, d)
           w == From(cs, c)
<1>11. y \in Seq(Byte) /\ z \in Seq(Byte) /\ w = (s \o y) \o z
  BY <1>5, <1>9, <1>10
<1> HIDE DEF y, z, w
<1>12. w = s \o (y \o z)
  <2>1. s \in Seq(Byte) /\ y \in Seq(Byte) /\ z \in Seq(Byte)
    BY <1>4, <1>11
  <2>2. (s \o y) \o z = s \o (y \o z)
    <3>1. Associates(s, y, z)
      BY ONLY <2>1, Associative
    <3>2. QED
      BY ONLY <3>1 DEF Associates
  <2>3. QED
    BY <1>11, <2>2
<1>13. <<>> \o w = w
  <2>1. w \in Seq(Byte)
    BY <1>4, <1>11, <1>12
  <2>2. QED
    BY <2>1
<1>14. QED
  BY <1>4, <1>6, <1>7, <1>8, <1>12, <1>13 DEF y, z, w, s, n

(* Before a package stand its length, its block, and what is left behind it. *)
LEMMA AfterPackage ==
  ASSUME NEW t, NEW o, GoodTree(t, o), NEW c \in 1..Len(t), NEW k \in 1..Len(t[c].packages)
  PROVE  LET w == From(Parts(t[c].packages[k], Hdr(t, o)), 0)
         IN  /\ w \in Seq(Byte) /\ Len(w) \in Nat
             /\ After(t, o, c, k - 1) = write_num(Len(w)) \o (w \o After(t, o, c, k))
             /\ write_num(Len(w)) \in Seq(Byte)
<1> DEFINE h == Hdr(t, o)
           ps == t[c].packages
           p == ps[k]
           w == From(Parts(p, h), 0)
           bs == Blocks(ps, h)
           cs == Cats(t, h)
           n == write_num(Len(w))
           j == k - 1
<1>0. Len(t) \in Nat /\ c \in Nat /\ c # 0 /\ c \in 0..Len(t) /\ Pkgs(t, c) = ps
  BY TreeWritable DEF Pkgs
<1>1. Len(ps) \in Nat /\ j \in Nat /\ j < Len(ps) /\ j + 1 = k /\ k \in Nat
  BY TreeWritable
<1>2. Writable(p, h)
  BY TreeWritable
<1>3. bs \in Seq(Seq(Byte)) /\ cs \in Seq(Seq(Byte)) /\ Len(bs) = Len(ps)
  <2>1. /\ Blocks(Pkgs(t, c), h) \in Seq(Seq(Byte)) /\ Len(Blocks(Pkgs(t, c), h)) = Len(Pkgs(t, c))
        /\ cs \in Seq(Seq(Byte))
    BY <1>0, BlocksAre
  <2>2. QED
    BY <1>0, <2>1
<1>4. bs[k] = PackageBlock(p, h)
  BY DEF Blocks
<1>5. After(t, o, c, k) = From(bs, k) \o From(cs, c) /\ After(t, o, c, j) = From(bs, j) \o From(cs, c)
  BY <1>0 DEF After
<1>6. PackageBlock(p, h) = n \o w /\ w \in Seq(Byte)
  <2> HIDE DEF p, h
  <2>1. QED
    BY <1>2, PartsAre
<1> HIDE DEF w, bs, cs, j, h, p
<1>7. Len(w) \in Nat /\ n \in Seq(Byte)
  BY <1>6, NumberBytes
<1>8. From(bs, j) = bs[k] \o From(bs, k)
  BY <1>1, <1>3, FromNext
<1>9. From(bs, k) \in Seq(Byte) /\ From(cs, c) \in Seq(Byte)
  BY <1>0, <1>1, <1>3, FromType
<1> DEFINE y == From(bs, k)
           z == From(cs, c)
           a == After(t, o, c, j)
<1>10. a = ((n \o w) \o y) \o z /\ y \in Seq(Byte) /\ z \in Seq(Byte)
  BY <1>4, <1>5, <1>6, <1>8, <1>9
<1> HIDE DEF y, z, n, a
<1>11. n \o w \in Seq(Byte) /\ y \o z \in Seq(Byte)
  BY <1>6, <1>7, <1>10
<1> DEFINE nw == n \o w
           yz == y \o z
<1> HIDE DEF nw
<1>12. (nw \o y) \o z = nw \o (y \o z)
  <2>1. nw \in Seq(Byte) /\ y \in Seq(Byte) /\ z \in Seq(Byte)
    BY <1>10, <1>11 DEF nw
  <2>2. QED
    <3>1. Associates(nw, y, z)
      BY ONLY <2>1, Associative
    <3>2. QED
      BY ONLY <3>1 DEF Associates
<1> HIDE DEF yz
<1>13. (n \o w) \o yz = n \o (w \o yz)
  <2>1. n \in Seq(Byte) /\ w \in Seq(Byte) /\ yz \in Seq(Byte)
    BY <1>6, <1>7, <1>11 DEF yz
  <2>2. QED
    <3>1. Associates(n, w, yz)
      BY ONLY <2>1, Associative
    <3>2. QED
      BY ONLY <3>1 DEF Associates
<1>14. a = n \o (w \o yz)
  BY <1>10, <1>12, <1>13 DEF nw, yz
<1>15. After(t, o, c, k) = yz
  BY <1>5 DEF yz, y, z
<1>16. QED
  BY <1>6, <1>7, <1>14, <1>15 DEF a, n, w, j, h, p

-------------------------------------------------------------------------------
(* The packages of the whole tree *)

(* The packages of each category with the name of the category. *)
LEMMA PssType ==
  ASSUME NEW t, NEW o, GoodTree(t, o)
  PROVE  \E S : /\ Pss(t) \in Seq(Seq(S)) /\ Len(Pss(t)) = Len(t)
                /\ \A c \in 1..Len(t) :
                     /\ Pss(t)[c] = WithCategory(t, c)
                     /\ Len(WithCategory(t, c)) = Len(t[c].packages)
                     /\ \A k \in 1..Len(t[c].packages) :
                          WithCategory(t, c)[k] = With(t[c].packages[k], [category |-> t[c].name])
<1> DEFINE n == Len(t)
           S == {With(t[ck[1]].packages[ck[2]], [category |-> t[ck[1]].name]) : ck \in (1..n) \X Nat}
<1>0. t \in Seq(Category)
  BY DEF GoodTree
<1>1. n \in Nat /\ DOMAIN t = 1..n
  BY <1>0
<1>2. ASSUME NEW c \in 1..n
      PROVE  /\ WithCategory(t, c) \in Seq(S) /\ Len(WithCategory(t, c)) = Len(t[c].packages)
             /\ \A k \in 1..Len(t[c].packages) :
                  WithCategory(t, c)[k] = With(t[c].packages[k], [category |-> t[c].name])
  <2> DEFINE cat == t[c]
             ps == cat.packages
             m == Len(ps)
             w == WithCategory(t, c)
  <2>1. ps \in Seq(Package)
    <3>1. cat \in Category
      BY <1>0
    <3> HIDE DEF cat
    <3>2. QED
      BY <3>1 DEF Category
  <2>2. m \in Nat /\ DOMAIN ps = 1..m
    BY <2>1
  <2>3. w = [k \in 1..m |-> With(ps[k], [category |-> cat.name])]
    BY <2>2 DEF WithCategory
  <2>4. \A k \in 1..m : With(ps[k], [category |-> cat.name]) \in S
    <3>1. ASSUME NEW k \in 1..m  PROVE With(ps[k], [category |-> cat.name]) \in S
      <4>1. <<c, k>> \in (1..n) \X Nat
        BY <1>1, <2>2
      <4>2. With(ps[k], [category |-> cat.name])
              = With(t[<<c, k>>[1]].packages[<<c, k>>[2]], [category |-> t[<<c, k>>[1]].name])
        OBVIOUS
      <4>3. QED
        BY <4>1, <4>2
    <3>2. QED
      BY <3>1
  <2> HIDE DEF S
  <2>5. w \in Seq(S) /\ Len(w) = m
    <3> HIDE DEF w, m, ps, cat
    <3>1. w \in [1..m -> S]
      BY <2>3, <2>4
    <3>2. QED
      BY <2>2, <3>1
  <2>6. \A k \in 1..m : w[k] = With(ps[k], [category |-> cat.name])
    <3> HIDE DEF w, m
    <3>1. QED
      BY <2>3
  <2>7. QED
    BY <2>5, <2>6
<1> HIDE DEF S
<1>3. Pss(t) = [c \in 1..n |-> WithCategory(t, c)]
  BY <1>1 DEF Pss
<1>4. Pss(t) \in [1..n -> Seq(S)]
  <2> HIDE DEF n
  <2>1. QED
    BY <1>2, <1>3
<1>5. Pss(t) \in Seq(Seq(S)) /\ Len(Pss(t)) = n
  <2> DEFINE T == Seq(S)
  <2>1. Pss(t) \in [1..n -> T]
    BY <1>4
  <2> HIDE DEF T, n
  <2>2. Pss(t) \in Seq(T) /\ Len(Pss(t)) = n
    BY <1>1, <2>1
  <2>3. QED
    BY <2>2 DEF T
<1>6. QED
  BY <1>2, <1>3, <1>5

(* The number of packages seen is the place of the next package in AllPackages. *)
LEMMA SeenIs ==
  ASSUME NEW t, NEW o, GoodTree(t, o), NEW c \in 0..Len(t)
  PROVE  /\ SeenBefore(t, c) \in Nat /\ Len(Pkgs(t, c)) \in Nat /\ Len(AllPackages(t)) \in Nat
         /\ c # Len(t) => SeenBefore(t, c + 1) = SeenBefore(t, c) + Len(Pkgs(t, c))
         /\ c = Len(t) => SeenBefore(t, c) + Len(Pkgs(t, c)) = Len(AllPackages(t))
         /\ \A k \in 1..Len(Pkgs(t, c)) :
              /\ SeenBefore(t, c) + k \in 1..Len(AllPackages(t))
              /\ AllPackages(t)[SeenBefore(t, c) + k]
                   = With(t[c].packages[k], [category |-> t[c].name])
<1> DEFINE ss == Pss(t)
<1>1. PICK S : /\ ss \in Seq(Seq(S)) /\ Len(ss) = Len(t)
               /\ \A d \in 1..Len(t) :
                     /\ ss[d] = WithCategory(t, d)
                     /\ Len(WithCategory(t, d)) = Len(t[d].packages)
                     /\ \A k \in 1..Len(t[d].packages) :
                          WithCategory(t, d)[k] = With(t[d].packages[k], [category |-> t[d].name])
  BY PssType
<1>2. Len(t) \in Nat /\ c \in Nat
  BY TreeWritable
<1> HIDE DEF ss
<1>3. CASE c = 0
  <2>1. SeenBefore(t, c) = 0 /\ Pkgs(t, c) = <<>> /\ Len(Pkgs(t, c)) = 0
    BY <1>3 DEF SeenBefore, Pkgs
  <2>2. CASE Len(t) = 0
    <3>1. ss = <<>>
      BY <1>1, <2>2
    <3>2. AllPackages(t) = <<>>
      BY <3>1, FlattenEmpty DEF AllPackages, ss
    <3>3. QED
      BY <1>3, <2>1, <2>2, <3>2
  <2>3. CASE Len(t) # 0
    <3>1. 1 \in 1..Len(ss)
      BY <1>1, <1>2, <2>3
    <3>2. Before(ss, 1) = 0 /\ Len(FlattenSeq(ss)) \in Nat
      BY <1>1, <3>1, BeforeIs
    <3>3. SeenBefore(t, c + 1) = Before(ss, 1)
      BY <1>3 DEF SeenBefore, ss
    <3>4. Len(AllPackages(t)) \in Nat
      BY <3>2 DEF AllPackages, ss
    <3>5. QED
      BY <1>3, <2>1, <2>3, <3>2, <3>3, <3>4
  <2>4. QED
    BY <2>2, <2>3
<1>4. CASE c # 0
  <2>1. c \in 1..Len(ss) /\ c \in 1..Len(t) /\ c + 1 # 0
    BY <1>1, <1>2, <1>4
  <2>2. /\ Before(ss, c) \in Nat /\ Len(ss[c]) \in Nat
        /\ Len(FlattenSeq(ss)) \in Nat
        /\ Before(ss, c + 1) = Before(ss, c) + Len(ss[c])
        /\ c = Len(ss) => Before(ss, c + 1) = Len(FlattenSeq(ss))
        /\ \A k \in 1..Len(ss[c]) : /\ Before(ss, c) + k \in 1..Len(FlattenSeq(ss))
                                    /\ FlattenSeq(ss)[Before(ss, c) + k] = ss[c][k]
    BY <1>1, <2>1, BeforeIs
  <2>3. /\ SeenBefore(t, c) = Before(ss, c) /\ SeenBefore(t, c + 1) = Before(ss, c + 1)
        /\ Pkgs(t, c) = t[c].packages /\ AllPackages(t) = FlattenSeq(ss)
    BY <1>4, <2>1 DEF SeenBefore, Pkgs, AllPackages, ss
  <2>4. Len(ss[c]) = Len(Pkgs(t, c))
    BY <1>1, <2>1, <2>3
  <2>5. \A k \in 1..Len(Pkgs(t, c)) : ss[c][k] = With(t[c].packages[k], [category |-> t[c].name])
    BY <1>1, <2>1, <2>3
  <2>6. \A k \in 1..Len(Pkgs(t, c)) :
              /\ SeenBefore(t, c) + k \in 1..Len(AllPackages(t))
              /\ AllPackages(t)[SeenBefore(t, c) + k]
                   = With(t[c].packages[k], [category |-> t[c].name])
    BY <2>2, <2>3, <2>4, <2>5
  <2>7. QED
    BY <1>1, <2>2, <2>3, <2>4, <2>6
<1>5. QED
  BY <1>3, <1>4

(* The file is the header and then all that stands behind it. *)
LEMMA FileIs ==
  ASSUME NEW t, NEW o, GoodTree(t, o)
  PROVE  LET w == Bytes(write_header(Hdr(t, o), Len(t), Overlays, <<>>))
         IN  /\ WrittenFile(t, o) = w \o After(t, o, 0, 0)
             /\ w \in Seq(Byte) /\ WrittenFile(t, o) \in Seq(Byte)
<1> DEFINE h == Hdr(t, o)
           e == <<>>
           hi == write_header(h, Len(t), Overlays, e)
           ti == write_packagetree(t, h)
           bs == Blocks(Pkgs(t, 0), h)
           cs == Cats(t, h)
<1>0. t \in Seq(Category)
  BY DEF GoodTree
<1>1. /\ GoodHeader(h) /\ Len(t) \in Nat
      /\ \A c \in 1..Len(t) : \A k \in 1..Len(t[c].packages) : Writable(t[c].packages[k], h)
  BY TreeWritable
<1>2. Overlays \in Seq(OverlayIdent) /\ e \in Seq(ByteString)
  BY PackageReaderAssumption
<1> HIDE DEF h, e
<1>3. hi \in Seq(Item)
  BY <1>1, <1>2, HeaderBytes
<1>4. /\ cs \in Seq(Seq(Byte)) /\ ti \in Seq(Item) /\ Bytes(ti) = From(cs, 0)
  BY <1>0, <1>1, TreeBytes
<1>5. WrittenFile(t, o) = Bytes(hi \o ti)
  BY DEF WrittenFile, h, e, Hdr
<1>6. bs = <<>>
  BY DEF Blocks, Pkgs
<1>7. After(t, o, 0, 0) = From(bs, 0) \o From(cs, 0)
  BY DEF After, h
<1> HIDE DEF hi, ti, cs, bs
<1>8. Bytes(hi \o ti) = Bytes(hi) \o Bytes(ti) /\ Bytes(hi) \in Seq(Byte) /\ Bytes(ti) \in Seq(Byte)
  BY <1>3, <1>4, BytesConcat, BytesType
<1>9. From(bs, 0) = <<>>
  <2>1. Len(bs) = 0
    BY <1>6
  <2>2. QED
    BY <2>1, FromEnd
<1>10. From(bs, 0) \o From(cs, 0) = From(cs, 0)
  <2> DEFINE x == From(cs, 0)
  <2>1. x \in Seq(Byte)
    BY <1>4, <1>8
  <2> HIDE DEF x
  <2>2. <<>> \o x = x
    BY <2>1
  <2>3. QED
    BY <1>9, <2>2 DEF x
<1>11. WrittenFile(t, o) = Bytes(hi) \o After(t, o, 0, 0)
  BY <1>4, <1>5, <1>7, <1>8, <1>10
<1>12. WrittenFile(t, o) \in Seq(Byte)
  <2> DEFINE x == Bytes(hi)
             y == Bytes(ti)
  <2> HIDE DEF x, y
  <2>1. x \o y \in Seq(Byte)
    BY <1>8 DEF x, y
  <2>2. QED
    BY <2>1, <1>5, <1>8 DEF x, y
<1>13. QED
  BY <1>8, <1>11, <1>12 DEF hi, h, e

(* The packages the readers should see are those of the tree. *)
LEMMA WrittenIs == Written = AllPackages(tree)
BY DEF Written, AllPackages, Pss, WithCategory

(* What the reader holds of a package is what was written. *)
LEMMA SameOf ==
  ASSUME NEW a, NEW p, NEW cat, p \in Package, HoldsPackage(a, p, cat, options[2])
  PROVE  SamePackage(a, With(p, [category |-> cat]))
<1> DEFINE r == [category |-> cat]
           w == With(p, r)
           use == options[2]
<1>1. /\ DOMAIN a \subseteq PureNames \cup {"category", "versions"}
      /\ a["category"] = cat
      /\ \A n \in DOMAIN a : n \in PureNames => a[n] = p[n]
      /\ "versions" \in DOMAIN a => SameVersions(a["versions"], p.versions, use)
  BY DEF HoldsPackage
<1>2. DOMAIN p = PureNames \cup {"versions"}
  BY DEF Package, PureNames
<1>3. DOMAIN r = {"category"} /\ r["category"] = cat /\ "category" \notin PureNames /\ "versions" \notin PureNames
  BY DEF PureNames
<1>4. /\ DOMAIN w = DOMAIN p \cup DOMAIN r
      /\ \A n \in DOMAIN w : w[n] = IF n \in DOMAIN r THEN r[n] ELSE p[n]
  BY DEF With
<1> HIDE DEF r, w, use
<1>5. w["category"] = cat /\ w["versions"] = p.versions /\ \A n \in PureNames : w[n] = p[n]
  BY <1>2, <1>3, <1>4
<1>6. ASSUME NEW f \in DOMAIN a, f # "versions"  PROVE a[f] = w[f]
  BY <1>1, <1>5, <1>6
<1>7. ASSUME "versions" \in DOMAIN a
      PROVE  /\ Len(a["versions"]) = Len(w["versions"])
             /\ \A i \in DOMAIN a["versions"] : SameVersion(a["versions"][i], w["versions"][i])
  <2> DEFINE rs == a["versions"]
             vs == p.versions
  <2>1. SameVersions(rs, vs, use)
    BY <1>1, <1>7
  <2> HIDE DEF rs, vs
  <2>2. Len(rs) = Len(vs) /\ DOMAIN rs = 1..Len(vs) /\ \A i \in 1..Len(vs) : SameFields(rs[i], vs[i], use)
    BY <2>1 DEF SameVersions
  <2>3. ASSUME NEW i \in DOMAIN rs  PROVE SameVersion(rs[i], vs[i])
    <3>1. SameFields(rs[i], vs[i], use)
      BY <2>2, <2>3
    <3>2. ASSUME NEW n \in FieldName, Kept(n)  PROVE n \in Wanted(use)
      BY <3>2 DEF Kept, Wanted, use
    <3>3. QED
      BY <3>1, <3>2 DEF SameFields, SameVersion
  <2>4. QED
    BY <1>5, <2>2, <2>3 DEF rs, vs
<1>8. SamePackage(a, w)
  BY <1>6, <1>7 DEF SamePackage
<1>9. QED
  BY <1>8 DEF w, r

-------------------------------------------------------------------------------
(* What is ahead in the file *)

(* The bytes w are at offset p of the file f, as far as it is not cut off. *)
Ahead(f, wh, w, p) == p \in Nat /\ Occurs(w, f, p) /\ (wh => p + Len(w) <= Len(f))

(* Of two things ahead the first occurs here and the second is ahead behind it. *)
LEMMA AheadSplit ==
  ASSUME NEW f \in Seq(Byte), NEW wh, NEW a \in Seq(Byte), NEW b \in Seq(Byte), NEW p,
         Ahead(f, wh, a \o b, p)
  PROVE  /\ Occurs(a, f, p) /\ p \in Nat /\ Len(a) \in Nat
         /\ Ahead(f, wh, b, p + Len(a)) /\ (wh => p + Len(a) <= Len(f))
<1> DEFINE w == a \o b
<1>1. p \in Nat /\ Occurs(a \o b, f, p) /\ (wh => p + Len(w) <= Len(f))
  BY DEF Ahead
<1>2. /\ Occurs(a, f, p) /\ Occurs(b, f, p + Len(a))
      /\ Len(a) \in Nat /\ Len(b) \in Nat /\ Len(a \o b) = Len(a) + Len(b)
  BY <1>1, OccursConcat
<1>3. Len(w) = Len(a) + Len(b) /\ Len(f) \in Nat
  BY <1>2
<1> HIDE DEF w
<1>4. p + Len(a) \in Nat /\ (wh => (p + Len(a)) + Len(b) <= Len(f)) /\ (wh => p + Len(a) <= Len(f))
  BY <1>1, <1>2, <1>3
<1>5. QED
  BY <1>1, <1>2, <1>4 DEF Ahead

(* After a failure nothing is promised about what is ahead, and nothing needs to be. *)
LEMMA FailedAhead ==
  ASSUME NEW f \in Seq(Byte), NEW r, Failed(r, f)
  PROVE  r.pos \in Nat /\ \A w \in Seq(Byte) : Ahead(f, FALSE, w, r.pos)
<1>1. PICK q \in Nat : q >= Len(f) /\ r = [ok |-> FALSE, pos |-> q, val |-> <<>>]
  BY DEF Failed
<1>2. r.pos = q /\ Len(f) \in Nat
  BY <1>1
<1>3. ASSUME NEW w \in Seq(Byte)  PROVE Ahead(f, FALSE, w, q)
  <2>1. Len(w) \in Nat
    OBVIOUS
  <2>2. \A i \in 1..Len(w) : ~ (q + i <= Len(f))
    BY <1>1, <1>2, <2>1
  <2>3. QED
    BY <2>2 DEF Ahead, Occurs
<1>4. QED
  BY <1>2, <1>3

(* What is read is what was written, or the file has been cut off. *)
ReadRight(r, f, wh, e, v, b) ==
  \/ r.ok /\ r.pos = e /\ r.val = v /\ e \in Nat /\ Ahead(f, wh, b, e)
  \/ ~ r.ok /\ ~ wh /\ r.pos \in Nat /\ \A w \in Seq(Byte) : Ahead(f, FALSE, w, r.pos)

(* A reader that decodes the first of two things ahead leaves the second ahead. *)
LEMMA ReadAhead ==
  ASSUME NEW f \in Seq(Byte), NEW wh, NEW a \in Seq(Byte), NEW b \in Seq(Byte), NEW p,
         Ahead(f, wh, a \o b, p), NEW r, NEW v, Reads(r, f, p + Len(a), v)
  PROVE  ReadRight(r, f, wh, p + Len(a), v, b)
<1>1. /\ p \in Nat /\ Len(a) \in Nat /\ Ahead(f, wh, b, p + Len(a))
      /\ wh => p + Len(a) <= Len(f)
  BY AheadSplit
<1> DEFINE e == p + Len(a)
<1>2. e \in Nat
  BY <1>1
<1>3. CASE r = Got(e, v)
  <2>1. r.ok /\ r.pos = e /\ r.val = v
    BY <1>3 DEF Got
  <2> HIDE DEF e
  <2>2. QED
    BY <1>1, <1>2, <2>1 DEF ReadRight, e
<1>4. CASE e > Len(f) /\ Failed(r, f)
  <2>1. ~ r.ok
    BY <1>4 DEF Failed
  <2>2. r.pos \in Nat /\ \A w \in Seq(Byte) : Ahead(f, FALSE, w, r.pos)
    BY <1>4, FailedAhead
  <2>3. Len(f) \in Nat
    OBVIOUS
  <2>4. ~ wh
    <3> HIDE DEF e
    <3>1. ASSUME wh  PROVE FALSE
      <4>1. e <= Len(f)
        BY <1>1, <3>1 DEF e
      <4>2. QED
        BY <1>2, <1>4, <2>3, <4>1
    <3>2. QED
      BY <3>1
  <2>5. QED
    BY <2>1, <2>2, <2>4 DEF ReadRight
<1>5. QED
  BY <1>3, <1>4 DEF Reads

-------------------------------------------------------------------------------
(* The packages that a client keeps *)

(* The j-th package of the tree has been read completely. *)
Complete(a, j, t, use) ==
  /\ "versions" \in DOMAIN a
  /\ \E c \in 1..Len(t) : \E k \in 1..Len(Pkgs(t, c)) :
       j = SeenBefore(t, c) + k /\ HoldsPackage(a, t[c].packages[k], t[c].name, use)

KeptIn(os, n, t, use) ==
  \E at \in [DOMAIN os -> 1..n] :
    /\ \A i, j \in DOMAIN os : i < j => at[i] < at[j]
    /\ \A i \in DOMAIN os : Complete(os[i], at[i], t, use)

(* Nothing kept is kept rightly. *)
LEMMA KeptNone == ASSUME NEW n, NEW t, NEW use  PROVE KeptIn(<<>>, n, t, use)
<1> DEFINE at == [i \in {} |-> 0]
<1>1. at \in [{} -> 1..n] /\ DOMAIN <<>> = {}
  OBVIOUS
<1> HIDE DEF at
<1>2. at \in [DOMAIN <<>> -> 1..n]
  BY <1>1
<1>3. QED
  BY <1>1, <1>2 DEF KeptIn

(* What is kept of the first n packages is kept of more. *)
LEMMA KeptMore ==
  ASSUME NEW os, NEW n, NEW m, NEW t, NEW use, KeptIn(os, n, t, use), n \in Int, m \in Int, n <= m
  PROVE  KeptIn(os, m, t, use)
<1>1. PICK at \in [DOMAIN os -> 1..n] :
        /\ \A i, j \in DOMAIN os : i < j => at[i] < at[j]
        /\ \A i \in DOMAIN os : Complete(os[i], at[i], t, use)
  BY DEF KeptIn
<1>2. 1..n \subseteq 1..m
  OBVIOUS
<1>3. at \in [DOMAIN os -> 1..m]
  BY <1>2
<1>4. QED
  BY <1>1, <1>3 DEF KeptIn

(* Keeping a complete copy of the package just seen. *)
LEMMA KeptAppend ==
  ASSUME NEW S, NEW os \in Seq(S), NEW n \in Nat \ {0}, NEW t, NEW use, KeptIn(os, n - 1, t, use),
         NEW a, Complete(a, n, t, use)
  PROVE  KeptIn(Append(os, a), n, t, use)
<1>1. PICK at \in [DOMAIN os -> 1..(n - 1)] :
        /\ \A i, j \in DOMAIN os : i < j => at[i] < at[j]
        /\ \A i \in DOMAIN os : Complete(os[i], at[i], t, use)
  BY DEF KeptIn
<1> DEFINE l == Len(os)
           b == Append(os, a)
           to == [i \in 1..(l + 1) |-> IF i <= l THEN at[i] ELSE n]
<1>2. l \in Nat /\ DOMAIN os = 1..l
  OBVIOUS
<1>3. DOMAIN b = 1..(l + 1) /\ \A i \in 1..(l + 1) : b[i] = IF i <= l THEN os[i] ELSE a
  <2>1. os \in Seq(S \cup {a}) /\ a \in S \cup {a}
    OBVIOUS
  <2>2. /\ b \in Seq(S \cup {a}) /\ Len(b) = l + 1
        /\ \A i \in 1..(l + 1) : b[i] = IF i <= l THEN os[i] ELSE a
    BY <2>1, AppendElements
  <2> HIDE DEF b
  <2>3. QED
    BY <2>2
<1> HIDE DEF b, l
<1>4. to \in [1..(l + 1) -> 1..n]
  <2>1. \A i \in 1..(l + 1) : (IF i <= l THEN at[i] ELSE n) \in 1..n
    <3>1. ASSUME NEW i \in 1..(l + 1)  PROVE (IF i <= l THEN at[i] ELSE n) \in 1..n
      <4>1. CASE i <= l
        <5>1. i \in DOMAIN os
          BY <1>2, <4>1
        <5>2. at[i] \in 1..(n - 1)
          BY <5>1
        <5>3. QED
          BY <4>1, <5>2
      <4>2. CASE ~ (i <= l)
        BY <4>2
      <4>3. QED
        BY <4>1, <4>2
    <3>2. QED
      BY <3>1
  <2>2. QED
    BY <2>1
<1>5. \A i \in 1..(l + 1) : to[i] = IF i <= l THEN at[i] ELSE n
  OBVIOUS
<1> HIDE DEF to
<1>6. ASSUME NEW i \in 1..(l + 1), NEW j \in 1..(l + 1), i < j  PROVE to[i] < to[j]
  <2>1. i <= l /\ i \in DOMAIN os /\ to[i] = at[i] /\ at[i] \in 1..(n - 1)
    BY <1>2, <1>5, <1>6
  <2>2. CASE j <= l
    <3>1. j \in DOMAIN os /\ to[j] = at[j]
      BY <1>2, <1>5, <2>2
    <3>2. at[i] < at[j]
      BY <1>1, <1>6, <2>1, <3>1
    <3>3. QED
      BY <2>1, <3>1, <3>2
  <2>3. CASE ~ (j <= l)
    BY <1>5, <2>1, <2>3
  <2>4. QED
    BY <2>2, <2>3
<1>7. ASSUME NEW i \in 1..(l + 1)  PROVE Complete(b[i], to[i], t, use)
  <2>1. CASE i <= l
    <3>1. i \in DOMAIN os /\ b[i] = os[i] /\ to[i] = at[i]
      BY <1>2, <1>3, <1>5, <2>1
    <3>2. QED
      BY <1>1, <3>1
  <2>2. CASE ~ (i <= l)
    BY <1>3, <1>5, <2>2
  <2>3. QED
    BY <2>1, <2>2
<1>8. to \in [DOMAIN b -> 1..n]
  BY <1>3, <1>4
<1>9. /\ \A i, j \in DOMAIN b : i < j => to[i] < to[j]
      /\ \A i \in DOMAIN b : Complete(b[i], to[i], t, use)
  BY <1>3, <1>6, <1>7
<1>10. KeptIn(b, n, t, use)
  BY <1>8, <1>9 DEF KeptIn
<1>11. QED
  BY <1>10 DEF b

-------------------------------------------------------------------------------
(* The inductive invariant *)

(* The reader has opened c categories, and k packages of the last of them. *)
At(c, k) ==
  /\ c \in 0..Len(tree) /\ k \in 0..Len(Pkgs(tree, c))
  /\ frames = Len(tree) - c /\ cat_size = Len(Pkgs(tree, c)) - k
  /\ c # 0 => category = tree[c].name
  /\ seen = SeenBefore(tree, c) + k

AtNext(c, k) == At(c, k) /\ Ahead(file, whole, After(tree, options, c, k), pos)

PartsOf(t, o, c, k) == Parts(t[c].packages[k], Hdr(t, o))

AtPackage(c, k) ==
  /\ At(c, k) /\ c # 0 /\ k # 0
  /\ Ahead(file, whole,
           From(PartsOf(tree, options, c, k), have) \o After(tree, options, c, k), pos)
  /\ Ahead(file, whole, After(tree, options, c, k), next_pos)
  /\ HoldsPackage(pkg, tree[c].packages[k], tree[c].name, options[2])
  /\ have >= 5 => "versions" \in DOMAIN pkg

Limit == IF pc = "package" /\ have # 7 THEN seen - 1 ELSE seen

Types ==
  /\ tree \in Trees /\ options \in Options /\ file \in Seq(Byte)
  /\ pc \in {"header", "next", "package", "end", "enough", "done", "failed"}
  /\ error \in BOOLEAN /\ have \in {0, 1, 2, 3, 4, 5, 7} /\ seen \in Nat
  /\ \E S : out \in Seq(S)

Position ==
  /\ pc = "header" => /\ Ahead(file, whole, WrittenFile(tree, options), 0)
                      /\ pos = 0 /\ cat_size = 0 /\ seen = 0 /\ out = <<>>
  /\ pc \in {"next", "package"} => SameHeader(header, Hdr(tree, options), options[2])
  /\ pc = "next" => \E c, k : AtNext(c, k)
  /\ pc = "package" => \E c, k : AtPackage(c, k)
  /\ pc = "end" /\ ~ error => seen = Len(AllPackages(tree))

Errors == (pc = "done" => ~ error) /\ (whole => ~ error /\ pc # "failed")

IInv ==
  /\ Types /\ Position /\ Errors
  /\ ~ error => KeptIn(out, Limit, tree, options[2])
  /\ pc = "package" /\ have = 7 => client = "coreqcache"

(* The tree and the options of the behaviour are good ones. *)
LEMMA Good == ASSUME Types  PROVE GoodTree(tree, options)
BY PackageReaderAssumption DEF Types, GoodTree

(* The types of a place in the tree. *)
LEMMA AtIs ==
  ASSUME Types, NEW c, NEW k, At(c, k)
  PROVE  /\ c \in 0..Len(tree) /\ k \in 0..Len(Pkgs(tree, c)) /\ Len(tree) \in Nat /\ c \in Nat /\ k \in Nat
         /\ Len(Pkgs(tree, c)) \in Nat /\ SeenBefore(tree, c) \in Nat
         /\ After(tree, options, c, k) \in Seq(Byte)
         /\ k # 0 => c # 0
<1>1. GoodTree(tree, options)
  BY Good
<1>2. c \in 0..Len(tree) /\ k \in 0..Len(Pkgs(tree, c))
  BY DEF At
<1>3. Len(tree) \in Nat
  BY <1>1, TreeWritable
<1>4. Len(Pkgs(tree, c)) \in Nat /\ SeenBefore(tree, c) \in Nat
  BY <1>1, <1>2, SeenIs
<1>5. c \in Nat /\ k \in Nat
  BY <1>2, <1>3, <1>4
<1>6. After(tree, options, c, k) \in Seq(Byte)
  BY <1>1, <1>2, <1>5, AfterType
<1>7. k # 0 => c # 0
  BY <1>2, <1>4 DEF Pkgs
<1>8. QED
  BY <1>2, <1>3, <1>4, <1>5, <1>6, <1>7

(* Where the reader is when it is at a package. *)
LEMMA AtPackageIs ==
  ASSUME Types, NEW c, NEW k, AtPackage(c, k)
  PROVE  /\ c \in 1..Len(tree) /\ k \in 1..Len(Pkgs(tree, c)) /\ k \in 1..Len(tree[c].packages)
         /\ Writable(tree[c].packages[k], Hdr(tree, options))
         /\ seen \in 1..Len(AllPackages(tree)) /\ seen = SeenBefore(tree, c) + k
         /\ AllPackages(tree)[seen] = With(tree[c].packages[k], [category |-> tree[c].name])
         /\ PartsOf(tree, options, c, k) \in Seq(Seq(Byte)) /\ Len(PartsOf(tree, options, c, k)) = 5
         /\ pos \in Nat
<1>1. GoodTree(tree, options)
  BY Good
<1>2. At(c, k) /\ c # 0 /\ k # 0
  BY DEF AtPackage
<1>3. c \in 0..Len(tree) /\ k \in 0..Len(Pkgs(tree, c)) /\ Len(tree) \in Nat /\ Len(Pkgs(tree, c)) \in Nat
  BY <1>2, AtIs
<1>4. c \in 1..Len(tree) /\ k \in 1..Len(Pkgs(tree, c)) /\ k \in 1..Len(tree[c].packages)
  <2>1. c \in 1..Len(tree) /\ k \in 1..Len(Pkgs(tree, c))
    BY <1>2, <1>3
  <2>2. Pkgs(tree, c) = tree[c].packages
    BY <1>2 DEF Pkgs
  <2>3. QED
    BY <2>1, <2>2
<1>5. Writable(tree[c].packages[k], Hdr(tree, options))
  BY <1>1, <1>4, TreeWritable
<1>6. seen = SeenBefore(tree, c) + k
  BY <1>2 DEF At
<1>7. seen \in 1..Len(AllPackages(tree))
      /\ AllPackages(tree)[seen] = With(tree[c].packages[k], [category |-> tree[c].name])
  BY <1>1, <1>3, <1>4, <1>6, SeenIs
<1>8. PartsOf(tree, options, c, k) \in Seq(Seq(Byte)) /\ Len(PartsOf(tree, options, c, k)) = 5
  BY <1>5, PartsAre DEF PartsOf
<1>9. pos \in Nat
  BY DEF AtPackage, Ahead
<1>10. QED
  BY <1>4, <1>5, <1>6, <1>7, <1>8, <1>9

(* What a partial read of a package does. *)
ReadPart(a, need, c, k) ==
  \/ /\ a.ok
     /\ Ahead(file, whole, From(PartsOf(tree, options, c, k), Reached(need))
                             \o After(tree, options, c, k), a.pos)
     /\ Reached(need) = 7 => Ahead(file, whole, After(tree, options, c, k), a.pos)
     /\ HoldsPackage(a.val, tree[c].packages[k], tree[c].name, options[2])
     /\ Reached(need) >= 5 => "versions" \in DOMAIN a.val
  \/ /\ ~ a.ok /\ ~ whole
     /\ \A w \in Seq(Byte) : Ahead(file, whole, w, a.pos)

(* One call of Attributes at a package reads up to the stage asked for, or fails in a short file. *)
LEMMA PackageRead ==
  ASSUME Types, NEW c, NEW k, AtPackage(c, k), SameHeader(header, Hdr(tree, options), options[2]),
         NEW need \in 1..7
  PROVE  ReadPart(Attributes(need), need, c, k)
<1> DEFINE p == tree[c].packages[k]
           cat == tree[c].name
           h == Hdr(tree, options)
           ab == PartsOf(tree, options, c, k)
           b == After(tree, options, c, k)
           use == options[2]
           r == Attributes(need)
<1>1. /\ c \in 1..Len(tree) /\ Writable(p, h) /\ ab \in Seq(Seq(Byte)) /\ Len(ab) = 5 /\ pos \in Nat
  BY AtPackageIs
<1>2. /\ At(c, k) /\ Ahead(file, whole, From(ab, have) \o b, pos)
      /\ HoldsPackage(pkg, p, cat, use)
      /\ have >= 5 => "versions" \in DOMAIN pkg
  BY DEF AtPackage
<1>3. b \in Seq(Byte) /\ Len(b) \in Nat
  <2>1. b \in Seq(Byte)
    BY <1>2, AtIs
  <2>2. QED
    BY <2>1
<1>4. file \in Seq(Byte) /\ have \in {0, 1, 2, 3, 4, 5, 7} /\ have \in Nat
  BY DEF Types
<1>5. use \in UseOptions
  BY PackageReaderAssumption DEF Types
<1> HIDE DEF b, h, p, cat, use
<1>6. ab = Parts(p, h)
  BY DEF PartsOf, p, h
<1> HIDE DEF ab
<1>7. PackageIn(file, p, h, header, use)
  BY <1>1, <1>4, <1>5 DEF PackageIn, Writable, h, use
<1>8. From(ab, have) \in Seq(Byte)
  BY <1>1, <1>4, FromType
<1>9. Occurs(From(ab, have), file, pos)
  BY <1>2, <1>3, <1>4, <1>8, AheadSplit
<1>10. Reading(p, h, cat)
  BY <1>1, <1>2, <1>4, <1>6, <1>7, <1>9 DEF Reading, use
<1>11. PICK x, a : AttributesAre(need, x, a, p, h, cat)
  BY <1>10, AttributesRead
<1> DEFINE y == From(ab, Reached(need))
<1>12. /\ x \in Seq(Byte) /\ From(ab, have) = x \o y
       /\ Reads(r, file, pos + Len(x), a)
       /\ HoldsPackage(a, p, cat, use)
       /\ Reached(need) >= 5 => "versions" \in DOMAIN a
  BY <1>6, <1>11 DEF AttributesAre, use
<1>13. Reached(need) \in Nat
  BY <1>4 DEF Reached
<1>14. y \in Seq(Byte)
  BY <1>1, <1>13, FromType
<1>15. Reached(need) = 7 => y = <<>>
  <2>1. ASSUME Reached(need) = 7  PROVE y = <<>>
    <3>1. From(ab, 7) = <<>>
      <4>1. Len(ab) \in Nat /\ 7 \in Nat /\ 7 >= Len(ab)
        BY <1>1
      <4>2. QED
        BY <4>1, FromEnd
    <3>2. QED
      BY <2>1, <3>1
  <2>2. QED
    BY <2>1
<1> HIDE DEF y, r
<1>16. y \o b \in Seq(Byte) /\ (x \o y) \o b = x \o (y \o b)
  <2>1. x \in Seq(Byte) /\ y \in Seq(Byte) /\ b \in Seq(Byte)
    BY <1>3, <1>12, <1>14
  <2>2. (x \o y) \o b = x \o (y \o b)
    <3>1. Associates(x, y, b)
      BY ONLY <2>1, Associative
    <3>2. QED
      BY ONLY <3>1 DEF Associates
  <2>3. y \o b \in Seq(Byte)
    BY <2>1
  <2>4. QED
    BY <2>2, <2>3
<1> DEFINE yb == y \o b
<1>17. Ahead(file, whole, x \o yb, pos)
  BY <1>2, <1>12, <1>16
<1>18. yb \in Seq(Byte) /\ (Reached(need) = 7 => yb = b)
  <2>1. <<>> \o b = b
    BY <1>3
  <2>2. QED
    BY <1>15, <1>16, <2>1
<1> HIDE DEF yb
<1>19. ReadRight(r, file, whole, pos + Len(x), a, yb)
  BY <1>4, <1>12, <1>17, <1>18, ReadAhead
<1>20. CASE r.ok /\ r.pos = pos + Len(x) /\ r.val = a /\ pos + Len(x) \in Nat
            /\ Ahead(file, whole, yb, pos + Len(x))
  <2>1. Ahead(file, whole, yb, r.pos) /\ (Reached(need) = 7 => Ahead(file, whole, b, r.pos))
    BY <1>18, <1>20
  <2>2. HoldsPackage(r.val, p, cat, use) /\ (Reached(need) >= 5 => "versions" \in DOMAIN r.val)
    BY <1>12, <1>20
  <2>3. QED
    BY <1>20, <2>1, <2>2 DEF ReadPart, yb, y, ab, b, p, cat, use, r
<1>21. CASE ~ r.ok /\ ~ whole /\ r.pos \in Nat /\ \A w \in Seq(Byte) : Ahead(file, FALSE, w, r.pos)
  <2>1. \A w \in Seq(Byte) : Ahead(file, whole, w, r.pos)
    BY <1>21 DEF Ahead
  <2>2. QED
    BY <1>21, <2>1 DEF ReadPart, r
<1>22. QED
  BY <1>19, <1>20, <1>21 DEF ReadRight

-------------------------------------------------------------------------------
(* The steps of the reader *)

(* Opening the file and reading its header keeps the invariant. *)
LEMMA OpenStep == ASSUME IInv, open  PROVE IInv'
<1> DEFINE t == tree
           o == options
           use == options[2]
           h == Hdr(t, o)
           w == Bytes(write_header(h, Len(t), Overlays, <<>>))
           b == After(t, o, 0, 0)
           r == read_header(file, use)
<1>1. Types /\ Position /\ Errors /\ pc = "header" /\ GoodTree(t, o)
  BY Good DEF IInv, open
<1>2. /\ Ahead(file, whole, WrittenFile(t, o), 0)
      /\ pos = 0 /\ cat_size = 0 /\ seen = 0 /\ out = <<>>
  BY <1>1 DEF Position
<1>3. WrittenFile(t, o) = w \o b /\ w \in Seq(Byte)
  BY <1>1, FileIs
<1>4. b \in Seq(Byte) /\ Len(t) \in Nat /\ GoodHeader(h) /\ use \in UseOptions
  <2>1. Len(t) \in Nat /\ GoodHeader(h) /\ use \in UseOptions
    BY <1>1, TreeWritable
  <2>2. 0 \in 0..Len(t) /\ 0 \in Nat
    BY <2>1
  <2>3. QED
    BY <1>1, <2>1, <2>2, AfterType
<1>5. file \in Seq(Byte)
  BY <1>1 DEF Types
<1>6. PICK x : Reads(r, file, Len(w), x) /\ SameHeader(x, h, use) /\ x.size = Len(t)
  <2> DEFINE n == Len(t)
             e == <<>>
  <2>1. Ahead(file, whole, w \o b, 0)
    BY <1>2, <1>3
  <2>2. Occurs(w, file, 0)
    <3> HIDE DEF w, b
    <3>1. QED
      BY <1>3, <1>4, <1>5, <2>1, AheadSplit
  <2>3. Overlays \in Seq(OverlayIdent) /\ e \in Seq(ByteString) /\ n \in Nat
    BY <1>4, PackageReaderAssumption
  <2> HIDE DEF n, e, h, use
  <2>4. Occurs(Bytes(write_header(h, n, Overlays, e)), file, 0)
    BY <2>2 DEF n, e
  <2>5. \E x : /\ Reads(read_header(file, use), file, Len(Bytes(write_header(h, n, Overlays, e))), x)
               /\ SameHeader(x, h, use) /\ x.size = n
    BY <1>4, <1>5, <2>3, <2>4, HeaderReads
  <2>6. QED
    BY <2>5 DEF n, e
<1> HIDE DEF w, b, r
<1>7. ReadRight(r, file, whole, 0 + Len(w), x, b)
  <2>1. Len(w) \in Nat
    BY <1>3
  <2>2. Reads(r, file, 0 + Len(w), x)
    BY <1>6, <2>1
  <2>3. Ahead(file, whole, w \o b, 0)
    BY <1>2, <1>3
  <2>4. QED
    BY <1>3, <1>4, <1>5, <2>2, <2>3, ReadAhead
<1>8. /\ pos' = r.pos
      /\ IF r.ok THEN header' = r.val /\ frames' = r.val.size /\ pc' = "next"
                 ELSE pc' = "failed" /\ UNCHANGED <<header, frames>>
      /\ UNCHANGED <<given, cat_size, category, next_pos, have, pkg, error, rest, seen, out>>
  BY DEF open, r
<1>9. UNCHANGED <<tree, options, client, file, whole, cat_size, category, have, error, seen, out>>
  BY <1>8 DEF given
<1>10. Types'
  <2>1. pc' \in {"next", "failed"}
    BY <1>8
  <2>2. QED
    BY <1>1, <1>9, <2>1 DEF Types
<1>11. KeptIn(out', Limit', tree', options'[2])
  BY <1>2, <1>9, KeptNone
<1>12. CASE r.ok /\ r.pos = 0 + Len(w) /\ r.val = x /\ 0 + Len(w) \in Nat
             /\ Ahead(file, whole, b, 0 + Len(w))
  <2>1. pc' = "next" /\ header' = x /\ frames' = Len(t) /\ Ahead(file, whole, b, pos')
    BY <1>6, <1>8, <1>12
  <2>2. SameHeader(header', Hdr(tree', options'), options'[2])
    BY <1>6, <1>9, <2>1
  <2>3. AtNext(0, 0)'
    <3>1. Len(Pkgs(t, 0)) = 0 /\ SeenBefore(t, 0) = 0
      BY DEF Pkgs, SeenBefore
    <3>2. frames' = Len(t) - 0 /\ cat_size' = 0 /\ seen' = 0
      BY <1>2, <1>4, <1>9, <2>1
    <3>3. At(0, 0)'
      <4>1. 0 \in 0..Len(t) /\ 0 \in 0..0 /\ 0 - 0 = 0 /\ 0 + 0 = 0
        BY <1>4
      <4>2. QED
        BY <1>9, <3>1, <3>2, <4>1 DEF At
    <3>4. Ahead(file', whole', After(tree', options', 0, 0), pos')
      BY <1>9, <2>1 DEF b
    <3>5. QED
      BY <3>3, <3>4 DEF AtNext
  <2>4. \E c, k : AtNext(c, k)'
    BY <2>3
  <2>5. Position'
    BY <2>1, <2>2, <2>4 DEF Position
  <2>6. Errors'
    BY <1>1, <1>9, <2>1 DEF Errors
  <2>7. QED
    BY <1>10, <1>11, <2>1, <2>5, <2>6 DEF IInv
<1>13. CASE ~ r.ok /\ ~ whole
  <2>1. pc' = "failed"
    BY <1>8, <1>13
  <2>2. Position'
    BY <2>1 DEF Position
  <2>3. Errors'
    BY <1>9, <1>13, <2>1 DEF Errors
  <2>4. QED
    BY <1>10, <1>11, <2>1, <2>2, <2>3 DEF IInv
<1>14. QED
  BY <1>7, <1>12, <1>13 DEF ReadRight

(* nextCategory keeps the invariant: the reader stands at the first package of the next category. *)
LEMMA NextCategoryStep == ASSUME IInv, next_category  PROVE IInv'
<1> DEFINE t == tree
           o == options
<1>1. Types /\ Position /\ Errors /\ pc = "next" /\ cat_size = 0 /\ GoodTree(t, o)
  BY Good DEF IInv, next_category
<1>2. PICK c, k : AtNext(c, k)
  BY <1>1 DEF Position
<1>3. At(c, k) /\ Ahead(file, whole, After(t, o, c, k), pos)
  BY <1>2 DEF AtNext
<1>4. /\ c \in 0..Len(t) /\ Len(t) \in Nat /\ c \in Nat /\ k \in Nat
      /\ Len(Pkgs(t, c)) \in Nat /\ SeenBefore(t, c) \in Nat
  BY <1>1, <1>3, AtIs
<1>5. /\ k = Len(Pkgs(t, c)) /\ frames = Len(t) - c /\ seen = SeenBefore(t, c) + k
  <2>1. cat_size = Len(Pkgs(t, c)) - k /\ frames = Len(t) - c /\ seen = SeenBefore(t, c) + k
    BY <1>3 DEF At
  <2>2. QED
    BY <1>1, <1>4, <2>1
<1>6. UNCHANGED <<tree, options, client, file, whole, header, next_pos, have, pkg, seen, out>>
  BY DEF next_category, given
<1>7. SameHeader(header', Hdr(tree', options'), options'[2])
  BY <1>1, <1>6 DEF Position
<1>8. ~ error => KeptIn(out, seen, t, o[2])
  BY <1>1 DEF IInv, Limit
<1>9. CASE frames = 0
  <2>1. pc' = "end" /\ error' = error
    BY <1>1, <1>9 DEF next_category, Types
  <2>2. seen' = Len(AllPackages(tree'))
    <3>1. c = Len(t)
      BY <1>4, <1>5, <1>9
    <3>2. QED
      BY <1>1, <1>4, <1>5, <1>6, <3>1, SeenIs
  <2>3. Types'
    BY <1>1, <1>6, <2>1 DEF Types
  <2>4. Position'
    BY <2>1, <2>2 DEF Position
  <2>5. Errors'
    BY <1>1, <1>6, <2>1 DEF Errors
  <2>6. Limit' = seen
    BY <1>6, <2>1 DEF Limit
  <2>7. QED
    BY <1>6, <1>8, <2>1, <2>3, <2>4, <2>5, <2>6 DEF IInv
<1>10. CASE frames # 0
  <2> DEFINE d == c + 1
             w == CategoryStart(t, d)
             b == After(t, o, d, 0)
             x == t[d]
             r == read_category_header(file, pos)
  <2>1. c # Len(t) /\ d \in 1..Len(t) /\ d # 0 /\ d \in 0..Len(t)
    BY <1>4, <1>5, <1>10
  <2>2. After(t, o, c, k) = w \o b /\ w \in Seq(Byte)
    BY <1>1, <1>4, <1>5, <2>1, AfterCategory
  <2>3. b \in Seq(Byte)
    <3>1. 0 \in Nat
      OBVIOUS
    <3>2. QED
      BY <1>1, <2>1, <3>1, AfterType
  <2>4. file \in Seq(Byte)
    BY <1>1 DEF Types
  <2>5. x \in Category /\ x.name \in ByteString /\ Len(x.packages) \in Nat
    <3>1. x \in Category /\ Len(x.packages) \in Nat
      BY <1>1, <2>1, TreeWritable
    <3> HIDE DEF x
    <3>2. QED
      BY <3>1 DEF Category
  <2>6. PICK rec : /\ rec.name = x.name /\ rec.size = Len(x.packages)
                   /\ \A q \in Nat : Occurs(w, file, q) =>
                        Reads(read_category_header(file, q), file, q + Len(w), rec)
    <3> DEFINE n == Len(x.packages)
               name == x.name
    <3>1. name \in ByteString /\ n \in Nat
      BY <2>5
    <3>2. w = Bytes(write_category_header(name, n))
      BY DEF CategoryStart
    <3> HIDE DEF n, name, w
    <3>3. \E v : /\ v.name = name /\ v.size = n
                 /\ \A q \in Nat : Occurs(Bytes(write_category_header(name, n)), file, q) =>
                        Reads(read_category_header(file, q), file,
                              q + Len(Bytes(write_category_header(name, n))), v)
      BY <2>4, <3>1, CategoryReads
    <3>4. QED
      BY <3>2, <3>3 DEF n, name
  <2> HIDE DEF w, b
  <2>7. Ahead(file, whole, w \o b, pos)
    BY <1>3, <2>2
  <2>8. Occurs(w, file, pos) /\ pos \in Nat
    BY <2>2, <2>3, <2>4, <2>7, AheadSplit
  <2>9. Reads(r, file, pos + Len(w), rec)
    BY <2>6, <2>8
  <2> HIDE DEF r
  <2>10. ReadRight(r, file, whole, pos + Len(w), rec, b)
    BY <2>2, <2>3, <2>4, <2>7, <2>9, ReadAhead
  <2>11. /\ frames' = Decrement(frames) /\ pos' = r.pos
         /\ IF r.ok
              THEN category' = r.val.name /\ cat_size' = r.val.size /\ UNCHANGED <<error, pc>>
              ELSE error' = TRUE /\ pc' = "end"
    BY <1>1, <1>10 DEF next_category, r, Types
  <2>12. CASE r.ok /\ r.pos = pos + Len(w) /\ r.val = rec /\ pos + Len(w) \in Nat
              /\ Ahead(file, whole, b, pos + Len(w))
    <3>1. /\ pc' = "next" /\ error' = error /\ category' = x.name /\ cat_size' = Len(x.packages)
          /\ Ahead(file, whole, b, pos')
      BY <1>1, <2>6, <2>11, <2>12
    <3>2. frames' = Len(t) - d
      BY <1>4, <1>5, <1>10, <2>11 DEF Decrement
    <3>3. seen' = SeenBefore(t, d) + 0
      <4>1. SeenBefore(t, d) = SeenBefore(t, c) + Len(Pkgs(t, c))
        BY <1>1, <1>4, <2>1, SeenIs
      <4>2. QED
        BY <1>4, <1>5, <1>6, <4>1
    <3>4. AtNext(d, 0)'
      <4>1. Pkgs(t, d) = x.packages
        BY <2>1 DEF Pkgs
      <4>2. 0 \in 0..Len(x.packages) /\ cat_size' = Len(x.packages) - 0
        BY <2>5, <3>1
      <4> HIDE DEF d, x
      <4>3. At(d, 0)'
        BY <1>6, <2>1, <3>1, <3>2, <3>3, <4>1, <4>2 DEF At, x
      <4>4. Ahead(file', whole', After(tree', options', d, 0), pos')
        BY <1>6, <3>1 DEF b
      <4>5. QED
        BY <4>3, <4>4 DEF AtNext
    <3>5. \E i, j : AtNext(i, j)'
      BY <3>4
    <3>6. Types'
      BY <1>1, <1>6, <3>1 DEF Types
    <3>7. Position'
      BY <1>7, <3>1, <3>5 DEF Position
    <3>8. Errors'
      BY <1>1, <1>6, <3>1 DEF Errors
    <3>9. Limit' = seen
      BY <1>6, <3>1 DEF Limit
    <3>10. QED
      BY <1>6, <1>8, <3>1, <3>6, <3>7, <3>8, <3>9 DEF IInv
  <2>13. CASE ~ r.ok /\ ~ whole
    <3>1. error' = TRUE /\ pc' = "end"
      BY <2>11, <2>13
    <3>2. Types'
      BY <1>1, <1>6, <3>1 DEF Types
    <3>3. Position'
      BY <3>1 DEF Position
    <3>4. Errors'
      BY <1>6, <2>13, <3>1 DEF Errors
    <3>5. QED
      BY <3>1, <3>2, <3>3, <3>4 DEF IInv
  <2>14. QED
    BY <2>10, <2>12, <2>13 DEF ReadRight
<1>11. QED
  BY <1>9, <1>10

(* next keeps the invariant: the reader stands in the next package and knows where it ends. *)
LEMMA NextStep == ASSUME IInv, next  PROVE IInv'
<1> DEFINE t == tree
           o == options
           use == options[2]
           h == Hdr(t, o)
           r == read_num(file, pos)
<1>1. Types /\ Position /\ Errors /\ pc = "next" /\ cat_size # 0 /\ GoodTree(t, o)
  BY Good DEF IInv, next
<1>2. PICK c, j : AtNext(c, j)
  BY <1>1 DEF Position
<1>3. At(c, j) /\ Ahead(file, whole, After(t, o, c, j), pos)
  BY <1>2 DEF AtNext
<1> DEFINE k == j + 1
           p == t[c].packages[k]
           ab == PartsOf(t, o, c, k)
           w == From(ab, 0)
           n == write_num(Len(w))
           b == After(t, o, c, k)
           wb == w \o b
<1>4. /\ c \in 0..Len(t) /\ Len(t) \in Nat /\ c \in Nat /\ j \in Nat /\ j \in 0..Len(Pkgs(t, c))
      /\ Len(Pkgs(t, c)) \in Nat /\ SeenBefore(t, c) \in Nat
  BY <1>1, <1>3, AtIs
<1>5. /\ cat_size = Len(Pkgs(t, c)) - j /\ frames = Len(t) - c /\ seen = SeenBefore(t, c) + j
      /\ c # 0 => category = t[c].name
  BY <1>3 DEF At
<1>6. c # 0 /\ k \in 1..Len(Pkgs(t, c)) /\ Pkgs(t, c) = t[c].packages /\ c \in 1..Len(t) /\ k - 1 = j
  <2>1. j < Len(Pkgs(t, c))
    BY <1>1, <1>4, <1>5
  <2>2. c # 0
    BY <1>4, <2>1 DEF Pkgs
  <2>3. QED
    BY <1>4, <2>1, <2>2 DEF Pkgs
<1>7. /\ w \in Seq(Byte) /\ Len(w) \in Nat
      /\ After(t, o, c, j) = n \o wb /\ n \in Seq(Byte)
  <2>1. k \in 1..Len(t[c].packages)
    BY <1>6
  <2> HIDE DEF k
  <2>2. LET v == From(Parts(t[c].packages[k], Hdr(t, o)), 0)
        IN  /\ v \in Seq(Byte) /\ Len(v) \in Nat
            /\ After(t, o, c, k - 1) = write_num(Len(v)) \o (v \o After(t, o, c, k))
            /\ write_num(Len(v)) \in Seq(Byte)
    BY <1>1, <1>6, <2>1, AfterPackage
  <2>3. QED
    BY <1>6, <2>2 DEF PartsOf
<1>8. b \in Seq(Byte)
  <2>1. k \in Nat
    BY <1>4
  <2> HIDE DEF k
  <2>2. QED
    BY <1>1, <1>4, <2>1, AfterType
<1>9. file \in Seq(Byte)
  BY <1>1 DEF Types
<1> HIDE DEF k, w, b, n
<1>10. wb \in Seq(Byte)
  BY <1>7, <1>8
<1> HIDE DEF wb
<1>11. Ahead(file, whole, n \o wb, pos)
  BY <1>3, <1>7
<1>12. Occurs(n, file, pos) /\ pos \in Nat
  BY <1>7, <1>9, <1>10, <1>11, AheadSplit
<1>13. Reads(r, file, pos + Len(n), Len(w))
  BY <1>7, <1>9, <1>12, ReadNumReads DEF n
<1> HIDE DEF r
<1>14. ReadRight(r, file, whole, pos + Len(n), Len(w), wb)
  BY <1>7, <1>9, <1>10, <1>11, <1>13, ReadAhead
<1>15. UNCHANGED <<tree, options, client, file, whole, header, frames, category, out>>
  BY DEF next, given
<1>16. SameHeader(header', Hdr(tree', options'), options'[2])
  BY <1>1, <1>15 DEF Position
<1>17. ~ error => KeptIn(out, seen, t, use)
  BY <1>1 DEF IInv, Limit
<1>18. /\ cat_size' = Decrement(cat_size) /\ pos' = r.pos
       /\ IF r.ok
            THEN /\ next_pos' = r.pos + r.val /\ have' = 0 /\ pkg' = [category |-> category]
                 /\ seen' = seen + 1 /\ pc' = "package" /\ UNCHANGED error
            ELSE error' = TRUE /\ pc' = "end" /\ UNCHANGED <<have, seen>>
  BY DEF next, r, NONE
<1>19. CASE /\ r.ok /\ r.pos = pos + Len(n) /\ r.val = Len(w) /\ pos + Len(n) \in Nat
            /\ Ahead(file, whole, wb, pos + Len(n))
  <2>1. /\ have' = 0 /\ pkg' = [category |-> category] /\ seen' = seen + 1 /\ pc' = "package"
        /\ error' = error /\ next_pos' = pos' + Len(w) /\ Ahead(file, whole, wb, pos')
    BY <1>18, <1>19
  <2>2. Ahead(file, whole, b, next_pos')
    <3>1. Ahead(file, whole, w \o b, pos')
      BY <2>1 DEF wb
    <3> DEFINE q == pos'
    <3> HIDE DEF q
    <3>2. Ahead(file, whole, b, q + Len(w))
      BY <1>7, <1>8, <1>9, <3>1, AheadSplit DEF q
    <3>3. QED
      BY <2>1, <3>2 DEF q
  <2>3. HoldsPackage([category |-> category], t[c].packages[k], t[c].name, use)
    <3> DEFINE a == [category |-> category]
    <3>1. DOMAIN a = {"category"} /\ a["category"] = t[c].name
      BY <1>5, <1>6
    <3> HIDE DEF a
    <3>2. "category" \notin PureNames /\ "versions" \notin DOMAIN a
      BY <3>1 DEF PureNames
    <3>3. HoldsPackage(a, t[c].packages[k], t[c].name, use)
      BY <3>1, <3>2 DEF HoldsPackage
    <3>4. QED
      BY <3>3 DEF a
  <2>4. At(c, k)'
    <3>1. k \in 0..Len(Pkgs(t, c)) /\ cat_size' = Len(Pkgs(t, c)) - k /\ seen' = SeenBefore(t, c) + k
      <4>1. cat_size' = cat_size - 1
        BY <1>1, <1>18 DEF Decrement
      <4>2. QED
        BY <1>4, <1>5, <1>6, <2>1, <4>1, SMTT(30), ZenonT(30) DEF k
    <3>2. QED
      BY <1>4, <1>5, <1>15, <3>1 DEF At
  <2>5. AtPackage(c, k)'
    <3>1. c # 0 /\ k # 0
      BY <1>4, <1>6
    <3>2. Ahead(file', whole', From(PartsOf(tree', options', c, k), have') \o After(tree', options', c, k), pos')
      BY <1>15, <2>1 DEF wb, w, b
    <3>3. Ahead(file', whole', After(tree', options', c, k), next_pos')
      BY <1>15, <2>2 DEF b
    <3>4. HoldsPackage(pkg', tree'[c].packages[k], tree'[c].name, options'[2])
      BY <1>15, <2>1, <2>3
    <3>5. ~ (have' >= 5)
      BY <2>1
    <3>6. QED
      BY <2>4, <3>1, <3>2, <3>3, <3>4, <3>5 DEF AtPackage
  <2>6. \E i, l : AtPackage(i, l)'
    BY <2>5
  <2>7. Types'
    BY <1>1, <1>15, <2>1 DEF Types
  <2>8. Position'
    BY <1>16, <2>1, <2>6 DEF Position
  <2>9. Errors'
    BY <1>1, <1>15, <2>1 DEF Errors
  <2>10. Limit' = seen
    BY <1>4, <1>5, <2>1 DEF Limit
  <2>11. have' # 7
    BY <2>1
  <2>12. QED
    BY <1>15, <1>17, <2>1, <2>7, <2>8, <2>9, <2>10, <2>11 DEF IInv
<1>20. CASE ~ r.ok /\ ~ whole
  <2>1. error' = TRUE /\ pc' = "end" /\ UNCHANGED <<have, seen>>
    BY <1>18, <1>20
  <2>2. Types'
    BY <1>1, <1>15, <2>1 DEF Types
  <2>3. Position'
    BY <2>1 DEF Position
  <2>4. Errors'
    BY <1>15, <1>20, <2>1 DEF Errors
  <2>5. QED
    BY <2>1, <2>2, <2>3, <2>4 DEF IInv
<1>21. QED
  BY <1>14, <1>19, <1>20 DEF ReadRight

-------------------------------------------------------------------------------
(* The steps of the clients *)

(* A partial read of a package, and what the reader is then. *)
PartRead(need, a) ==
  /\ pos' = a.pos
  /\ IF a.ok THEN have' = Reached(need) /\ pkg' = a.val /\ error' = error
             ELSE error' = TRUE /\ have' = have /\ pkg' = pkg
  /\ UNCHANGED <<tree, options, client, file, whole, header, frames, cat_size, category, next_pos, seen>>

(* The reader stays at the package. *)
LEMMA StaysAtPackage ==
  ASSUME Types, NEW c, NEW k, AtPackage(c, k), SameHeader(header, Hdr(tree, options), options[2]),
         NEW need \in 1..7, PartRead(need, Attributes(need))
  PROVE  /\ AtPackage(c, k)' /\ have' \in {0, 1, 2, 3, 4, 5, 7} \cup {need} /\ error' \in BOOLEAN
         /\ have' = 7 => have = 7 \/ need = 7
         /\ ~ Attributes(need).ok => ~ whole
<1> DEFINE a == Attributes(need)
           x == PartsOf(tree, options, c, k)
           b == After(tree, options, c, k)
           p == tree[c].packages[k]
<1>1. ReadPart(a, need, c, k)
  BY PackageRead
<1>2. /\ At(c, k) /\ c # 0 /\ k # 0
      /\ Ahead(file, whole, b, next_pos)
      /\ HoldsPackage(pkg, p, tree[c].name, options[2])
      /\ have >= 5 => "versions" \in DOMAIN pkg
  BY DEF AtPackage
<1>3. x \in Seq(Seq(Byte)) /\ b \in Seq(Byte)
  BY <1>2, AtPackageIs, AtIs
<1>4. have \in {0, 1, 2, 3, 4, 5, 7} /\ have \in Nat /\ error \in BOOLEAN
  BY DEF Types
<1> HIDE DEF a
<1>5. /\ pos' = a.pos
      /\ IF a.ok THEN have' = Reached(need) /\ pkg' = a.val /\ error' = error
                 ELSE error' = TRUE /\ have' = have /\ pkg' = pkg
      /\ UNCHANGED <<tree, options, client, file, whole, header, frames, cat_size, category, next_pos, seen>>
  BY DEF PartRead, a
<1>6. At(c, k)'
  BY <1>2, <1>5 DEF At
<1>7. CASE a.ok
  <2>1. /\ Ahead(file, whole, From(x, Reached(need)) \o b, a.pos)
        /\ HoldsPackage(a.val, p, tree[c].name, options[2])
        /\ Reached(need) >= 5 => "versions" \in DOMAIN a.val
    BY <1>1, <1>7 DEF ReadPart
  <2>2. have' = Reached(need) /\ pkg' = a.val /\ error' = error /\ pos' = a.pos
    BY <1>5, <1>7
  <2>3. AtPackage(c, k)'
    BY <1>2, <1>5, <1>6, <2>1, <2>2 DEF AtPackage
  <2>4. Reached(need) \in {0, 1, 2, 3, 4, 5, 7} \cup {need} /\ (Reached(need) = 7 => have = 7 \/ need = 7)
    BY <1>4 DEF Reached
  <2>5. QED
    BY <1>4, <1>7, <2>2, <2>3, <2>4 DEF a
<1>8. CASE ~ a.ok
  <2>1. ~ whole /\ \A w \in Seq(Byte) : Ahead(file, whole, w, a.pos)
    BY <1>1, <1>8 DEF ReadPart
  <2>2. have' = have /\ pkg' = pkg /\ error' = TRUE /\ pos' = a.pos
    BY <1>5, <1>8
  <2>3. Ahead(file, whole, From(x, have) \o b, a.pos)
    <3> DEFINE y == From(x, have)
    <3>1. y \in Seq(Byte)
      BY <1>3, <1>4, FromType
    <3> HIDE DEF y
    <3>2. y \o b \in Seq(Byte)
      BY <1>3, <3>1
    <3>3. QED
      BY <2>1, <3>2 DEF y
  <2>4. AtPackage(c, k)'
    BY <1>2, <1>5, <1>6, <2>2, <2>3 DEF AtPackage
  <2>5. QED
    BY <1>4, <1>8, <2>1, <2>2, <2>4
<1>9. QED
  BY <1>7, <1>8

(* read leaves the reader at the stage asked for. *)
LEMMA ReadIsPart ==
  ASSUME NEW need \in 1..7, read(need, Attributes(need)), UNCHANGED given, seen' = seen
  PROVE  PartRead(need, Attributes(need))
<1> DEFINE a == Attributes(need)
<1>1. read(need, a)
  OBVIOUS
<1> HIDE DEF a
<1>2. PartRead(need, a)
  BY <1>1 DEF read, PartRead, Reached, given
<1>3. QED
  BY <1>2 DEF a

(* A package is released, completely or not at all. *)
LEMMA ReleaseIs ==
  ASSUME IInv, pc = "package", have # 7, NEW c, NEW k, AtPackage(c, k), PartRead(7, Attributes(7))
  PROVE  /\ AtNext(c, k)'
         /\ \/ /\ Attributes(7).ok /\ error' = error /\ have' = 7 /\ Attributes(7).val # NULLPTR
               /\ ~ error => KeptIn(Append(out, Attributes(7).val), seen, tree, options[2])
            \/ ~ Attributes(7).ok /\ error' = TRUE /\ have' = have /\ ~ whole
<1> DEFINE a == Attributes(7)
           b == After(tree, options, c, k)
<1>1. /\ Types /\ SameHeader(header, Hdr(tree, options), options[2])
      /\ ~ error => KeptIn(out, seen - 1, tree, options[2])
  BY DEF IInv, Position, Limit
<1>2. ReadPart(a, 7, c, k)
  <2>1. 7 \in 1..7
    OBVIOUS
  <2>2. QED
    BY <1>1, <2>1, PackageRead
<1>3. /\ At(c, k) /\ c \in 1..Len(tree) /\ k \in 1..Len(Pkgs(tree, c))
      /\ seen = SeenBefore(tree, c) + k /\ seen \in Nat \ {0}
  <2>1. At(c, k)
    BY DEF AtPackage
  <2>2. /\ c \in 1..Len(tree) /\ k \in 1..Len(Pkgs(tree, c))
        /\ seen \in 1..Len(AllPackages(tree)) /\ seen = SeenBefore(tree, c) + k
    BY <1>1, AtPackageIs
  <2>3. QED
    BY <2>1, <2>2
<1>4. b \in Seq(Byte)
  BY <1>1, <1>3, AtIs
<1>5. Reached(7) = 7
  BY <1>1 DEF Reached, Types
<1> HIDE DEF a
<1>6. /\ pos' = a.pos
      /\ IF a.ok THEN have' = 7 /\ pkg' = a.val /\ error' = error
                 ELSE error' = TRUE /\ have' = have /\ pkg' = pkg
      /\ UNCHANGED <<tree, options, client, file, whole, header, frames, cat_size, category, next_pos, seen>>
  BY <1>5 DEF PartRead, a
<1>7. At(c, k)'
  BY <1>3, <1>6 DEF At
<1>8. CASE a.ok
  <2>1. /\ Ahead(file, whole, b, a.pos) /\ "versions" \in DOMAIN a.val
        /\ HoldsPackage(a.val, tree[c].packages[k], tree[c].name, options[2])
    BY <1>2, <1>5, <1>8 DEF ReadPart
  <2>2. AtNext(c, k)'
    BY <1>6, <1>7, <1>8, <2>1 DEF AtNext, b
  <2>3. Complete(a.val, seen, tree, options[2])
    BY <1>3, <2>1 DEF Complete
  <2>4. a.val # NULLPTR
    <3>1. "category" \in DOMAIN a.val
      BY <2>1 DEF HoldsPackage
    <3>2. "category" \notin DOMAIN NULLPTR
      BY DEF NULLPTR
    <3>3. QED
      BY <3>1, <3>2
  <2>5. ASSUME ~ error  PROVE KeptIn(Append(out, a.val), seen, tree, options[2])
    <3>1. PICK S : out \in Seq(S)
      BY <1>1 DEF Types
    <3>2. QED
      BY <1>1, <1>3, <2>3, <2>5, <3>1, KeptAppend
  <2>6. QED
    BY <1>6, <1>8, <2>2, <2>4, <2>5 DEF a
<1>9. CASE ~ a.ok
  <2>1. ~ whole /\ Ahead(file, whole, b, a.pos)
    BY <1>2, <1>4, <1>9 DEF ReadPart
  <2>2. AtNext(c, k)'
    BY <1>6, <1>7, <1>9, <2>1 DEF AtNext, b
  <2>3. QED
    BY <1>6, <1>9, <2>1, <2>2 DEF a
<1>10. QED
  BY <1>8, <1>9

(* skip leaves the reader behind the package, whatever stage it had reached. *)
LEMMA SkipIs ==
  ASSUME Types, NEW c, NEW k, AtPackage(c, k), skip, UNCHANGED given, seen' = seen
  PROVE  AtNext(c, k)'
<1> DEFINE x == PartsOf(tree, options, c, k)
           b == After(tree, options, c, k)
<1>1. /\ At(c, k) /\ Ahead(file, whole, From(x, have) \o b, pos) /\ Ahead(file, whole, b, next_pos)
  BY DEF AtPackage
<1>2. x \in Seq(Seq(Byte)) /\ Len(x) = 5 /\ b \in Seq(Byte)
  BY <1>1, AtPackageIs, AtIs
<1>3. At(c, k)'
  BY <1>1 DEF At, skip, given
<1>4. Ahead(file, whole, b, Skipped)
  <2>1. CASE have = 7
    <3>1. From(x, 7) = <<>>
      <4>1. Len(x) \in Nat /\ 7 \in Nat /\ 7 >= Len(x)
        BY <1>2
      <4> HIDE DEF x
      <4>2. QED
        BY <4>1, FromEnd
    <3>2. <<>> \o b = b
      BY <1>2
    <3> HIDE DEF x, b
    <3>3. Ahead(file, whole, b, pos)
      BY <1>1, <2>1, <3>1, <3>2
    <3>4. QED
      BY <2>1, <3>3 DEF Skipped, ALL
  <2>2. CASE have # 7
    BY <1>1, <2>2 DEF Skipped, ALL
  <2>3. QED
    BY <2>1, <2>2
<1>5. pos' = Skipped /\ UNCHANGED <<tree, options, file, whole>>
  BY DEF skip, given
<1>6. Ahead(file', whole', After(tree', options', c, k), pos')
  BY <1>4, <1>5 DEF b
<1>7. QED
  BY <1>3, <1>6 DEF AtNext

(* The client goes on with the next package, or stops. *)
LEMMA GoesOn ==
  ASSUME IInv, Types', UNCHANGED <<tree, options, header>>, NEW c, NEW k, pc = "package",
         AtNext(c, k)', pc' = "next"
  PROVE  Position'
<1>1. SameHeader(header', Hdr(tree', options'), options'[2])
  BY DEF IInv, Position
<1>2. \E i, j : AtNext(i, j)'
  OBVIOUS
<1>3. QED
  BY <1>1, <1>2 DEF Position

(* A test of the main program's search that reads further keeps the invariant. *)
LEMMA MatchReadStep == ASSUME IInv, NEW need \in NAME..VERSIONS, match_read(need)  PROVE IInv'
<1> DEFINE a == Attributes(need)
<1>1. Types /\ Position /\ Errors /\ pc = "package" /\ client = "coreq" /\ have # 7
      /\ need \in 1..7 /\ need \in 1..5
  BY DEF IInv, match_read, NAME, VERSIONS
<1>2. PICK c, k : AtPackage(c, k)
  BY <1>1 DEF Position
<1>3. SameHeader(header, Hdr(tree, options), options[2])
  BY <1>1 DEF Position
<1>4. read(need, a) /\ UNCHANGED <<given, pc, rest, seen, out>>
  BY DEF match_read
<1>5. PartRead(need, a)
  BY <1>1, <1>4, ReadIsPart
<1>6. /\ AtPackage(c, k)' /\ have' \in {0, 1, 2, 3, 4, 5, 7} \cup {need} /\ error' \in BOOLEAN
      /\ have' = 7 => have = 7 \/ need = 7
      /\ ~ a.ok => ~ whole
  BY <1>1, <1>2, <1>3, <1>5, StaysAtPackage
<1> HIDE DEF a
<1>7. /\ UNCHANGED <<tree, options, client, file, whole, pc, seen, out, header>>
      /\ IF a.ok THEN error' = error ELSE error' = TRUE
  BY <1>4, <1>5 DEF given, PartRead
<1>8. have' # 7 /\ have' \in {0, 1, 2, 3, 4, 5, 7}
  BY <1>1, <1>6
<1>9. Types'
  BY <1>1, <1>6, <1>7, <1>8 DEF Types
<1>10. Position'
  <2>1. SameHeader(header', Hdr(tree', options'), options'[2])
    BY <1>3, <1>7
  <2>2. \E i, j : AtPackage(i, j)'
    BY <1>6
  <2>3. pc' = "package"
    BY <1>1, <1>7
  <2>4. QED
    BY <2>1, <2>2, <2>3 DEF Position
<1>11. Errors'
  BY <1>1, <1>6, <1>7 DEF Errors
<1>12. ~ error' => KeptIn(out', Limit', tree', options'[2])
  <2>1. Limit' = Limit
    BY <1>1, <1>7, <1>8 DEF Limit
  <2>2. ~ error' => ~ error
    BY <1>7
  <2>3. ~ error => KeptIn(out, Limit, tree, options[2])
    BY DEF IInv
  <2>4. QED
    BY <1>7, <2>1, <2>2, <2>3
<1>13. QED
  BY <1>8, <1>9, <1>10, <1>11, <1>12 DEF IInv

(* Looking at the name for the cache method keeps the invariant. *)
LEMMA CacheNameStep == ASSUME IInv, cache_name  PROVE IInv'
<1> DEFINE a == Attributes(1)
<1>1. Types /\ Position /\ Errors /\ pc = "package" /\ have = 0 /\ 1 \in 1..7
  BY DEF IInv, cache_name, NONE
<1>2. PICK c, k : AtPackage(c, k)
  BY <1>1 DEF Position
<1>3. SameHeader(header, Hdr(tree, options), options[2])
  BY <1>1 DEF Position
<1>4. /\ read(1, a) /\ UNCHANGED <<given, rest, seen, out>>
      /\ pc' = IF a.ok THEN "package" ELSE "end"
  BY DEF cache_name, NAME
<1>5. PartRead(1, a)
  BY <1>1, <1>4, ReadIsPart
<1>6. /\ AtPackage(c, k)' /\ have' \in {0, 1, 2, 3, 4, 5, 7} \cup {1} /\ error' \in BOOLEAN
      /\ have' = 7 => have = 7 \/ 1 = 7
      /\ ~ a.ok => ~ whole
  BY <1>1, <1>2, <1>3, <1>5, StaysAtPackage
<1> HIDE DEF a
<1>7. /\ UNCHANGED <<tree, options, client, file, whole, seen, out, header>>
      /\ IF a.ok THEN error' = error /\ pc' = "package" ELSE error' = TRUE /\ pc' = "end"
  BY <1>4, <1>5 DEF given, PartRead
<1>8. have' # 7 /\ have' \in {0, 1, 2, 3, 4, 5, 7}
  BY <1>1, <1>6
<1>9. Types'
  BY <1>1, <1>6, <1>7, <1>8 DEF Types
<1>10. Position'
  <2>1. SameHeader(header', Hdr(tree', options'), options'[2])
    BY <1>3, <1>7
  <2>2. \E i, j : AtPackage(i, j)'
    BY <1>6
  <2>3. pc' = "package" \/ (pc' = "end" /\ error')
    BY <1>7
  <2>4. QED
    BY <2>1, <2>2, <2>3 DEF Position
<1>11. Errors'
  BY <1>1, <1>6, <1>7 DEF Errors
<1>12. ~ error' => KeptIn(out', Limit', tree', options'[2])
  <2>1. ASSUME ~ error'  PROVE Limit' = Limit /\ ~ error
    <3>1. pc' = "package" /\ ~ error
      BY <1>7, <2>1
    <3>2. QED
      BY <1>1, <1>7, <1>8, <3>1 DEF Limit
  <2>2. ~ error => KeptIn(out, Limit, tree, options[2])
    BY DEF IInv
  <2>3. QED
    BY <1>7, <2>1, <2>2
<1>13. QED
  BY <1>8, <1>9, <1>10, <1>11, <1>12 DEF IInv

(* The client keeps what was released, if it was, and goes on or ends. *)
LEMMA ReleaseStep ==
  ASSUME IInv, pc = "package", have # 7, read(7, Attributes(7)), UNCHANGED given, seen' = seen,
         \/ Attributes(7).ok /\ out' = Append(out, Attributes(7).val) /\ pc' \in {"next", "enough"}
         \/ ~ Attributes(7).ok /\ out' = out /\ pc' = "end"
         \/ ~ Attributes(7).ok /\ out' = Append(out, NULLPTR) /\ pc' = "next"
  PROVE  IInv'
<1> DEFINE a == Attributes(7)
<1>1. Types /\ Position /\ Errors
  BY DEF IInv
<1>2. PICK c, k : AtPackage(c, k)
  BY <1>1 DEF Position
<1>3. PartRead(7, a)
  <2>1. 7 \in 1..7
    OBVIOUS
  <2>2. QED
    BY <2>1, ReadIsPart
<1>4. /\ AtNext(c, k)'
      /\ \/ /\ a.ok /\ error' = error /\ have' = 7
            /\ ~ error => KeptIn(Append(out, a.val), seen, tree, options[2])
         \/ ~ a.ok /\ error' = TRUE /\ have' = have /\ ~ whole
  BY <1>2, <1>3, ReleaseIs
<1> HIDE DEF a
<1>5. UNCHANGED <<tree, options, client, file, whole, header, seen>>
  BY <1>3 DEF PartRead
<1>6. /\ pc' \in {"next", "enough", "end"}
      /\ \/ a.ok /\ out' = Append(out, a.val) /\ pc' \in {"next", "enough"}
         \/ ~ a.ok
      /\ \/ out' = out \/ \E e : out' = Append(out, e)
  BY DEF a
<1>7. \E S : out' \in Seq(S)
  <2>1. PICK S : out \in Seq(S)
    BY <1>1 DEF Types
  <2>2. ASSUME NEW e, out' = Append(out, e)  PROVE out' \in Seq(S \cup {e})
    <3>1. out \in Seq(S \cup {e}) /\ e \in S \cup {e}
      BY <2>1
    <3>2. Append(out, e) \in Seq(S \cup {e})
      BY <3>1, AppendElements
    <3>3. QED
      BY <2>2, <3>2
  <2>3. QED
    BY <1>6, <2>1, <2>2
<1>8. Types'
  BY <1>1, <1>4, <1>5, <1>6, <1>7 DEF Types
<1>9. Position'
  <2>1. CASE pc' = "next"
    BY <1>4, <1>5, <1>8, <2>1, GoesOn
  <2>2. CASE pc' = "enough"
    BY <2>2 DEF Position
  <2>3. CASE pc' = "end"
    <3>1. error' = TRUE
      BY <1>4, <1>6, <2>3
    <3>2. QED
      BY <2>3, <3>1 DEF Position
  <2>4. QED
    BY <1>6, <2>1, <2>2, <2>3
<1>10. Errors'
  BY <1>1, <1>4, <1>5, <1>6 DEF Errors
<1>11. ~ error' => KeptIn(out', Limit', tree', options'[2])
  <2>1. ASSUME ~ error'  PROVE KeptIn(out', Limit', tree', options'[2])
    <3>1. a.ok /\ ~ error /\ out' = Append(out, a.val)
      BY <1>4, <1>6, <2>1
    <3>2. Limit' = seen
      BY <1>5, <1>6 DEF Limit
    <3>3. KeptIn(Append(out, a.val), seen, tree, options[2])
      BY <1>4, <3>1
    <3>4. QED
      BY <1>5, <3>1, <3>2, <3>3
  <2>2. QED
    BY <2>1
<1>12. QED
  BY <1>6, <1>8, <1>9, <1>10, <1>11 DEF IInv

(* Taking the package over after reading it to its end keeps the invariant. *)
LEMMA ReleaseSteps ==
  ASSUME IInv, coreq_release \/ coreq_rest \/ diff_release
  PROVE  IInv'
<1> DEFINE a == Attributes(7)
<1>1. PICK b \in {a} : b = a
  OBVIOUS
<1>2. /\ pc = "package" /\ client # "coreqcache" /\ read(7, a) /\ UNCHANGED given /\ seen' = seen
      /\ \/ Released(a) = NULLPTR /\ pc' = "end" /\ out' = out
         \/ Released(a) # NULLPTR /\ out' = Append(out, Released(a)) /\ pc' \in {"next", "enough"}
         \/ out' = Append(out, Released(a)) /\ pc' = "next"
  <2>1. CASE coreq_release
    BY <2>1 DEF coreq_release, ALL
  <2>2. CASE coreq_rest
    BY <2>2 DEF coreq_rest, ALL
  <2>3. CASE diff_release
    BY <2>3 DEF diff_release, ALL
  <2>4. QED
    BY <2>1, <2>2, <2>3
<1>3. have # 7
  BY <1>2 DEF IInv
<1>4. PICK c, k : AtPackage(c, k)
  BY <1>2 DEF IInv, Position
<1>5. PartRead(7, a)
  <2>1. 7 \in 1..7
    OBVIOUS
  <2>2. QED
    BY <1>2, <2>1, ReadIsPart
<1>6. a.ok => a.val # NULLPTR
  BY <1>2, <1>3, <1>4, <1>5, ReleaseIs
<1>7. \/ a.ok /\ out' = Append(out, a.val) /\ pc' \in {"next", "enough"}
      \/ ~ a.ok /\ out' = out /\ pc' = "end"
      \/ ~ a.ok /\ out' = Append(out, NULLPTR) /\ pc' = "next"
  <2> HIDE DEF a
  <2>1. CASE a.ok
    BY <1>2, <1>6, <2>1 DEF Released
  <2>2. CASE ~ a.ok
    BY <1>2, <2>2 DEF Released
  <2>3. QED
    BY <2>1, <2>2
<1>8. QED
  BY <1>2, <1>3, <1>7, ReleaseStep

(* Reading the package for the cache method keeps the invariant. *)
LEMMA CacheReadStep == ASSUME IInv, cache_read  PROVE IInv'
<1> DEFINE a == Attributes(7)
<1>1. Types /\ Position /\ Errors /\ pc = "package" /\ have = 1 /\ 7 \in 1..7 /\ client = "coreqcache"
  BY DEF IInv, cache_read, NAME
<1>2. PICK c, k : AtPackage(c, k)
  BY <1>1 DEF Position
<1>3. SameHeader(header, Hdr(tree, options), options[2])
  BY <1>1 DEF Position
<1>4. /\ read(7, a) /\ UNCHANGED <<given, rest, seen>>
      /\ IF a.ok THEN out' = Append(out, a.val) /\ UNCHANGED pc
                 ELSE pc' = "end" /\ UNCHANGED out
  BY DEF cache_read, ALL
<1>5. PartRead(7, a)
  BY <1>1, <1>4, ReadIsPart
<1>6. AtPackage(c, k)' /\ have' \in {0, 1, 2, 3, 4, 5, 7} /\ error' \in BOOLEAN
  BY <1>1, <1>2, <1>3, <1>5, StaysAtPackage
<1>7. CASE ~ a.ok
  <2>1. ~ a.ok /\ out' = out /\ pc' = "end" /\ have # 7 /\ seen' = seen
    BY <1>1, <1>4, <1>7
  <2>2. QED
    BY <1>1, <1>4, <2>1, ReleaseStep
<1>8. CASE a.ok
  <2>1. /\ error' = error /\ have' = 7
        /\ ~ error => KeptIn(Append(out, a.val), seen, tree, options[2])
    <3>1. have # 7
      BY <1>1
    <3>2. \/ /\ a.ok /\ error' = error /\ have' = 7 /\ a.val # NULLPTR
             /\ ~ error => KeptIn(Append(out, a.val), seen, tree, options[2])
          \/ ~ a.ok /\ error' = TRUE /\ have' = have /\ ~ whole
      BY <1>1, <1>2, <1>5, <3>1, ReleaseIs
    <3> HIDE DEF a
    <3>3. QED
      BY <1>8, <3>2
  <2> HIDE DEF a
  <2>2. /\ UNCHANGED <<tree, options, client, file, whole, seen, header>>
        /\ out' = Append(out, a.val) /\ pc' = "package"
    BY <1>1, <1>4, <1>5, <1>8 DEF given, PartRead
  <2>3. \E S : out' \in Seq(S)
    <3>1. PICK S : out \in Seq(S)
      BY <1>1 DEF Types
    <3> DEFINE e == a.val
    <3>2. out \in Seq(S \cup {e}) /\ e \in S \cup {e}
      BY <3>1
    <3> HIDE DEF e
    <3>3. Append(out, e) \in Seq(S \cup {e})
      BY <3>2, AppendElements
    <3>4. QED
      BY <2>2, <3>3 DEF e
  <2>4. Types'
    BY <1>1, <1>6, <2>2, <2>3 DEF Types
  <2>5. Position'
    <3>1. SameHeader(header', Hdr(tree', options'), options'[2])
      BY <1>3, <2>2
    <3>2. \E i, j : AtPackage(i, j)'
      BY <1>6
    <3>3. QED
      BY <2>2, <3>1, <3>2 DEF Position
  <2>6. Errors'
    BY <1>1, <2>1, <2>2 DEF Errors
  <2>7. Limit' = seen
    BY <2>1, <2>2 DEF Limit
  <2>8. ~ error' => KeptIn(out', Limit', tree', options'[2])
    BY <2>1, <2>2, <2>7
  <2>9. client' = "coreqcache"
    BY <1>1, <2>2
  <2>10. QED
    BY <2>4, <2>5, <2>6, <2>8, <2>9 DEF IInv
<1>9. QED
  BY <1>7, <1>8

(* Skipping a package keeps the invariant. *)
LEMMA SkipStep ==
  ASSUME IInv, pc = "package", skip, UNCHANGED <<given, seen, out>>, pc' = "next"
  PROVE  IInv'
<1>1. Types /\ Position /\ Errors
  BY DEF IInv
<1>2. PICK c, k : AtPackage(c, k)
  BY <1>1 DEF Position
<1>3. AtNext(c, k)'
  BY <1>1, <1>2, SkipIs
<1>4. UNCHANGED <<tree, options, client, file, whole, seen, out, header, error, have>>
  BY DEF skip, given
<1>5. Types'
  BY <1>1, <1>4 DEF Types
<1>6. Position'
  BY <1>3, <1>4, <1>5, GoesOn
<1>7. Errors'
  BY <1>1, <1>4 DEF Errors
<1>8. ~ error' => KeptIn(out', Limit', tree', options'[2])
  <2>1. ~ error => KeptIn(out, Limit, tree, options[2])
    BY DEF IInv
  <2>2. Limit \in Int /\ seen \in Int /\ Limit <= seen /\ Limit' = seen
    BY <1>1, <1>4 DEF Limit, Types
  <2>3. ~ error => KeptIn(out, seen, tree, options[2])
    BY <2>1, <2>2, KeptMore
  <2>4. QED
    BY <1>4, <2>2, <2>3
<1>9. QED
  BY <1>5, <1>6, <1>7, <1>8 DEF IInv

(* The end of the loop over the packages keeps the invariant. *)
LEMMA FinishStep == ASSUME IInv, finish  PROVE IInv'
<1>1. Types /\ Position /\ Errors /\ pc \in {"end", "enough"}
  BY DEF IInv, finish
<1>2. /\ pc' = IF error THEN "failed" ELSE "done"
      /\ UNCHANGED <<tree, options, client, file, whole, seen, out, error, have>>
  BY DEF finish, given, reader
<1>3. Types'
  BY <1>1, <1>2 DEF Types
<1>4. Position'
  BY <1>2 DEF Position
<1>5. Errors'
  BY <1>1, <1>2 DEF Errors
<1>6. Limit' = seen /\ Limit = seen
  BY <1>1, <1>2 DEF Limit
<1>7. ~ error' => KeptIn(out', Limit', tree', options'[2])
  BY <1>2, <1>6 DEF IInv
<1>8. QED
  BY <1>2, <1>3, <1>4, <1>5, <1>7 DEF IInv

-------------------------------------------------------------------------------
(* The invariant *)

(* The invariant holds initially. *)
LEMMA InitIsGood == ASSUME Init  PROVE IInv
<1> DEFINE w == WrittenFile(tree, options)
<1>1. /\ tree \in Trees /\ options \in Options
      /\ pos = 0 /\ cat_size = 0 /\ have = 0 /\ error = FALSE /\ pc = "header" /\ seen = 0
      /\ out = <<>>
  BY DEF Init, NONE
<1>2. PICK cut \in 0..Len(w) : file = SubSeq(w, 1, cut) /\ whole = (cut = Len(w))
  BY DEF Init
<1>3. GoodTree(tree, options)
  BY <1>1, PackageReaderAssumption DEF GoodTree
<1>4. w \in Seq(Byte)
  BY <1>3, FileIs
<1> HIDE DEF w
<1>5. /\ file \in Seq(Byte) /\ Len(w) \in Nat /\ Len(file) = cut /\ cut <= Len(w)
      /\ \A i \in 1..cut : file[i] = w[i]
  <2>1. Len(w) \in Nat
    BY <1>4
  <2>2. SubSeq(w, 1, cut) \in Seq(Byte) /\ Len(SubSeq(w, 1, cut)) = cut
    BY <1>4, <2>1
  <2>3. \A i \in 1..cut : SubSeq(w, 1, cut)[i] = w[i]
    BY <1>4, <2>1
  <2>4. QED
    BY <1>2, <2>1, <2>2, <2>3
<1>6. Ahead(file, whole, w, 0)
  <2>1. Occurs(w, file, 0)
    BY <1>5 DEF Occurs
  <2>2. ASSUME whole  PROVE 0 + Len(w) <= Len(file)
    <3>1. cut = Len(w)
      BY <1>2, <2>2, Zenon
    <3>2. QED
      BY <1>5, <3>1
  <2>3. QED
    BY <2>1, <2>2 DEF Ahead
<1>7. Types
  <2>1. out \in Seq({})
    BY <1>1
  <2>2. QED
    BY <1>1, <1>5, <2>1 DEF Types
<1>8. Position
  BY <1>1, <1>6 DEF Position, w
<1>9. Errors
  BY <1>1 DEF Errors
<1>10. KeptIn(out, Limit, tree, options[2])
  BY <1>1, KeptNone
<1>11. QED
  BY <1>1, <1>7, <1>8, <1>9, <1>10 DEF IInv

(* Every step keeps the invariant. *)
LEMMA StepKeeps == ASSUME IInv, [Next]_vars  PROVE IInv'
<1>1. CASE open
  BY <1>1, OpenStep
<1>2. CASE next_category
  BY <1>2, NextCategoryStep
<1>3. CASE next
  BY <1>3, NextStep
<1>4. ASSUME NEW need \in NAME..VERSIONS, match_read(need)  PROVE IInv'
  BY <1>4, MatchReadStep
<1>5. CASE coreq_release \/ coreq_rest \/ diff_release
  BY <1>5, ReleaseSteps
<1>6. CASE coreq_skip
  BY <1>6, SkipStep DEF coreq_skip
<1>7. CASE cache_name
  BY <1>7, CacheNameStep
<1>8. CASE cache_read
  BY <1>8, CacheReadStep
<1>9. CASE cache_skip
  BY <1>9, SkipStep DEF cache_skip
<1>10. CASE finish
  BY <1>10, FinishStep
<1>11. CASE UNCHANGED vars
  <2>1. UNCHANGED <<tree, options, file, whole, client, pos, header, frames, cat_size, category, next_pos,
          have, pkg, error, pc, rest, seen, out>>
    BY <1>11 DEF vars
  <2>2. Types' /\ Errors' /\ Limit' = Limit
    BY <2>1 DEF IInv, Types, Errors, Limit
  <2>3. Position'
    BY <2>1 DEF IInv, Position, AtNext, AtPackage, At
  <2>4. QED
    BY <2>1, <2>2, <2>3 DEF IInv
<1>12. QED
  BY <1>1, <1>2, <1>3, <1>4, <1>5, <1>6, <1>7, <1>8, <1>9, <1>10, <1>11 DEF Next, Step

(* The reader always stands where it believes to stand: between two packages of the written file, or in
   one of them behind exactly the parts it has read, with that much of the package and the right end of it
   (PackageReader::next, read, skip). What it has kept are whole packages of those it has passed. *)
THEOREM Invariant == Spec => []IInv
<1>1. Init => IInv
  BY InitIsGood
<1>2. IInv /\ [Next]_vars => IInv'
  BY StepKeeps
<1>3. QED
  BY <1>1, <1>2, PTL DEF Spec

(* Whatever the tree, the options it was written with, the options it is read with and the length at which
   the file is cut off: the attributes of the package that the client holds are those that were written for
   it, as far as the client has asked for them (PackageReader::read against Database::write_package). *)
THEOREM ReadsRight == Spec => []ReadsWhatWasWritten
<1>1. IInv => ReadsWhatWasWritten
  <2>1. SUFFICES ASSUME IInv, pc = "package"  PROVE SamePackage(pkg, Written[seen])
    BY DEF ReadsWhatWasWritten
  <2>2. PICK c, k : AtPackage(c, k)
    BY <2>1 DEF IInv, Position
  <2> DEFINE p == tree[c].packages[k]
  <2>3. /\ p \in Package
        /\ AllPackages(tree)[seen] = With(p, [category |-> tree[c].name])
    BY <2>1, <2>2, AtPackageIs DEF IInv, Writable
  <2>4. HoldsPackage(pkg, p, tree[c].name, options[2])
    BY <2>2 DEF AtPackage
  <2>5. SamePackage(pkg, With(p, [category |-> tree[c].name]))
    BY <2>3, <2>4, SameOf
  <2>6. QED
    BY <2>3, <2>5, WrittenIs
<1>2. QED
  BY <1>1, Invariant, PTL

(* If a program does not report an error, the packages it has kept are packages of the file, in the
   order of the file, and each of them is complete and holds what was written, although release may
   return a null pointer and add_rest does not look at it (coreq.cc, coreq-diff.cc, coreqcache.cc). *)
THEOREM KeepsComplete == Spec => []KeepsWholePackages
<1>1. IInv => KeepsWholePackages
  <2> DEFINE Right(at) ==
        /\ \A i, j \in DOMAIN out : i < j => at[i] < at[j]
        /\ \A i \in DOMAIN out :
             out[i] # NULLPTR /\ "versions" \in DOMAIN out[i] /\ SamePackage(out[i], Written[at[i]])
  <2>1. SUFFICES ASSUME IInv, pc = "done"  PROVE \E at \in [DOMAIN out -> 1..seen] : Right(at)
    BY DEF KeepsWholePackages
  <2>2. ~ error /\ Limit = seen /\ GoodTree(tree, options)
    BY <2>1, Good DEF IInv, Errors, Limit
  <2>3. PICK at \in [DOMAIN out -> 1..seen] :
          /\ \A i, j \in DOMAIN out : i < j => at[i] < at[j]
          /\ \A i \in DOMAIN out : Complete(out[i], at[i], tree, options[2])
    BY <2>1, <2>2 DEF IInv, KeptIn
  <2>4. ASSUME NEW i \in DOMAIN out
        PROVE  out[i] # NULLPTR /\ "versions" \in DOMAIN out[i] /\ SamePackage(out[i], Written[at[i]])
    <3> DEFINE a == out[i]
               n == at[i]
    <3>0. PICK c \in 1..Len(tree) : \E k \in 1..Len(Pkgs(tree, c)) :
            n = SeenBefore(tree, c) + k
              /\ HoldsPackage(a, tree[c].packages[k], tree[c].name, options[2])
      BY <2>3 DEF Complete
    <3>1. PICK k \in 1..Len(Pkgs(tree, c)) :
            n = SeenBefore(tree, c) + k
              /\ HoldsPackage(a, tree[c].packages[k], tree[c].name, options[2])
      BY <3>0
    <3> DEFINE p == tree[c].packages[k]
    <3>2. Len(tree) \in Nat /\ p \in Package
      <4>1. Len(tree) \in Nat /\ k \in 1..Len(tree[c].packages)
        BY <2>2, TreeWritable DEF Pkgs
      <4>2. Writable(p, Hdr(tree, options))
        BY <2>2, <4>1, TreeWritable
      <4>3. QED
        BY <4>1, <4>2 DEF Writable
    <3>3. AllPackages(tree)[n] = With(p, [category |-> tree[c].name])
      <4>1. c \in 0..Len(tree)
        BY <3>2
      <4>2. QED
        BY <2>2, <3>1, <4>1, SeenIs
    <3> HIDE DEF a, n, p
    <3>4. SamePackage(a, Written[n])
      BY <3>1, <3>2, <3>3, SameOf, WrittenIs DEF p
    <3>5. a # NULLPTR
      <4>1. "category" \in DOMAIN a
        BY <3>1 DEF HoldsPackage
      <4>2. "category" \notin DOMAIN NULLPTR
        BY DEF NULLPTR
      <4>3. QED
        BY <4>1, <4>2
    <3>6. "versions" \in DOMAIN a
      BY <2>3 DEF Complete, a
    <3>7. QED
      BY <3>4, <3>5, <3>6 DEF a, n
  <2>5. Right(at)
    BY <2>3, <2>4
  <2>6. QED
    BY <2>5
<1>2. QED
  BY <1>1, Invariant, PTL

(* Wherever the file is cut off, a reader that comes to the end without an error has presented every
   package of the tree, and a file that is not cut off is read without an error (PackageReader::next and
   the errors it collects). *)
THEOREM HidesNothing == Spec => []NoPackageHidden
<1>1. IInv => NoPackageHidden
  BY WrittenIs DEF IInv, Position, Errors, NoPackageHidden
<1>2. QED
  BY <1>1, Invariant, PTL

==============================================================================
