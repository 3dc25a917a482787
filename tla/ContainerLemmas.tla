-------------------------- MODULE ContainerLemmas --------------------------
(***************************************************************************)
(* What the operations on the deques and vectors of PCB pointers do to the *)
(* set of pointers they hold, and that they keep each pointer single.      *)
(***************************************************************************)
EXTENDS Integers, SequencesExt, FiniteSetTheorems, WellFoundedInduction, TLAPS

\* push_back
LEMMA AppendContents ==
  ASSUME NEW S, NEW seq \in Seq(S), NEW e \in S
  PROVE  /\ Append(seq, e) \in Seq(S)
         /\ Range(Append(seq, e)) = Range(seq) \cup {e}
         /\ IsInjective(seq) /\ e \notin Range(seq) => IsInjective(Append(seq, e))
<1> DEFINE r == Append(seq, e)
<1>1. r \in Seq(S) /\ Len(r) = Len(seq) + 1 /\ r[Len(seq) + 1] = e
      /\ \A i \in 1 .. Len(seq) : r[i] = seq[i]
  OBVIOUS
<1>2. DOMAIN r = 1 .. Len(seq) + 1 /\ DOMAIN seq = 1 .. Len(seq) /\ Len(seq) \in Nat
  BY <1>1
<1>3. ASSUME NEW x \in Range(r) PROVE x \in Range(seq) \cup {e}
  BY <1>1, <1>2 DEF Range
<1>4. ASSUME NEW x \in Range(seq) \cup {e} PROVE x \in Range(r)
  <2>1. CASE x = e
    BY <1>1, <1>2, <2>1 DEF Range
  <2>2. CASE x \in Range(seq)
    <3>1. PICK i \in 1 .. Len(seq) : x = seq[i]
      BY <1>2, <2>2 DEF Range
    <3>2. i \in DOMAIN r /\ r[i] = x
      BY <1>1, <1>2, <3>1
    <3> QED BY <3>2 DEF Range
  <2> QED BY <1>4, <2>1, <2>2
<1>5. ASSUME IsInjective(seq), e \notin Range(seq) PROVE IsInjective(r)
  BY <1>1, <1>2, <1>5 DEF IsInjective, Range
<1> QED BY <1>1, <1>3, <1>4, <1>5

\* front, then pop_front (or erase(begin()))
LEMMA TailContents ==
  ASSUME NEW S, NEW seq \in Seq(S), seq # <<>>
  PROVE  /\ Tail(seq) \in Seq(S)
         /\ Head(seq) \in Range(seq) /\ Head(seq) \in S
         /\ Range(seq) = Range(Tail(seq)) \cup {Head(seq)}
         /\ IsInjective(seq) =>
              IsInjective(Tail(seq)) /\ Head(seq) \notin Range(Tail(seq))
<1> DEFINE r == Tail(seq)
<1>1. r \in Seq(S) /\ Len(r) = Len(seq) - 1 /\ Len(seq) \in Nat \ {0}
      /\ \A i \in 1 .. Len(seq) - 1 : r[i] = seq[i + 1]
  OBVIOUS
<1>2. DOMAIN r = 1 .. Len(seq) - 1 /\ DOMAIN seq = 1 .. Len(seq) /\ Head(seq) = seq[1]
  BY <1>1
<1>3. Head(seq) \in Range(seq) /\ Head(seq) \in S
  BY <1>1, <1>2 DEF Range
<1>4. ASSUME NEW x \in Range(r) PROVE x \in Range(seq)
  <2>1. PICK i \in 1 .. Len(seq) - 1 : x = r[i]
    BY <1>2 DEF Range
  <2>2. i + 1 \in DOMAIN seq /\ seq[i + 1] = x
    BY <1>1, <1>2, <2>1
  <2> QED BY <2>2 DEF Range
<1>5. ASSUME NEW x \in Range(seq), x # Head(seq) PROVE x \in Range(r)
  <2>1. PICK i \in 1 .. Len(seq) : x = seq[i]
    BY <1>2 DEF Range
  <2>2. i - 1 \in DOMAIN r /\ r[i - 1] = x
    BY <1>1, <1>2, <1>5, <2>1
  <2> QED BY <2>2 DEF Range
<1>6. ASSUME IsInjective(seq) PROVE IsInjective(r) /\ Head(seq) \notin Range(r)
  <2>1. IsInjective(r)
    BY <1>1, <1>2, <1>6 DEF IsInjective
  <2>2. Head(seq) \notin Range(r)
    BY <1>1, <1>2, <1>6 DEF IsInjective, Range
  <2> QED BY <2>1, <2>2
<1> QED BY <1>1, <1>3, <1>4, <1>5, <1>6

\* push_front
LEMMA ConsContents ==
  ASSUME NEW S, NEW seq \in Seq(S), NEW e \in S
  PROVE  /\ Cons(e, seq) \in Seq(S)
         /\ Range(Cons(e, seq)) = Range(seq) \cup {e}
         /\ IsInjective(seq) /\ e \notin Range(seq) => IsInjective(Cons(e, seq))
<1> DEFINE r == Cons(e, seq)
<1>1. r \in Seq(S) /\ Len(r) = Len(seq) + 1 /\ r[1] = e
      /\ \A i \in 1 .. Len(seq) : r[i + 1] = seq[i]
  BY DEF Cons
<1>2. DOMAIN r = 1 .. Len(seq) + 1 /\ DOMAIN seq = 1 .. Len(seq) /\ Len(seq) \in Nat
  BY <1>1
<1>6. \A i \in 2 .. Len(seq) + 1 : i - 1 \in DOMAIN seq /\ r[i] = seq[i - 1]
  BY <1>1, <1>2
<1>3. ASSUME NEW x \in Range(r) PROVE x \in Range(seq) \cup {e}
  <2>1. PICK i \in 1 .. Len(seq) + 1 : x = r[i]
    BY <1>2 DEF Range
  <2>2. CASE i = 1
    BY <1>1, <2>1, <2>2
  <2>3. CASE i # 1
    BY <1>2, <1>6, <2>1, <2>3 DEF Range
  <2> QED BY <2>2, <2>3
<1>4. ASSUME NEW x \in Range(seq) \cup {e} PROVE x \in Range(r)
  <2>1. CASE x = e
    BY <1>1, <1>2, <2>1 DEF Range
  <2>2. CASE x \in Range(seq)
    <3>1. PICK i \in 1 .. Len(seq) : x = seq[i]
      BY <1>2, <2>2 DEF Range
    <3>2. i + 1 \in DOMAIN r /\ r[i + 1] = x
      BY <1>1, <1>2, <3>1
    <3> QED BY <3>2 DEF Range
  <2> QED BY <1>4, <2>1, <2>2
<1>5. ASSUME IsInjective(seq), e \notin Range(seq) PROVE IsInjective(r)
  <2> SUFFICES ASSUME NEW i \in DOMAIN r, NEW j \in DOMAIN r, r[i] = r[j] PROVE i = j
    BY DEF IsInjective
  <2>1. \A k \in DOMAIN r : k # 1 => r[k] \in Range(seq)
    BY <1>2, <1>6 DEF Range
  <2>2. CASE i = 1 \/ j = 1
    BY <1>1, <1>5, <2>1, <2>2
  <2>3. CASE i # 1 /\ j # 1
    <3>1. i - 1 \in DOMAIN seq /\ j - 1 \in DOMAIN seq /\ seq[i - 1] = seq[j - 1]
      BY <1>2, <1>6, <2>3
    <3> QED BY <1>2, <1>5, <3>1 DEF IsInjective
  <2> QED BY <2>2, <2>3
<1> QED BY <1>1, <1>3, <1>4, <1>5

\* erase at a position
LEMMA RemoveAtContents ==
  ASSUME NEW S, NEW seq \in Seq(S), NEW k \in 1 .. Len(seq)
  PROVE  /\ RemoveAt(seq, k) \in Seq(S)
         /\ Len(RemoveAt(seq, k)) = Len(seq) - 1
         /\ \A i \in 1 .. Len(seq) - 1 :
              RemoveAt(seq, k)[i] = IF i < k THEN seq[i] ELSE seq[i + 1]
<1> DEFINE a == SubSeq(seq, 1, k - 1)
           b == SubSeq(seq, k + 1, Len(seq))
<1>1. a \in Seq(S) /\ Len(a) = k - 1 /\ \A i \in 1 .. k - 1 : a[i] = seq[i]
  OBVIOUS
<1>2. b \in Seq(S) /\ Len(b) = Len(seq) - k /\ \A i \in 1 .. Len(seq) - k : b[i] = seq[k + i]
  OBVIOUS
<1>3. \A u, v \in Seq(S) :
        /\ u \o v \in Seq(S) /\ Len(u \o v) = Len(u) + Len(v)
        /\ \A i \in 1 .. Len(u) + Len(v) :
             (u \o v)[i] = IF i <= Len(u) THEN u[i] ELSE v[i - Len(u)]
  OBVIOUS
<1>4. RemoveAt(seq, k) = a \o b
  BY DEF RemoveAt
<1> HIDE DEF a, b
<1>5. /\ a \o b \in Seq(S) /\ Len(a \o b) = Len(a) + Len(b)
      /\ \A i \in 1 .. Len(a) + Len(b) :
           (a \o b)[i] = IF i <= Len(a) THEN a[i] ELSE b[i - Len(a)]
  BY <1>1, <1>2, <1>3
<1>6. Len(a) = k - 1 /\ Len(a) + Len(b) = Len(seq) - 1
  BY <1>1, <1>2
<1>7. ASSUME NEW i \in 1 .. Len(seq) - 1
      PROVE  (a \o b)[i] = IF i < k THEN seq[i] ELSE seq[i + 1]
  <2>1. (a \o b)[i] = IF i <= k - 1 THEN a[i] ELSE b[i - (k - 1)]
    BY <1>5, <1>6
  <2>2. CASE i < k
    <3>1. i \in 1 .. k - 1
      BY <2>2
    <3> QED BY <1>1, <2>1, <2>2, <3>1
  <2>3. CASE ~(i < k)
    <3>1. i - (k - 1) \in 1 .. Len(seq) - k /\ k + (i - (k - 1)) = i + 1
      BY <2>3
    <3>2. b[i - (k - 1)] = seq[i + 1]
      BY <1>2, <3>1
    <3> QED BY <2>1, <2>3, <3>2
  <2> QED BY <2>2, <2>3
<1> QED BY <1>4, <1>5, <1>6, <1>7

\* std::sort, or any other rearrangement
LEMMA RearrangementContents ==
  ASSUME NEW S, NEW seq \in Seq(S),
         NEW perm \in Bijection(DOMAIN seq, DOMAIN seq)
  PROVE  LET r == [i \in DOMAIN seq |-> seq[perm[i]]]
         IN  /\ r \in Seq(S)
             /\ Range(r) = Range(seq)
             /\ IsInjective(seq) => IsInjective(r)
<1> DEFINE r == [i \in DOMAIN seq |-> seq[perm[i]]]
<1>1. /\ perm \in [DOMAIN seq -> DOMAIN seq]
      /\ IsInjective(perm)
      /\ \A t \in DOMAIN seq : \E s \in DOMAIN seq : perm[s] = t
  BY DEF Bijection, Injection, Surjection
<1>2. r \in Seq(S)
  <2>1. Len(seq) \in Nat /\ DOMAIN seq = 1 .. Len(seq) /\ seq \in [1 .. Len(seq) -> S]
    OBVIOUS
  <2>2. r \in [1 .. Len(seq) -> S]
    BY <1>1, <2>1
  <2> QED BY <2>1, <2>2
<1>3. Range(r) = Range(seq)
  BY <1>1 DEF Range
<1>4. IsInjective(seq) => IsInjective(r)
  BY <1>1 DEF IsInjective
<1> QED BY <1>2, <1>3, <1>4
-----------------------------------------------------------------------------
(* Induction over a set of numbers: strict inclusion is well-founded on     *)
(* finite sets, and n < m is 0 .. n strictly inside 0 .. m.                 *)

\* A set of numbers has a least element.
LEMMA Least ==
  ASSUME NEW T \in SUBSET Nat, T # {}
  PROVE  \E n \in T : \A m \in T : n <= m
<1> DEFINE below(n) == 0 .. n
           family == {below(n) : n \in T}
           less == StrictSubsetOrdering(Nat)
<1>1. IsWellFoundedOn(less, FiniteSubsetsOf(Nat))
  BY FS_StrictSubsetOrderingWellFounded
<1>2. family \subseteq FiniteSubsetsOf(Nat) /\ family # {}
  <2>1. ASSUME NEW n \in T
        PROVE  below(n) \in FiniteSubsetsOf(Nat)
    <3>1. 0 \in Int /\ n \in Int /\ below(n) \in SUBSET Nat
      OBVIOUS
    <3> QED BY <3>1, FS_Interval DEF FiniteSubsetsOf
  <2> QED BY <2>1
<1>3. PICK x \in family : \A y \in family : <<y, x>> \notin less
  <2> HIDE DEF family, less
  <2> QED BY <1>1, <1>2, WFMin
<1>4. PICK n \in T : x = below(n)
  OBVIOUS
<1>5. ASSUME NEW m \in T, m < n
      PROVE  FALSE
  <2>1. below(m) \in family /\ below(m) \subseteq below(n) /\ below(m) # below(n)
    BY <1>5
  <2>2. below(m) \in SUBSET Nat /\ below(n) \in SUBSET Nat
    OBVIOUS
  <2>3. <<below(m), below(n)>> \in less
    BY <2>1, <2>2 DEF StrictSubsetOrdering
  <2> QED BY <1>3, <1>4, <2>1, <2>3
<1> QED BY <1>5

\* A set that holds 0, and n + 1 with n, holds every number.
LEMMA SetInduction ==
  ASSUME NEW T, 0 \in T, \A n \in Nat : n \in T => n + 1 \in T
  PROVE  Nat \subseteq T
<1> SUFFICES ASSUME Nat \ T # {} PROVE FALSE
  OBVIOUS
<1>1. PICK n \in Nat \ T : \A m \in Nat \ T : n <= m
  BY Least
<1>2. n - 1 \in Nat /\ n - 1 \in T
  BY <1>1
<1> QED BY <1>1, <1>2
-----------------------------------------------------------------------------
(* The sum of the values of a function                                      *)

Total(f) == FoldFunction(+, 0, f)

\* The order in which the fold takes the members of a set.
Member(s) == CHOOSE x \in s : TRUE

\* g holds the sum of f over each set of at most n members.
Sums(f, n, g) ==
  g = [s \in {t \in SUBSET DOMAIN f : Cardinality(t) <= n} |->
         IF s = {} THEN 0 ELSE f[Member(s)] + g[s \ {Member(s)}]]

\* A nonempty finite set loses one member.
LEMMA OneLess ==
  ASSUME NEW s, IsFiniteSet(s), s # {}
  PROVE  /\ Member(s) \in s /\ IsFiniteSet(s \ {Member(s)})
         /\ Cardinality(s) \in Nat \ {0}
         /\ Cardinality(s \ {Member(s)}) = Cardinality(s) - 1
<1>1. Member(s) \in s
  BY DEF Member
<1>2. Cardinality(s) \in Nat /\ Cardinality(s) # 0
  BY FS_CardinalityType, FS_EmptySet
<1> QED BY <1>1, <1>2, FS_RemoveElement

\* The equations a table of sums satisfies.
LEMMA SumsValues ==
  ASSUME NEW f, NEW n, NEW g, Sums(f, n, g)
  PROVE  \A s \in SUBSET DOMAIN f : Cardinality(s) <= n =>
            g[s] = IF s = {} THEN 0 ELSE f[Member(s)] + g[s \ {Member(s)}]
<1> DEFINE D == {t \in SUBSET DOMAIN f : Cardinality(t) <= n}
<1>1. g = [s \in D |-> IF s = {} THEN 0 ELSE f[Member(s)] + g[s \ {Member(s)}]]
  BY Zenon DEF Sums
<1>2. \A s \in D : g[s] = IF s = {} THEN 0 ELSE f[Member(s)] + g[s \ {Member(s)}]
  <2> HIDE DEF D
  <2> QED BY <1>1, Zenon
<1> QED BY <1>2

\* There is such a table, whatever n: the next one is computed from the last.
LEMMA SumsExist ==
  ASSUME NEW f, IsFiniteSet(DOMAIN f), NEW n \in Nat
  PROVE  \E g : Sums(f, n, g)
<1> DEFINE T == {k \in Nat : \E g : Sums(f, k, g)}
           entry(g, s) == IF s = {} THEN 0 ELSE f[Member(s)] + g[s \ {Member(s)}]
           D(k) == {t \in SUBSET DOMAIN f : Cardinality(t) <= k}
<1>1. \A s \in SUBSET DOMAIN f : IsFiniteSet(s)
  BY FS_Subset
<1>2. 0 \in T
  <2> DEFINE g == [s \in D(0) |-> 0]
  <2>1. \A s \in D(0) : s = {}
    <3>1. ASSUME NEW s \in SUBSET DOMAIN f, Cardinality(s) <= 0, s # {} PROVE FALSE
      <4>1. Cardinality(s) \in Nat \ {0}
        BY <1>1, <3>1, OneLess
      <4> QED BY <3>1, <4>1
    <3> QED BY <3>1
  <2>2. g = [s \in D(0) |-> entry(g, s)]
    BY <2>1
  <2>3. Sums(f, 0, g)
    BY <2>2, Zenon DEF Sums
  <2> QED BY <2>3
<1>3. ASSUME NEW k \in Nat, k \in T PROVE k + 1 \in T
  <2>1. PICK g : Sums(f, k, g)
    BY <1>3
  <2> DEFINE h == [s \in D(k + 1) |-> entry(g, s)]
  <2>2. \A s \in D(k) : g[s] = entry(g, s)
    <3>1. \A s \in SUBSET DOMAIN f : Cardinality(s) <= k =>
            g[s] = IF s = {} THEN 0 ELSE f[Member(s)] + g[s \ {Member(s)}]
      BY <2>1, SumsValues
    <3> QED BY <3>1
  <2>3. \A s \in D(k) : s \in D(k + 1)
    BY <1>1, FS_CardinalityType
  <2>4. \A s \in D(k) : h[s] = g[s]
    <3> HIDE DEF D, entry
    <3> QED BY <2>2, <2>3
  <2>5. \A s \in D(k + 1) : s # {} => s \ {Member(s)} \in D(k)
    BY <1>1, OneLess
  <2>6. \A s \in D(k + 1) : entry(g, s) = entry(h, s)
    <3> HIDE DEF h, D
    <3> QED BY <2>4, <2>5
  <2>7. h = [s \in D(k + 1) |-> entry(h, s)]
    <3>1. ASSUME NEW H, H = [s \in D(k + 1) |-> entry(g, s)],
                 \A s \in D(k + 1) : entry(g, s) = entry(H, s)
          PROVE  H = [s \in D(k + 1) |-> entry(H, s)]
      <4> HIDE DEF entry, D
      <4> QED BY <3>1
    <3> QED BY <2>6, <3>1, Zenon
  <2> HIDE DEF h
  <2>8. Sums(f, k + 1, h)
    BY <2>7, Zenon DEF Sums
  <2> QED BY <2>8
<1>4. Nat \subseteq T
  <2> HIDE DEF T
  <2> QED BY <1>2, <1>3, SetInduction
<1> QED BY <1>4

\* g is a table of the partial sums over the subsets of S.
Partial(f, S, g) ==
  /\ g[{}] = 0
  /\ \A s \in SUBSET S : s # {} => g[s] = f[Member(s)] + g[s \ {Member(s)}]

\* What the fold computes: a table of partial sums, and its entry for S.
LEMMA TotalValues ==
  ASSUME NEW S, IsFiniteSet(S), NEW f, DOMAIN f = S
  PROVE  \E g : Total(f) = g[S] /\ Partial(f, S, g)
<1> DEFINE n == Cardinality(S)
           g == CHOOSE g : g = [s \in SUBSET S |->
                     IF s = {} THEN 0 ELSE f[Member(s)] + g[s \ {Member(s)}]]
<1>1. n \in Nat /\ \A s \in SUBSET S : Cardinality(s) <= n
  BY FS_CardinalityType, FS_Subset
<1>2. SUBSET S = {t \in SUBSET S : Cardinality(t) <= n}
  BY <1>1
<1>3. PICK h : Sums(f, n, h)
  BY <1>1, SumsExist
<1>4. h = [s \in SUBSET S |-> IF s = {} THEN 0 ELSE f[Member(s)] + h[s \ {Member(s)}]]
  BY <1>2, <1>3, Zenon DEF Sums
<1>5. g = [s \in SUBSET S |-> IF s = {} THEN 0 ELSE f[Member(s)] + g[s \ {Member(s)}]]
  BY <1>4, Zenon
<1>6. Total(f) = g[S]
  BY Zenon DEF Total, FoldFunction, FoldFunctionOnSet, MapThenFoldSet, Member
<1> HIDE DEF g
<1>7. \A s \in SUBSET S : g[s] = IF s = {} THEN 0 ELSE f[Member(s)] + g[s \ {Member(s)}]
  BY <1>5, Zenon
<1> QED BY <1>6, <1>7 DEF Partial

\* Induction over the subsets of S: the empty one, then one member more.
LEMMA SubsetInduction ==
  ASSUME NEW S, IsFiniteSet(S), NEW H, {} \in H,
         \A s \in SUBSET S : s # {} /\ s \ {Member(s)} \in H => s \in H
  PROVE  SUBSET S \subseteq H
<1> DEFINE T == {k \in Nat : \A s \in SUBSET S : Cardinality(s) = k => s \in H}
<1>1. \A s \in SUBSET S : IsFiniteSet(s) /\ Cardinality(s) \in Nat
  BY FS_Subset, FS_CardinalityType
<1>2. 0 \in T
  BY <1>1, FS_EmptySet
<1>3. ASSUME NEW k \in Nat, k \in T PROVE k + 1 \in T
  <2> SUFFICES ASSUME NEW s \in SUBSET S, Cardinality(s) = k + 1 PROVE s \in H
    OBVIOUS
  <2>1. s # {}
    BY FS_EmptySet
  <2>2. Cardinality(s \ {Member(s)}) = k
    BY <1>1, <2>1, OneLess
  <2> QED BY <1>3, <2>1, <2>2
<1>4. Nat \subseteq T
  <2> HIDE DEF T
  <2> QED BY <1>2, <1>3, SetInduction
<1> QED BY <1>1, <1>4

\* A sum of naturals is one, no less than any of them, and no more than what
\* their number and a bound on each allow.
LEMMA TotalBounds ==
  ASSUME NEW S, IsFiniteSet(S), NEW f \in [S -> Nat]
  PROVE  /\ Total(f) \in Nat
         /\ \A p \in S : f[p] <= Total(f)
         /\ \A b \in Nat : (\A p \in S : f[p] <= b) => Total(f) <= Cardinality(S) * b
<1>0. PICK g : Total(f) = g[S] /\ Partial(f, S, g)
  <2>1. DOMAIN f = S
    OBVIOUS
  <2> QED BY <2>1, TotalValues
<1>1. /\ Total(f) = g[S] /\ g[{}] = 0
      /\ \A s \in SUBSET S : s # {} => g[s] = f[Member(s)] + g[s \ {Member(s)}]
  BY <1>0 DEF Partial
<1>2. \A s \in SUBSET S : s # {} => Member(s) \in s
  BY DEF Member
<1> DEFINE H1 == {s \in SUBSET S : g[s] \in Nat}
           H2 == {s \in SUBSET S : \A p \in s : f[p] <= g[s]}
<1>3. SUBSET S \subseteq H1
  <2>1. {} \in H1
    BY <1>1
  <2>2. \A s \in SUBSET S : s # {} /\ s \ {Member(s)} \in H1 => s \in H1
    BY <1>1, <1>2
  <2> HIDE DEF H1
  <2> QED BY <2>1, <2>2, SubsetInduction
<1>4. SUBSET S \subseteq H2
  <2>1. {} \in H2
    OBVIOUS
  <2>2. ASSUME NEW s \in SUBSET S, s # {}, s \ {Member(s)} \in H2 PROVE s \in H2
    <3>1. /\ g[s] = f[Member(s)] + g[s \ {Member(s)}] /\ Member(s) \in S
          /\ g[s \ {Member(s)}] \in Nat
      BY <1>1, <1>2, <1>3, <2>2
    <3>2. ASSUME NEW p \in s PROVE f[p] <= g[s]
      <4>1. CASE p = Member(s)
        BY <3>1, <4>1
      <4>2. CASE p # Member(s)
        <5>1. f[p] <= g[s \ {Member(s)}]
          BY <2>2, <4>2
        <5> QED BY <3>1, <5>1
      <4> QED BY <4>1, <4>2
    <3> QED BY <3>2
  <2> HIDE DEF H2
  <2> QED BY <2>1, <2>2, SubsetInduction
<1>5. ASSUME NEW b \in Nat, \A p \in S : f[p] <= b
      PROVE  Total(f) <= Cardinality(S) * b
  <2> DEFINE H3 == {s \in SUBSET S : g[s] <= Cardinality(s) * b}
  <2>1. {} \in H3
    BY <1>1, FS_EmptySet
  <2>2. ASSUME NEW s \in SUBSET S, s # {}, s \ {Member(s)} \in H3 PROVE s \in H3
    <3> DEFINE c == Cardinality(s)
               r == Cardinality(s \ {Member(s)})
    <3>1. /\ g[s] = f[Member(s)] + g[s \ {Member(s)}] /\ Member(s) \in S
          /\ g[s \ {Member(s)}] \in Nat
      BY <1>1, <1>2, <1>3, <2>2
    <3>2. c \in Nat \ {0} /\ r = c - 1
      BY <2>2, FS_Subset, OneLess
    <3>3. g[s \ {Member(s)}] <= r * b
      BY <2>2
    <3>4. f[Member(s)] <= b /\ f[Member(s)] \in Nat
      BY <1>5, <3>1
    <3> HIDE DEF c, r
    <3>5. r * b = c * b - b /\ c * b \in Nat
      BY <3>2
    <3>6. g[s] <= c * b
      BY <3>1, <3>3, <3>4, <3>5
    <3> QED BY <3>6 DEF c
  <2>3. SUBSET S \subseteq H3
    <3> HIDE DEF H3
    <3> QED BY <2>1, <2>2, SubsetInduction
  <2> QED BY <1>1, <2>3
<1> QED BY <1>1, <1>3, <1>4, <1>5

\* A sum changes by as much as the one value that does.
LEMMA TotalChange ==
  ASSUME NEW S, IsFiniteSet(S), NEW f \in [S -> Nat], NEW p \in S, NEW v \in Nat
  PROVE  Total([f EXCEPT ![p] = f[p] + v]) = Total(f) + v
<1> DEFINE h == [f EXCEPT ![p] = f[p] + v]
<1>0. h \in [S -> Nat] /\ h[p] = f[p] + v /\ \A q \in S \ {p} : h[q] = f[q]
  OBVIOUS
<1> HIDE DEF h
<1>8. PICK g : Total(f) = g[S] /\ Partial(f, S, g)
  <2>1. DOMAIN f = S
    OBVIOUS
  <2> QED BY <2>1, TotalValues
<1>1. /\ Total(f) = g[S] /\ g[{}] = 0
      /\ \A s \in SUBSET S : s # {} => g[s] = f[Member(s)] + g[s \ {Member(s)}]
  BY <1>8 DEF Partial
<1>9. PICK e : Total(h) = e[S] /\ Partial(h, S, e)
  <2>1. DOMAIN h = S
    BY <1>0
  <2> QED BY <2>1, TotalValues
<1>2. /\ Total(h) = e[S] /\ e[{}] = 0
      /\ \A s \in SUBSET S : s # {} => e[s] = h[Member(s)] + e[s \ {Member(s)}]
  BY <1>9 DEF Partial
<1>3. \A s \in SUBSET S : s # {} => Member(s) \in s
  BY DEF Member
<1> DEFINE H == {s \in SUBSET S : /\ g[s] \in Nat
                                  /\ e[s] = g[s] + (IF p \in s THEN v ELSE 0)}
<1>4. {} \in H
  BY <1>1, <1>2
<1>5. ASSUME NEW s \in SUBSET S, s # {}, s \ {Member(s)} \in H PROVE s \in H
  <2>1. /\ g[s] = f[Member(s)] + g[s \ {Member(s)}]
        /\ e[s] = h[Member(s)] + e[s \ {Member(s)}]
        /\ Member(s) \in s /\ Member(s) \in S
    BY <1>1, <1>2, <1>3, <1>5
  <2>2. /\ g[s \ {Member(s)}] \in Nat
        /\ e[s \ {Member(s)}] = g[s \ {Member(s)}]
                                  + (IF p \in s \ {Member(s)} THEN v ELSE 0)
    BY <1>5
  <2>3. f[Member(s)] \in Nat
    BY <2>1
  <2>4. CASE p = Member(s)
    BY <1>0, <2>1, <2>2, <2>3, <2>4
  <2>5. CASE p # Member(s)
    BY <1>0, <2>1, <2>2, <2>3, <2>5
  <2> QED BY <2>4, <2>5
<1>6. SUBSET S \subseteq H
  <2> HIDE DEF H
  <2> QED BY <1>4, <1>5, SubsetInduction
<1>7. e[S] = g[S] + v
  BY <1>6
<1> QED BY <1>1, <1>2, <1>7 DEF h

\* The sum of one value.
LEMMA TotalOfOne ==
  ASSUME NEW c, NEW f \in [{c} -> Nat]
  PROVE  Total(f) = f[c]
<1>1. IsFiniteSet({c})
  BY FS_Singleton
<1>2. PICK g : Total(f) = g[{c}] /\ Partial(f, {c}, g)
  <2>1. DOMAIN f = {c}
    OBVIOUS
  <2> QED BY <1>1, <2>1, TotalValues
<1>3. Member({c}) = c /\ {c} \ {c} = {}
  BY DEF Member
<1>4. f[c] + 0 = f[c]
  OBVIOUS
<1> QED BY <1>2, <1>3, <1>4 DEF Partial
=============================================================================
