---------------------------- MODULE SyncDiffLemmas ----------------------------
(***************************************************************************)
(* What the operators of SyncDiff compute, for any set of packages and any *)
(* names: a set read in order, the merge of pkgNameDiff(), and the todos.  *)
(***************************************************************************)
EXTENDS SyncDiff, FiniteSetTheorems, SequenceTheorems, WellFoundedInduction, TLAPS

Injective(seq) == \A k, l \in DOMAIN seq : seq[k] = seq[l] => k = l

\* A set of numbers that has 0, and with a number its successor, has them all.
LEMMA SetInduction ==
  ASSUME NEW S \in SUBSET Nat, 0 \in S, \A n \in S : n + 1 \in S
  PROVE  S = Nat
<1> SUFFICES ASSUME S # Nat PROVE FALSE
  OBVIOUS
<1> DEFINE less == OpToRel(<, Nat)
           T    == Nat \ S
<1>1. IsWellFoundedOn(less, Nat)
  BY NatLessThanWellFounded
<1>2. \A x, y \in Nat : x < y => <<x, y>> \in less
  BY DEF OpToRel
<1>3. T \subseteq Nat /\ T # {}
  OBVIOUS
<1> HIDE DEF less
<1>4. PICK m \in T : \A k \in T : ~(<<k, m>> \in less)
  BY <1>1, <1>3, WFMin
<1>5. m \in Nat /\ m # 0 /\ m - 1 \in Nat /\ m - 1 < m /\ (m - 1) + 1 = m
  OBVIOUS
<1>6. m - 1 \in S
  BY <1>2, <1>4, <1>5
<1> QED BY <1>5, <1>6

-----------------------------------------------------------------------------
(* Sorted: a set of full names, read from begin() to end(). *)

Rank(S, p) == Cardinality({q \in S : q < p})

\* The ranks of the elements of a finite set of numbers are 0 to its size less one.
LEMMA RankOnto ==
  ASSUME NEW S \in SUBSET Nat, IsFiniteSet(S)
  PROVE  /\ Cardinality(S) \in Nat
         /\ \A i \in 0..(Cardinality(S) - 1) : \E p \in S : Rank(S, p) = i
<1>1. Cardinality(S) \in Nat
  BY FS_CardinalityType
<1> DEFINE N == Cardinality(S)
           r == [p \in S |-> Rank(S, p)]
<1>2. ASSUME NEW p \in S
      PROVE  IsFiniteSet({q \in S : q < p}) /\ Rank(S, p) \in 0..(N - 1)
  <2>1. {q \in S : q < p} \in SUBSET (S \ {p})
    OBVIOUS
  <2>2. IsFiniteSet(S \ {p}) /\ Cardinality(S \ {p}) = N - 1
    BY FS_RemoveElement
  <2>3. /\ IsFiniteSet({q \in S : q < p})
        /\ Cardinality({q \in S : q < p}) <= N - 1
    BY <2>1, <2>2, FS_Subset
  <2>4. Cardinality({q \in S : q < p}) \in Nat
    BY <2>3, FS_CardinalityType
  <2> QED BY <1>1, <2>3, <2>4 DEF Rank
<1>3. ASSUME NEW p \in S, NEW q \in S, p < q PROVE Rank(S, p) < Rank(S, q)
  <2> DEFINE below(x) == {z \in S : z < x}
  <2>1. below(p) \cup {p} \in SUBSET below(q) /\ p \notin below(p)
    <3>1. p \in Nat /\ q \in Nat /\ S \subseteq Nat
      OBVIOUS
    <3>2. \A z \in S : z < p => z < q
      BY <1>3, <3>1
    <3>3. ~(p < p)
      BY <3>1
    <3>4. below(p) \cup {p} \subseteq below(q)
      BY <1>3, <3>2
    <3> QED BY <3>3, <3>4
  <2>2. IsFiniteSet(below(p)) /\ IsFiniteSet(below(q))
    BY <1>2
  <2>3. IsFiniteSet(below(p) \cup {p}) /\ Cardinality(below(p) \cup {p}) = Cardinality(below(p)) + 1
    BY <2>1, <2>2, FS_AddElement
  <2>4. Cardinality(below(p) \cup {p}) <= Cardinality(below(q))
    BY <2>1, <2>2, FS_Subset
  <2>5. Cardinality(below(p)) \in Nat /\ Cardinality(below(q)) \in Nat
    BY <2>2, FS_CardinalityType
  <2> QED BY <2>3, <2>4, <2>5 DEF Rank
<1>4. r \in Injection(S, 0..(N - 1))
  <2>1. r \in [S -> 0..(N - 1)]
    BY <1>2
  <2>2. \A p, q \in S : p # q => r[p] # r[q]
    <3> SUFFICES ASSUME NEW p \in S, NEW q \in S, p # q PROVE r[p] # r[q]
      OBVIOUS
    <3>1. p < q \/ q < p
      OBVIOUS
    <3>2. Rank(S, p) \in 0..(N - 1) /\ Rank(S, q) \in 0..(N - 1)
      BY <1>2
    <3> QED BY <1>3, <3>1, <3>2
  <2> QED BY <2>1, <2>2 DEF Injection, IsInjective
<1>5. IsFiniteSet(0..(N - 1)) /\ Cardinality(0..(N - 1)) = N
  <2>1. /\ IsFiniteSet(0..(N - 1))
        /\ Cardinality(0..(N - 1)) = IF 0 > N - 1 THEN 0 ELSE (N - 1) - 0 + 1
    BY <1>1, FS_Interval
  <2> QED BY <1>1, <2>1
<1>6. r \in Surjection(S, 0..(N - 1))
  BY <1>4, <1>5, FS_Injection
<1> QED BY <1>1, <1>6 DEF Surjection

\* A nonempty finite set of numbers has a greatest.
LEMMA GreatestExists ==
  ASSUME NEW S \in SUBSET Nat, IsFiniteSet(S), S # {}
  PROVE  \E x \in S : \A y \in S : y <= x
<1>1. Cardinality(S) \in Nat /\ Cardinality(S) # 0
  BY FS_CardinalityType, FS_EmptySet
<1>2. PICK x \in S : Rank(S, x) = Cardinality(S) - 1
  BY <1>1, RankOnto
<1>3. IsFiniteSet(S \ {x}) /\ Cardinality(S \ {x}) = Cardinality(S) - 1
  BY FS_RemoveElement
<1>4. {q \in S : q < x} \in SUBSET (S \ {x})
  OBVIOUS
<1>5. {q \in S : q < x} = S \ {x}
  BY <1>2, <1>3, <1>4, FS_Subset DEF Rank
<1> QED BY <1>5

\* A set read in order: each of its elements once.
LEMMA SortedEnumerates ==
  ASSUME NEW S \in SUBSET Packages
  PROVE  /\ Sorted(S) \in Seq(Packages) /\ Len(Sorted(S)) = Cardinality(S)
         /\ Injective(Sorted(S)) /\ Elements(Sorted(S)) = S
<1>1. IsFiniteSet(S) /\ S \in SUBSET Nat
  BY DiffAssumption, FS_Subset
<1>2. /\ Cardinality(S) \in Nat
      /\ \A i \in 0..(Cardinality(S) - 1) : \E p \in S : Rank(S, p) = i
  BY <1>1, RankOnto
<1>3. /\ DOMAIN Sorted(S) = 1..Cardinality(S)
      /\ \A i \in 1..Cardinality(S) : Sorted(S)[i] \in S /\ Rank(S, Sorted(S)[i]) = i - 1
  <2> SUFFICES ASSUME NEW i \in 1..Cardinality(S)
               PROVE  Sorted(S)[i] \in S /\ Rank(S, Sorted(S)[i]) = i - 1
    BY DEF Sorted
  <2>1. \E p \in S : Rank(S, p) = i - 1
    BY <1>2
  <2>2. Sorted(S)[i] = CHOOSE p \in S : Rank(S, p) = i - 1
    BY DEF Sorted, Rank
  <2> QED BY <2>1, <2>2
<1>4. Sorted(S) \in [1..Cardinality(S) -> S]
  BY <1>3 DEF Sorted
<1>5. Sorted(S) \in Seq(Packages) /\ Len(Sorted(S)) = Cardinality(S)
  BY <1>2, <1>4
<1>6. Injective(Sorted(S))
  BY <1>3 DEF Injective
<1>7. Elements(Sorted(S)) = S
  <2>1. Elements(Sorted(S)) \in SUBSET S
    BY <1>3 DEF Elements
  <2>2. ASSUME NEW p \in S PROVE \E i \in 1..Cardinality(S) : Sorted(S)[i] = p
    <3>1. Sorted(S) \in Injection(1..Cardinality(S), S)
      BY <1>4, <1>6, <1>3 DEF Injective, Injection, IsInjective
    <3>2. IsFiniteSet(1..Cardinality(S)) /\ Cardinality(1..Cardinality(S)) = Cardinality(S)
      BY <1>2, FS_Interval
    <3>3. Sorted(S) \in Surjection(1..Cardinality(S), S)
      BY <1>1, <3>1, <3>2, FS_Injection
    <3> QED BY <3>3 DEF Surjection
  <2> QED BY <1>3, <2>1, <2>2 DEF Elements
<1> QED BY <1>5, <1>6, <1>7

-----------------------------------------------------------------------------
(* NameDiff: std::set_difference by names. *)

\* The turns of the merge, as a function of their number.
Merge(a, b) ==
  CHOOSE merge : merge = [n \in 0..Len(a) + Len(b) |->
                            IF n = 0 THEN MergeStart ELSE MergeTurn(a, b, merge[n - 1])]

\* The merge is well defined: each turn follows from the one before.
LEMMA MergeDefined ==
  ASSUME NEW a \in Seq(Packages), NEW b \in Seq(Packages)
  PROVE  /\ NameDiff(a, b) = Merge(a, b)[Len(a) + Len(b)].out
         /\ Merge(a, b)[0] = MergeStart
         /\ \A n \in 1..(Len(a) + Len(b)) :
              Merge(a, b)[n] = MergeTurn(a, b, Merge(a, b)[n - 1])
<1> DEFINE Turns(f, n) ==
             f = [k \in 0..n |-> IF k = 0 THEN MergeStart ELSE MergeTurn(a, b, f[k - 1])]
           S == {n \in Nat : \E f : Turns(f, n)}
<1>1. 0 \in S
  <2>1. Turns([k \in 0..0 |-> MergeStart], 0)
    OBVIOUS
  <2> QED BY <2>1
<1>2. ASSUME NEW n \in S PROVE n + 1 \in S
  <2>1. PICK f : Turns(f, n)
    OBVIOUS
  <2> DEFINE g == [k \in 0..(n + 1) |->
                     IF k = n + 1 THEN MergeTurn(a, b, f[n]) ELSE f[k]]
  <2>2. \A k \in 0..(n + 1) :
          g[k] = IF k = 0 THEN MergeStart ELSE MergeTurn(a, b, g[k - 1])
    BY <2>1
  <2>3. Turns(g, n + 1)
    BY <2>2
  <2> HIDE DEF Turns, g
  <2>4. n + 1 \in Nat /\ \E h : Turns(h, n + 1)
    BY <2>3
  <2> QED BY <2>4
<1>3. Len(a) + Len(b) \in S
  <2>1. S = Nat
    <3> HIDE DEF S
    <3>1. S \in SUBSET Nat
      BY DEF S
    <3> QED BY <1>1, <1>2, <3>1, SetInduction
  <2>2. Len(a) + Len(b) \in Nat
    OBVIOUS
  <2> QED BY <2>1, <2>2
<1>4. Turns(Merge(a, b), Len(a) + Len(b))
  BY <1>3 DEF Merge
<1>5. NameDiff(a, b) = Merge(a, b)[Len(a) + Len(b)].out
  BY DEF NameDiff, Merge
<1>6. \A k \in 0..Len(a) + Len(b) :
        Merge(a, b)[k] = IF k = 0 THEN MergeStart ELSE MergeTurn(a, b, Merge(a, b)[k - 1])
  BY <1>4
<1>7. Len(a) + Len(b) \in Nat
  OBVIOUS
<1> HIDE DEF Turns, S
<1> QED BY <1>5, <1>6, <1>7

\* What the merge has put out after some turns: elements of the part of a it is
\* through with, none of them twice.
MergeInv(a, m) ==
  /\ m \in [i : 1..(Len(a) + 1), j : Nat \ {0}, out : Seq(Packages)]
  /\ \A k \in DOMAIN m.out : \E l \in 1..(m.i - 1) : m.out[k] = a[l]
  /\ Injective(m.out)

\* A turn keeps that, if no element of a comes twice.
LEMMA MergeTurnKeeps ==
  ASSUME NEW a \in Seq(Packages), NEW b \in Seq(Packages), Injective(a),
         NEW m, MergeInv(a, m)
  PROVE  MergeInv(a, MergeTurn(a, b, m))
<1> DEFINE out == m.out
           new == Append(out, a[m.i])
<1>0. /\ Len(a) \in Nat /\ DOMAIN a = 1..Len(a)
      /\ m.i \in 1..(Len(a) + 1) /\ m.j \in Nat \ {0} /\ out \in Seq(Packages)
      /\ m = [i |-> m.i, j |-> m.j, out |-> out]
      /\ \A k \in DOMAIN out : \E l \in 1..(m.i - 1) : out[k] = a[l]
      /\ Injective(out)
  BY DEF MergeInv
<1>1. CASE m.i > Len(a)
  BY <1>1 DEF MergeTurn
<1>2. ASSUME NEW i, NEW j \in Nat \ {0}, i \in {m.i, m.i + 1}, i \in 1..(Len(a) + 1)
      PROVE  MergeInv(a, [i |-> i, j |-> j, out |-> out])
  <2>1. \A k \in DOMAIN out : \E l \in 1..(i - 1) : out[k] = a[l]
    BY <1>0, <1>2
  <2> HIDE DEF out
  <2> QED BY <1>0, <1>2, <2>1 DEF MergeInv
<1>3. ASSUME m.i <= Len(a)
      PROVE  MergeInv(a, [i |-> m.i + 1, j |-> m.j, out |-> new])
  <2> HIDE DEF out
  <2>1. m.i \in DOMAIN a /\ a[m.i] \in Packages /\ m.i \in Nat
    BY <1>0, <1>3, ElementOfSeq
  <2>2. /\ new \in Seq(Packages) /\ DOMAIN new = DOMAIN out \cup {Len(out) + 1}
        /\ new[Len(out) + 1] = a[m.i]
        /\ \A k \in DOMAIN out : k # Len(out) + 1 /\ new[k] = out[k]
    BY <1>0, <2>1
  <2>3. \A k \in DOMAIN new : \E l \in 1..m.i : new[k] = a[l]
    <3> SUFFICES ASSUME NEW k \in DOMAIN new PROVE \E l \in 1..m.i : new[k] = a[l]
      OBVIOUS
    <3> HIDE DEF new
    <3>1. CASE k \in DOMAIN out
      <4>1. PICK l \in 1..(m.i - 1) : out[k] = a[l]
        BY <1>0, <3>1
      <4>2. l \in 1..m.i
        BY <2>1
      <4> QED BY <2>2, <3>1, <4>1, <4>2
    <3>2. CASE k = Len(out) + 1
      <4>1. m.i \in 1..m.i
        BY <1>0, <2>1
      <4> QED BY <2>2, <3>2, <4>1
    <3> QED BY <2>2, <3>1, <3>2
  <2>4. ASSUME NEW k \in DOMAIN out PROVE out[k] # a[m.i]
    <3>1. PICK l \in 1..(m.i - 1) : out[k] = a[l]
      BY <1>0
    <3>2. l \in DOMAIN a /\ l # m.i
      BY <1>0, <2>1
    <3> QED BY <2>1, <3>1, <3>2 DEF Injective
  <2>5. Injective(new)
    <3> HIDE DEF new
    <3> QED BY <1>0, <2>2, <2>4 DEF Injective
  <2>6. (m.i + 1) - 1 = m.i /\ m.i + 1 \in 1..(Len(a) + 1)
    BY <1>0, <1>3, <2>1
  <2> HIDE DEF new
  <2> QED BY <1>0, <2>2, <2>3, <2>5, <2>6 DEF MergeInv
<1>4. CASE m.i <= Len(a)
  <2>1. /\ m.j + 1 \in Nat \ {0} /\ m.i + 1 \in 1..(Len(a) + 1)
        /\ [m EXCEPT !.j = @ + 1] = [i |-> m.i, j |-> m.j + 1, out |-> out]
    <3>1. m \in [i : 1..(Len(a) + 1), j : Nat \ {0}, out : Seq(Packages)]
      BY DEF MergeInv
    <3> QED BY <1>0, <1>4, <3>1
  <2>2. MergeTurn(a, b, m) \in {[i |-> m.i + 1, j |-> m.j, out |-> new],
                                [i |-> m.i, j |-> m.j + 1, out |-> out],
                                [i |-> m.i + 1, j |-> m.j + 1, out |-> out]}
    <3>1. ~(m.i > Len(a))
      BY <1>0, <1>4
    <3> QED BY <2>1, <3>1 DEF MergeTurn
  <2> HIDE DEF new, out
  <2> QED BY <1>0, <1>2, <1>3, <1>4, <2>1, <2>2
<1> QED BY <1>0, <1>1, <1>4

\* The difference of two sequences is part of the first one.
LEMMA NameDiffIsPart ==
  ASSUME NEW a \in Seq(Packages), NEW b \in Seq(Packages), Injective(a)
  PROVE  /\ NameDiff(a, b) \in Seq(Packages) /\ Injective(NameDiff(a, b))
         /\ Elements(NameDiff(a, b)) \subseteq Elements(a)
<1> DEFINE N == Len(a) + Len(b)
           S == {n \in Nat : n <= N => MergeInv(a, Merge(a, b)[n])}
<1>0. N \in Nat /\ Len(a) \in Nat /\ DOMAIN a = 1..Len(a)
  OBVIOUS
<1>1. 0 \in S
  <2>1. MergeInv(a, MergeStart)
    BY <1>0 DEF MergeInv, MergeStart, Injective
  <2> QED BY <2>1, MergeDefined
<1>2. ASSUME NEW n \in S PROVE n + 1 \in S
  <2> SUFFICES ASSUME n + 1 <= N PROVE MergeInv(a, Merge(a, b)[n + 1])
    OBVIOUS
  <2>1. n \in Nat /\ n <= N /\ n + 1 \in 1..N
    BY <1>0
  <2>2. MergeInv(a, Merge(a, b)[n])
    BY <2>1
  <2>3. Merge(a, b)[n + 1] = MergeTurn(a, b, Merge(a, b)[n])
    BY <2>1, MergeDefined
  <2> QED BY <2>2, <2>3, MergeTurnKeeps
<1>3. MergeInv(a, Merge(a, b)[N])
  <2>1. S = Nat
    <3> HIDE DEF S
    <3>1. S \in SUBSET Nat
      BY DEF S
    <3> QED BY <1>1, <1>2, <3>1, SetInduction
  <2> QED BY <1>0, <2>1
<1>4. NameDiff(a, b) = Merge(a, b)[N].out
  BY MergeDefined
<1> DEFINE out == Merge(a, b)[N].out
<1>5. /\ out \in Seq(Packages) /\ Injective(out)
      /\ \A k \in DOMAIN out : \E l \in 1..Len(a) : out[k] = a[l]
  BY <1>0, <1>3 DEF MergeInv
<1> HIDE DEF out
<1>6. NameDiff(a, b) = out
  BY <1>4 DEF out
<1> QED BY <1>0, <1>5, <1>6 DEF Elements

-----------------------------------------------------------------------------
(* How much NameDiff leaves. *)

\* p and q are places of one name, and no greater one is in a or in b.
Top(a, b, p, q) ==
  /\ p \in DOMAIN a /\ q \in DOMAIN b /\ NameOf[a[p]] = NameOf[b[q]]
  /\ \A k \in DOMAIN a : NameOf[a[k]] <= NameOf[b[q]]
  /\ \A k \in DOMAIN b : NameOf[b[k]] <= NameOf[a[p]]

\* After n turns either a is read, or that many steps were made; what is not put out
\* was paired with an element of b.
Counts(a, b, n, m) ==
  /\ m \in [i : 1..(Len(a) + 1), j : 1..(Len(b) + 1), out : Seq(Packages)]
  /\ m.i > Len(a) \/ m.i + m.j >= n + 2
  /\ m.i - m.j <= Len(m.out) /\ Len(m.out) <= m.i - 1

\* A pair was found, or neither of the places was passed.
FindsPair(p, q, m) == Len(m.out) <= m.i - 2 \/ (m.i <= p /\ m.j <= q)

\* What was read of a was put out, or has a name of b.
Covers(a, b, m) ==
  \A l \in 1..(m.i - 1) : \/ a[l] \in Elements(m.out)
                          \/ \E k \in DOMAIN b : NameOf[b[k]] = NameOf[a[l]]

\* The three ways of a turn.
LEMMA MergeTurnCases ==
  ASSUME NEW a \in Seq(Packages), NEW b \in Seq(Packages), NEW m,
         m \in [i : 1..Len(a), j : 1..(Len(b) + 1), out : Seq(Packages)]
  PROVE  \/ /\ m.j > Len(b) \/ NameOf[a[m.i]] < NameOf[b[m.j]]
            /\ MergeTurn(a, b, m) = [i |-> m.i + 1, j |-> m.j, out |-> Append(m.out, a[m.i])]
         \/ /\ m.j <= Len(b) /\ NameOf[b[m.j]] < NameOf[a[m.i]]
            /\ MergeTurn(a, b, m) = [i |-> m.i, j |-> m.j + 1, out |-> m.out]
         \/ /\ m.j <= Len(b) /\ NameOf[b[m.j]] = NameOf[a[m.i]]
            /\ MergeTurn(a, b, m) = [i |-> m.i + 1, j |-> m.j + 1, out |-> m.out]
<1> DEFINE i == m.i
           j == m.j
           out == m.out
<1>1. /\ Len(a) \in Nat /\ Len(b) \in Nat /\ i \in 1..Len(a) /\ j \in 1..(Len(b) + 1)
      /\ a[i] \in Packages
      /\ j <= Len(b) => b[j] \in Packages
  BY ElementOfSeq
<1>2. /\ NameOf[a[i]] \in Nat
      /\ j <= Len(b) => NameOf[b[j]] \in Nat
  BY <1>1, DiffAssumption
<1>3. ~(i > Len(a)) /\ [m EXCEPT !.j = @ + 1] = [i |-> i, j |-> j + 1, out |-> out]
  BY <1>1
<1> HIDE DEF i, j, out
<1>4. CASE j > Len(b) \/ NameOf[a[i]] < NameOf[b[j]]
  BY <1>3, <1>4 DEF MergeTurn, i, j, out
<1>5. CASE j <= Len(b) /\ NameOf[b[j]] < NameOf[a[i]]
  <2>1. ~(j > Len(b)) /\ ~(NameOf[a[i]] < NameOf[b[j]])
    BY <1>1, <1>2, <1>5
  <2> QED BY <1>3, <1>5, <2>1 DEF MergeTurn, i, j, out
<1>6. CASE j <= Len(b) /\ NameOf[b[j]] = NameOf[a[i]]
  <2>1. ~(j > Len(b)) /\ ~(NameOf[a[i]] < NameOf[b[j]]) /\ ~(NameOf[b[j]] < NameOf[a[i]])
    BY <1>1, <1>2, <1>6
  <2> QED BY <1>3, <1>6, <2>1 DEF MergeTurn, i, j, out
<1>7. \/ j > Len(b) \/ NameOf[a[i]] < NameOf[b[j]]
      \/ j <= Len(b) /\ NameOf[b[j]] < NameOf[a[i]]
      \/ j <= Len(b) /\ NameOf[b[j]] = NameOf[a[i]]
  BY <1>1, <1>2
<1> QED BY <1>4, <1>5, <1>6, <1>7 DEF i, j, out

\* A turn keeps the count, does not pass the places without finding a pair, and drops
\* nothing whose name is not in b.
LEMMA MergeTurnCounts ==
  ASSUME NEW a \in Seq(Packages), NEW b \in Seq(Packages), NEW n \in Nat,
         NEW m, Counts(a, b, n, m), Covers(a, b, m)
  PROVE  /\ Counts(a, b, n + 1, MergeTurn(a, b, m))
         /\ Covers(a, b, MergeTurn(a, b, m))
         /\ \A p, q : Top(a, b, p, q) /\ FindsPair(p, q, m)
                        => FindsPair(p, q, MergeTurn(a, b, m))
<1> DEFINE i == m.i
           j == m.j
           out == m.out
           turn == MergeTurn(a, b, m)
<1>1. /\ Len(a) \in Nat /\ Len(b) \in Nat /\ i \in 1..(Len(a) + 1) /\ j \in 1..(Len(b) + 1)
      /\ out \in Seq(Packages) /\ Len(out) \in Nat
      /\ m = [i |-> i, j |-> j, out |-> out]
      /\ i > Len(a) \/ i + j >= n + 2
      /\ i - j <= Len(out) /\ Len(out) <= i - 1
      /\ DOMAIN a = 1..Len(a) /\ DOMAIN b = 1..Len(b)
  BY DEF Counts
<1>2. CASE i > Len(a)
  <2>1. turn = m
    BY <1>2 DEF MergeTurn
  <2>2. Counts(a, b, n + 1, m)
    BY <1>2 DEF Counts
  <2> QED BY <2>1, <2>2
<1>3. CASE i <= Len(a)
  <2>1. i \in 1..Len(a)
    BY <1>1, <1>3
  <2>2. \A p, q : Top(a, b, p, q) /\ FindsPair(p, q, m) =>
          /\ p \in 1..Len(a) /\ q \in 1..Len(b) /\ NameOf[a[p]] = NameOf[b[q]]
          /\ NameOf[a[i]] <= NameOf[b[q]]
          /\ j <= Len(b) => NameOf[b[j]] <= NameOf[a[p]]
          /\ NameOf[a[p]] \in Nat /\ NameOf[b[q]] \in Nat
          /\ Len(out) <= i - 2 \/ (i <= p /\ j <= q)
    <3> SUFFICES ASSUME NEW p, NEW q, Top(a, b, p, q), FindsPair(p, q, m)
                 PROVE  /\ p \in 1..Len(a) /\ q \in 1..Len(b) /\ NameOf[a[p]] = NameOf[b[q]]
                        /\ NameOf[a[i]] <= NameOf[b[q]]
                        /\ j <= Len(b) => NameOf[b[j]] <= NameOf[a[p]]
                        /\ NameOf[a[p]] \in Nat /\ NameOf[b[q]] \in Nat
                        /\ Len(out) <= i - 2 \/ (i <= p /\ j <= q)
      OBVIOUS
    <3>1. p \in 1..Len(a) /\ q \in 1..Len(b)
      BY <1>1 DEF Top
    <3>2. a[p] \in Packages /\ b[q] \in Packages
      BY <3>1, ElementOfSeq
    <3>3. NameOf[a[p]] \in Nat /\ NameOf[b[q]] \in Nat
      BY <3>2, DiffAssumption
    <3> QED BY <1>1, <2>1, <3>1, <3>3 DEF Top, FindsPair
  <2> HIDE DEF i, j, out, turn
  <2>3. CASE /\ j > Len(b) \/ NameOf[a[i]] < NameOf[b[j]]
             /\ turn = [i |-> i + 1, j |-> j, out |-> Append(out, a[i])]
    <3> DEFINE new == Append(out, a[i])
    <3>1. a[i] \in Packages
      BY <2>1, ElementOfSeq
    <3>2. new \in Seq(Packages) /\ Len(new) = Len(out) + 1
      BY <1>1, <3>1
    <3>3. Elements(new) = Elements(out) \cup {a[i]}
      <4>1. /\ DOMAIN new = DOMAIN out \cup {Len(out) + 1} /\ new[Len(out) + 1] = a[i]
            /\ \A k \in DOMAIN out : new[k] = out[k]
        BY <1>1, <3>1
      <4> QED BY <4>1 DEF Elements
    <3> HIDE DEF new
    <3>4. turn.i = i + 1 /\ turn.j = j /\ turn.out = new
          /\ turn = [i |-> i + 1, j |-> j, out |-> new]
      BY <2>3 DEF new
    <3>5. Counts(a, b, n + 1, turn)
      BY <1>1, <2>1, <3>2, <3>4 DEF Counts
    <3>6. Covers(a, b, turn)
      <4> SUFFICES ASSUME NEW l \in 1..i
                   PROVE  a[l] \in Elements(new) \/ \E k \in DOMAIN b : NameOf[b[k]] = NameOf[a[l]]
        BY <1>1, <3>4 DEF Covers
      <4>1. CASE l = i
        BY <3>3, <4>1
      <4>2. CASE l # i
        <5>1. l \in 1..(i - 1)
          BY <1>1, <4>2
        <5>2. a[l] \in Elements(out) \/ \E k \in DOMAIN b : NameOf[b[k]] = NameOf[a[l]]
          BY <5>1 DEF Covers, i, out
        <5> QED BY <3>3, <5>2
      <4> QED BY <4>1, <4>2
    <3>7. ASSUME NEW p, NEW q, Top(a, b, p, q), FindsPair(p, q, m)
          PROVE  FindsPair(p, q, turn)
      <4>1. CASE Len(out) <= i - 2
        BY <1>1, <3>2, <3>4, <4>1 DEF FindsPair
      <4>2. CASE i <= p /\ j <= q
        <5>1. j \in 1..Len(b) /\ b[j] \in Packages
          BY <1>1, <2>2, <3>7, <4>2, ElementOfSeq
        <5>2. NameOf[b[j]] \in Nat /\ NameOf[a[i]] \in Nat
          BY <3>1, <5>1, DiffAssumption
        <5>3. i # p
          <6>1. NameOf[b[j]] <= NameOf[a[p]]
            BY <2>2, <3>7, <5>1
          <6>2. NameOf[a[i]] < NameOf[b[j]]
            BY <1>1, <2>3, <5>1
          <6> QED BY <5>2, <6>1, <6>2
        <5>4. i + 1 <= p
          BY <1>1, <2>2, <3>7, <4>2, <5>3
        <5> QED BY <3>4, <4>2, <5>4 DEF FindsPair
      <4> QED BY <2>2, <3>7, <4>1, <4>2
    <3> QED BY <3>5, <3>6, <3>7 DEF turn
  <2>4. CASE /\ j <= Len(b) /\ NameOf[b[j]] < NameOf[a[i]]
             /\ turn = [i |-> i, j |-> j + 1, out |-> out]
    <3>4. turn.i = i /\ turn.j = j + 1 /\ turn.out = out
      BY <2>4
    <3>5. Counts(a, b, n + 1, turn)
      BY <1>1, <2>1, <2>4 DEF Counts
    <3>6. Covers(a, b, turn)
      BY <3>4 DEF Covers, i, out
    <3>7. ASSUME NEW p, NEW q, Top(a, b, p, q), FindsPair(p, q, m)
          PROVE  FindsPair(p, q, turn)
      <4>1. CASE Len(out) <= i - 2
        BY <3>4, <4>1 DEF FindsPair
      <4>2. CASE i <= p /\ j <= q
        <5>1. a[i] \in Packages /\ b[j] \in Packages
          BY <1>1, <2>1, <2>4, ElementOfSeq
        <5>2. NameOf[b[j]] \in Nat /\ NameOf[a[i]] \in Nat
          BY <5>1, DiffAssumption
        <5>3. j # q
          BY <2>2, <2>4, <3>7, <5>2
        <5>4. j + 1 <= q
          BY <1>1, <2>2, <3>7, <4>2, <5>3
        <5> QED BY <3>4, <4>2, <5>4 DEF FindsPair
      <4> QED BY <2>2, <3>7, <4>1, <4>2
    <3> QED BY <3>5, <3>6, <3>7 DEF turn
  <2>5. CASE /\ j <= Len(b) /\ NameOf[b[j]] = NameOf[a[i]]
             /\ turn = [i |-> i + 1, j |-> j + 1, out |-> out]
    <3>4. turn.i = i + 1 /\ turn.j = j + 1 /\ turn.out = out
      BY <2>5
    <3>5. Counts(a, b, n + 1, turn)
      <4>1. i + 1 \in 1..(Len(a) + 1) /\ j + 1 \in 1..(Len(b) + 1)
        BY <1>1, <2>1, <2>5
      <4>2. /\ (i + 1) + (j + 1) >= (n + 1) + 2
            /\ (i + 1) - (j + 1) <= Len(out) /\ Len(out) <= (i + 1) - 1
        BY <1>1, <2>1
      <4>3. turn \in [i : 1..(Len(a) + 1), j : 1..(Len(b) + 1), out : Seq(Packages)]
        BY <1>1, <2>5, <4>1
      <4> QED BY <3>4, <4>2, <4>3 DEF Counts
    <3>6. Covers(a, b, turn)
      <4> SUFFICES ASSUME NEW l \in 1..i
                   PROVE  a[l] \in Elements(out) \/ \E k \in DOMAIN b : NameOf[b[k]] = NameOf[a[l]]
        BY <1>1, <3>4 DEF Covers
      <4>1. CASE l = i
        BY <1>1, <2>5, <4>1
      <4>2. CASE l # i
        <5>1. l \in 1..(i - 1)
          BY <1>1, <4>2
        <5> QED BY <5>1 DEF Covers, i, out
      <4> QED BY <4>1, <4>2
    <3>7. \A p, q : FindsPair(p, q, turn)
      BY <1>1, <3>4 DEF FindsPair
    <3> QED BY <3>5, <3>6, <3>7 DEF turn
  <2>6. m \in [i : 1..Len(a), j : 1..(Len(b) + 1), out : Seq(Packages)]
    BY <1>1, <2>1
  <2>7. \/ /\ j > Len(b) \/ NameOf[a[i]] < NameOf[b[j]]
           /\ turn = [i |-> i + 1, j |-> j, out |-> Append(out, a[i])]
        \/ /\ j <= Len(b) /\ NameOf[b[j]] < NameOf[a[i]]
           /\ turn = [i |-> i, j |-> j + 1, out |-> out]
        \/ /\ j <= Len(b) /\ NameOf[b[j]] = NameOf[a[i]]
           /\ turn = [i |-> i + 1, j |-> j + 1, out |-> out]
    BY <2>6, MergeTurnCases DEF i, j, out, turn
  <2> QED BY <2>3, <2>4, <2>5, <2>7 DEF turn
<1> QED BY <1>1, <1>2, <1>3

\* A difference has as many elements as were not paired, one less at least where the
\* greatest names of both are the same; what it leaves out has a name of b.
LEMMA NameDiffCounts ==
  ASSUME NEW a \in Seq(Packages), NEW b \in Seq(Packages)
  PROVE  /\ NameDiff(a, b) \in Seq(Packages)
         /\ Len(NameDiff(a, b)) <= Len(a) /\ Len(a) - Len(b) <= Len(NameDiff(a, b))
         /\ \A p, q : Top(a, b, p, q) => Len(NameDiff(a, b)) < Len(a)
         /\ \A l \in DOMAIN a : \/ a[l] \in Elements(NameDiff(a, b))
                                \/ \E k \in DOMAIN b : NameOf[b[k]] = NameOf[a[l]]
<1> DEFINE N == Len(a) + Len(b)
           Inv(n) == /\ Counts(a, b, n, Merge(a, b)[n]) /\ Covers(a, b, Merge(a, b)[n])
                     /\ \A p, q : Top(a, b, p, q) => FindsPair(p, q, Merge(a, b)[n])
           S == {n \in Nat : n <= N => Inv(n)}
<1>0. /\ N \in Nat /\ Len(a) \in Nat /\ Len(b) \in Nat
      /\ DOMAIN a = 1..Len(a) /\ DOMAIN b = 1..Len(b)
  OBVIOUS
<1>1. 0 \in S
  <2>1. Counts(a, b, 0, MergeStart) /\ Covers(a, b, MergeStart)
    BY <1>0 DEF Counts, Covers, MergeStart
  <2>2. \A p, q : Top(a, b, p, q) => FindsPair(p, q, MergeStart)
    BY <1>0 DEF Top, FindsPair, MergeStart
  <2>3. Merge(a, b)[0] = MergeStart
    BY MergeDefined
  <2> QED BY <2>1, <2>2, <2>3
<1>2. ASSUME NEW n \in S PROVE n + 1 \in S
  <2> SUFFICES ASSUME n + 1 <= N PROVE Inv(n + 1)
    OBVIOUS
  <2>1. n \in Nat /\ n <= N /\ n + 1 \in 1..N /\ (n + 1) - 1 = n
    BY <1>0
  <2>2. Inv(n)
    BY <2>1
  <2>3. Merge(a, b)[n + 1] = MergeTurn(a, b, Merge(a, b)[n])
    BY <2>1, MergeDefined
  <2> QED BY <2>1, <2>2, <2>3, MergeTurnCounts
<1>3. Inv(N)
  <2>1. S = Nat
    <3> HIDE DEF S
    <3>1. S \in SUBSET Nat
      BY DEF S
    <3> QED BY <1>1, <1>2, <3>1, SetInduction
  <2> QED BY <1>0, <2>1
<1> DEFINE m == Merge(a, b)[N]
<1>4. NameDiff(a, b) = m.out
  BY MergeDefined
<1>5. Counts(a, b, N, m) /\ Covers(a, b, m) /\ \A p, q : Top(a, b, p, q) => FindsPair(p, q, m)
  BY <1>3
<1> HIDE DEF m, Inv, S
<1>6. /\ m.out \in Seq(Packages) /\ Len(m.out) \in Nat
      /\ m.i = Len(a) + 1 /\ m.j \in 1..(Len(b) + 1)
      /\ Len(m.out) <= Len(a) /\ Len(a) - Len(b) <= Len(m.out)
  <2>1. /\ m.i \in 1..(Len(a) + 1) /\ m.j \in 1..(Len(b) + 1) /\ m.out \in Seq(Packages)
        /\ m.i > Len(a) \/ m.i + m.j >= N + 2
        /\ m.i - m.j <= Len(m.out) /\ Len(m.out) <= m.i - 1
    BY <1>5 DEF Counts
  <2>2. Len(m.out) \in Nat
    BY <2>1
  <2> QED BY <1>0, <2>1, <2>2
<1>7. \A p, q : Top(a, b, p, q) => Len(m.out) < Len(a)
  <2> SUFFICES ASSUME NEW p, NEW q, Top(a, b, p, q) PROVE Len(m.out) < Len(a)
    OBVIOUS
  <2>1. FindsPair(p, q, m) /\ p \in 1..Len(a)
    BY <1>0, <1>5 DEF Top
  <2> QED BY <1>0, <1>6, <2>1 DEF FindsPair
<1>8. \A l \in DOMAIN a : \/ a[l] \in Elements(m.out)
                          \/ \E k \in DOMAIN b : NameOf[b[k]] = NameOf[a[l]]
  <2>1. \A l \in 1..Len(a) : l \in 1..(m.i - 1)
    BY <1>0, <1>6
  <2> QED BY <1>0, <1>5, <2>1 DEF Covers
<1> QED BY <1>4, <1>6, <1>7, <1>8

-----------------------------------------------------------------------------
(* The names NameDiff leaves, where both sequences are in the order of names. *)

NameOrdered(seq) == \A k, l \in DOMAIN seq : k < l => NameOf[seq[k]] <= NameOf[seq[l]]

\* How many of the first m elements have the name n.
Upto(seq, m, n) == Cardinality({k \in 1..m : NameOf[seq[k]] = n})

\* What is left of x when y are taken away, if there are as many.
Less(x, y) == IF x > y THEN x - y ELSE 0

\* One element more counts if it has the name.
LEMMA UptoStep ==
  ASSUME NEW seq, NEW m \in Nat, NEW n
  PROVE  /\ Upto(seq, m, n) \in Nat /\ Upto(seq, 0, n) = 0
         /\ Upto(seq, m + 1, n) = IF NameOf[seq[m + 1]] = n
                                  THEN Upto(seq, m, n) + 1 ELSE Upto(seq, m, n)
<1> DEFINE at(k) == {l \in 1..k : NameOf[seq[l]] = n}
<1>1. IsFiniteSet(at(m)) /\ Cardinality(at(m)) \in Nat
  <2>1. IsFiniteSet(1..m) /\ at(m) \in SUBSET (1..m)
    BY FS_Interval
  <2>2. IsFiniteSet(at(m))
    BY <2>1, FS_Subset
  <2> HIDE DEF at
  <2> QED BY <2>2, FS_CardinalityType
<1>2. Cardinality(at(0)) = 0
  <2>1. at(0) = {}
    OBVIOUS
  <2> QED BY <2>1, FS_EmptySet
<1>3. 1..(m + 1) = (1..m) \cup {m + 1} /\ m + 1 \notin at(m)
  OBVIOUS
<1>4. CASE NameOf[seq[m + 1]] = n
  <2>1. at(m + 1) = at(m) \cup {m + 1}
    BY <1>3, <1>4
  <2> HIDE DEF at
  <2> QED BY <1>1, <1>2, <1>3, <1>4, <2>1, FS_AddElement DEF Upto, at
<1>5. CASE NameOf[seq[m + 1]] # n
  <2>1. at(m + 1) = at(m)
    BY <1>3, <1>5
  <2> QED BY <1>1, <1>2, <1>5, <2>1 DEF Upto
<1> QED BY <1>4, <1>5

\* The same, of the last one that counts.
LEMMA UptoLast ==
  ASSUME NEW seq, NEW m \in Nat \ {0}, NEW n
  PROVE  /\ Upto(seq, m - 1, n) \in Nat
         /\ Upto(seq, m, n) = IF NameOf[seq[m]] = n
                              THEN Upto(seq, m - 1, n) + 1 ELSE Upto(seq, m - 1, n)
<1>1. PICK k \in Nat : m - 1 = k /\ m = k + 1
  <2>1. m - 1 \in Nat /\ m = (m - 1) + 1
    OBVIOUS
  <2> QED BY <2>1
<1>2. /\ Upto(seq, k, n) \in Nat
      /\ Upto(seq, k + 1, n) = IF NameOf[seq[k + 1]] = n
                               THEN Upto(seq, k, n) + 1 ELSE Upto(seq, k, n)
  BY UptoStep
<1> QED BY <1>1, <1>2

\* A sequence that ends with x has one element of the name of x more.
LEMMA UptoAppend ==
  ASSUME NEW seq \in Seq(Packages), NEW x \in Packages, NEW n
  PROVE  Upto(Append(seq, x), Len(Append(seq, x)), n) =
           IF NameOf[x] = n THEN Upto(seq, Len(seq), n) + 1 ELSE Upto(seq, Len(seq), n)
<1> DEFINE new == Append(seq, x)
<1>1. /\ Len(seq) \in Nat /\ Len(new) = Len(seq) + 1 /\ new[Len(seq) + 1] = x
      /\ \A k \in 1..Len(seq) : new[k] = seq[k]
  OBVIOUS
<1> HIDE DEF new
<1>2. Upto(new, Len(seq), n) = Upto(seq, Len(seq), n)
  <2> DEFINE A == {k \in 1..Len(seq) : NameOf[new[k]] = n}
             B == {k \in 1..Len(seq) : NameOf[seq[k]] = n}
  <2>1. A = B
    BY <1>1
  <2>2. Upto(new, Len(seq), n) = Cardinality(A) /\ Upto(seq, Len(seq), n) = Cardinality(B)
    BY DEF Upto
  <2> HIDE DEF A, B
  <2> QED BY <2>1, <2>2
<1>3. Upto(new, Len(seq) + 1, n) = IF NameOf[new[Len(seq) + 1]] = n
                                   THEN Upto(new, Len(seq), n) + 1 ELSE Upto(new, Len(seq), n)
  BY <1>1, UptoStep
<1>4. Upto(new, Len(new), n) = IF NameOf[x] = n THEN Upto(seq, Len(seq), n) + 1
                                                ELSE Upto(seq, Len(seq), n)
  BY <1>1, <1>2, <1>3
<1> QED BY <1>4 DEF new

\* No more elements of a name come after those of greater names.
LEMMA UptoEnds ==
  ASSUME NEW seq \in Seq(Packages), NameOrdered(seq), NEW m \in 1..(Len(seq) + 1), NEW n \in Nat,
         m <= Len(seq) => NameOf[seq[m]] > n
  PROVE  Upto(seq, Len(seq), n) = Upto(seq, m - 1, n)
<1>1. {k \in 1..Len(seq) : NameOf[seq[k]] = n} = {k \in 1..(m - 1) : NameOf[seq[k]] = n}
  <2>1. Len(seq) \in Nat /\ DOMAIN seq = 1..Len(seq)
    OBVIOUS
  <2>2. ASSUME NEW k \in 1..Len(seq), NameOf[seq[k]] = n PROVE k \in 1..(m - 1)
    <3>1. CASE k >= m
      <4>1. m \in 1..Len(seq) /\ seq[m] \in Packages
        BY <2>1, <3>1, ElementOfSeq
      <4>2. NameOf[seq[m]] \in Nat /\ NameOf[seq[m]] > n
        <5>1. m <= Len(seq)
          BY <4>1
        <5> QED BY <4>1, <5>1, DiffAssumption
      <4>3. k # m
        BY <2>2, <4>2
      <4>4. NameOf[seq[m]] <= NameOf[seq[k]]
        BY <2>1, <3>1, <4>1, <4>3 DEF NameOrdered
      <4> QED BY <2>2, <4>2, <4>4
    <3>2. CASE k < m
      BY <3>2
    <3> QED BY <2>1, <3>1, <3>2
  <2> QED BY <2>1, <2>2
<1> DEFINE A == {k \in 1..Len(seq) : NameOf[seq[k]] = n}
           B == {k \in 1..(m - 1) : NameOf[seq[k]] = n}
<1>2. Upto(seq, Len(seq), n) = Cardinality(A) /\ Upto(seq, m - 1, n) = Cardinality(B)
  BY DEF Upto
<1>3. A = B
  BY <1>1
<1> HIDE DEF A, B
<1> QED BY <1>2, <1>3

\* More elements are not fewer of a name.
LEMMA UptoGrows ==
  ASSUME NEW seq, NEW m \in Nat, NEW k \in Nat, m <= k, NEW n
  PROVE  Upto(seq, m, n) <= Upto(seq, k, n)
<1> DEFINE at(i) == {l \in 1..i : NameOf[seq[l]] = n}
<1>1. at(m) \in SUBSET at(k) /\ at(k) \in SUBSET (1..k)
  OBVIOUS
<1>2. IsFiniteSet(1..k)
  BY FS_Interval
<1>3. Upto(seq, m, n) = Cardinality(at(m)) /\ Upto(seq, k, n) = Cardinality(at(k))
  BY DEF Upto
<1> HIDE DEF at
<1>4. IsFiniteSet(at(k))
  BY <1>1, <1>2, FS_Subset
<1>5. Cardinality(at(m)) <= Cardinality(at(k))
  BY <1>1, <1>4, FS_Subset
<1> QED BY <1>3, <1>5

\* The merge so far: of every name what a has had more of than b, in order; a name of
\* which one has had more is not the next of the other any more.
MergeNames(a, b, m) ==
  /\ m \in [i : 1..(Len(a) + 1), j : 1..(Len(b) + 1), out : Seq(Packages)]
  /\ \A n \in Nat :
       /\ Upto(m.out, Len(m.out), n) = Less(Upto(a, m.i - 1, n), Upto(b, m.j - 1, n))
       /\ m.i <= Len(a) /\ Upto(b, m.j - 1, n) > Upto(a, m.i - 1, n) => NameOf[a[m.i]] > n
       /\ m.j <= Len(b) /\ Upto(a, m.i - 1, n) > Upto(b, m.j - 1, n) => NameOf[b[m.j]] > n
  /\ NameOrdered(m.out)
  /\ m.i <= Len(a) => \A k \in DOMAIN m.out : NameOf[m.out[k]] <= NameOf[a[m.i]]

\* The next element of a sequence in order does not have a smaller name.
LEMMA NextName ==
  ASSUME NEW seq \in Seq(Packages), NameOrdered(seq), NEW m \in 1..Len(seq)
  PROVE  /\ NameOf[seq[m]] \in Nat
         /\ m + 1 <= Len(seq) => /\ NameOf[seq[m + 1]] \in Nat
                                 /\ NameOf[seq[m]] <= NameOf[seq[m + 1]]
<1>1. Len(seq) \in Nat /\ DOMAIN seq = 1..Len(seq) /\ m \in Nat
  OBVIOUS
<1>2. NameOf[seq[m]] \in Nat
  BY ElementOfSeq, DiffAssumption
<1>3. ASSUME m + 1 <= Len(seq)
      PROVE  NameOf[seq[m + 1]] \in Nat /\ NameOf[seq[m]] <= NameOf[seq[m + 1]]
  <2>1. m + 1 \in 1..Len(seq) /\ m < m + 1
    BY <1>1, <1>3
  <2> QED BY <1>1, <2>1, ElementOfSeq, DiffAssumption DEF NameOrdered
<1> QED BY <1>2, <1>3

\* A turn keeps that.
LEMMA MergeTurnNames ==
  ASSUME NEW a \in Seq(Packages), NEW b \in Seq(Packages), NameOrdered(a), NameOrdered(b),
         NEW m, MergeNames(a, b, m)
  PROVE  MergeNames(a, b, MergeTurn(a, b, m))
<1> DEFINE i == m.i
           j == m.j
           out == m.out
           turn == MergeTurn(a, b, m)
           new == Append(out, a[i])
<1>1. /\ Len(a) \in Nat /\ Len(b) \in Nat /\ i \in 1..(Len(a) + 1) /\ j \in 1..(Len(b) + 1)
      /\ out \in Seq(Packages) /\ Len(out) \in Nat
      /\ m = [i |-> i, j |-> j, out |-> out]
  BY DEF MergeNames
<1>2. CASE i > Len(a)
  BY <1>2 DEF MergeTurn
<1>3. CASE i <= Len(a)
  <2>1. i \in 1..Len(a) /\ a[i] \in Packages /\ NameOf[a[i]] \in Nat
    BY <1>1, <1>3, ElementOfSeq, DiffAssumption
  <2>2. j <= Len(b) => j \in 1..Len(b) /\ NameOf[b[j]] \in Nat
    BY <1>1, ElementOfSeq, DiffAssumption
  <2>3. \A n \in Nat :
          /\ Upto(a, i - 1, n) \in Nat /\ Upto(b, j - 1, n) \in Nat
          /\ Upto(a, i, n) = IF NameOf[a[i]] = n THEN Upto(a, i - 1, n) + 1 ELSE Upto(a, i - 1, n)
          /\ Upto(b, j, n) = IF NameOf[b[j]] = n THEN Upto(b, j - 1, n) + 1 ELSE Upto(b, j - 1, n)
    <3>1. i \in Nat \ {0} /\ j \in Nat \ {0}
      BY <1>1
    <3> HIDE DEF i, j
    <3> QED BY <3>1, UptoLast
  <2>4. /\ i + 1 <= Len(a) => NameOf[a[i + 1]] \in Nat /\ NameOf[a[i]] <= NameOf[a[i + 1]]
        /\ j + 1 <= Len(b) => /\ j \in 1..Len(b)
                              /\ NameOf[b[j + 1]] \in Nat /\ NameOf[b[j]] <= NameOf[b[j + 1]]
    BY <1>1, <2>1, NextName
  <2>5. /\ \A n \in Nat :
             /\ Upto(out, Len(out), n) = Less(Upto(a, i - 1, n), Upto(b, j - 1, n))
             /\ Upto(b, j - 1, n) > Upto(a, i - 1, n) => NameOf[a[i]] > n
             /\ j <= Len(b) /\ Upto(a, i - 1, n) > Upto(b, j - 1, n) => NameOf[b[j]] > n
        /\ NameOrdered(out)
        /\ \A k \in DOMAIN out : NameOf[out[k]] <= NameOf[a[i]] /\ NameOf[out[k]] \in Nat
    <3>1. \A k \in DOMAIN out : NameOf[out[k]] \in Nat
      BY <1>1, ElementOfSeq, DiffAssumption
    <3> QED BY <1>3, <3>1 DEF MergeNames
  <2>6. i + 1 <= Len(a) => \A k \in DOMAIN out : NameOf[out[k]] <= NameOf[a[i + 1]]
    BY <2>1, <2>4, <2>5
  <2> HIDE DEF i, j, out, turn, new
  <2>7. CASE /\ j > Len(b) \/ NameOf[a[i]] < NameOf[b[j]]
             /\ turn = [i |-> i + 1, j |-> j, out |-> new]
    <3>1. /\ new \in Seq(Packages) /\ DOMAIN new = DOMAIN out \cup {Len(out) + 1}
          /\ new[Len(out) + 1] = a[i] /\ \A k \in DOMAIN out : new[k] = out[k] /\ k \in 1..Len(out)
      BY <1>1, <2>1 DEF new
    <3>2. NameOrdered(new)
      <4> SUFFICES ASSUME NEW k \in DOMAIN new, NEW l \in DOMAIN new, k < l
                   PROVE  NameOf[new[k]] <= NameOf[new[l]]
        BY DEF NameOrdered
      <4>1. k \in DOMAIN out
        BY <1>1, <3>1
      <4>2. CASE l \in DOMAIN out
        BY <2>5, <3>1, <4>1, <4>2 DEF NameOrdered
      <4>3. CASE l = Len(out) + 1
        BY <2>5, <3>1, <4>1, <4>3
      <4> QED BY <3>1, <4>2, <4>3
    <3>3. i + 1 <= Len(a) => \A k \in DOMAIN new : NameOf[new[k]] <= NameOf[a[i + 1]]
      BY <2>4, <2>6, <3>1
    <3>4. ASSUME NEW n \in Nat
          PROVE  /\ Upto(new, Len(new), n) = Less(Upto(a, i, n), Upto(b, j - 1, n))
                 /\ i + 1 <= Len(a) /\ Upto(b, j - 1, n) > Upto(a, i, n) => NameOf[a[i + 1]] > n
                 /\ j <= Len(b) /\ Upto(a, i, n) > Upto(b, j - 1, n) => NameOf[b[j]] > n
      <4> DEFINE ca == Upto(a, i - 1, n)
                 cb == Upto(b, j - 1, n)
      <4>0. /\ ca \in Nat /\ cb \in Nat
            /\ Upto(a, i, n) = IF NameOf[a[i]] = n THEN ca + 1 ELSE ca
            /\ Upto(b, j, n) = IF NameOf[b[j]] = n THEN cb + 1 ELSE cb
            /\ Upto(out, Len(out), n) = Less(ca, cb)
            /\ cb > ca => NameOf[a[i]] > n
            /\ j <= Len(b) /\ ca > cb => NameOf[b[j]] > n
        BY <2>3, <2>5
      <4> HIDE DEF ca, cb
      <4>1. Upto(new, Len(new), n) = IF NameOf[a[i]] = n THEN Less(ca, cb) + 1 ELSE Less(ca, cb)
        BY <1>1, <2>1, <4>0, UptoAppend DEF new
      <4>2. CASE NameOf[a[i]] = n
        <5>1. cb <= ca /\ Upto(a, i, n) = ca + 1
          BY <4>0, <4>2
        <5>2. Less(ca, cb) + 1 = Less(ca + 1, cb)
          BY <4>0, <5>1 DEF Less
        <5>3. ca + 1 > cb
          BY <4>0, <5>1
        <5>4. j <= Len(b) => NameOf[b[j]] > n
          BY <1>1, <2>2, <2>7, <4>2
        <5> QED BY <4>0, <4>1, <4>2, <5>1, <5>2, <5>3, <5>4 DEF cb
      <4>3. CASE NameOf[a[i]] # n
        <5>1. Upto(a, i, n) = ca
          BY <4>0, <4>3
        <5>2. i + 1 <= Len(a) /\ NameOf[a[i]] > n => NameOf[a[i + 1]] > n
          BY <2>1, <2>4
        <5> QED BY <4>0, <4>1, <4>3, <5>1, <5>2 DEF cb
      <4> QED BY <4>2, <4>3
    <3>5. turn \in [i : 1..(Len(a) + 1), j : 1..(Len(b) + 1), out : Seq(Packages)]
      BY <1>1, <2>1, <2>7, <3>1
    <3>6. turn.i = i + 1 /\ turn.j = j /\ turn.out = new /\ turn.i - 1 = i
      BY <1>1, <2>7
    <3> QED BY <3>2, <3>3, <3>4, <3>5, <3>6 DEF MergeNames, turn
  <2>8. CASE /\ j <= Len(b) /\ NameOf[b[j]] < NameOf[a[i]]
             /\ turn = [i |-> i, j |-> j + 1, out |-> out]
    <3>4. ASSUME NEW n \in Nat
          PROVE  /\ Upto(out, Len(out), n) = Less(Upto(a, i - 1, n), Upto(b, j, n))
                 /\ Upto(b, j, n) > Upto(a, i - 1, n) => NameOf[a[i]] > n
                 /\ j + 1 <= Len(b) /\ Upto(a, i - 1, n) > Upto(b, j, n) => NameOf[b[j + 1]] > n
      <4> DEFINE ca == Upto(a, i - 1, n)
                 cb == Upto(b, j - 1, n)
      <4>0. /\ ca \in Nat /\ cb \in Nat
            /\ Upto(a, i, n) = IF NameOf[a[i]] = n THEN ca + 1 ELSE ca
            /\ Upto(b, j, n) = IF NameOf[b[j]] = n THEN cb + 1 ELSE cb
            /\ Upto(out, Len(out), n) = Less(ca, cb)
            /\ cb > ca => NameOf[a[i]] > n
            /\ j <= Len(b) /\ ca > cb => NameOf[b[j]] > n
        BY <2>3, <2>5
      <4> HIDE DEF ca, cb
      <4>2. CASE NameOf[b[j]] = n
        <5>1. ca <= cb /\ Upto(b, j, n) = cb + 1
          BY <2>2, <2>8, <4>0, <4>2
        <5>2. Less(ca, cb) = Less(ca, cb + 1) /\ ~(ca > cb + 1)
          BY <4>0, <5>1 DEF Less
        <5>3. NameOf[a[i]] > n
          BY <2>1, <2>8, <4>2
        <5> QED BY <4>0, <5>1, <5>2, <5>3 DEF ca
      <4>3. CASE NameOf[b[j]] # n
        <5>1. Upto(b, j, n) = cb
          BY <4>0, <4>3
        <5>2. j + 1 <= Len(b) /\ NameOf[b[j]] > n => NameOf[b[j + 1]] > n
          BY <2>2, <2>4, <2>8
        <5> QED BY <2>8, <4>0, <5>1, <5>2 DEF ca
      <4> QED BY <4>2, <4>3
    <3>5. turn \in [i : 1..(Len(a) + 1), j : 1..(Len(b) + 1), out : Seq(Packages)]
      BY <1>1, <2>2, <2>8
    <3>6. turn.i = i /\ turn.j = j + 1 /\ turn.out = out /\ turn.j - 1 = j
      BY <1>1, <2>8
    <3> QED BY <2>5, <3>4, <3>5, <3>6 DEF MergeNames, turn
  <2>9. CASE /\ j <= Len(b) /\ NameOf[b[j]] = NameOf[a[i]]
             /\ turn = [i |-> i + 1, j |-> j + 1, out |-> out]
    <3>4. ASSUME NEW n \in Nat
          PROVE  /\ Upto(out, Len(out), n) = Less(Upto(a, i, n), Upto(b, j, n))
                 /\ i + 1 <= Len(a) /\ Upto(b, j, n) > Upto(a, i, n) => NameOf[a[i + 1]] > n
                 /\ j + 1 <= Len(b) /\ Upto(a, i, n) > Upto(b, j, n) => NameOf[b[j + 1]] > n
      <4> DEFINE ca == Upto(a, i - 1, n)
                 cb == Upto(b, j - 1, n)
      <4>0. /\ ca \in Nat /\ cb \in Nat
            /\ Upto(a, i, n) = IF NameOf[a[i]] = n THEN ca + 1 ELSE ca
            /\ Upto(b, j, n) = IF NameOf[b[j]] = n THEN cb + 1 ELSE cb
            /\ Upto(out, Len(out), n) = Less(ca, cb)
            /\ cb > ca => NameOf[a[i]] > n
            /\ j <= Len(b) /\ ca > cb => NameOf[b[j]] > n
        BY <2>3, <2>5
      <4> HIDE DEF ca, cb
      <4>2. CASE NameOf[a[i]] = n
        <5>1. ca = cb /\ Upto(a, i, n) = ca + 1 /\ Upto(b, j, n) = cb + 1
          BY <2>9, <4>0, <4>2
        <5>2. Less(ca, cb) = Less(ca + 1, cb + 1) /\ ~(ca + 1 > cb + 1) /\ ~(cb + 1 > ca + 1)
          BY <4>0, <5>1 DEF Less
        <5> QED BY <4>0, <5>1, <5>2
      <4>3. CASE NameOf[a[i]] # n
        <5>1. Upto(a, i, n) = ca /\ Upto(b, j, n) = cb
          BY <2>9, <4>0, <4>3
        <5>2. i + 1 <= Len(a) /\ NameOf[a[i]] > n => NameOf[a[i + 1]] > n
          BY <2>1, <2>4
        <5>3. j + 1 <= Len(b) /\ NameOf[b[j]] > n => NameOf[b[j + 1]] > n
          BY <2>2, <2>4, <2>9
        <5> QED BY <2>9, <4>0, <5>1, <5>2, <5>3
      <4> QED BY <4>2, <4>3
    <3>5. turn \in [i : 1..(Len(a) + 1), j : 1..(Len(b) + 1), out : Seq(Packages)]
      BY <1>1, <2>1, <2>2, <2>9
    <3>6. turn.i = i + 1 /\ turn.j = j + 1 /\ turn.out = out
      BY <2>9
    <3>7. turn.i - 1 = i /\ turn.j - 1 = j
      BY <1>1, <3>6
    <3> QED BY <2>5, <2>6, <3>4, <3>5, <3>6, <3>7 DEF MergeNames, turn
  <2>10. m \in [i : 1..Len(a), j : 1..(Len(b) + 1), out : Seq(Packages)]
    BY <1>1, <2>1
  <2>11. \/ /\ j > Len(b) \/ NameOf[a[i]] < NameOf[b[j]]
            /\ turn = [i |-> i + 1, j |-> j, out |-> new]
         \/ /\ j <= Len(b) /\ NameOf[b[j]] < NameOf[a[i]]
            /\ turn = [i |-> i, j |-> j + 1, out |-> out]
         \/ /\ j <= Len(b) /\ NameOf[b[j]] = NameOf[a[i]]
            /\ turn = [i |-> i + 1, j |-> j + 1, out |-> out]
    BY <2>10, MergeTurnCases DEF i, j, out, turn, new
  <2> QED BY <2>7, <2>8, <2>9, <2>11 DEF turn
<1> QED BY <1>1, <1>2, <1>3

\* The difference of two sequences in order is in order, and has of every name as many
\* as a has more than b.
LEMMA NameDiffNames ==
  ASSUME NEW a \in Seq(Packages), NEW b \in Seq(Packages), NameOrdered(a), NameOrdered(b)
  PROVE  /\ NameDiff(a, b) \in Seq(Packages) /\ NameOrdered(NameDiff(a, b))
         /\ \A n \in Nat : Upto(NameDiff(a, b), Len(NameDiff(a, b)), n) =
                             Less(Upto(a, Len(a), n), Upto(b, Len(b), n))
<1> DEFINE N == Len(a) + Len(b)
           Inv(n) == Counts(a, b, n, Merge(a, b)[n]) /\ Covers(a, b, Merge(a, b)[n])
                     /\ MergeNames(a, b, Merge(a, b)[n])
           S == {n \in Nat : n <= N => Inv(n)}
<1>0. /\ N \in Nat /\ Len(a) \in Nat /\ Len(b) \in Nat
      /\ DOMAIN a = 1..Len(a) /\ DOMAIN b = 1..Len(b)
  OBVIOUS
<1>1. 0 \in S
  <2>1. Counts(a, b, 0, MergeStart) /\ Covers(a, b, MergeStart)
    BY <1>0 DEF Counts, Covers, MergeStart
  <2>2. MergeNames(a, b, MergeStart)
    <3>1. \A s, n : Upto(s, 0, n) = 0
      BY UptoStep
    <3>2. MergeStart \in [i : 1..(Len(a) + 1), j : 1..(Len(b) + 1), out : Seq(Packages)]
      BY <1>0 DEF MergeStart
    <3>3. /\ MergeStart.i - 1 = 0 /\ MergeStart.j - 1 = 0 /\ Len(MergeStart.out) = 0
          /\ DOMAIN MergeStart.out = {} /\ Less(0, 0) = 0
      BY DEF MergeStart, Less
    <3>4. NameOrdered(MergeStart.out)
      BY <3>3 DEF NameOrdered
    <3>5. ~(0 > 0)
      OBVIOUS
    <3> QED BY <3>1, <3>2, <3>3, <3>4, <3>5 DEF MergeNames
  <2>3. Merge(a, b)[0] = MergeStart
    BY MergeDefined
  <2> QED BY <2>1, <2>2, <2>3
<1>2. ASSUME NEW n \in S PROVE n + 1 \in S
  <2> SUFFICES ASSUME n + 1 <= N PROVE Inv(n + 1)
    OBVIOUS
  <2>1. n \in Nat /\ n <= N /\ n + 1 \in 1..N /\ (n + 1) - 1 = n
    BY <1>0
  <2>2. Inv(n)
    BY <2>1
  <2>3. Merge(a, b)[n + 1] = MergeTurn(a, b, Merge(a, b)[n])
    BY <2>1, MergeDefined
  <2> QED BY <2>1, <2>2, <2>3, MergeTurnCounts, MergeTurnNames
<1>3. Inv(N)
  <2>1. S = Nat
    <3> HIDE DEF S
    <3>1. S \in SUBSET Nat
      BY DEF S
    <3> QED BY <1>1, <1>2, <3>1, SetInduction
  <2> QED BY <1>0, <2>1
<1> DEFINE m == Merge(a, b)[N]
<1>4. NameDiff(a, b) = m.out
  BY MergeDefined
<1>5. Counts(a, b, N, m) /\ MergeNames(a, b, m)
  BY <1>3
<1> HIDE DEF m, Inv, S
<1>6. m.i = Len(a) + 1 /\ m.j \in 1..(Len(b) + 1) /\ m.out \in Seq(Packages)
  <2>1. /\ m.i \in 1..(Len(a) + 1) /\ m.j \in 1..(Len(b) + 1) /\ m.out \in Seq(Packages)
        /\ m.i > Len(a) \/ m.i + m.j >= N + 2
    BY <1>5 DEF Counts
  <2> QED BY <1>0, <2>1
<1>7. NameOrdered(m.out)
  BY <1>5 DEF MergeNames
<1>8. ASSUME NEW n \in Nat
      PROVE  Upto(m.out, Len(m.out), n) = Less(Upto(a, Len(a), n), Upto(b, Len(b), n))
  <2> DEFINE ca == Upto(a, Len(a), n)
             cb == Upto(b, m.j - 1, n)
             all == Upto(b, Len(b), n)
  <2>1. m.i - 1 = Len(a) /\ m.j - 1 \in Nat /\ m.j - 1 <= Len(b)
    BY <1>0, <1>6
  <2>2. ca \in Nat /\ cb \in Nat /\ all \in Nat /\ cb <= all
    BY <1>0, <2>1, UptoStep, UptoGrows
  <2>3. /\ Upto(m.out, Len(m.out), n) = Less(ca, cb)
        /\ m.j <= Len(b) /\ ca > cb => NameOf[b[m.j]] > n
    BY <1>5, <2>1 DEF MergeNames
  <2>4. ca > cb => all = cb
    BY <1>6, <2>3, UptoEnds
  <2> HIDE DEF ca, cb, all
  <2>5. Less(ca, cb) = Less(ca, all)
    BY <2>2, <2>4 DEF Less
  <2> QED BY <2>3, <2>5 DEF ca, all
<1> QED BY <1>4, <1>6, <1>7, <1>8

\* Where b ends, or has a greater name, first, a has more of the name it has there.
LEMMA NameMissing ==
  ASSUME NEW a \in Seq(Packages), NEW b \in Seq(Packages), NameOrdered(a), NameOrdered(b),
         NEW k \in 1..Len(a),
         \A l \in 1..(k - 1) : l <= Len(b) /\ NameOf[a[l]] = NameOf[b[l]],
         k <= Len(b) => NameOf[b[k]] > NameOf[a[k]]
  PROVE  Upto(b, Len(b), NameOf[a[k]]) < Upto(a, Len(a), NameOf[a[k]])
<1> DEFINE n == NameOf[a[k]]
<1>1. /\ Len(a) \in Nat /\ Len(b) \in Nat /\ k \in Nat \ {0} /\ k - 1 \in Nat
      /\ n \in Nat
  BY ElementOfSeq, DiffAssumption
<1>2. k \in 1..(Len(b) + 1)
  <2>1. CASE k = 1
    BY <1>1, <2>1
  <2>2. CASE k # 1
    <3>1. k - 1 \in 1..(k - 1)
      BY <1>1, <2>2
    <3>2. k - 1 <= Len(b)
      BY <3>1
    <3> QED BY <1>1, <3>2
  <2> QED BY <2>1, <2>2
<1> HIDE DEF n
<1>3. Upto(b, Len(b), n) = Upto(b, k - 1, n)
  BY <1>1, <1>2, UptoEnds DEF n
<1>4. Upto(b, k - 1, n) = Upto(a, k - 1, n)
  <2> DEFINE A == {l \in 1..(k - 1) : NameOf[a[l]] = n}
             B == {l \in 1..(k - 1) : NameOf[b[l]] = n}
  <2>1. A = B
    OBVIOUS
  <2>2. Upto(b, k - 1, n) = Cardinality(B) /\ Upto(a, k - 1, n) = Cardinality(A)
    BY DEF Upto
  <2> HIDE DEF A, B
  <2> QED BY <2>1, <2>2
<1>5. Upto(a, k, n) = Upto(a, k - 1, n) + 1 /\ Upto(a, k - 1, n) \in Nat
  BY <1>1, UptoLast DEF n
<1>6. Upto(a, k, n) <= Upto(a, Len(a), n) /\ Upto(a, Len(a), n) \in Nat
  BY <1>1, UptoGrows, UptoStep
<1>7. Upto(b, Len(b), n) < Upto(a, Len(a), n)
  BY <1>3, <1>4, <1>5, <1>6
<1> QED BY <1>7 DEF n

\* As many of every name, in order, are the same names one by one.
LEMMA SameNames ==
  ASSUME NEW a \in Seq(Packages), NEW b \in Seq(Packages), NameOrdered(a), NameOrdered(b),
         \A n \in Nat : Upto(a, Len(a), n) = Upto(b, Len(b), n)
  PROVE  Len(a) = Len(b) /\ \A k \in DOMAIN a : NameOf[a[k]] = NameOf[b[k]]
<1> DEFINE Same(k) == /\ k <= Len(a) <=> k <= Len(b)
                      /\ k <= Len(a) => NameOf[a[k]] = NameOf[b[k]]
           S == {m \in Nat : \A k \in 1..m : Same(k)}
<1>0. Len(a) \in Nat /\ Len(b) \in Nat /\ DOMAIN a = 1..Len(a) /\ DOMAIN b = 1..Len(b)
  OBVIOUS
<1>1. 0 \in S
  OBVIOUS
<1>2. ASSUME NEW m \in S PROVE m + 1 \in S
  <2> DEFINE k == m + 1
  <2>1. m \in Nat /\ k \in Nat \ {0} /\ k - 1 = m /\ \A l \in 1..m : Same(l)
    OBVIOUS
  <2>2. \A l \in 1..k : l \in 1..m \/ l = k
    BY <2>1
  <2> HIDE DEF k
  <2>3. Same(k)
    <3>1. CASE k <= Len(a) /\ (k <= Len(b) => NameOf[b[k]] > NameOf[a[k]])
      <4>1. k \in 1..Len(a) /\ NameOf[a[k]] \in Nat
        BY <1>0, <2>1, <3>1, ElementOfSeq, DiffAssumption
      <4>2. \A l \in 1..(k - 1) : l <= Len(b) /\ NameOf[a[l]] = NameOf[b[l]]
        BY <1>0, <2>1, <3>1
      <4>3. Upto(b, Len(b), NameOf[a[k]]) < Upto(a, Len(a), NameOf[a[k]])
        BY <3>1, <4>1, <4>2, NameMissing
      <4>4. Upto(b, Len(b), NameOf[a[k]]) \in Nat
        BY <1>0, UptoStep
      <4> QED BY <4>1, <4>3, <4>4
    <3>2. CASE k <= Len(b) /\ (k <= Len(a) => NameOf[a[k]] > NameOf[b[k]])
      <4>1. k \in 1..Len(b) /\ NameOf[b[k]] \in Nat
        <5>1. k \in 1..Len(b)
          BY <1>0, <2>1, <3>2
        <5>2. b[k] \in Packages
          BY <5>1, ElementOfSeq
        <5> QED BY <5>1, <5>2, DiffAssumption
      <4>2. \A l \in 1..(k - 1) : l <= Len(a) /\ NameOf[b[l]] = NameOf[a[l]]
        BY <1>0, <2>1, <3>2
      <4>3. Upto(a, Len(a), NameOf[b[k]]) < Upto(b, Len(b), NameOf[b[k]])
        BY <3>2, <4>1, <4>2, NameMissing
      <4>4. Upto(b, Len(b), NameOf[b[k]]) \in Nat
        BY <1>0, UptoStep
      <4> QED BY <4>1, <4>3, <4>4
    <3>3. CASE k <= Len(a) /\ k <= Len(b) /\ NameOf[a[k]] = NameOf[b[k]]
      BY <3>3
    <3>4. CASE ~(k <= Len(a)) /\ ~(k <= Len(b))
      BY <3>4
    <3>5. k <= Len(a) /\ k <= Len(b) => NameOf[a[k]] \in Nat /\ NameOf[b[k]] \in Nat
      BY <1>0, <2>1, ElementOfSeq, DiffAssumption
    <3> QED BY <3>1, <3>2, <3>3, <3>4, <3>5
  <2> HIDE DEF Same
  <2> QED BY <2>1, <2>2, <2>3 DEF k
<1>3. S = Nat
  <2> HIDE DEF S
  <2>1. S \in SUBSET Nat
    BY DEF S
  <2> QED BY <1>1, <1>2, <2>1, SetInduction
<1>4. \A k \in Nat \ {0} : Same(k)
  <2> SUFFICES ASSUME NEW k \in Nat \ {0} PROVE Same(k)
    OBVIOUS
  <2>1. k \in 1..k /\ k \in Nat
    OBVIOUS
  <2>2. k \in S
    <3> HIDE DEF S
    <3> QED BY <1>3, <2>1
  <2> HIDE DEF Same
  <2>3. \A l \in 1..k : Same(l)
    BY <2>2
  <2> QED BY <2>1, <2>3
<1>5. Len(a) <= Len(b) /\ Len(b) <= Len(a)
  <2>1. CASE Len(a) = 0
    <3>1. Len(b) # 0 => Len(b) <= Len(a)
      BY <1>0, <1>4
    <3> QED BY <1>0, <2>1, <3>1
  <2>2. CASE Len(a) # 0
    <3>1. Len(a) <= Len(b)
      BY <1>0, <1>4, <2>2
    <3>2. Len(b) <= Len(a)
      BY <1>0, <1>4, <2>2, <3>1
    <3> QED BY <3>1, <3>2
  <2> QED BY <2>1, <2>2
<1>6. \A x, y \in Nat : x <= y /\ y <= x => x = y
  OBVIOUS
<1>7. Len(a) = Len(b)
  BY <1>0, <1>5, <1>6
<1>8. \A x \in Nat : \A k \in 1..x : k \in Nat \ {0} /\ k <= x
  OBVIOUS
<1>9. \A k \in 1..Len(a) : NameOf[a[k]] = NameOf[b[k]]
  BY <1>0, <1>4, <1>8
<1> QED BY <1>0, <1>7, <1>9

\* Nothing is left where there are as many; without the surplus the fewer are left.
LEMMA LessIsSurplus ==
  ASSUME NEW x \in Nat, NEW y \in Nat
  PROVE  /\ Less(x, y) = 0 => x <= y
         /\ Less(x, Less(x, y)) = IF x < y THEN x ELSE y
<1>1. CASE x > y
  <2>1. Less(x, y) = x - y /\ x - y \in Nat
    BY <1>1 DEF Less
  <2>2. Less(x, x - y) = y
    BY <1>1 DEF Less
  <2> QED BY <1>1, <2>1, <2>2
<1>2. CASE ~(x > y)
  <2>1. Less(x, y) = 0
    BY <1>2 DEF Less
  <2>2. Less(x, 0) = x
    BY DEF Less
  <2> QED BY <1>2, <2>1, <2>2
<1> QED BY <1>1, <1>2

\* A filter takes the surplus, and leaves of every name as many as both have.
LEMMA FilterNames ==
  ASSUME NEW a \in Seq(Packages), NEW b \in Seq(Packages), NameOrdered(a), NameOrdered(b)
  PROVE  LET left == Filter(a, NameDiff(a, b), TRUE)
         IN  /\ left \in Seq(Packages) /\ NameOrdered(left)
             /\ \A n \in Nat :
                  Upto(left, Len(left), n) =
                    IF Upto(a, Len(a), n) < Upto(b, Len(b), n)
                    THEN Upto(a, Len(a), n) ELSE Upto(b, Len(b), n)
<1> DEFINE d == NameDiff(a, b)
           left == Filter(a, d, TRUE)
<1>1. /\ d \in Seq(Packages) /\ NameOrdered(d)
      /\ \A n \in Nat : Upto(d, Len(d), n) = Less(Upto(a, Len(a), n), Upto(b, Len(b), n))
  BY NameDiffNames
<1>2. \A n \in Nat : Upto(a, Len(a), n) \in Nat /\ Upto(b, Len(b), n) \in Nat
  BY UptoStep
<1> HIDE DEF d
<1>3. CASE d = <<>>
  <2>1. left = a
    BY <1>3 DEF Filter
  <2>2. ASSUME NEW n \in Nat PROVE Less(Upto(a, Len(a), n), Upto(b, Len(b), n)) = 0
    <3>1. Len(d) = 0
      BY <1>3
    <3>2. Upto(d, 0, n) = 0
      BY UptoStep
    <3> QED BY <1>1, <3>1, <3>2
  <2>3. ASSUME NEW n \in Nat PROVE Upto(a, Len(a), n) <= Upto(b, Len(b), n)
    BY <1>2, <2>2, LessIsSurplus
  <2> HIDE DEF left
  <2>4. ASSUME NEW n \in Nat
        PROVE  Upto(left, Len(left), n) = IF Upto(a, Len(a), n) < Upto(b, Len(b), n)
                                          THEN Upto(a, Len(a), n) ELSE Upto(b, Len(b), n)
    BY <1>2, <2>1, <2>3
  <2> QED BY <2>1, <2>4 DEF left, d
<1>4. CASE d # <<>>
  <2>1. left = NameDiff(a, d)
    BY <1>4 DEF Filter
  <2> HIDE DEF left
  <2>2. /\ left \in Seq(Packages) /\ NameOrdered(left)
        /\ \A n \in Nat : Upto(left, Len(left), n) =
                            Less(Upto(a, Len(a), n), Upto(d, Len(d), n))
    BY <1>1, <2>1, NameDiffNames
  <2>3. ASSUME NEW n \in Nat
        PROVE  Upto(left, Len(left), n) = IF Upto(a, Len(a), n) < Upto(b, Len(b), n)
                                          THEN Upto(a, Len(a), n) ELSE Upto(b, Len(b), n)
    <3> DEFINE x == Upto(a, Len(a), n)
               y == Upto(b, Len(b), n)
    <3>1. x \in Nat /\ y \in Nat
      BY <1>2
    <3>2. Upto(left, Len(left), n) = Less(x, Less(x, y))
      BY <1>1, <2>2
    <3> HIDE DEF x, y
    <3>3. Upto(left, Len(left), n) = IF x < y THEN x ELSE y
      BY <3>1, <3>2, LessIsSurplus
    <3> QED BY <3>3 DEF x, y
  <2> QED BY <2>2, <2>3 DEF left, d
<1> QED BY <1>3, <1>4

-----------------------------------------------------------------------------
(* The difference and its todos. *)

\* What Filter leaves of the updates is part of them, each once.
LEMMA FilterIsPart ==
  ASSUME NEW a \in Seq(Packages), NEW diff \in Seq(Packages), NEW differ \in BOOLEAN,
         Injective(a)
  PROVE  /\ Filter(a, diff, differ) \in Seq(Packages) /\ Injective(Filter(a, diff, differ))
         /\ Elements(Filter(a, diff, differ)) \subseteq Elements(a)
BY NameDiffIsPart DEF Filter

\* Of what is removed and updated nothing is in the directory, of what is installed
\* and updated nothing is in the database, and what is reinstalled is in both.
LEMMA DiffParts ==
  ASSUME NEW inDb \in SUBSET Packages, NEW files \in SUBSET Packages, NEW newer \in SUBSET files
  PROVE  LET data == UpdateSyncData(inDb, files, newer)
         IN  /\ data.removed \subseteq inDb \ files
             /\ data.installed \subseteq files \ inDb
             /\ data.reinstalled \subseteq files \cap inDb
             /\ data.updatedOld \in Seq(Packages) /\ Injective(data.updatedOld)
             /\ Elements(data.updatedOld) \subseteq (inDb \ files) \ data.removed
             /\ data.updatedNew \in Seq(Packages) /\ Injective(data.updatedNew)
             /\ Elements(data.updatedNew) \subseteq (files \ inDb) \ data.installed
<1> DEFINE gone    == inDb \ files
           came    == files \ inDb
           old     == Updated(gone, came)
           new     == Updated(came, gone)
           differ  == Len(old) # Len(new)
           diffOld == IF differ THEN NameDiff(old, new) ELSE <<>>
           diffNew == IF differ THEN NameDiff(new, old) ELSE <<>>
           data    == UpdateSyncData(inDb, files, newer)
<1>1. /\ old \in Seq(Packages) /\ Injective(old) /\ Elements(old) \subseteq gone
      /\ new \in Seq(Packages) /\ Injective(new) /\ Elements(new) \subseteq came
  BY SortedEnumerates DEF Updated
<1>2. /\ data.removed = gone \ Elements(old)
      /\ data.installed = came \ Elements(new)
      /\ data.reinstalled = newer \ came
      /\ data.updatedOld = Filter(old, diffOld, differ)
      /\ data.updatedNew = Filter(new, diffNew, differ)
  BY DEF UpdateSyncData, Reinstalled
<1> HIDE DEF old, new, data
<1>3. differ \in BOOLEAN /\ diffOld \in Seq(Packages) /\ diffNew \in Seq(Packages)
  BY <1>1, NameDiffIsPart
<1> HIDE DEF differ, diffOld, diffNew
<1>4. /\ data.updatedOld \in Seq(Packages) /\ Injective(data.updatedOld)
      /\ Elements(data.updatedOld) \subseteq Elements(old)
  BY <1>1, <1>2, <1>3, FilterIsPart
<1>5. /\ data.updatedNew \in Seq(Packages) /\ Injective(data.updatedNew)
      /\ Elements(data.updatedNew) \subseteq Elements(new)
  BY <1>1, <1>2, <1>3, FilterIsPart
<1>6. /\ data.removed \subseteq inDb \ files
      /\ data.installed \subseteq files \ inDb
      /\ data.reinstalled \subseteq files \cap inDb
  BY <1>2
<1>7. /\ Elements(data.updatedOld) \subseteq (inDb \ files) \ data.removed
      /\ Elements(data.updatedNew) \subseteq (files \ inDb) \ data.installed
  BY <1>1, <1>2, <1>4, <1>5
<1> QED BY <1>4, <1>5, <1>6, <1>7 DEF data

\* The todos of a sync are as updateIndex() needs them: no full name is removed or
\* installed by two of them, and none installs what has rows that it does not clear.
LEMMA TodosAreProper ==
  ASSUME NEW inDb \in SUBSET Packages, NEW files \in SUBSET Packages, NEW newer \in SUBSET files
  PROVE  LET todos == Todos(UpdateSyncData(inDb, files, newer))
         IN  /\ todos \subseteq [rem : Packages \cup {NoPackage}, inst : Packages \cup {NoPackage}]
             /\ \A s, t \in todos :
                  s # t => ({s.rem, s.inst} \cap {t.rem, t.inst}) \subseteq {NoPackage}
             /\ \A t \in todos : t.inst \in inDb => t.rem = t.inst
             /\ \A t \in todos : t.rem # NoPackage => t.rem \in inDb
             /\ \A t \in todos : t.inst # NoPackage => t.inst \in files
             /\ \A t \in todos : t.rem \in files => t.inst = t.rem
<1> DEFINE data == UpdateSyncData(inDb, files, newer)
           upd  == {[rem |-> u[1], inst |-> u[2]] : u \in Pairs(data)}
           R    == [rem : data.removed, inst : {NoPackage}]
           A    == {[rem |-> p, inst |-> p] : p \in data.reinstalled}
           I    == [rem : {NoPackage}, inst : data.installed]
<1>1. /\ data.removed \subseteq inDb \ files
      /\ data.installed \subseteq files \ inDb
      /\ data.reinstalled \subseteq files \cap inDb
      /\ data.updatedOld \in Seq(Packages) /\ Injective(data.updatedOld)
      /\ Elements(data.updatedOld) \subseteq (inDb \ files) \ data.removed
      /\ data.updatedNew \in Seq(Packages) /\ Injective(data.updatedNew)
      /\ Elements(data.updatedNew) \subseteq (files \ inDb) \ data.installed
  BY DiffParts
<1>2. Todos(data) = R \cup upd \cup A \cup I
  BY DEF Todos
<1> HIDE DEF data
<1>3. NoPackage \notin Packages
  BY DiffAssumption DEF NoPackage
<1>4. ASSUME NEW t \in upd
      PROVE  \E i \in (DOMAIN data.updatedOld) \cap (DOMAIN data.updatedNew) :
               t = [rem |-> data.updatedOld[i], inst |-> data.updatedNew[i]]
  BY DEF Pairs
<1>5. ASSUME NEW t \in upd
      PROVE  /\ t \in [rem : (inDb \ files) \ data.removed, inst : (files \ inDb) \ data.installed]
  BY <1>1, <1>4 DEF Elements
<1>6. ASSUME NEW s \in upd, NEW t \in upd, s # t
      PROVE  s.rem # t.rem /\ s.inst # t.inst
  <2>1. PICK i \in (DOMAIN data.updatedOld) \cap (DOMAIN data.updatedNew) :
          s = [rem |-> data.updatedOld[i], inst |-> data.updatedNew[i]]
    BY <1>4
  <2>2. PICK j \in (DOMAIN data.updatedOld) \cap (DOMAIN data.updatedNew) :
          t = [rem |-> data.updatedOld[j], inst |-> data.updatedNew[j]]
    BY <1>4
  <2>3. i # j
    BY <1>6, <2>1, <2>2
  <2> QED BY <1>1, <2>1, <2>2, <2>3 DEF Injective
<1> HIDE DEF upd
<1>7. \A t \in Todos(data) :
        /\ t \in [rem : inDb \cup {NoPackage}, inst : files \cup {NoPackage}]
        /\ t.inst \in inDb => t.rem = t.inst
        /\ t.rem \in files => t.inst = t.rem
  BY <1>1, <1>2, <1>3, <1>5
<1>8. ASSUME NEW s \in Todos(data), NEW t \in Todos(data), s # t,
             NEW p \in Packages, p \in {s.rem, s.inst}
      PROVE  p \notin {t.rem, t.inst}
  <2>1. CASE s \in R
    BY <1>1, <1>2, <1>3, <1>5, <1>8, <2>1
  <2>2. CASE s \in upd
    BY <1>1, <1>2, <1>3, <1>5, <1>6, <1>8, <2>2
  <2>3. CASE s \in A
    BY <1>1, <1>2, <1>3, <1>5, <1>8, <2>3
  <2>4. CASE s \in I
    BY <1>1, <1>2, <1>3, <1>5, <1>8, <2>4
  <2> QED BY <1>2, <2>1, <2>2, <2>3, <2>4
<1>9. \A s, t \in Todos(data) :
        s # t => ({s.rem, s.inst} \cap {t.rem, t.inst}) \subseteq {NoPackage}
  <2> SUFFICES ASSUME NEW s \in Todos(data), NEW t \in Todos(data), s # t,
                      NEW p, p \in {s.rem, s.inst}, p \in {t.rem, t.inst}
               PROVE  p = NoPackage
    OBVIOUS
  <2>1. p \in Packages \cup {NoPackage}
    BY <1>7
  <2> QED BY <1>8, <2>1
<1> QED BY <1>7, <1>9 DEF data

\* What is out of sync.
Apart(inDb, files) == (inDb \ files) \cup (files \ inDb)

\* Updates of as many old as new packages are all paired; where the sizes differ one
\* pair at least is made, for the greatest name is in both and is not filtered out.
LEMMA SomePairIsMade ==
  ASSUME NEW inDb \in SUBSET Packages, NEW files \in SUBSET Packages, NEW newer \in SUBSET files
  PROVE  LET data == UpdateSyncData(inDb, files, newer)
             old  == Updated(inDb \ files, files \ inDb)
             new  == Updated(files \ inDb, inDb \ files)
         IN  IF Len(old) = Len(new)
             THEN data.updatedOld = old /\ data.updatedNew = new
             ELSE /\ 1 \in DOMAIN data.updatedOld
                  /\ 1 \in DOMAIN data.updatedNew
<1> DEFINE gone    == inDb \ files
           came    == files \ inDb
           old     == Updated(gone, came)
           new     == Updated(came, gone)
           differ  == Len(old) # Len(new)
           diffOld == IF differ THEN NameDiff(old, new) ELSE <<>>
           diffNew == IF differ THEN NameDiff(new, old) ELSE <<>>
           data    == UpdateSyncData(inDb, files, newer)
<1>1. /\ data.updatedOld = Filter(old, diffOld, differ)
      /\ data.updatedNew = Filter(new, diffNew, differ)
  BY DEF UpdateSyncData
<1>2. /\ old \in Seq(Packages) /\ Elements(old) = {p \in gone : IsIn(came, p)}
      /\ new \in Seq(Packages) /\ Elements(new) = {p \in came : IsIn(gone, p)}
  BY SortedEnumerates DEF Updated
<1>3. /\ \A p \in Elements(old) : \E q \in Elements(new) : NameOf[q] = NameOf[p]
      /\ \A p \in Elements(new) : \E q \in Elements(old) : NameOf[q] = NameOf[p]
  BY <1>2 DEF IsIn
<1>4. /\ Elements(old) \in SUBSET Packages /\ Elements(new) \in SUBSET Packages
  BY <1>2
<1> HIDE DEF old, new, data
<1>5. CASE ~differ
  BY <1>1, <1>5 DEF Filter, old, new, data
<1>6. CASE differ
  <2>1. Len(old) \in Nat /\ Len(new) \in Nat
        /\ DOMAIN old = 1..Len(old) /\ DOMAIN new = 1..Len(new)
    BY <1>2
  <2> DEFINE names == {NameOf[p] : p \in Elements(old) \cup Elements(new)}
  <2>2. names \in SUBSET Nat /\ IsFiniteSet(names)
    <3>1. \A p \in Packages : NameOf[p] \in Nat
      BY DiffAssumption
    <3>2. IsFiniteSet(Elements(old) \cup Elements(new))
      BY <1>4, DiffAssumption, FS_Subset
    <3>3. IsFiniteSet(names)
      <4> DEFINE E == Elements(old) \cup Elements(new)
                 f == [p \in E |-> NameOf[p]]
      <4>1. f \in Surjection(E, names)
        BY DEF Surjection
      <4> HIDE DEF f, E
      <4> QED BY <3>2, <4>1, FS_Surjection DEF E
    <3> QED BY <1>4, <3>1, <3>3
  <2>3. names # {}
    <3>1. ASSUME NEW k \in Nat, NEW l \in Nat, k # l PROVE 1 \in 1..k \/ 1 \in 1..l
      BY <3>1
    <3>2. 1 \in DOMAIN old \/ 1 \in DOMAIN new
      BY <1>6, <2>1, <3>1
    <3>3. Elements(old) # {} \/ Elements(new) # {}
      BY <3>2 DEF Elements
    <3> QED BY <3>3
  <2>4. PICK top \in names : \A y \in names : y <= top
    BY <2>2, <2>3, GreatestExists
  <2>5. PICK p \in DOMAIN old : NameOf[old[p]] = top
    BY <1>3, <2>4 DEF Elements
  <2>6. PICK q \in DOMAIN new : NameOf[new[q]] = top
    BY <1>3, <2>4 DEF Elements
  <2>7. Top(old, new, p, q) /\ Top(new, old, q, p)
    BY <2>4, <2>5, <2>6 DEF Top, Elements
  <2>8. /\ diffOld \in Seq(Packages) /\ Len(diffOld) < Len(old)
        /\ diffNew \in Seq(Packages) /\ Len(diffNew) < Len(new)
    BY <1>2, <1>6, <2>7, NameDiffCounts
  <2> HIDE DEF diffOld, diffNew, differ
  <2>9. ASSUME NEW a \in Seq(Packages), NEW d \in Seq(Packages), Len(d) < Len(a)
        PROVE  1 \in DOMAIN Filter(a, d, differ)
    <3>1. CASE d = <<>>
      <4>1. Filter(a, d, differ) = a
        BY <3>1 DEF Filter
      <4> QED BY <2>9, <3>1, <4>1
    <3>2. CASE d # <<>>
      <4>1. Filter(a, d, differ) = NameDiff(a, d)
        BY <1>6, <3>2 DEF Filter
      <4>2. NameDiff(a, d) \in Seq(Packages) /\ Len(a) - Len(d) <= Len(NameDiff(a, d))
        BY NameDiffCounts
      <4>3. Len(NameDiff(a, d)) \in Nat /\ Len(NameDiff(a, d)) >= 1
        BY <2>9, <4>2
      <4> QED BY <4>1, <4>2, <4>3
    <3> QED BY <3>1, <3>2
  <2> QED BY <1>1, <1>2, <1>6, <2>8, <2>9 DEF differ, old, new, data
<1> QED BY <1>5, <1>6

\* A set read in order is read upwards.
LEMMA SortedAscends ==
  ASSUME NEW S \in SUBSET Packages
  PROVE  \A k, l \in DOMAIN Sorted(S) : k < l => Sorted(S)[k] < Sorted(S)[l]
<1>1. IsFiniteSet(S) /\ S \in SUBSET Nat
  BY DiffAssumption, FS_Subset
<1>2. /\ Cardinality(S) \in Nat
      /\ \A i \in 0..(Cardinality(S) - 1) : \E p \in S : Rank(S, p) = i
  BY <1>1, RankOnto
<1>3. DOMAIN Sorted(S) = 1..Cardinality(S)
  BY DEF Sorted
<1>4. ASSUME NEW i \in 1..Cardinality(S)
      PROVE  Sorted(S)[i] \in S /\ Rank(S, Sorted(S)[i]) = i - 1
  <2>1. \E p \in S : Rank(S, p) = i - 1
    BY <1>2
  <2>2. Sorted(S)[i] = CHOOSE p \in S : Rank(S, p) = i - 1
    BY DEF Sorted, Rank
  <2> QED BY <2>1, <2>2
<1> SUFFICES ASSUME NEW k \in 1..Cardinality(S), NEW l \in 1..Cardinality(S), k < l,
                    ~(Sorted(S)[k] < Sorted(S)[l])
             PROVE  FALSE
  BY <1>3
<1> DEFINE p == Sorted(S)[k]
           q == Sorted(S)[l]
           below(x) == {z \in S : z < x}
<1>5. p \in S /\ q \in S /\ Rank(S, p) = k - 1 /\ Rank(S, q) = l - 1
  BY <1>4
<1>6. p \in Nat /\ q \in Nat /\ q <= p
  <2>1. ~(p < q)
    OBVIOUS
  <2> HIDE DEF p, q
  <2> QED BY <1>1, <1>5, <2>1
<1> HIDE DEF p, q
<1>7. below(q) \in SUBSET below(p) /\ below(p) \in SUBSET S
  <2>1. \A z \in S : z \in Nat
    BY <1>1
  <2> QED BY <1>6, <2>1
<1>8. IsFiniteSet(below(p))
  BY <1>1, <1>7, FS_Subset
<1>9. Cardinality(below(q)) <= Cardinality(below(p))
  BY <1>7, <1>8, FS_Subset
<1>10. l - 1 <= k - 1
  BY <1>5, <1>9 DEF Rank
<1> QED BY <1>10

\* Where names are in the order of full names, updates are in the order of names.
LEMMA UpdatedInOrder ==
  ASSUME NEW S \in SUBSET Packages, NEW T,
         \A p, q \in Packages : p < q => NameOf[p] <= NameOf[q]
  PROVE  NameOrdered(Updated(S, T))
<1> DEFINE U == {p \in S : IsIn(T, p)}
<1>1. U \in SUBSET Packages
  OBVIOUS
<1>2. Updated(S, T) = Sorted(U)
  BY DEF Updated
<1> HIDE DEF U
<1>3. /\ Sorted(U) \in Seq(Packages)
      /\ \A k, l \in DOMAIN Sorted(U) : k < l => Sorted(U)[k] < Sorted(U)[l]
  BY <1>1, SortedEnumerates, SortedAscends
<1>4. \A k \in DOMAIN Sorted(U) : Sorted(U)[k] \in Packages
  BY <1>3
<1> QED BY <1>2, <1>3, <1>4 DEF NameOrdered

\* A name is counted if, and only if, an element has it.
LEMMA UptoSome ==
  ASSUME NEW seq \in Seq(Packages), NEW n
  PROVE  Upto(seq, Len(seq), n) >= 1 <=> \E k \in DOMAIN seq : NameOf[seq[k]] = n
<1> DEFINE at == {k \in 1..Len(seq) : NameOf[seq[k]] = n}
<1>1. Len(seq) \in Nat /\ DOMAIN seq = 1..Len(seq)
  OBVIOUS
<1>2. at \in SUBSET (1..Len(seq)) /\ IsFiniteSet(1..Len(seq))
  BY <1>1, FS_Interval
<1>3. Upto(seq, Len(seq), n) = Cardinality(at)
  BY DEF Upto
<1>4. at # {} <=> \E k \in DOMAIN seq : NameOf[seq[k]] = n
  BY <1>1
<1> HIDE DEF at
<1>5. IsFiniteSet(at)
  BY <1>2, FS_Subset
<1>6. Cardinality(at) \in Nat /\ (Cardinality(at) = 0 <=> at = {})
  BY <1>5, FS_CardinalityType, FS_EmptySet
<1> QED BY <1>3, <1>4, <1>6

\* Of updates in the order of names as many old as new ones stay, of the same names
\* unless only the totals are equal, and of every name that both have some.
LEMMA UpdatesMatch ==
  ASSUME NEW inDb \in SUBSET Packages, NEW files \in SUBSET Packages, NEW newer \in SUBSET files,
         NameOrdered(Updated(inDb \ files, files \ inDb)),
         NameOrdered(Updated(files \ inDb, inDb \ files))
  PROVE  LET data == UpdateSyncData(inDb, files, newer)
             old  == Updated(inDb \ files, files \ inDb)
             new  == Updated(files \ inDb, inDb \ files)
         IN  /\ Len(data.updatedOld) = Len(data.updatedNew)
             /\ (\/ Len(old) # Len(new)
                 \/ \A n \in Nat : Upto(old, Len(old), n) = Upto(new, Len(new), n))
                => \A k \in DOMAIN data.updatedOld :
                     NameOf[data.updatedOld[k]] = NameOf[data.updatedNew[k]]
             /\ \A n \in Nat :
                  Upto(old, Len(old), n) >= 1 /\ Upto(new, Len(new), n) >= 1
                    => Upto(data.updatedNew, Len(data.updatedNew), n) >= 1
<1> DEFINE old == Updated(inDb \ files, files \ inDb)
           new == Updated(files \ inDb, inDb \ files)
           data == UpdateSyncData(inDb, files, newer)
           uo == data.updatedOld
           un == data.updatedNew
<1>1. old \in Seq(Packages) /\ new \in Seq(Packages) /\ NameOrdered(old) /\ NameOrdered(new)
  BY SortedEnumerates DEF Updated
<1>2. CASE Len(old) = Len(new)
  <2>1. uo = old /\ un = new
    BY <1>2, SomePairIsMade
  <2> HIDE DEF old, new, uo, un, data
  <2>2. (\A n \in Nat : Upto(old, Len(old), n) = Upto(new, Len(new), n))
          => \A k \in DOMAIN old : NameOf[old[k]] = NameOf[new[k]]
    BY <1>1, SameNames
  <2> QED BY <1>2, <2>1, <2>2 DEF old, new, uo, un, data
<1>3. CASE Len(old) # Len(new)
  <2>1. uo = Filter(old, NameDiff(old, new), TRUE) /\ un = Filter(new, NameDiff(new, old), TRUE)
    BY <1>3 DEF UpdateSyncData
  <2> HIDE DEF old, new, uo, un, data
  <2> DEFINE fewer(n) == IF Upto(old, Len(old), n) < Upto(new, Len(new), n)
                         THEN Upto(old, Len(old), n) ELSE Upto(new, Len(new), n)
  <2>2. /\ uo \in Seq(Packages) /\ NameOrdered(uo)
        /\ \A n \in Nat : Upto(uo, Len(uo), n) = fewer(n)
    BY <1>1, <2>1, FilterNames
  <2>3. \A n \in Nat : Upto(old, Len(old), n) \in Nat /\ Upto(new, Len(new), n) \in Nat
    BY <1>1, UptoStep
  <2>4. /\ un \in Seq(Packages) /\ NameOrdered(un)
        /\ \A n \in Nat : Upto(un, Len(un), n) = fewer(n)
    <3>1. /\ un \in Seq(Packages) /\ NameOrdered(un)
          /\ \A n \in Nat : Upto(un, Len(un), n) =
                              IF Upto(new, Len(new), n) < Upto(old, Len(old), n)
                              THEN Upto(new, Len(new), n) ELSE Upto(old, Len(old), n)
      BY <1>1, <2>1, FilterNames
    <3>2. ASSUME NEW n \in Nat PROVE Upto(un, Len(un), n) = fewer(n)
      <4> DEFINE x == Upto(old, Len(old), n)
                 y == Upto(new, Len(new), n)
      <4>1. x \in Nat /\ y \in Nat
        BY <2>3
      <4>2. Upto(un, Len(un), n) = IF y < x THEN y ELSE x
        BY <3>1
      <4>3. fewer(n) = IF x < y THEN x ELSE y
        OBVIOUS
      <4> HIDE DEF x, y, fewer
      <4> QED BY <4>1, <4>2, <4>3
    <3> QED BY <3>1, <3>2
  <2>5. \A n \in Nat : Upto(uo, Len(uo), n) = Upto(un, Len(un), n)
    BY <2>2, <2>4
  <2>6. Len(uo) = Len(un) /\ \A k \in DOMAIN uo : NameOf[uo[k]] = NameOf[un[k]]
    BY <2>2, <2>4, <2>5, SameNames
  <2>7. ASSUME NEW n \in Nat, Upto(old, Len(old), n) >= 1, Upto(new, Len(new), n) >= 1
        PROVE  Upto(un, Len(un), n) >= 1
    <3>1. Upto(un, Len(un), n) = fewer(n)
      BY <2>4
    <3> QED BY <2>7, <3>1
  <2> QED BY <2>6, <2>7 DEF old, new, uo, un, data
<1> QED BY <1>2, <1>3

\* What stays out of sync is neither removed nor installed by any todo; each pair of
\* updates is a todo, and so is what is only removed, or only installed.
LEMMA AfterTodos ==
  ASSUME NEW inDb \in SUBSET Packages, NEW files \in SUBSET Packages, NEW newer \in SUBSET files
  PROVE  LET data  == UpdateSyncData(inDb, files, newer)
             after == PackagesAfter(inDb, data)
         IN  /\ \A x \in after \ files : x \in inDb /\ \A t \in Todos(data) : t.rem # x
             /\ \A x \in files \ after : x \notin inDb /\ \A t \in Todos(data) : t.inst # x
             /\ \A i \in (DOMAIN data.updatedOld) \cap (DOMAIN data.updatedNew) :
                  [rem |-> data.updatedOld[i], inst |-> data.updatedNew[i]] \in Todos(data)
             /\ \A x \in data.removed : [rem |-> x, inst |-> NoPackage] \in Todos(data)
             /\ \A x \in data.installed : [rem |-> NoPackage, inst |-> x] \in Todos(data)
<1> DEFINE data  == UpdateSyncData(inDb, files, newer)
           after == PackagesAfter(inDb, data)
<1>1. /\ \A t \in Todos(data) : t.inst # NoPackage => t.inst \in files
      /\ \A t \in Todos(data) : t.rem \in files => t.inst = t.rem
  BY TodosAreProper
<1>2. NoPackage \notin Packages
  BY DiffAssumption DEF NoPackage
<1>3. /\ \A x \in after \ files : x \in inDb /\ \A t \in Todos(data) : t.rem # x
      /\ \A x \in files \ after : x \notin inDb /\ \A t \in Todos(data) : t.inst # x
  BY <1>1, <1>2 DEF PackagesAfter
<1> HIDE DEF data, after
<1>4. \A i \in (DOMAIN data.updatedOld) \cap (DOMAIN data.updatedNew) :
        [rem |-> data.updatedOld[i], inst |-> data.updatedNew[i]] \in Todos(data)
  <2> SUFFICES ASSUME NEW i \in (DOMAIN data.updatedOld) \cap (DOMAIN data.updatedNew)
               PROVE  [rem |-> data.updatedOld[i], inst |-> data.updatedNew[i]] \in Todos(data)
    OBVIOUS
  <2> DEFINE u == <<data.updatedOld[i], data.updatedNew[i]>>
  <2>1. u \in Pairs(data)
    BY DEF Pairs
  <2>2. [rem |-> u[1], inst |-> u[2]] \in Todos(data)
    BY <2>1 DEF Todos
  <2> QED BY <2>2
<1>5. /\ \A x \in data.removed : [rem |-> x, inst |-> NoPackage] \in Todos(data)
      /\ \A x \in data.installed : [rem |-> NoPackage, inst |-> x] \in Todos(data)
  BY DEF Todos
<1> QED BY <1>3, <1>4, <1>5 DEF data, after

\* Where updates are in the order of names, what a sync leaves out of sync is not the
\* only package of its name.
LEMMA LeftOverIsNotAlone ==
  ASSUME NEW inDb \in SUBSET Packages, NEW files \in SUBSET Packages, NEW newer \in SUBSET files,
         NameOrdered(Updated(inDb \ files, files \ inDb)),
         NameOrdered(Updated(files \ inDb, inDb \ files))
  PROVE  LET after == PackagesAfter(inDb, UpdateSyncData(inDb, files, newer))
         IN  \A p \in Apart(after, files) :
               \E q \in (files \cup after) \ {p} : NameOf[q] = NameOf[p]
<1> DEFINE data  == UpdateSyncData(inDb, files, newer)
           after == PackagesAfter(inDb, data)
           gone  == inDb \ files
           came  == files \ inDb
           old   == Updated(gone, came)
           new   == Updated(came, gone)
<1>1. /\ \A x \in after \ files : x \in inDb /\ \A t \in Todos(data) : t.rem # x
      /\ \A x \in files \ after : x \notin inDb /\ \A t \in Todos(data) : t.inst # x
      /\ \A i \in (DOMAIN data.updatedOld) \cap (DOMAIN data.updatedNew) :
           [rem |-> data.updatedOld[i], inst |-> data.updatedNew[i]] \in Todos(data)
      /\ \A x \in data.removed : [rem |-> x, inst |-> NoPackage] \in Todos(data)
      /\ \A x \in data.installed : [rem |-> NoPackage, inst |-> x] \in Todos(data)
  BY AfterTodos
<1>2. /\ old \in Seq(Packages) /\ Elements(old) = {p \in gone : IsIn(came, p)}
      /\ new \in Seq(Packages) /\ Elements(new) = {p \in came : IsIn(gone, p)}
  BY SortedEnumerates DEF Updated
<1>3. data.removed = gone \ Elements(old) /\ data.installed = came \ Elements(new)
  BY DEF UpdateSyncData
<1>4. /\ data.updatedOld \in Seq(Packages) /\ data.updatedNew \in Seq(Packages)
      /\ Elements(data.updatedNew) \subseteq came
  <2>1. /\ data.removed \subseteq inDb \ files
        /\ data.installed \subseteq files \ inDb
        /\ data.reinstalled \subseteq files \cap inDb
        /\ data.updatedOld \in Seq(Packages) /\ Injective(data.updatedOld)
        /\ Elements(data.updatedOld) \subseteq (inDb \ files) \ data.removed
        /\ data.updatedNew \in Seq(Packages) /\ Injective(data.updatedNew)
        /\ Elements(data.updatedNew) \subseteq (files \ inDb) \ data.installed
    BY DiffParts
  <2> QED BY <2>1
<1>5. /\ Len(data.updatedOld) = Len(data.updatedNew)
      /\ \A n \in Nat :
           Upto(old, Len(old), n) >= 1 /\ Upto(new, Len(new), n) >= 1
             => Upto(data.updatedNew, Len(data.updatedNew), n) >= 1
  BY UpdatesMatch
<1> HIDE DEF data, after, old, new
<1>6. ASSUME NEW p \in after \ files
      PROVE  \E q \in (files \cup after) \ {p} : NameOf[q] = NameOf[p]
  <2>1. p \in gone /\ p \notin data.removed
    BY <1>1
  <2>2. IsIn(came, p)
    BY <1>2, <1>3, <2>1
  <2> QED BY <2>1, <2>2 DEF IsIn
<1>7. ASSUME NEW p \in files \ after
      PROVE  \E q \in (files \cup after) \ {p} : NameOf[q] = NameOf[p]
  <2> DEFINE n == NameOf[p]
  <2>1. p \in came /\ p \notin data.installed /\ n \in Nat
    BY <1>1, DiffAssumption
  <2>2. p \in Elements(new) /\ IsIn(gone, p)
    BY <1>2, <1>3, <2>1
  <2>3. PICK r \in gone : NameOf[r] = n
    BY <2>2 DEF IsIn
  <2>4. r \in Elements(old)
    BY <1>2, <2>1, <2>3 DEF IsIn
  <2> HIDE DEF n
  <2>5. \E k \in DOMAIN old : NameOf[old[k]] = n
    BY <2>3, <2>4 DEF Elements
  <2>6. \E k \in DOMAIN new : NameOf[new[k]] = n
    BY <2>2 DEF Elements, n
  <2>7. Upto(old, Len(old), n) >= 1 /\ Upto(new, Len(new), n) >= 1
    BY <1>2, <2>5, <2>6, UptoSome
  <2>8. Upto(data.updatedNew, Len(data.updatedNew), n) >= 1
    BY <1>5, <2>1, <2>7
  <2>9. PICK k \in DOMAIN data.updatedNew : NameOf[data.updatedNew[k]] = n
    BY <1>4, <2>8, UptoSome
  <2>10. k \in DOMAIN data.updatedOld
    BY <1>4, <1>5
  <2>11. [rem |-> data.updatedOld[k], inst |-> data.updatedNew[k]] \in Todos(data)
    BY <1>1, <2>10
  <2>12. data.updatedNew[k] # p
    BY <1>1, <2>11
  <2>13. data.updatedNew[k] \in files
    BY <1>4 DEF Elements
  <2> QED BY <2>9, <2>12, <2>13 DEF n
<1> QED BY <1>6, <1>7 DEF Apart, data, after

\* What the filter takes out of the updates has the name of a problem.
LEMMA FilteredIsAProblem ==
  ASSUME NEW a \in Seq(Packages), NEW diff \in Seq(Packages), NEW differ \in BOOLEAN,
         NEW x \in Elements(a), x \notin Elements(Filter(a, diff, differ))
  PROVE  \E y \in Elements(diff) : NameOf[y] = NameOf[x]
<1>1. Filter(a, diff, differ) = NameDiff(a, diff)
  BY DEF Filter
<1>2. PICK l \in DOMAIN a : a[l] = x
  BY DEF Elements
<1>3. PICK k \in DOMAIN diff : NameOf[diff[k]] = NameOf[a[l]]
  BY <1>1, <1>2, NameDiffCounts
<1> QED BY <1>2, <1>3 DEF Elements

\* Every sync that carries out its todos brings the database to the directory, or
\* leaves at least two packages less out of sync than it found.
LEMMA SyncProgresses ==
  ASSUME NEW inDb \in SUBSET Packages, NEW files \in SUBSET Packages, NEW newer \in SUBSET files
  PROVE  LET after == PackagesAfter(inDb, UpdateSyncData(inDb, files, newer))
         IN  \/ after = files
             \/ Cardinality(Apart(after, files)) + 2 <= Cardinality(Apart(inDb, files))
<1> DEFINE data  == UpdateSyncData(inDb, files, newer)
           after == PackagesAfter(inDb, data)
           old   == Updated(inDb \ files, files \ inDb)
           new   == Updated(files \ inDb, inDb \ files)
<1>1. /\ \A x \in after \ files : x \in inDb /\ \A t \in Todos(data) : t.rem # x
      /\ \A x \in files \ after : x \notin inDb /\ \A t \in Todos(data) : t.inst # x
      /\ \A i \in (DOMAIN data.updatedOld) \cap (DOMAIN data.updatedNew) :
           [rem |-> data.updatedOld[i], inst |-> data.updatedNew[i]] \in Todos(data)
      /\ \A x \in data.removed : [rem |-> x, inst |-> NoPackage] \in Todos(data)
      /\ \A x \in data.installed : [rem |-> NoPackage, inst |-> x] \in Todos(data)
  BY AfterTodos
<1>2. IF Len(old) = Len(new)
      THEN data.updatedOld = old /\ data.updatedNew = new
      ELSE 1 \in DOMAIN data.updatedOld /\ 1 \in DOMAIN data.updatedNew
  BY SomePairIsMade
<1>3. /\ Elements(data.updatedOld) \subseteq inDb \ files
      /\ Elements(data.updatedNew) \subseteq files \ inDb
  BY DiffParts
<1>4. /\ data.removed = (inDb \ files) \ Elements(old)
      /\ data.installed = (files \ inDb) \ Elements(new)
  BY DEF UpdateSyncData
<1> HIDE DEF data, after
<1>5. CASE Len(old) = Len(new)
  <2>1. old \in Seq(Packages) /\ new \in Seq(Packages)
    BY SortedEnumerates DEF Updated
  <2>2. DOMAIN old = DOMAIN new
    BY <1>5, <2>1
  <2>3. \A x \in inDb \ files : \E t \in Todos(data) : t.rem = x
    <3> SUFFICES ASSUME NEW x \in inDb \ files PROVE \E t \in Todos(data) : t.rem = x
      OBVIOUS
    <3>1. CASE x \in data.removed
      <4>1. [rem |-> x, inst |-> NoPackage] \in Todos(data)
        BY <1>1, <3>1
      <4> QED BY <4>1
    <3>2. CASE x \in Elements(old)
      <4>1. PICK i \in DOMAIN old : old[i] = x
        BY <3>2 DEF Elements
      <4>2. [rem |-> old[i], inst |-> new[i]] \in Todos(data)
        BY <1>1, <1>2, <1>5, <2>2, <4>1
      <4> QED BY <4>1, <4>2
    <3> QED BY <1>4, <3>1, <3>2
  <2>4. \A x \in files \ inDb : \E t \in Todos(data) : t.inst = x
    <3> SUFFICES ASSUME NEW x \in files \ inDb PROVE \E t \in Todos(data) : t.inst = x
      OBVIOUS
    <3>1. CASE x \in data.installed
      <4>1. [rem |-> NoPackage, inst |-> x] \in Todos(data)
        BY <1>1, <3>1
      <4> QED BY <4>1
    <3>2. CASE x \in Elements(new)
      <4>1. PICK i \in DOMAIN new : new[i] = x
        BY <3>2 DEF Elements
      <4>2. [rem |-> old[i], inst |-> new[i]] \in Todos(data)
        BY <1>1, <1>2, <1>5, <2>2, <4>1
      <4> QED BY <4>1, <4>2
    <3> QED BY <1>4, <3>1, <3>2
  <2>5. after = files
    <3>1. after \ files = {} /\ files \ after = {}
      BY <1>1, <2>3, <2>4
    <3> QED BY <3>1
  <2> QED BY <2>5 DEF after, data
<1>6. CASE Len(old) # Len(new)
  <2> DEFINE o == data.updatedOld[1]
             n == data.updatedNew[1]
             rest == (Apart(inDb, files) \ {o}) \ {n}
  <2>1. o \in inDb \ files /\ n \in files \ inDb
    BY <1>2, <1>3, <1>6 DEF Elements
  <2>2. [rem |-> o, inst |-> n] \in Todos(data)
    BY <1>1, <1>2, <1>6
  <2> HIDE DEF o, n
  <2>3. Apart(after, files) \in SUBSET rest
    <3>1. \A x \in after \ files : x \in inDb \ files /\ x # o /\ x # n
      BY <1>1, <2>1, <2>2
    <3>2. \A x \in files \ after : x \in files \ inDb /\ x # o /\ x # n
      BY <1>1, <2>1, <2>2
    <3> QED BY <3>1, <3>2 DEF Apart
  <2>4. IsFiniteSet(Apart(inDb, files))
    BY DiffAssumption, FS_Subset DEF Apart
  <2>5. /\ IsFiniteSet(Apart(inDb, files) \ {o})
        /\ Cardinality(Apart(inDb, files) \ {o}) = Cardinality(Apart(inDb, files)) - 1
    BY <2>1, <2>4, FS_RemoveElement DEF Apart
  <2>6. /\ IsFiniteSet(rest)
        /\ Cardinality(rest) = Cardinality(Apart(inDb, files) \ {o}) - 1
    BY <2>1, <2>5, FS_RemoveElement DEF Apart
  <2>7. /\ IsFiniteSet(Apart(after, files))
        /\ Cardinality(Apart(after, files)) <= Cardinality(rest)
    BY <2>3, <2>6, FS_Subset
  <2>8. /\ Cardinality(Apart(after, files)) \in Nat /\ Cardinality(rest) \in Nat
        /\ Cardinality(Apart(inDb, files)) \in Nat
    BY <2>4, <2>6, <2>7, FS_CardinalityType
  <2>9. Cardinality(Apart(after, files)) + 2 <= Cardinality(Apart(inDb, files))
    BY <2>5, <2>6, <2>7, <2>8
  <2> QED BY <2>9 DEF after, data
<1> QED BY <1>5, <1>6
=============================================================================
