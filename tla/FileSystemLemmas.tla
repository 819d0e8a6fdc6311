-------------------------- MODULE FileSystemLemmas --------------------------
(***************************************************************************)
(* What the operators of FileSystem and ElfFile compute: paths and links,  *)
(* lstat, realpath and directories, the name an ELF file is kept under.    *)
(***************************************************************************)
EXTENDS ElfFile, SequenceTheorems, WellFoundedInduction, TLAPS

\* A set of numbers has a least one.
LEMMA LeastExists ==
  ASSUME NEW T \in SUBSET Nat, T # {}
  PROVE  \E k \in T : \A j \in T : k <= j
<1> DEFINE less == OpToRel(<, Nat)
<1>1. IsWellFoundedOn(less, Nat)
  BY NatLessThanWellFounded
<1>2. \A x, y \in Nat : x < y => <<x, y>> \in less
  BY DEF OpToRel
<1> HIDE DEF less
<1>3. PICK k \in T : \A j \in T : ~(<<j, k>> \in less)
  BY <1>1, WFMin
<1>4. \A j \in T : ~(j < k)
  BY <1>2, <1>3
<1> QED BY <1>4

\* A set of numbers that has 0, and with a number its successor, has them all.
LEMMA CountedUp ==
  ASSUME NEW S \in SUBSET Nat, 0 \in S, \A n \in S : n + 1 \in S
  PROVE  S = Nat
<1> SUFFICES ASSUME S # Nat PROVE FALSE
  OBVIOUS
<1>1. Nat \ S \in SUBSET Nat /\ Nat \ S # {}
  OBVIOUS
<1>2. PICK m \in Nat \ S : \A k \in Nat \ S : m <= k
  BY <1>1, LeastExists
<1>3. m - 1 \in Nat /\ (m - 1) + 1 = m /\ ~(m <= m - 1)
  BY <1>2
<1> QED BY <1>2, <1>3

\* f begins with first, and goes on step by step.
Iteration(f, n, S, first, step) ==
  /\ f \in [0..n -> S]
  /\ \A k \in 0..n : f[k] = IF k = 0 THEN first ELSE step[k][f[k - 1]]

\* What is begun in a set, and goes on in it step by step, is a function.
LEMMA Iterates ==
  ASSUME NEW N \in Nat, NEW S, NEW first \in S, NEW step \in [1..N -> [S -> S]]
  PROVE  \E f : Iteration(f, N, S, first, step)
<1> DEFINE Goes(f, n) == \A k \in 0..n : f[k] = IF k = 0 THEN first ELSE step[k][f[k - 1]]
           T == {n \in Nat : n <= N => \E f \in [0..n -> S] : Goes(f, n)}
<1>1. 0 \in T
  <2>1. [k \in 0..0 |-> first] \in [0..0 -> S] /\ Goes([k \in 0..0 |-> first], 0)
    OBVIOUS
  <2> QED BY <2>1
<1>2. ASSUME NEW n \in T PROVE n + 1 \in T
  <2> SUFFICES ASSUME n + 1 <= N PROVE \E f \in [0..(n + 1) -> S] : Goes(f, n + 1)
    OBVIOUS
  <2>1. PICK f \in [0..n -> S] : Goes(f, n)
    OBVIOUS
  <2> DEFINE g == [k \in 0..(n + 1) |-> IF k = n + 1 THEN step[n + 1][f[n]] ELSE f[k]]
  <2>2. n \in Nat /\ n \in 0..n /\ n + 1 \in 1..N
    OBVIOUS
  <2>3. step[n + 1][f[n]] \in S
    <3>1. step[n + 1] \in [S -> S] /\ f[n] \in S
      BY <2>1, <2>2
    <3> QED BY <3>1
  <2>4. g \in [0..(n + 1) -> S]
    BY <2>1, <2>2, <2>3
  <2>5. ASSUME NEW k \in 0..(n + 1)
        PROVE  g[k] = IF k = 0 THEN first ELSE step[k][g[k - 1]]
    <3>1. CASE k = n + 1
      <4>1. k # 0 /\ k - 1 = n /\ n # n + 1 /\ n \in 0..(n + 1)
        BY <2>2, <3>1
      <4>2. g[k] = step[n + 1][f[n]] /\ g[k - 1] = f[n]
        BY <3>1, <4>1
      <4> QED BY <3>1, <4>1, <4>2
    <3>2. CASE k # n + 1
      <4>1. k \in 0..n /\ (k # 0 => k - 1 \in 0..n /\ k - 1 # n + 1)
        BY <2>2, <3>2
      <4>2. g[k] = f[k] /\ (k # 0 => g[k - 1] = f[k - 1])
        BY <2>2, <3>2, <4>1
      <4>3. f[k] = IF k = 0 THEN first ELSE step[k][f[k - 1]]
        BY <2>1, <4>1
      <4> QED BY <4>2, <4>3
    <3> QED BY <3>1, <3>2
  <2> QED BY <2>4, <2>5
<1>3. N \in T
  <2> HIDE DEF T
  <2>1. T \in SUBSET Nat
    BY DEF T
  <2> QED BY <1>1, <1>2, <2>1, CountedUp
<1> QED BY <1>3 DEF Iteration

-----------------------------------------------------------------------------
(* Paths. *)

\* The names of nodes are those of paths that are not empty.
LEMMA Nodes ==
  /\ \A x : x \in NodeNames <=> x \in PathNames /\ x # NoName
  /\ \A p \in Seq(NodeNames) : p \in Seq(PathNames) /\ \A i \in DOMAIN p : p[i] # NoName
<1>1. \A x : x \in NodeNames <=> x \in PathNames /\ x # NoName
  BY DEF NodeNames
<1>2. ASSUME NEW p \in Seq(NodeNames)
      PROVE  p \in Seq(PathNames) /\ \A i \in DOMAIN p : p[i] # NoName
  <2>1. \A i \in DOMAIN p : p[i] \in NodeNames
    OBVIOUS
  <2>2. \A i \in DOMAIN p : p[i] \in PathNames /\ p[i] # NoName
    BY <1>1, <2>1
  <2>3. NodeNames \subseteq PathNames
    BY <1>1
  <2>4. p \in Seq(PathNames)
    BY <2>3, SeqMonotonic
  <2> QED BY <2>2, <2>4
<1> QED BY <1>1, <1>2

\* The names kept so far, as a function of how many have been seen.
LEMMA CleanCounts ==
  ASSUME NEW p \in Seq(PathNames)
  PROVE  \E c : /\ Clean(p) = c[Len(p)] /\ c[0] = <<>>
                /\ \A i \in 1..Len(p) :
                     c[i] = IF p[i] = NoName THEN c[i - 1] ELSE Append(c[i - 1], p[i])
<1> DEFINE N == Len(p)
           Rest(f) == [i \in 0..N |->
                         IF i = 0 THEN <<>>
                         ELSE IF p[i] = NoName THEN f[i - 1] ELSE Append(f[i - 1], p[i])]
           step == [i \in 1..N |-> [q \in Seq(PathNames) |->
                      IF p[i] = NoName THEN q ELSE Append(q, p[i])]]
           c == CHOOSE f : f = Rest(f)
<1>1. N \in Nat /\ \A i \in 1..N : p[i] \in PathNames
  OBVIOUS
<1>2. step \in [1..N -> [Seq(PathNames) -> Seq(PathNames)]]
  <2> SUFFICES ASSUME NEW i \in 1..N, NEW q \in Seq(PathNames)
               PROVE  Append(q, p[i]) \in Seq(PathNames)
    OBVIOUS
  <2> QED BY <1>1
<1>3. \E f : f = Rest(f)
  <2> DEFINE first == <<>>
             S == Seq(PathNames)
  <2>0. N \in Nat /\ first \in S /\ step \in [1..N -> [S -> S]]
    BY <1>1, <1>2
  <2> HIDE DEF step, N, first, S, Rest, c
  <2>1. PICK f : Iteration(f, N, S, first, step)
    BY <2>0, Iterates
  <2> USE DEF first, S, Rest, Iteration
  <2>2. ASSUME NEW k \in 0..N
        PROVE  f[k] = IF k = 0 THEN <<>>
                      ELSE IF p[k] = NoName THEN f[k - 1] ELSE Append(f[k - 1], p[k])
    <3>1. k # 0 => k \in 1..N /\ k - 1 \in 0..N
      BY <1>1
    <3>2. k # 0 => f[k - 1] \in Seq(PathNames)
      BY <2>1, <3>1
    <3>3. k # 0 => step[k][f[k - 1]] = IF p[k] = NoName THEN f[k - 1] ELSE Append(f[k - 1], p[k])
      BY <3>1, <3>2 DEF step
    <3> QED BY <2>1, <3>3
  <2>3. f = Rest(f)
    BY <2>1, <2>2
  <2> QED BY <2>3
<1>4. c = Rest(c)
  <2> HIDE DEF Rest
  <2> QED BY <1>3
<1>5. Clean(p) = c[N]
  BY DEF Clean
<1> HIDE DEF c
<1>6. c[0] = <<>> /\ \A i \in 1..N :
        c[i] = IF p[i] = NoName THEN c[i - 1] ELSE Append(c[i - 1], p[i])
  <2>1. 0 \in 0..N /\ \A i \in 1..N : i \in 0..N /\ i # 0
    BY <1>1
  <2> HIDE DEF N
  <2> QED BY <1>4, <2>1
<1> QED BY <1>5, <1>6

\* Cleaning leaves no empty name, and nothing else out.
LEMMA CleanPath ==
  ASSUME NEW p \in Seq(PathNames)
  PROVE  /\ Clean(p) \in Seq(NodeNames)
         /\ p \in Seq(NodeNames) => Clean(p) = p
<1>1. PICK c : /\ Clean(p) = c[Len(p)] /\ c[0] = <<>>
               /\ \A i \in 1..Len(p) :
                    c[i] = IF p[i] = NoName THEN c[i - 1] ELSE Append(c[i - 1], p[i])
  BY CleanCounts
<1> DEFINE Kept(n) == /\ c[n] \in Seq(NodeNames)
                      /\ p \in Seq(NodeNames) => c[n] = SubSeq(p, 1, n)
           T == {n \in Nat : n <= Len(p) => Kept(n)}
<1>2. Kept(0)
  BY <1>1
<1>3. ASSUME NEW n \in Nat, n + 1 <= Len(p), Kept(n) PROVE Kept(n + 1)
  <2>1. n + 1 \in 1..Len(p) /\ (n + 1) - 1 = n
    BY <1>3
  <2>2. c[n + 1] = IF p[n + 1] = NoName THEN c[n] ELSE Append(c[n], p[n + 1])
    BY <1>1, <2>1
  <2>3. CASE p[n + 1] = NoName
    <3>1. p \notin Seq(NodeNames)
      BY <2>1, <2>3, Nodes
    <3> QED BY <1>3, <2>2, <2>3, <3>1
  <2>4. CASE p[n + 1] # NoName
    <3>1. p[n + 1] \in NodeNames
      BY <2>1, <2>4 DEF NodeNames
    <3>2. SubSeq(p, 1, n + 1) = Append(SubSeq(p, 1, n), p[n + 1])
      BY <1>3, <2>1
    <3>3. c[n + 1] = Append(c[n], p[n + 1])
      BY <2>2, <2>4
    <3> QED BY <1>3, <3>1, <3>2, <3>3
  <2> QED BY <2>3, <2>4
<1>4. Len(p) \in Nat
  OBVIOUS
<1> HIDE DEF Kept
<1>5. Len(p) \in T
  <2>1. 0 \in T
    BY <1>2
  <2>2. ASSUME NEW n \in T PROVE n + 1 \in T
    <3> SUFFICES ASSUME n + 1 <= Len(p) PROVE Kept(n + 1)
      OBVIOUS
    <3> QED BY <1>3, <1>4
  <2>3. T \in SUBSET Nat
    OBVIOUS
  <2> HIDE DEF T
  <2> QED BY <1>4, <2>1, <2>2, <2>3, CountedUp
<1>6. Kept(Len(p))
  BY <1>4, <1>5
<1>7. SubSeq(p, 1, Len(p)) = p
  OBVIOUS
<1> QED BY <1>1, <1>6, <1>7 DEF Kept

-----------------------------------------------------------------------------
(* Links.                                                                  *)

\* The first link on a path is on it, and before all others.
FirstLink(world, p) == CHOOSE k \in LinksOn(world, p) : \A j \in LinksOn(world, p) : k <= j

\* There is one where there are links.
LEMMA FirstLinkIs ==
  ASSUME NEW world, NEW p \in Seq(NodeNames), LinksOn(world, p) # {}
  PROVE  /\ FirstLink(world, p) \in LinksOn(world, p)
         /\ \A j \in LinksOn(world, p) : FirstLink(world, p) <= j
<1>1. LinksOn(world, p) \in SUBSET Nat
  BY DEF LinksOn
<1>2. \E k \in LinksOn(world, p) : \A j \in LinksOn(world, p) : k <= j
  BY <1>1, LeastExists
<1> HIDE DEF LinksOn
<1> QED BY <1>2 DEF FirstLink

\* One step of realpath leads from a path of nodes to one.
LEMMA RedirectIs ==
  ASSUME NEW world, IsFileSystem(world), NEW p \in Seq(NodeNames)
  PROVE  /\ Redirect(world, p) \in Seq(NodeNames)
         /\ LinksOn(world, p) = {} => Redirect(world, p) = p
         /\ LinksOn(world, p) # {} =>
              LET k == FirstLink(world, p)
              IN Redirect(world, p) = world[SubSeq(p, 1, k)].to \o SubSeq(p, k + 1, Len(p))
<1>1. LinksOn(world, p) = {} => Redirect(world, p) = p
  BY DEF Redirect
<1>2. ASSUME LinksOn(world, p) # {}
      PROVE  LET k == FirstLink(world, p)
             IN /\ Redirect(world, p) = world[SubSeq(p, 1, k)].to \o SubSeq(p, k + 1, Len(p))
                /\ Redirect(world, p) \in Seq(NodeNames)
  <2> DEFINE k == FirstLink(world, p)
  <2>1. k \in LinksOn(world, p)
    BY <1>2, FirstLinkIs
  <2>2. Redirect(world, p) = world[SubSeq(p, 1, k)].to \o SubSeq(p, k + 1, Len(p))
    BY <1>2 DEF Redirect, FirstLink
  <2> HIDE DEF k
  <2>3. k \in 1..Len(p) /\ IsLinkAt(world, SubSeq(p, 1, k))
    BY <2>1 DEF LinksOn
  <2>4. world[SubSeq(p, 1, k)].to \in Seq(NodeNames)
    BY <2>3 DEF IsLinkAt, IsFileSystem
  <2>5. SubSeq(p, k + 1, Len(p)) \in Seq(NodeNames)
    BY <2>3
  <2> QED BY <2>2, <2>4, <2>5 DEF k
<1> QED BY <1>1, <1>2

\* realpath goes step by step.
LEMMA ChaseIs ==
  ASSUME NEW world, IsFileSystem(world), NEW p \in Seq(PathNames)
  PROVE  \E c \in [0..MaxLinks -> Seq(NodeNames)] :
           /\ c[0] = Clean(p) /\ Chased(world, p) = c[MaxLinks]
           /\ \A i \in 1..MaxLinks : c[i] = Redirect(world, c[i - 1])
<1> DEFINE S == Seq(NodeNames)
           first == Clean(p)
           step == [i \in 1..MaxLinks |-> [q \in S |-> Redirect(world, q)]]
           Rest(f) == [i \in 0..MaxLinks |->
                         IF i = 0 THEN Clean(p) ELSE Redirect(world, f[i - 1])]
           c == CHOOSE f : f = Rest(f)
<1>1. MaxLinks \in Nat /\ first \in S
  BY MaxLinksAssumption, CleanPath
<1>2. step \in [1..MaxLinks -> [S -> S]]
  BY RedirectIs
<1>3. Chased(world, p) = c[MaxLinks]
  BY DEF Chased
<1>4. PICK f : Iteration(f, MaxLinks, S, first, step)
  <2> HIDE DEF S, first, step, Rest, c
  <2> QED BY <1>1, <1>2, Iterates
<1>5. f \in [0..MaxLinks -> S]
  BY <1>4 DEF Iteration
<1>6. ASSUME NEW i \in 0..MaxLinks
      PROVE  f[i] = IF i = 0 THEN Clean(p) ELSE Redirect(world, f[i - 1])
  <2>1. i # 0 => i \in 1..MaxLinks /\ i - 1 \in 0..MaxLinks
    BY <1>1
  <2>2. f[i] = IF i = 0 THEN Clean(p) ELSE step[i][f[i - 1]]
    BY <1>4 DEF Iteration
  <2>3. i # 0 => f[i - 1] \in S
    BY <1>5, <2>1
  <2> QED BY <2>1, <2>2, <2>3
<1>7. f = Rest(f)
  <2> HIDE DEF S
  <2> QED BY <1>5, <1>6
<1>8. c = Rest(c)
  <2> HIDE DEF Rest
  <2> QED BY <1>7
<1> HIDE DEF c
<1>9. ASSUME NEW i \in 0..MaxLinks
      PROVE  c[i] = IF i = 0 THEN Clean(p) ELSE Redirect(world, c[i - 1])
  BY <1>8
<1>10. c[0] = Clean(p) /\ \A i \in 1..MaxLinks : c[i] = Redirect(world, c[i - 1])
  <2>1. 0 \in 0..MaxLinks /\ \A i \in 1..MaxLinks : i \in 0..MaxLinks /\ i # 0
    BY <1>1
  <2> QED BY <1>9, <2>1
<1>11. \A n \in Nat : n <= MaxLinks => c[n] \in Seq(NodeNames)
  <2> DEFINE T == {n \in Nat : n <= MaxLinks => c[n] \in Seq(NodeNames)}
  <2>1. 0 \in T
    BY <1>1, <1>10
  <2>2. ASSUME NEW n \in T PROVE n + 1 \in T
    <3> SUFFICES ASSUME n + 1 <= MaxLinks PROVE c[n + 1] \in Seq(NodeNames)
      OBVIOUS
    <3>1. n + 1 \in 1..MaxLinks /\ (n + 1) - 1 = n /\ n <= MaxLinks
      BY <1>1
    <3>2. c[n] \in Seq(NodeNames)
      BY <3>1
    <3> QED BY <1>10, <3>1, <3>2, RedirectIs
  <2>3. T \in SUBSET Nat
    OBVIOUS
  <2> HIDE DEF T
  <2>4. T = Nat
    BY <2>1, <2>2, <2>3, CountedUp
  <2> QED BY <2>4 DEF T
<1>12. c \in [0..MaxLinks -> Seq(NodeNames)]
  <2>1. \A i \in 0..MaxLinks : c[i] \in Seq(NodeNames)
    BY <1>1, <1>11
  <2>2. c = [i \in 0..MaxLinks |-> c[i]]
    BY <1>8
  <2> QED BY <2>1, <2>2
<1> QED BY <1>3, <1>10, <1>12

\* Where there is no link left, realpath stays.
LEMMA ChaseStays ==
  ASSUME NEW world, IsFileSystem(world),
         NEW c \in [0..MaxLinks -> Seq(NodeNames)],
         \A i \in 1..MaxLinks : c[i] = Redirect(world, c[i - 1]),
         NEW m \in 0..MaxLinks, LinksOn(world, c[m]) = {}
  PROVE  \A n \in m..MaxLinks : c[n] = c[m]
<1> DEFINE T == {n \in Nat : m + n <= MaxLinks => c[m + n] = c[m]}
<1>1. MaxLinks \in Nat
  BY MaxLinksAssumption
<1>2. 0 \in T
  OBVIOUS
<1>3. ASSUME NEW n \in T PROVE n + 1 \in T
  <2> SUFFICES ASSUME m + (n + 1) <= MaxLinks PROVE c[m + (n + 1)] = c[m]
    OBVIOUS
  <2>1. m + (n + 1) \in 1..MaxLinks /\ (m + (n + 1)) - 1 = m + n /\ m + n <= MaxLinks
    BY <1>1
  <2>2. c[m + n] = c[m] /\ c[m] \in Seq(NodeNames)
    BY <2>1
  <2> QED BY <2>1, <2>2, RedirectIs
<1>4. T \in SUBSET Nat
  OBVIOUS
<1> HIDE DEF T
<1>5. T = Nat
  BY <1>2, <1>3, <1>4, CountedUp
<1> TAKE n \in m..MaxLinks
<1>6. n - m \in Nat /\ m + (n - m) = n /\ n <= MaxLinks
  BY <1>1
<1> QED BY <1>5, <1>6 DEF T

\* A path without links is where it leads.
LEMMA FixedChase ==
  ASSUME NEW world, IsFileSystem(world), NEW p \in Seq(PathNames),
         LinksOn(world, Clean(p)) = {}
  PROVE  Chased(world, p) = Clean(p)
<1>1. PICK c \in [0..MaxLinks -> Seq(NodeNames)] :
        /\ c[0] = Clean(p) /\ Chased(world, p) = c[MaxLinks]
        /\ \A i \in 1..MaxLinks : c[i] = Redirect(world, c[i - 1])
  BY ChaseIs
<1>2. 0 \in 0..MaxLinks /\ MaxLinks \in 0..MaxLinks
  BY MaxLinksAssumption
<1> QED BY <1>1, <1>2, ChaseStays

\* Where realpath leads to is a path of nodes.
LEMMA ChasedIs ==
  ASSUME NEW world, IsFileSystem(world), NEW p \in Seq(PathNames)
  PROVE  Chased(world, p) \in Seq(NodeNames)
<1>1. MaxLinks \in 0..MaxLinks
  BY MaxLinksAssumption
<1> QED BY <1>1, ChaseIs

\* What follows in a longer path.
LEMMA SubSeqOfAppend ==
  ASSUME NEW S, NEW s \in Seq(S), NEW e \in S, NEW k \in 1..Len(s)
  PROVE  SubSeq(Append(s, e), k + 1, Len(Append(s, e))) = Append(SubSeq(s, k + 1, Len(s)), e)
<1> DEFINE x == SubSeq(Append(s, e), k + 1, Len(Append(s, e)))
           y == SubSeq(s, k + 1, Len(s))
<1>1. Len(s) \in Nat /\ Append(s, e) \in Seq(S) /\ Len(Append(s, e)) = Len(s) + 1
  OBVIOUS
<1>2. /\ x \in Seq(S) /\ Len(x) = Len(s) + 1 - k
      /\ \A i \in 1..Len(x) : x[i] = Append(s, e)[k + i]
  BY <1>1
<1>3. /\ y \in Seq(S) /\ Len(y) = Len(s) - k
      /\ \A i \in 1..Len(y) : y[i] = s[k + i]
  BY <1>1
<1> HIDE DEF x, y
<1>4. /\ Append(y, e) \in Seq(S) /\ Len(Append(y, e)) = Len(s) - k + 1
      /\ \A i \in 1..Len(y) : Append(y, e)[i] = y[i]
      /\ Append(y, e)[Len(y) + 1] = e
  BY <1>3
<1>5. ASSUME NEW i \in 1..Len(x) PROVE x[i] = Append(y, e)[i]
  <2>1. k + i \in 1..Len(s) + 1
    BY <1>1, <1>2
  <2>2. CASE i \in 1..Len(y)
    <3>1. k + i \in 1..Len(s)
      BY <1>1, <1>3, <2>2
    <3>2. Append(s, e)[k + i] = s[k + i]
      BY <1>1, <3>1
    <3> QED BY <1>2, <1>3, <1>4, <2>2, <3>2
  <2>3. CASE i \notin 1..Len(y)
    <3>1. i = Len(y) + 1 /\ k + i = Len(s) + 1
      <4>1. \A m, n, l, j \in Int :
              l = n - k /\ m = n + 1 - k /\ j \in 1..m /\ j \notin 1..l => j = l + 1 /\ k + j = n + 1
        OBVIOUS
      <4>2. Len(x) \in Int /\ Len(y) \in Int /\ Len(s) \in Int /\ i \in Int
        BY <1>1, <1>2, <1>3
      <4>3. Len(y) = Len(s) - k /\ Len(x) = Len(s) + 1 - k
        BY <1>2, <1>3
      <4> QED BY <2>3, <4>1, <4>2, <4>3
    <3>2. Append(s, e)[Len(s) + 1] = e
      BY <1>1
    <3> QED BY <1>2, <1>4, <3>1, <3>2
  <2> QED BY <2>2, <2>3
<1>6. Len(x) = Len(Append(y, e))
  BY <1>1, <1>2, <1>4
<1>7. x = Append(y, e)
  BY <1>2, <1>4, <1>5, <1>6, SeqEqual
<1> QED BY <1>7 DEF x, y

\* The links on a longer path.
LEMMA LinksOnAppend ==
  ASSUME NEW world, NEW p \in Seq(NodeNames), NEW name \in NodeNames
  PROVE  /\ LinksOn(world, Append(p, name)) =
              LinksOn(world, p) \union (IF IsLinkAt(world, Append(p, name)) THEN {Len(p) + 1} ELSE {})
         /\ LinksOn(world, p) = {} /\ ~IsLinkAt(world, Append(p, name)) =>
              LinksOn(world, Append(p, name)) = {}
<1>1. Len(p) \in Nat /\ Len(Append(p, name)) = Len(p) + 1
  OBVIOUS
<1>2. \A k \in 1..Len(p) : SubSeq(Append(p, name), 1, k) = SubSeq(p, 1, k)
  OBVIOUS
<1>3. SubSeq(Append(p, name), 1, Len(p) + 1) = Append(p, name)
  OBVIOUS
<1>4. \A k : k \in 1..Len(p) + 1 <=> k \in 1..Len(p) \/ k = Len(p) + 1
  BY <1>1
<1>5. \A k : k \in LinksOn(world, Append(p, name)) <=>
                k \in 1..Len(p) + 1 /\ IsLinkAt(world, SubSeq(Append(p, name), 1, k))
  BY <1>1 DEF LinksOn
<1>6. \A k : k \in LinksOn(world, p) <=> k \in 1..Len(p) /\ IsLinkAt(world, SubSeq(p, 1, k))
  BY DEF LinksOn
<1>7. Len(p) + 1 \notin 1..Len(p)
  BY <1>1
<1>8. ASSUME NEW k
      PROVE  k \in LinksOn(world, Append(p, name)) <=>
               k \in LinksOn(world, p) \/ (k = Len(p) + 1 /\ IsLinkAt(world, Append(p, name)))
  BY <1>2, <1>3, <1>4, <1>5, <1>6, <1>7
<1> HIDE DEF LinksOn, IsLinkAt
<1> QED BY <1>8

\* The name of what is no link is left as it is, behind where its directory leads.
LEMMA AppendChase ==
  ASSUME NEW world, IsFileSystem(world), NEW q \in Seq(NodeNames), NEW name \in NodeNames,
         LinksOn(world, Chased(world, q)) = {},
         ~IsLinkAt(world, Append(Chased(world, q), name))
  PROVE  Chased(world, Append(q, name)) = Append(Chased(world, q), name)
<1> DEFINE r == Append(q, name)
<1>0. r \in Seq(NodeNames)
  OBVIOUS
<1> HIDE DEF r
<1>1. q \in Seq(PathNames) /\ r \in Seq(PathNames) /\ Clean(q) = q /\ Clean(r) = r
  BY <1>0, Nodes, CleanPath
<1>2. PICK a \in [0..MaxLinks -> Seq(NodeNames)] :
        /\ a[0] = q /\ Chased(world, q) = a[MaxLinks]
        /\ \A i \in 1..MaxLinks : a[i] = Redirect(world, a[i - 1])
  BY <1>1, ChaseIs
<1>3. PICK b \in [0..MaxLinks -> Seq(NodeNames)] :
        /\ b[0] = r /\ Chased(world, r) = b[MaxLinks]
        /\ \A i \in 1..MaxLinks : b[i] = Redirect(world, b[i - 1])
  BY <1>1, ChaseIs
<1>4. MaxLinks \in Nat
  BY MaxLinksAssumption
<1> DEFINE T == {n \in Nat : n <= MaxLinks => b[n] = Append(a[n], name)}
<1>5. 0 \in T
  BY <1>2, <1>3 DEF r
<1>6. ASSUME NEW n \in Nat, n + 1 <= MaxLinks, b[n] = Append(a[n], name)
      PROVE  b[n + 1] = Append(a[n + 1], name)
  <2>1. n + 1 \in 1..MaxLinks /\ (n + 1) - 1 = n /\ n \in 0..MaxLinks /\ MaxLinks \in n..MaxLinks
    BY <1>4, <1>6
  <2>2. a[n + 1] = Redirect(world, a[n]) /\ b[n + 1] = Redirect(world, b[n])
    BY <1>2, <1>3, <2>1
  <2>3. a[n] \in Seq(NodeNames) /\ b[n] \in Seq(NodeNames)
    BY <2>1
  <2>4. CASE LinksOn(world, a[n]) = {}
    <3>1. \A j \in n..MaxLinks : a[j] = a[n]
      BY <1>2, <2>1, <2>4, ChaseStays
    <3>2. Chased(world, q) = a[n]
      BY <1>2, <2>1, <3>1
    <3>3. LinksOn(world, Append(a[n], name)) = {}
      <4>1. ~IsLinkAt(world, Append(a[n], name))
        BY <3>2
      <4> HIDE DEF LinksOn, IsLinkAt
      <4> QED BY <2>3, <2>4, <4>1, LinksOnAppend
    <3> QED BY <1>6, <2>2, <2>3, <2>4, <3>3, RedirectIs
  <2>5. CASE LinksOn(world, a[n]) # {}
    <3> DEFINE k == FirstLink(world, a[n])
               l == FirstLink(world, b[n])
               to == world[SubSeq(a[n], 1, k)].to
               rest == SubSeq(a[n], k + 1, Len(a[n]))
    <3>1. k \in LinksOn(world, a[n]) /\ \A j \in LinksOn(world, a[n]) : k <= j
      BY <2>3, <2>5, FirstLinkIs
    <3>2. /\ LinksOn(world, a[n]) \subseteq LinksOn(world, b[n])
          /\ \A j \in LinksOn(world, b[n]) : j \in LinksOn(world, a[n]) \/ j = Len(a[n]) + 1
      BY <1>6, <2>3, LinksOnAppend
    <3>3. l \in LinksOn(world, b[n]) /\ \A j \in LinksOn(world, b[n]) : l <= j
      BY <2>3, <2>5, <3>2, FirstLinkIs
    <3>4. /\ Redirect(world, a[n]) = to \o rest
          /\ Redirect(world, b[n]) = world[SubSeq(b[n], 1, l)].to \o SubSeq(b[n], l + 1, Len(b[n]))
      BY <2>3, <2>5, <3>2, RedirectIs
    <3> HIDE DEF k, l
    <3>5. k \in 1..Len(a[n]) /\ IsLinkAt(world, SubSeq(a[n], 1, k))
      BY <3>1 DEF LinksOn
    <3>6. l = k
      <4>1. Len(a[n]) \in Nat /\ LinksOn(world, b[n]) \subseteq Nat
        BY <2>3 DEF LinksOn
      <4>2. l <= k
        BY <3>1, <3>2, <3>3
      <4>3. l \in LinksOn(world, a[n])
        BY <3>2, <3>3, <3>5, <4>1, <4>2
      <4> QED BY <3>1, <3>3, <3>5, <4>1, <4>2, <4>3
    <3>7. SubSeq(b[n], 1, k) = SubSeq(a[n], 1, k)
      BY <1>6, <2>3, <3>5
    <3>8. SubSeq(b[n], k + 1, Len(b[n])) = Append(rest, name)
      BY <1>6, <2>3, <3>5, SubSeqOfAppend
    <3>9. to \in Seq(NodeNames) /\ rest \in Seq(NodeNames)
      <4>1. to \in Seq(NodeNames)
        BY <3>5 DEF IsLinkAt, IsFileSystem
      <4> QED BY <2>3, <3>5, <4>1
    <3> HIDE DEF to, rest
    <3>10. to \o Append(rest, name) = Append(to \o rest, name)
      BY <3>9
    <3>11. Redirect(world, b[n]) = to \o Append(rest, name)
      BY <3>4, <3>6, <3>7, <3>8 DEF to
    <3> QED BY <2>2, <3>4, <3>10, <3>11
  <2> QED BY <2>4, <2>5
<1>7. T = Nat
  <2>1. ASSUME NEW n \in T PROVE n + 1 \in T
    <3> SUFFICES ASSUME n + 1 <= MaxLinks PROVE b[n + 1] = Append(a[n + 1], name)
      OBVIOUS
    <3>1. n \in Nat /\ n <= MaxLinks
      BY <1>4
    <3> QED BY <1>6, <3>1
  <2>2. T \in SUBSET Nat
    OBVIOUS
  <2> HIDE DEF T
  <2> QED BY <1>5, <2>1, <2>2, CountedUp
<1>8. MaxLinks \in T
  BY <1>4, <1>7
<1>9. b[MaxLinks] = Append(a[MaxLinks], name)
  BY <1>4, <1>8
<1> QED BY <1>2, <1>3, <1>9 DEF r

\* A path without its last slashes is a path, and does not end in an empty name.
LEMMA UnslashedIs ==
  ASSUME NEW S, NEW p \in Seq(S)
  PROVE  /\ Unslashed(p) \in Seq(S)
         /\ Unslashed(p) # <<>> => Last(Unslashed(p)) # NoName
         /\ p # <<>> /\ Last(p) # NoName => Unslashed(p) = p
         /\ p = <<>> => Unslashed(p) = <<>>
<1> DEFINE T == {k \in 0..Len(p) : \A j \in k + 1..Len(p) : p[j] = NoName}
           n == CHOOSE k \in T : \A j \in T : k <= j
<1>1. Len(p) \in T /\ T \in SUBSET Nat
  OBVIOUS
<1> HIDE DEF T
<1>2. \E k \in T : \A j \in T : k <= j
  BY <1>1, LeastExists
<1>3. n \in T /\ \A j \in T : n <= j
  BY <1>2
<1>4. Unslashed(p) = SubSeq(p, 1, n)
  BY DEF Unslashed, T
<1> HIDE DEF n
<1>5. n \in 0..Len(p) /\ \A j \in n + 1..Len(p) : p[j] = NoName
  BY <1>3 DEF T
<1>6. SubSeq(p, 1, n) \in Seq(S) /\ Len(SubSeq(p, 1, n)) = n
  BY <1>5
<1>7. n # 0 => p[n] # NoName
  <2> SUFFICES ASSUME n # 0, p[n] = NoName PROVE FALSE
    OBVIOUS
  <2>1. n - 1 \in 0..Len(p) /\ \A j \in (n - 1) + 1..Len(p) : j = n \/ j \in n + 1..Len(p)
    BY <1>5
  <2>2. n - 1 \in T
    BY <1>5, <2>1 DEF T
  <2> QED BY <1>3, <1>5, <2>2
<1>8. SubSeq(p, 1, n) # <<>> => Last(SubSeq(p, 1, n)) # NoName
  BY <1>5, <1>6, <1>7 DEF Last
<1>9. p # <<>> /\ Last(p) # NoName => n = Len(p)
  <2> SUFFICES ASSUME p # <<>>, p[Len(p)] # NoName, n # Len(p) PROVE FALSE
    BY DEF Last
  <2>1. Len(p) \in n + 1..Len(p)
    BY <1>5
  <2> QED BY <1>5, <2>1
<1>10. p # <<>> /\ Last(p) # NoName => SubSeq(p, 1, n) = p
  BY <1>9
<1>11. p = <<>> => SubSeq(p, 1, n) = <<>>
  BY <1>5
<1> QED BY <1>4, <1>6, <1>8, <1>10, <1>11

\* A path ends in a name of its own, and what that is in.
LEMMA NameAndDir ==
  ASSUME NEW S, NEW d \in Seq(S), d # <<>> => Last(d) # NoName,
         NEW name, name \in S, name # NoName
  PROVE  Dirname(Append(d, name)) = d /\ Basename(Append(d, name)) = name
<1> DEFINE p == Append(d, name)
<1>1. p \in Seq(S) /\ p # <<>> /\ Len(p) = Len(d) + 1 /\ p[Len(d) + 1] = name
  OBVIOUS
<1>2. SubSeq(p, 1, Len(d)) = d
  OBVIOUS
<1> HIDE DEF p
<1>3. Last(p) = name /\ Front(p) = d
  BY <1>1, <1>2 DEF Last, Front
<1>4. Unslashed(p) = p /\ Unslashed(d) = d
  BY <1>1, <1>3, UnslashedIs
<1> QED BY <1>1, <1>3, <1>4 DEF Dirname, Basename, p

\* The path of a node is that of what it is in, and its name.
LEMMA NodePath ==
  ASSUME NEW p \in Seq(NodeNames), p # <<>>
  PROVE  /\ Dirname(p) \in Seq(NodeNames) /\ Basename(p) \in NodeNames
         /\ p = Append(Dirname(p), Basename(p))
<1> DEFINE d == Front(p)
           name == Last(p)
<1>1. d \in Seq(NodeNames) /\ name \in NodeNames /\ p = Append(d, name)
  BY DEF Front, Last
<1>2. d # <<>> => Last(d) # NoName
  BY <1>1 DEF Last, NodeNames
<1>3. name # NoName
  BY <1>1 DEF NodeNames
<1> HIDE DEF d, name
<1>4. Dirname(p) = d /\ Basename(p) = name
  BY <1>1, <1>2, <1>3, NameAndDir
<1> QED BY <1>1, <1>4

\* A name in a directory.
LEMMA EntryPath ==
  ASSUME NEW d \in Seq(NodeNames), NEW name \in NodeNames
  PROVE  /\ Append(d, name) \in Seq(NodeNames) /\ Append(d, name) # <<>>
         /\ Dirname(Append(d, name)) = d /\ Basename(Append(d, name)) = name
<1>1. d # <<>> => Last(d) # NoName
  BY DEF Last, NodeNames
<1>2. name # NoName
  BY DEF NodeNames
<1> QED BY <1>1, <1>2, NameAndDir

\* What lstat calls a directory, opendir opens.
LEMMA LstatIsDir ==
  ASSUME NEW world, IsFileSystem(world), NEW p \in Seq(PathNames), Lstat(world, p) = "ISDIR"
  PROVE  IsDirAt(world, Chased(world, p))
<1>1. CASE Clean(p) = <<>>
  <2>1. LinksOn(world, <<>>) = {}
    BY DEF LinksOn
  <2>2. Chased(world, p) = <<>>
    BY <1>1, <2>1, FixedChase
  <2> QED BY <2>1, <2>2 DEF IsDirAt, Landed, TypeAt
<1>2. CASE p # <<>> /\ Clean(p) = p
  <2> DEFINE q == Dirname(p)
             name == Basename(p)
             z == Chased(world, q)
  <2>1. p \in Seq(NodeNames)
    BY <1>2, CleanPath
  <2>2. q \in Seq(NodeNames) /\ name \in NodeNames /\ p = Append(q, name)
    BY <1>2, <2>1, NodePath
  <2>3. z \in Seq(NodeNames)
    BY <2>2, Nodes, ChasedIs
  <2>4. Lstat(world, p) = TypeIn(world, z, name)
    BY <1>2 DEF Lstat
  <2> HIDE DEF q, name
  <2>5. Landed(world, z) /\ TypeAt(world, Append(z, name)) = "ISDIR"
    BY <2>4 DEF TypeIn
  <2> HIDE DEF z
  <2>6. Append(z, name) # <<>>
    BY <2>2, <2>3
  <2>7. Append(z, name) \in DOMAIN world /\ world[Append(z, name)].type = "ISDIR"
    BY <2>5, <2>6 DEF TypeAt
  <2>8. LinksOn(world, z) = {} /\ ~IsLinkAt(world, Append(z, name))
    BY <2>5, <2>7 DEF Landed, IsLinkAt
  <2>9. Chased(world, p) = Append(z, name)
    BY <2>2, <2>8, AppendChase DEF z
  <2>10. LinksOn(world, Append(z, name)) = {}
    BY <2>2, <2>3, <2>8, LinksOnAppend
  <2> QED BY <2>5, <2>7, <2>9, <2>10 DEF IsDirAt, Landed
<1>3. CASE Clean(p) # <<>> /\ ~(p # <<>> /\ Clean(p) = p)
  BY <1>3 DEF Lstat
<1> QED BY <1>1, <1>2, <1>3

-----------------------------------------------------------------------------
(* Directories, and what is removed.                                       *)

\* A type is one of those lstat knows.
LEMMA TypesAre ==
  ASSUME NEW world, IsFileSystem(world)
  PROVE  /\ \A q : TypeAt(world, q) \in PathTypes
         /\ \A p : Lstat(world, p) \in PathTypes
<1>1. \A q : TypeAt(world, q) \in PathTypes
  BY DEF TypeAt, PathTypes, IsFileSystem
<1>2. \A q, name : TypeIn(world, q, name) \in PathTypes
  BY <1>1 DEF TypeIn, PathTypes
<1>3. \A p : Lstat(world, p) \in PathTypes
  <2> TAKE p
  <2>1. \/ Lstat(world, p) = TypeIn(world, Chased(world, Dirname(p)), Basename(p))
        \/ Lstat(world, p) \in {"ISDIR", "INVALID"}
    BY DEF Lstat
  <2> QED BY <1>2, <2>1 DEF PathTypes
<1> QED BY <1>1, <1>3

\* A real path is a path, and a folder is a directory whose path has no link.
LEMMA RealPathIs ==
  ASSUME NEW world, IsFileSystem(world), NEW p \in Seq(PathNames)
  PROVE  LET r == MakeRealPath(world, PathOf(world, p))
         IN /\ r.url \in Seq(PathNames) /\ r.type \in PathTypes
            /\ IsFolder(r) => r.url \in Seq(NodeNames) /\ IsDirAt(world, r.url)
<1> DEFINE q == Chased(world, p)
           r == MakeRealPath(world, PathOf(world, p))
<1>1. q \in Seq(NodeNames) /\ q \in Seq(PathNames)
  BY ChasedIs, Nodes
<1>2. PathOf(world, p) = [url |-> p, type |-> Lstat(world, p)]
  BY DEF PathOf
<1>3. r = IF Landed(world, q) THEN [url |-> q, type |-> TypeAt(world, q)] ELSE PathOf(world, p)
  BY <1>2 DEF MakeRealPath
<1> HIDE DEF q, r
<1>4. CASE Landed(world, q)
  <2>1. r.url = q /\ r.type = TypeAt(world, q)
    BY <1>3, <1>4
  <2>2. IsFolder(r) => IsDirAt(world, q)
    BY <1>4, <2>1 DEF IsFolder, IsDirAt
  <2> QED BY <1>1, <2>1, <2>2, TypesAre DEF r
<1>5. CASE ~Landed(world, q)
  <2>1. r.url = p /\ r.type = Lstat(world, p)
    BY <1>2, <1>3, <1>5
  <2>2. ~IsFolder(r)
    BY <1>5, <2>1, LstatIsDir DEF IsFolder, IsDirAt, q
  <2> QED BY <2>1, <2>2, TypesAre DEF r
<1> QED BY <1>4, <1>5

\* A directory in a directory is one, without links.
LEMMA EntryIsDir ==
  ASSUME NEW world, IsFileSystem(world), NEW d \in Seq(NodeNames), NEW name \in NodeNames,
         IsDirAt(world, d), Lstat(world, Append(d, name)) = "ISDIR"
  PROVE  IsDirAt(world, Append(d, name))
<1> DEFINE p == Append(d, name)
<1>1. p \in Seq(NodeNames) /\ p # <<>> /\ Dirname(p) = d /\ Basename(p) = name
  BY EntryPath
<1>2. Lstat(world, p) = "ISDIR"
  OBVIOUS
<1> HIDE DEF p
<1>3. d \in Seq(PathNames) /\ p \in Seq(PathNames) /\ Clean(d) = d /\ Clean(p) = p
  BY <1>1, Nodes, CleanPath
<1>4. Chased(world, d) = d
  BY <1>3, FixedChase DEF IsDirAt, Landed
<1>5. TypeAt(world, p) = "ISDIR"
  <2>1. TypeIn(world, d, name) = "ISDIR"
    BY <1>1, <1>2, <1>3, <1>4 DEF Lstat
  <2> QED BY <2>1 DEF TypeIn, p
<1>6. p \in DOMAIN world /\ world[p].type = "ISDIR"
  BY <1>1, <1>5 DEF TypeAt
<1>7. LinksOn(world, d) = {} /\ ~IsLinkAt(world, p)
  BY <1>6 DEF IsDirAt, Landed, IsLinkAt
<1>8. LinksOn(world, p) = {}
  BY <1>7, LinksOnAppend DEF p
<1>9. IsDirAt(world, p)
  BY <1>5, <1>6, <1>8 DEF IsDirAt, Landed
<1> QED BY <1>9 DEF p

\* A directory whose path has no link can be opened.
LEMMA DirOpens ==
  ASSUME NEW world, IsFileSystem(world), NEW d \in Seq(NodeNames), IsDirAt(world, d)
  PROVE  CanOpenDir(world, d)
<1>1. d \in Seq(PathNames) /\ Clean(d) = d
  BY Nodes, CleanPath
<1>2. Chased(world, d) = d
  BY <1>1, FixedChase DEF IsDirAt, Landed
<1> QED BY <1>2 DEF CanOpenDir

\* The names of a directory are those of nodes.
LEMMA ContentIs ==
  ASSUME NEW world, IsFileSystem(world), NEW d
  PROVE  Content(world, d) \subseteq NodeNames
<1>1. ASSUME NEW p \in DOMAIN world PROVE Basename(p) \in NodeNames
  <2>1. p \in Seq(NodeNames) /\ p # <<>>
    BY DEF IsFileSystem
  <2> QED BY <2>1, NodePath
<1> QED BY <1>1 DEF Content

\* The beginning of a beginning.
LEMMA PartOfPart ==
  ASSUME NEW S, NEW s \in Seq(S), NEW k \in 0..Len(s)
  PROVE  /\ SubSeq(s, 1, k) \in Seq(S) /\ Len(SubSeq(s, 1, k)) = k
         /\ \A i \in 1..k : SubSeq(s, 1, k)[i] = s[i]
         /\ \A i \in 0..k : SubSeq(SubSeq(s, 1, k), 1, i) = SubSeq(s, 1, i)
<1> DEFINE t == SubSeq(s, 1, k)
<1>1. t \in Seq(S) /\ Len(t) = k /\ \A i \in 1..k : t[i] = s[i]
  OBVIOUS
<1>2. ASSUME NEW i \in 0..k PROVE SubSeq(t, 1, i) = SubSeq(s, 1, i)
  <2>1. i <= Len(s) /\ i <= Len(t)
    BY <1>1
  <2> DEFINE a == SubSeq(t, 1, i)
             b == SubSeq(s, 1, i)
  <2> HIDE DEF t
  <2>2. a \in Seq(S) /\ Len(a) = i /\ \A j \in 1..i : a[j] = t[j]
    BY <1>1, <2>1
  <2>3. b \in Seq(S) /\ Len(b) = i /\ \A j \in 1..i : b[j] = s[j]
    BY <2>1
  <2> HIDE DEF a, b
  <2>4. \A j \in 1..i : a[j] = b[j]
    BY <1>1, <2>2, <2>3
  <2>5. a = b
    BY <2>2, <2>3, <2>4, SeqEqual
  <2> QED BY <2>5 DEF a, b
<1> QED BY <1>1, <1>2

\* What leads to a path leads to what is below it.
LEMMA PrefixOfLonger ==
  ASSUME NEW q \in Seq(NodeNames), NEW d \in Seq(NodeNames), NEW name \in NodeNames,
         IsPrefix(q, d)
  PROVE  IsPrefix(q, Append(d, name))
<1>1. Len(q) <= Len(d) /\ SubSeq(q, 1, Len(q)) = SubSeq(d, 1, Len(q))
  BY DEF IsPrefix
<1> QED BY <1>1 DEF IsPrefix

\* A sequence of one element.
LEMMA OneElement ==
  ASSUME NEW e
  PROVE  ToSet(<<e>>) = {e}
<1> DEFINE s == <<e>>
<1>1. s \in Seq({e}) /\ Len(s) = 1 /\ s[1] = e
  OBVIOUS
<1> HIDE DEF s
<1>2. DOMAIN s = 1..1
  BY <1>1
<1>3. ToSet(s) = {e}
  BY <1>1, <1>2 DEF ToSet
<1> QED BY <1>3 DEF s

\* What is put behind a sequence is added to its elements.
LEMMA PutBehind ==
  ASSUME NEW s, NEW t, s \in Seq(ToSet(s)), t \in Seq(ToSet(t))
  PROVE  /\ s \o t \in Seq(ToSet(s \o t))
         /\ ToSet(s \o t) = ToSet(s) \union ToSet(t)
<1> DEFINE S == ToSet(s) \union ToSet(t)
           u == s \o t
<1>1. s \in Seq(S) /\ t \in Seq(S) /\ Len(s) \in Nat /\ Len(t) \in Nat
  BY SeqMonotonic
<1>2. u \in Seq(S) /\ Len(u) = Len(s) + Len(t)
  <2> HIDE DEF S
  <2> QED BY <1>1
<1>3. /\ \A i \in 1..Len(s) : u[i] = s[i]
      /\ \A i \in 1..Len(t) : u[Len(s) + i] = t[i]
  <2> HIDE DEF S
  <2> QED BY <1>1
<1>4. DOMAIN s = 1..Len(s) /\ DOMAIN t = 1..Len(t) /\ DOMAIN u = 1..Len(u)
  BY <1>1, <1>2
<1> HIDE DEF u
<1>5. ToSet(u) \subseteq S
  BY <1>2, <1>4 DEF ToSet
<1>6. ToSet(s) \subseteq ToSet(u)
  BY <1>1, <1>2, <1>3, <1>4 DEF ToSet
<1>7. ToSet(t) \subseteq ToSet(u)
  <2> SUFFICES ASSUME NEW i \in 1..Len(t) PROVE t[i] \in ToSet(u)
    BY <1>4 DEF ToSet
  <2>1. Len(s) + i \in 1..Len(u)
    BY <1>1, <1>2
  <2> QED BY <1>3, <1>4, <2>1 DEF ToSet
<1>8. ToSet(u) = S
  BY <1>5, <1>6, <1>7
<1> QED BY <1>2, <1>8 DEF u

\* A path resolves to a directory where one can be opened, and to that one.
LEMMA RealDirIs ==
  ASSUME NEW world, IsFileSystem(world), NEW q \in Seq(PathNames)
  PROVE  LET r == MakeRealPath(world, PathOf(world, q))
         IN /\ IsFolder(r) <=> CanOpenDir(world, q)
            /\ IsFolder(r) => r.url = Chased(world, q)
<1> DEFINE at == Chased(world, q)
           r == MakeRealPath(world, PathOf(world, q))
<1>1. CASE Landed(world, at)
  <2>1. r = [url |-> at, type |-> TypeAt(world, at)]
    BY <1>1 DEF MakeRealPath, PathOf
  <2> HIDE DEF r, at
  <2>2. r.url = at /\ r.type = TypeAt(world, at)
    BY <2>1
  <2>3. CanOpenDir(world, q) <=> TypeAt(world, at) = "ISDIR"
    BY <1>1 DEF CanOpenDir, IsDirAt, at
  <2> QED BY <2>2, <2>3 DEF IsFolder, r, at
<1>2. CASE ~Landed(world, at)
  <2>1. r = PathOf(world, q)
    BY <1>2 DEF MakeRealPath, PathOf
  <2> HIDE DEF r
  <2>2. r.type = Lstat(world, q)
    BY <2>1 DEF PathOf
  <2>3. ~CanOpenDir(world, q)
    BY <1>2 DEF CanOpenDir, IsDirAt
  <2>4. Lstat(world, q) # "ISDIR"
    BY <1>2, LstatIsDir DEF IsDirAt
  <2> QED BY <2>2, <2>3, <2>4 DEF IsFolder, r
<1> QED BY <1>1, <1>2

\* What lstat says of a name in a directory.
LEMMA EntryTypeIs ==
  ASSUME NEW world, IsFileSystem(world), NEW d \in Seq(NodeNames), NEW name \in NodeNames,
         IsDirAt(world, d)
  PROVE  Lstat(world, Append(d, name)) = TypeAt(world, Append(d, name))
<1> DEFINE p == Append(d, name)
<1>1. p \in Seq(NodeNames) /\ p # <<>> /\ Dirname(p) = d /\ Basename(p) = name
  BY EntryPath
<1> HIDE DEF p
<1>2. d \in Seq(PathNames) /\ p \in Seq(PathNames) /\ Clean(d) = d /\ Clean(p) = p
  BY <1>1, Nodes, CleanPath
<1>3. Chased(world, d) = d /\ Landed(world, d)
  BY <1>2, FixedChase DEF IsDirAt, Landed
<1>4. Lstat(world, p) = TypeIn(world, d, name)
  BY <1>1, <1>2, <1>3 DEF Lstat
<1>5. TypeIn(world, d, name) = TypeAt(world, p)
  BY <1>3 DEF TypeIn, p
<1> QED BY <1>4, <1>5 DEF p

\* What a directory's listing has.
LEMMA ContentHas ==
  ASSUME NEW world, IsFileSystem(world), NEW d \in Seq(NodeNames), IsDirAt(world, d)
  PROVE  \A name : name \in Content(world, d) <=>
           name \in NodeNames /\ name \notin Ignored /\ Append(d, name) \in DOMAIN world
<1>1. Chased(world, d) = d
  <2>1. d \in Seq(PathNames) /\ Clean(d) = d
    BY Nodes, CleanPath
  <2> QED BY <2>1, FixedChase DEF IsDirAt, Landed
<1>2. ASSUME NEW name \in Content(world, d)
      PROVE  name \in NodeNames /\ name \notin Ignored /\ Append(d, name) \in DOMAIN world
  <2>1. name \in NodeNames /\ name \notin Ignored
    BY ContentIs DEF Content
  <2>2. PICK p \in DOMAIN world : Dirname(p) = d /\ Basename(p) = name
    BY <1>1 DEF Content
  <2>3. p \in Seq(NodeNames) /\ p # <<>>
    BY DEF IsFileSystem
  <2>4. p = Append(d, name)
    BY <2>2, <2>3, NodePath
  <2> QED BY <2>1, <2>4
<1>3. ASSUME NEW name \in NodeNames, name \notin Ignored, Append(d, name) \in DOMAIN world
      PROVE  name \in Content(world, d)
  <2>1. Append(d, name) # <<>> /\ Dirname(Append(d, name)) = d /\ Basename(Append(d, name)) = name
    BY <1>3, EntryPath
  <2> QED BY <1>1, <1>3, <2>1 DEF Content
<1> QED BY <1>2, <1>3

-----------------------------------------------------------------------------
(* ELF files.                                                              *)

\* The entries of the dynamic section can be counted, whatever is in the file.
LEMMA EntriesAreCounted ==
  ASSUME NEW img, HasSizes(img)
  PROVE  Len(DynamicEntries(img)) \in Nat
<1>1. SectionsNum(img) \in Nat
  <2>1. Len(img.sections) \in Nat
    BY DEF HasSizes
  <2> QED BY <2>1 DEF SectionsNum
<1>2. ASSUME NEW i \in 1..SectionsNum(img)
      PROVE  SectionAt(img, i).size \in Nat /\ SectionAt(img, i).entsize \in Nat
  <2> DEFINE s == img.sections[i]
  <2>1. i \in 1..Len(img.sections)
    BY <1>1, <1>2 DEF SectionsNum
  <2>2. img.sections \in Seq(ToSet(img.sections))
    BY DEF HasSizes
  <2>3. s \in ToSet(img.sections)
    BY <2>1, <2>2
  <2>4. DOMAIN s = DOMAIN NullSection /\ s.size \in Nat /\ s.entsize \in Nat
    BY <2>3 DEF HasSizes
  <2> HIDE DEF s
  <2>5. "size" \in DOMAIN NullSection /\ "entsize" \in DOMAIN NullSection
    BY Zenon DEF NullSection
  <2>6. \A x : /\ [s EXCEPT !.loaded = x].size = s.size
               /\ [s EXCEPT !.loaded = x].entsize = s.entsize
    BY <2>4, <2>5, Zenon
  <2>7. NullSection.size = 0 /\ NullSection.entsize = 0
    BY DEF NullSection
  <2>8. \/ SectionAt(img, i) = NullSection
        \/ SectionAt(img, i) = [s EXCEPT !.loaded = IsToRead(img, s) /\ InFile(img, s.off, s.size)]
    BY Zenon DEF SectionAt, s
  <2>9. \/ SectionAt(img, i).size = 0 /\ SectionAt(img, i).entsize = 0
        \/ SectionAt(img, i).size = s.size /\ SectionAt(img, i).entsize = s.entsize
    BY <2>6, <2>7, <2>8, Zenon
  <2> QED BY <2>4, <2>9
<1>3. ASSUME NEW sec, sec.size \in Nat, sec.entsize \in Nat
      PROVE  EntriesNum(sec) \in Nat
  <2> DEFINE n == IF sec.entsize = 0 THEN 0 ELSE sec.size \div sec.entsize
             nulls == {i \in 1..n : RawEntry(sec, i).tag = "NULL"}
  <2>1. n \in Nat
    BY <1>3
  <2> HIDE DEF n
  <2>2. CASE nulls = {}
    BY <2>1, <2>2 DEF EntriesNum, n
  <2>3. CASE nulls # {}
    <3>1. nulls \in SUBSET Nat
      BY <2>1
    <3>2. \E i \in nulls : \A j \in nulls : i <= j
      BY <2>3, <3>1, LeastExists
    <3>3. EntriesNum(sec) = CHOOSE i \in nulls : \A j \in nulls : i <= j
      BY <2>3 DEF EntriesNum, n
    <3> HIDE DEF nulls
    <3>4. EntriesNum(sec) \in nulls
      BY <3>2, <3>3
    <3> QED BY <3>1, <3>4
  <2> QED BY <2>2, <2>3
<1> DEFINE dyns == {i \in 1..SectionsNum(img) : SectionAt(img, i).type = "DYNAMIC"}
           first == CHOOSE i \in dyns : \A j \in dyns : i <= j
<1>4. CASE dyns = {}
  <2>1. DynamicEntries(img) = <<>>
    BY <1>4 DEF DynamicEntries
  <2> QED BY <2>1
<1>5. CASE dyns # {}
  <2>1. dyns \in SUBSET Nat
    BY <1>1
  <2>2. DynamicEntries(img) = Entries(img, SectionAt(img, first))
    BY <1>5 DEF DynamicEntries
  <2>3. first \in 1..SectionsNum(img)
    <3>1. \E i \in dyns : \A j \in dyns : i <= j
      BY <1>5, <2>1, LeastExists
    <3>2. first \in dyns
      <4> HIDE DEF dyns
      <4> QED BY <3>1
    <3> QED BY <3>2
  <2> HIDE DEF dyns, first
  <2>4. EntriesNum(SectionAt(img, first)) \in Nat
    BY <1>2, <1>3, <2>3
  <2>5. Len(Entries(img, SectionAt(img, first))) = EntriesNum(SectionAt(img, first))
    BY <2>4 DEF Entries
  <2> QED BY <2>2, <2>4, <2>5
<1> QED BY <1>4, <1>5

\* What is kept of a file after some of its entries, as a function of how many.
LEMMA AfterCounts ==
  ASSUME NEW elf, NEW entries, Len(entries) \in Nat
  PROVE  \E c : /\ After(elf, entries) = c[Len(entries)] /\ c[0] = elf
                /\ \A i \in 1..Len(entries) : c[i] = AfterEntry(c[i - 1], entries[i])
<1> DEFINE N == Len(entries)
           Of(f, i) == IF i = 0 THEN elf ELSE AfterEntry(f[i - 1], entries[i])
           Goes(f, n) == f = [i \in 0..n |-> Of(f, i)]
           T == {n \in Nat : n <= N => \E f : Goes(f, n)}
<1>1. 0 \in T
  <2>1. Goes([i \in 0..0 |-> elf], 0)
    OBVIOUS
  <2> QED BY <2>1
<1>2. ASSUME NEW n \in T PROVE n + 1 \in T
  <2> SUFFICES ASSUME n + 1 <= N PROVE \E f : Goes(f, n + 1)
    OBVIOUS
  <2>1. PICK f : Goes(f, n)
    OBVIOUS
  <2> DEFINE g == [i \in 0..(n + 1) |-> IF i = n + 1 THEN AfterEntry(f[n], entries[n + 1]) ELSE f[i]]
             h == [i \in 0..(n + 1) |-> Of(g, i)]
  <2>2. n \in Nat /\ n \in 0..n /\ n + 1 # 0 /\ (n + 1) - 1 = n /\ n # n + 1
    OBVIOUS
  <2>3. ASSUME NEW i \in 0..(n + 1) PROVE g[i] = Of(g, i)
    <3>1. CASE i = n + 1
      <4>1. n \in 0..(n + 1)
        BY <2>2
      <4>2. g[n] = f[n]
        BY <2>2, <4>1
      <4>3. g[i] = AfterEntry(f[n], entries[n + 1])
        BY <3>1
      <4> HIDE DEF g
      <4> QED BY <2>2, <3>1, <4>2, <4>3
    <3>2. CASE i # n + 1
      <4>1. i \in 0..n /\ (i # 0 => i - 1 \in 0..n /\ i - 1 \in 0..(n + 1) /\ i - 1 # n + 1)
        BY <2>2, <3>2
      <4>2. g[i] = f[i] /\ (i # 0 => g[i - 1] = f[i - 1])
        BY <3>2, <4>1
      <4>3. f[i] = Of(f, i)
        BY <2>1, <4>1
      <4> HIDE DEF g
      <4> QED BY <4>2, <4>3
    <3> QED BY <3>1, <3>2
  <2>4. g = h
    <3> HIDE DEF Of
    <3> QED BY <2>3
  <2>5. Goes(g, n + 1)
    BY <2>4
  <2> QED BY <2>5
<1>3. N \in T
  <2> HIDE DEF T
  <2>1. T \in SUBSET Nat
    BY DEF T
  <2> QED BY <1>1, <1>2, <2>1, CountedUp
<1>4. \E f : Goes(f, N)
  BY <1>3
<1> DEFINE c == CHOOSE f : Goes(f, N)
<1>5. Goes(c, N)
  BY <1>4
<1>6. After(elf, entries) = c[N]
  BY DEF After
<1> HIDE DEF c
<1>7. c[0] = elf /\ \A i \in 1..N : c[i] = AfterEntry(c[i - 1], entries[i])
  <2>1. \A i \in 0..N : c[i] = Of(c, i)
    BY <1>5
  <2>2. \A i \in 1..N : i \in 0..N /\ i # 0
    OBVIOUS
  <2> QED BY <2>1, <2>2
<1> QED BY <1>6, <1>7

\* A record that has a name, and which.
HasName(elf, name) == "name" \in DOMAIN elf /\ elf.name = name

\* What is kept of a file is kept under its name.
LEMMA ElfOfHasName ==
  ASSUME NEW img, HasSizes(img), NEW name
  PROVE  ElfOf(name, img).name = name
<1>1. \A e, entry : HasName(e, name) => HasName(AfterEntry(e, entry), name)
  <2> SUFFICES ASSUME NEW e, NEW entry, HasName(e, name) PROVE HasName(AfterEntry(e, entry), name)
    OBVIOUS
  <2>1. CASE entry.tag = "NEEDED"
    BY <2>1, Zenon DEF AfterEntry, HasName
  <2>2. CASE entry.tag = "SONAME"
    BY <2>2, Zenon DEF AfterEntry, HasName
  <2>3. CASE entry.tag = "RPATH"
    BY <2>3, Zenon DEF AfterEntry, HasName
  <2>4. CASE entry.tag = "RUNPATH"
    BY <2>4, Zenon DEF AfterEntry, HasName
  <2>5. CASE entry.tag \notin {"NEEDED", "SONAME", "RPATH", "RUNPATH"}
    BY <2>5, Zenon DEF AfterEntry, HasName
  <2> QED BY <2>1, <2>2, <2>3, <2>4, <2>5
<1>2. \A e, entries : HasName(e, name) /\ Len(entries) \in Nat => HasName(After(e, entries), name)
  <2> SUFFICES ASSUME NEW e, NEW entries, HasName(e, name), Len(entries) \in Nat
               PROVE  HasName(After(e, entries), name)
    OBVIOUS
  <2>0. \E c : /\ After(e, entries) = c[Len(entries)] /\ c[0] = e
               /\ \A i \in 1..Len(entries) : c[i] = AfterEntry(c[i - 1], entries[i])
    BY ONLY AfterCounts, Len(entries) \in Nat
  <2>1. PICK c : /\ After(e, entries) = c[Len(entries)] /\ c[0] = e
                 /\ \A i \in 1..Len(entries) : c[i] = AfterEntry(c[i - 1], entries[i])
    BY <2>0
  <2> DEFINE T == {n \in Nat : n <= Len(entries) => HasName(c[n], name)}
  <2>2. 0 \in T
    BY <2>1
  <2>3. ASSUME NEW n \in T PROVE n + 1 \in T
    <3> SUFFICES ASSUME n + 1 <= Len(entries) PROVE HasName(c[n + 1], name)
      OBVIOUS
    <3>1. n + 1 \in 1..Len(entries) /\ (n + 1) - 1 = n /\ n <= Len(entries)
      OBVIOUS
    <3>2. HasName(c[n], name)
      BY <3>1
    <3>3. c[n + 1] = AfterEntry(c[n], entries[n + 1])
      BY <2>1, <3>1
    <3> QED BY <1>1, <3>2, <3>3
  <2>4. Len(entries) \in T
    <3> HIDE DEF T
    <3>1. T \in SUBSET Nat
      BY DEF T
    <3> QED BY <2>2, <2>3, <3>1, CountedUp
  <2> QED BY <2>1, <2>4
<1>3. \A e : HasName(e, name) => HasName(Named(e), name)
  BY Zenon DEF Named, HasName
<1>4. HasName(NotElf(name), name)
  BY Zenon DEF NotElf, HasName
<1>5. \A i : HasName([NotElf(name) EXCEPT !.arch = i.class, !.type = TypeOfHeader(i.type)], name)
  BY Zenon DEF NotElf, HasName
<1>6. Len(DynamicEntries(img)) \in Nat
  BY EntriesAreCounted
<1>7. HasName(ElfOf(name, img), name)
  BY <1>2, <1>3, <1>4, <1>5, <1>6, Zenon DEF ElfOf, WithDynamic, WithEntries
<1> QED BY <1>7 DEF HasName
=============================================================================
