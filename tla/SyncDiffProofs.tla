---------------------------- MODULE SyncDiffProofs ----------------------------
(***************************************************************************)
(* What the todos of a sync are, for any packages and any names: proofs of *)
(* what updateIndex() takes for granted, and AtomicIndex assumes.          *)
(***************************************************************************)
EXTENDS MCSyncDiff, SyncDiffLemmas

\* The packages compared are packages.
DiffInv == inDb \in SUBSET Packages /\ files \in SUBSET Packages /\ newer \in SUBSET files

\* A sync leaves packages, and nothing else, in the database.
THEOREM DiffInvariant == Spec => []DiffInv
<1>1. Init => DiffInv
  BY DEF Init, DiffInv
<1>2. DiffInv /\ [Round]_vars => DiffInv'
  <2> SUFFICES ASSUME DiffInv, [Round]_vars PROVE DiffInv'
    OBVIOUS
  <2>1. CASE Round
    <3>1. /\ files' = files /\ newer' = {} /\ inDb' = PackagesAfter(inDb, Data)
      BY <2>1 DEF Round
    <3>2. Todos(Data) \subseteq [rem : Packages \cup {NoPackage}, inst : Packages \cup {NoPackage}]
      BY TodosAreProper DEF Data, DiffInv
    <3>3. PackagesAfter(inDb, Data) \in SUBSET Packages
      BY <3>2 DEF PackagesAfter, DiffInv
    <3> QED BY <3>1, <3>3 DEF DiffInv
  <2>2. CASE UNCHANGED vars
    BY <2>2 DEF vars, DiffInv
  <2> QED BY <2>1, <2>2
<1> QED BY <1>1, <1>2, PTL DEF Spec

\* No full name is removed or installed by two todos of a sync, whatever surplus was
\* taken out of the updates, in whatever order their names are.
THEOREM DiffDisjoint == Spec => []TodosAreDisjoint
<1>1. DiffInv => TodosAreDisjoint
  BY TodosAreProper DEF DiffInv, TodosAreDisjoint, Data
<1> QED BY <1>1, DiffInvariant, PTL

\* A package that has a row is installed only by the todo that clears the row.
THEOREM DiffClears == Spec => []TodosClearWhatTheyInstall
<1>1. DiffInv => TodosClearWhatTheyInstall
  BY TodosAreProper DEF DiffInv, TodosClearWhatTheyInstall, Data
<1> QED BY <1>1, DiffInvariant, PTL

\* Where the sizes match, what a sync leaves out of sync is of a name reported as a
\* problem, though pkgNameDiff() merges what is not sorted by name.
THEOREM DiffReports == Spec => LeftOverIsReported
<1> DEFINE Reported == NamesOf(Elements(Data.problemsOld) \cup Elements(Data.problemsNew))
<1>1. ASSUME DiffInv, Round, Len(Data.updatedOld) = Len(Data.updatedNew)
      PROVE  NamesOf((inDb' \ files) \cup (files \ inDb')) \subseteq Reported
  <2> DEFINE gone    == inDb \ files
             came    == files \ inDb
             old     == Updated(gone, came)
             new     == Updated(came, gone)
             differ  == Len(old) # Len(new)
  <2>1. inDb' = PackagesAfter(inDb, Data)
    BY <1>1 DEF Round
  <2>2. /\ \A x \in inDb' \ files : x \in gone /\ \A t \in Todos(Data) : t.rem # x
        /\ \A x \in files \ inDb' : x \in came /\ \A t \in Todos(Data) : t.inst # x
        /\ \A i \in (DOMAIN Data.updatedOld) \cap (DOMAIN Data.updatedNew) :
             [rem |-> Data.updatedOld[i], inst |-> Data.updatedNew[i]] \in Todos(Data)
        /\ \A x \in Data.removed : [rem |-> x, inst |-> NoPackage] \in Todos(Data)
        /\ \A x \in Data.installed : [rem |-> NoPackage, inst |-> x] \in Todos(Data)
    BY <1>1, <2>1, AfterTodos DEF Data, DiffInv
  <2>3. /\ Data.updatedOld \in Seq(Packages) /\ Data.updatedNew \in Seq(Packages)
        /\ old \in Seq(Packages) /\ new \in Seq(Packages) /\ Injective(old) /\ Injective(new)
    <3>1. /\ Data.updatedOld \in Seq(Packages) /\ Data.updatedNew \in Seq(Packages)
      <4>1. inDb \in SUBSET Packages /\ files \in SUBSET Packages /\ newer \in SUBSET files
        BY <1>1 DEF DiffInv
      <4> DEFINE data == UpdateSyncData(inDb, files, newer)
      <4>2. /\ data.removed \subseteq inDb \ files
            /\ data.installed \subseteq files \ inDb
            /\ data.reinstalled \subseteq files \cap inDb
            /\ data.updatedOld \in Seq(Packages) /\ Injective(data.updatedOld)
            /\ Elements(data.updatedOld) \subseteq (inDb \ files) \ data.removed
            /\ data.updatedNew \in Seq(Packages) /\ Injective(data.updatedNew)
            /\ Elements(data.updatedNew) \subseteq (files \ inDb) \ data.installed
        BY <4>1, DiffParts
      <4> QED BY <4>2 DEF Data
    <3>2. gone \in SUBSET Packages /\ came \in SUBSET Packages
      BY <1>1 DEF DiffInv
    <3> QED BY <3>1, <3>2, SortedEnumerates DEF Updated
  <2>4. DOMAIN Data.updatedOld = DOMAIN Data.updatedNew
    BY <1>1, <2>3
  <2>5. /\ Data.removed = gone \ Elements(old) /\ Data.installed = came \ Elements(new)
        /\ Data.problemsOld = IF differ THEN NameDiff(old, new) ELSE <<>>
        /\ Data.problemsNew = IF differ THEN NameDiff(new, old) ELSE <<>>
        /\ Data.updatedOld = Filter(old, Data.problemsOld, differ)
        /\ Data.updatedNew = Filter(new, Data.problemsNew, differ)
    BY DEF Data, UpdateSyncData
  <2>6. Data.problemsOld \in Seq(Packages) /\ Data.problemsNew \in Seq(Packages)
    BY <2>3, <2>5, NameDiffIsPart
  <2> HIDE DEF old, new, differ
  <2>7. ASSUME NEW x \in inDb' \ files PROVE NameOf[x] \in Reported
    <3>1. x \notin Data.removed
      BY <2>2
    <3>2. x \in Elements(old)
      BY <2>2, <2>5, <3>1
    <3>3. x \notin Elements(Filter(old, Data.problemsOld, differ))
      <4> SUFFICES ASSUME NEW i \in DOMAIN Data.updatedOld, Data.updatedOld[i] = x
                   PROVE  FALSE
        BY <2>5 DEF Elements
      <4>1. [rem |-> Data.updatedOld[i], inst |-> Data.updatedNew[i]] \in Todos(Data)
        BY <2>2, <2>4
      <4> QED BY <2>2, <4>1
    <3>4. differ \in BOOLEAN
      BY DEF differ
    <3>5. PICK y \in Elements(Data.problemsOld) : NameOf[y] = NameOf[x]
      BY <2>3, <2>6, <3>2, <3>3, <3>4, FilteredIsAProblem
    <3> QED BY <3>5 DEF NamesOf
  <2>8. ASSUME NEW x \in files \ inDb' PROVE NameOf[x] \in Reported
    <3>1. x \notin Data.installed
      BY <2>2
    <3>2. x \in Elements(new)
      BY <2>2, <2>5, <3>1
    <3>3. x \notin Elements(Filter(new, Data.problemsNew, differ))
      <4> SUFFICES ASSUME NEW i \in DOMAIN Data.updatedNew, Data.updatedNew[i] = x
                   PROVE  FALSE
        BY <2>5 DEF Elements
      <4>1. [rem |-> Data.updatedOld[i], inst |-> Data.updatedNew[i]] \in Todos(Data)
        BY <2>2, <2>4
      <4> QED BY <2>2, <4>1
    <3>4. differ \in BOOLEAN
      BY DEF differ
    <3>5. PICK y \in Elements(Data.problemsNew) : NameOf[y] = NameOf[x]
      BY <2>3, <2>6, <3>2, <3>3, <3>4, FilteredIsAProblem
    <3> QED BY <3>5 DEF NamesOf
  <2> QED BY <2>7, <2>8 DEF NamesOf
<1>2. DiffInv /\ [Round]_vars =>
        [Len(Data.updatedOld) = Len(Data.updatedNew) =>
           NamesOf((inDb' \ files) \cup (files \ inDb')) \subseteq Reported]_vars
  BY <1>1
<1> QED BY <1>2, DiffInvariant, PTL DEF Spec, LeftOverIsReported

\* Where updates are in the order of names, the loop that pairs them stays inside of
\* both, and pairs the same names, unless only the totals of the sizes are equal.
THEOREM DiffAssertions == Spec => []AssertionsHoldInOrder
<1> DEFINE old == Updated(inDb \ files, files \ inDb)
           new == Updated(files \ inDb, inDb \ files)
<1>1. ASSUME DiffInv, InOrder(old), InOrder(new)
      PROVE  /\ Len(Data.updatedOld) = Len(Data.updatedNew)
             /\ Len(old) # Len(new) \/ SameVersions(old, new) =>
                  \A u \in Pairs(Data) : NameOf[u[1]] = NameOf[u[2]]
  <2> DEFINE names == {NameOf[p] : p \in Packages}
  <2>1. old \in Seq(Packages) /\ new \in Seq(Packages)
    BY <1>1, SortedEnumerates DEF DiffInv, Updated
  <2>2. NameOrdered(old) /\ NameOrdered(new)
    BY <1>1 DEF InOrder, NameOrdered
  <2>3. /\ Len(Data.updatedOld) = Len(Data.updatedNew)
        /\ (\/ Len(old) # Len(new)
            \/ \A n \in Nat : Upto(old, Len(old), n) = Upto(new, Len(new), n))
           => \A k \in DOMAIN Data.updatedOld :
                NameOf[Data.updatedOld[k]] = NameOf[Data.updatedNew[k]]
    BY <1>1, <2>2, UpdatesMatch DEF Data, DiffInv
  <2> HIDE DEF old, new
  <2>4. ASSUME SameVersions(old, new), NEW n \in Nat
        PROVE  Upto(old, Len(old), n) = Upto(new, Len(new), n)
    <3>1. CASE n \in names
      <4>1. Versions(old, n) = Versions(new, n)
        BY <2>4, <3>1 DEF SameVersions
      <4>2. ASSUME NEW seq \in Seq(Packages) PROVE Versions(seq, n) = Upto(seq, Len(seq), n)
        <5>1. DOMAIN seq = 1..Len(seq)
          OBVIOUS
        <5>2. Versions(seq, n) = Cardinality({k \in DOMAIN seq : NameOf[seq[k]] = n})
          BY DEF Versions
        <5>3. Upto(seq, Len(seq), n) = Cardinality({k \in 1..Len(seq) : NameOf[seq[k]] = n})
          BY DEF Upto
        <5> QED BY <5>1, <5>2, <5>3
      <4> QED BY <2>1, <4>1, <4>2
    <3>2. CASE n \notin names
      <4>1. ASSUME NEW seq \in Seq(Packages) PROVE Upto(seq, Len(seq), n) = 0
        <5>1. \A k \in DOMAIN seq : NameOf[seq[k]] # n
          BY <3>2, ElementOfSeq
        <5>2. ~(Upto(seq, Len(seq), n) >= 1)
          BY <5>1, UptoSome
        <5>3. Upto(seq, Len(seq), n) \in Nat
          BY UptoStep
        <5> QED BY <5>2, <5>3
      <4> QED BY <2>1, <4>1
    <3> QED BY <3>1, <3>2
  <2>5. \A u \in Pairs(Data) : \E k \in DOMAIN Data.updatedOld :
          u = <<Data.updatedOld[k], Data.updatedNew[k]>>
    BY DEF Pairs
  <2> QED BY <2>3, <2>4, <2>5
<1>2. DiffInv => AssertionsHoldInOrder
  BY <1>1 DEF AssertionsHoldInOrder
<1> QED BY <1>2, DiffInvariant, PTL
=============================================================================
