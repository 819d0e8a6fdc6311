------------------------------ MODULE MCSyncDiff ------------------------------
(***************************************************************************)
(* The sync difference over every database and directory made of the seven *)
(* packages foo-1-x-1, foo-2-x-1, foo-3-x-1, foo-bar-1-x-1, foo-bar-2-x-1, *)
(* foo-bar-3-x-1 and foo-r4-x-1, numbered in the order of full names.  A   *)
(* round applies the difference, with every todo carried out.              *)
(***************************************************************************)
EXTENDS SyncDiff

MCPackages == 1..7
\* "foo" is 1, "foo-bar" is 2.
MCNameOf == <<1, 1, 1, 2, 2, 2, 1>>

VARIABLES inDb, files, newer, rounds

vars == <<inDb, files, newer, rounds>>

Data == UpdateSyncData(inDb, files, newer)

Init ==
  /\ inDb \in SUBSET Packages
  /\ files \in SUBSET Packages
  /\ newer \in SUBSET files
  /\ rounds = 0

\* A sync that does not run into undefined behaviour.
Round ==
  /\ rounds < 3 /\ ~Overruns(Data)
  /\ inDb' = PackagesAfter(inDb, Data)
  /\ newer' = {}
  /\ rounds' = rounds + 1
  /\ UNCHANGED files

Spec == Init /\ [][Round]_vars
-----------------------------------------------------------------------------

NamesOf(S) == {NameOf[p] : p \in S}

InOrder(seq) == \A i, j \in DOMAIN seq : i < j => NameOf[seq[i]] <= NameOf[seq[j]]

Versions(seq, name) == Cardinality({i \in DOMAIN seq : NameOf[seq[i]] = name})

\* As many versions of every name were removed as installed.
SameVersions(old, new) == \A n \in {NameOf[p] : p \in Packages} : Versions(old, n) = Versions(new, n)

\* Where the order of full names is one of names too, both assertions on the updates
\* (sizes, and names pair by pair) hold, surplus versions of a name or not: unless the
\* surplus of one name evens out that of another, for only the totals are compared.
AssertionsHoldInOrder ==
  LET old == Updated(inDb \ files, files \ inDb)
      new == Updated(files \ inDb, inDb \ files)
  IN  InOrder(old) /\ InOrder(new) =>
        /\ Len(Data.updatedOld) = Len(Data.updatedNew)
        /\ Len(old) # Len(new) \/ SameVersions(old, new) =>
             \A u \in Pairs(Data) : NameOf[u[1]] = NameOf[u[2]]

\* What updateIndex() needs: no full name is removed or installed by two todos.  It
\* could be, where the surplus is taken out of one side and paired on the other.
TodosAreDisjoint ==
  \A s, t \in Todos(Data) :
    s # t => ({s.rem, s.inst} \cap {t.rem, t.inst}) \subseteq {NoPackage}

\* No todo installs a package that has a row it does not clear.
TodosClearWhatTheyInstall ==
  \A t \in Todos(Data) : t.inst \in inDb => t.rem = t.inst

\* Where the sizes match, what a sync leaves different is of a name it reports as a
\* problem, names in order or not.  Where they do not, a package can be left out that
\* nothing tells of.
LeftOverIsReported ==
  [][Len(Data.updatedOld) = Len(Data.updatedNew) =>
       NamesOf((inDb' \ files) \cup (files \ inDb'))
         \subseteq NamesOf(Elements(Data.problemsOld) \cup Elements(Data.problemsNew))]_vars

\* cache.cpp:394: SBBASSERT (updataOld.size () == updateNew.size ()).
SizesMatch == Len(Data.updatedOld) = Len(Data.updatedNew)
=============================================================================
