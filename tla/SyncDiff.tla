------------------------------- MODULE SyncDiff -------------------------------
(***************************************************************************)
(* Cache::createUpdateSyncData() and SyncData of src/sbbdep/cache.cpp: the *)
(* difference between the packages of the database and the files of the    *)
(* package directory, sorted into removed, installed, reinstalled and      *)
(* updated packages.                                                       *)
(*                                                                         *)
(* A package stands for a full name, and is a number: its place in the     *)
(* order std::string gives full names.  NameOf is the name part of it,     *)
(* what PkgName::name() returns, by its place in the order of names.  The  *)
(* two orders need not agree: "foo-bar-1-x-1" < "foo-r2-x-1" as full       *)
(* names, but "foo" < "foo-bar" as names.                                  *)
(***************************************************************************)
EXTENDS Naturals, Sequences, FiniteSets

CONSTANTS Packages, NameOf

ASSUME DiffAssumption ==
  Packages \subseteq Nat \ {0} /\ IsFiniteSet(Packages) /\ NameOf \in [Packages -> Nat]

\* The empty string of a todo that only removes, or only installs.
NoPackage == 0

\* What a std::set of full names is, read from begin() to end().
Sorted(S) ==
  [i \in 1..Cardinality(S) |-> CHOOSE p \in S : Cardinality({q \in S : q < p}) = i - 1]

Elements(seq) == {seq[i] : i \in DOMAIN seq}

\* One turn of std::set_difference: i and j are at the heads of the two ranges.
MergeTurn(a, b, m) ==
  IF m.i > Len(a) THEN m
  ELSE IF m.j > Len(b) \/ NameOf[a[m.i]] < NameOf[b[m.j]]
       THEN [i |-> m.i + 1, j |-> m.j, out |-> Append(m.out, a[m.i])]
  ELSE IF NameOf[b[m.j]] < NameOf[a[m.i]] THEN [m EXCEPT !.j = @ + 1]
  ELSE [i |-> m.i + 1, j |-> m.j + 1, out |-> m.out]

MergeStart == [i |-> 1, j |-> 1, out |-> <<>>]

\* pkgNameDiff(): std::set_difference, a linear merge that takes it for granted that
\* both are sorted by name, and pairs off elements of the same name.
NameDiff(a, b) ==
  LET merge[n \in 0..Len(a) + Len(b)] ==
        IF n = 0 THEN MergeStart ELSE MergeTurn(a, b, merge[n - 1])
  IN  merge[Len(a) + Len(b)].out

\* Some package of S has the name of p.
IsIn(S, p) == \E q \in S : NameOf[q] = NameOf[p]

\* Mutant: no counterpart is looked for.
UpdatedAll(S, T) == Sorted(S)

\* Those of S that have a counterpart in T, in order.
Updated(S, T) == Sorted({p \in S : IsIn(T, p)})

\* Mutant: the sizes are not compared.
FilterNothing(mine, problems, differ) == mine

\* Mutant: as many are taken off the end.
FilterFromEnd(mine, problems, differ) ==
  IF differ THEN SubSeq(mine, 1, Len(mine) - Len(problems)) ELSE mine

\* "this means something is strange": the surplus is taken out of the updates.
Filter(mine, problems, differ) ==
  IF differ /\ problems # <<>> THEN NameDiff(mine, problems) ELSE mine

\* Mutant: every package that is newer counts as reinstalled.
ReinstalledAll(newer, installed) == newer

Reinstalled(newer, installed) == newer \ installed

\* The SyncData for a database with the packages inDb, and a directory with files,
\* newer among them having a later date than anything in the database.
UpdateSyncData(inDb, files, newer) ==
  LET gone    == inDb \ files
      came    == files \ inDb
      old     == Updated(gone, came)
      new     == Updated(came, gone)
      differ  == Len(old) # Len(new)
      diffOld == IF differ THEN NameDiff(old, new) ELSE <<>>
      diffNew == IF differ THEN NameDiff(new, old) ELSE <<>>
  IN [removed     |-> gone \ Elements(old),
      installed   |-> came \ Elements(new),
      reinstalled |-> Reinstalled(newer, came),
      updatedOld  |-> Filter(old, diffOld, differ),
      updatedNew  |-> Filter(new, diffNew, differ),
      problemsOld |-> diffOld,
      problemsNew |-> diffNew]

\* The loop that makes the pairs runs to the size of updatedOld: beyond the end of
\* updatedNew, when that is shorter, which is undefined behaviour.
Overruns(data) == Len(data.updatedOld) > Len(data.updatedNew)

Pairs(data) ==
  {<<data.updatedOld[i], data.updatedNew[i]>> :
     i \in (DOMAIN data.updatedOld) \cap (DOMAIN data.updatedNew)}

\* Mutant: reinstalled packages are not cleared first.
TodosNoClear(data) ==
  [rem : data.removed, inst : {NoPackage}]
  \cup {[rem |-> u[1], inst |-> u[2]] : u \in Pairs(data)}
  \cup [rem : {NoPackage}, inst : data.reinstalled \cup data.installed]

\* The todos of updateIndex(); their order is that of the picks only.
Todos(data) ==
  [rem : data.removed, inst : {NoPackage}]
  \cup {[rem |-> u[1], inst |-> u[2]] : u \in Pairs(data)}
  \cup {[rem |-> p, inst |-> p] : p \in data.reinstalled}
  \cup [rem : {NoPackage}, inst : data.installed]

\* The packages of the database when every todo was carried out.
PackagesAfter(inDb, data) ==
  (inDb \ {t.rem : t \in Todos(data)}) \cup ({t.inst : t \in Todos(data)} \ {NoPackage})
=============================================================================
