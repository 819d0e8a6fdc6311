--------------------------- MODULE DependencyTree ---------------------------
(***************************************************************************)
(* bdTree() of src/cli/report_bdtree.cpp: printElfs() calls itself for     *)
(* every library it finds, with the sonames of the ELF files above it.     *)
(***************************************************************************)
EXTENDS LinkerSearch, CacheTables

CONSTANTS
  LdLines,      \* what ldconfig -p prints
  LdPath,       \* LD_LIBRARY_PATH
  StackLimit    \* bound of the calls of printElfs(): the process ends by a signal there

ASSUME TreeAssumption == StackLimit \in Nat \ {0}

VARIABLES
  roots,     \* ELF files of the package that are still to be printed
  tree,      \* the calls of printElfs() under way, the last one on top
  shown,     \* what printElf() has printed
  treeEnd    \* "", then "0" or "signal"

treeVars == <<roots, tree, shown, treeEnd>>

TreeInit == roots = <<>> /\ tree = <<>> /\ shown = {} /\ treeEnd = ""

\* Names of the C library: longer than "libc.so." and beginning with it.
IsLibc(so) == <<"libc.so.", so>> \in Starts

FindSo(fs, elf, so) == FindElfSo(fs, LdLines, LdPath, elf, so)

RealFile(fs, elf) == MakeRealPath(fs, PathOf(fs, elf.name)).url

\* printElf(): the file, and the packages it is of.
Shown(fs, db, so, elf, cycle) ==
  [so |-> so, file |-> RealFile(fs, elf), cycle |-> cycle,
   pkgs |-> PkgsOfFile(db, RealFile(fs, elf), elf.arch)]

\* via is the name the ELF file was found under, i the name to look at next.
Call(elf, via, parents) == [elf |-> elf, via |-> via, parents |-> parents, i |-> 1]

Busy == tree # <<>> /\ treeEnd = ""
HasNeeded == Busy /\ Last(tree).i <= Len(Last(tree).elf.needed)
Needs == Last(tree).elf.needed[Last(tree).i]

Passed == [tree EXCEPT ![Len(tree)].i = @ + 1]

\* The ELF files are printed one by one.
NextRoot ==
  /\ tree = <<>> /\ roots # <<>> /\ treeEnd = ""
  /\ tree' = <<Call(Head(roots), Head(roots).soName, {})>>
  /\ roots' = Tail(roots)
  /\ UNCHANGED <<shown, treeEnd>>

\* A name of the C library is left for later, one that is not found ends here.
PassOver(fs) ==
  /\ HasNeeded
  /\ IsLibc(Needs) \/ FindSo(fs, Last(tree).elf, Needs).arch # Last(tree).elf.arch
  /\ tree' = Passed
  /\ UNCHANGED <<roots, shown, treeEnd>>

IsCycle == Needs \in Last(tree).parents

\* Mutant: the own soname is not passed on to the calls below.
EnterForgets(fs, found) ==
  tree' = IF IsCycle \/ Len(tree) = StackLimit THEN Passed
          ELSE Append(Passed, Call(ElfAt(fs, RealFile(fs, found)), Needs, Last(tree).parents))

\* The call for what was found, if it is not a cycle, with the own soname passed on.
Enter(fs, found) ==
  tree' = IF IsCycle \/ Len(tree) = StackLimit THEN Passed
          ELSE Append(Passed, Call(ElfAt(fs, RealFile(fs, found)), Needs,
                                   Last(tree).parents \cup {Last(tree).elf.soName}))

\* A name that is a soname above the ELF file, its own one not counted, is a cycle;
\* otherwise the library found is gone into.
Descend(fs, db) ==
  /\ HasNeeded /\ ~IsLibc(Needs)
  /\ \E found \in {FindSo(fs, Last(tree).elf, Needs)} :
       /\ found.arch = Last(tree).elf.arch
       /\ shown' = shown \cup {Shown(fs, db, Needs, found, IsCycle)}
       /\ Enter(fs, found)
  /\ treeEnd' = IF ~IsCycle /\ Len(tree) = StackLimit THEN "signal" ELSE treeEnd
  /\ roots' = roots

Return ==
  /\ Busy /\ ~HasNeeded
  /\ tree' = Front(tree)
  /\ UNCHANGED <<roots, shown, treeEnd>>

\* printLIBC6() of the first ELF file: without one, or if the C library needs
\* nothing, the first element of an empty vector is read.
PrintLIBC6(fs, db, elfs) ==
  LET libc == IF elfs = <<>> THEN <<>> ELSE SelectSeq(elfs[1].needed, IsLibc)
      printed(so, elf) == Shown(fs, db, so, elf, FALSE)
  IN /\ tree = <<>> /\ roots = <<>> /\ treeEnd = ""
     /\ IF libc = <<>>
        THEN treeEnd' = (IF elfs = <<>> THEN "signal" ELSE "0") /\ UNCHANGED shown
        ELSE \E c6 \in {FindSo(fs, elfs[1], libc[1])} :
               /\ treeEnd' = IF IsElf(c6) /\ c6.needed = <<>> THEN "signal" ELSE "0"
               /\ shown' = shown
                    \cup {printed(libc[1], c) : c \in {d \in {c6} : IsElf(d)}}
                    \cup {printed(so, FindSo(fs, elfs[1], so)) :
                            so \in IF c6.needed = <<>> THEN {} ELSE {c6.needed[1]}}
     /\ UNCHANGED <<roots, tree>>

Printing(fs, db, elfs) ==
  NextRoot \/ PassOver(fs) \/ Descend(fs, db) \/ Return \/ PrintLIBC6(fs, db, elfs)

-----------------------------------------------------------------------------
(* What the tree is to show.                                               *)

\* The libraries an ELF file leads to directly.
Below(fs, elf) ==
  {[via |-> so, elf |-> ElfAt(fs, RealFile(fs, FindSo(fs, elf, so)))] :
     so \in {s \in Range(elf.needed) : ~IsLibc(s) /\ IsElf(FindSo(fs, elf, s))}}

\* Everything below the ELF files, in at most as many rounds as there are files.
AllBelow(fs, elfs) ==
  FoldLeft(LAMBDA found, i : found \cup UNION {Below(fs, b.elf) : b \in found},
           UNION {Below(fs, e) : e \in Range(elfs)},
           [i \in 1..Cardinality(DOMAIN fs) |-> i])

\* Each library has the soname it is needed by, and of each soname there is one.
WellNamed(fs, elfs) ==
  LET all == AllBelow(fs, elfs) \cup {[via |-> e.soName, elf |-> e] : e \in Range(elfs)}
  IN /\ \A b \in all : b.via = b.elf.soName
     /\ \A b, c \in all : b.elf.soName = c.elf.soName /\ b.via # "" => b.elf.name = c.elf.name

\* The cycle check compares needed names with sonames, ELF file by ELF file above
\* (printElfs()).  No ELF file is gone into again below itself, but directly below when it
\* needs itself, unless a library on the way was found under another name than its soname.
\* If no name is such a one, all that is below has been shown in the end, although what
\* follows a cycle is left out.
TreeComplete(fs, elfs) ==
  /\ \A i, j \in DOMAIN tree :
       i + 1 < j /\ tree[i].elf.name = tree[j].elf.name =>
         \E k \in i + 1..j : tree[k].via # tree[k].elf.soName
  /\ WellNamed(fs, elfs) /\ treeEnd = "0" =>
       \A b \in AllBelow(fs, elfs) : \E s \in shown : s.file = b.elf.name /\ s.so = b.via
=============================================================================
