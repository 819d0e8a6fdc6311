------------------------------- MODULE ElfFile ------------------------------
(***************************************************************************)
(* ElfFile: what the program keeps of an ELF file.  A string of paths with *)
(* colons is the sequence of its paths, an empty one is <<>>.              *)
(***************************************************************************)
EXTENDS ElfReader, FileSystem

NotElf(name) ==
  [name |-> name, arch |-> 0, type |-> "NA", soName |-> "", needed |-> <<>>,
   rrunpaths |-> <<>>, hasRunPath |-> FALSE]

IsElf(elf) == elf.type \in {"Binary", "Library"}

HasRPath(elf) == ~elf.hasRunPath /\ elf.rrunpaths # <<>>
HasRunPath(elf) == elf.hasRunPath /\ elf.rrunpaths # <<>>

\* The loop over the colons ends at a path that is empty; what follows it is
\* not taken.
SplitPaths(paths) ==
  LET empties == {i \in 1..Len(paths) : paths[i] = <<>>}
  IN IF empties = {} THEN paths
     ELSE SubSeq(paths, 1, (CHOOSE i \in empties : \A j \in empties : i <= j) - 1)

TypeOfHeader(type) ==
  CASE type = "NONE" -> "NA"
    [] type = "EXEC" -> "Binary"
    [] type = "DYN" -> "Library"
    [] OTHER -> "Other"

\* Mutant: a RUNPATH adds to what was collected.
AfterEntryKeeps(elf, entry) ==
  CASE entry.tag = "NEEDED" -> [elf EXCEPT !.needed = Append(@, entry.str)]
    [] entry.tag = "SONAME" -> [elf EXCEPT !.soName = entry.str]
    [] entry.tag \in {"RPATH", "RUNPATH"} ->
         [elf EXCEPT !.rrunpaths = @ \o SplitPaths(entry.str)]
    [] OTHER -> elf

\* One entry of the dynamic section.
AfterEntry(elf, entry) ==
  CASE entry.tag = "NEEDED" -> [elf EXCEPT !.needed = Append(@, entry.str)]
    [] entry.tag = "SONAME" -> [elf EXCEPT !.soName = entry.str]
    [] entry.tag = "RPATH" ->
         [elf EXCEPT !.rrunpaths = @ \o SplitPaths(entry.str)]
    [] entry.tag = "RUNPATH" ->
         [elf EXCEPT !.rrunpaths = SplitPaths(entry.str), !.hasRunPath = TRUE]
    [] OTHER -> elf

\* The first dynamic section is read, and a library without a DT_SONAME gets
\* its file name, but only if there are entries.
Entries(img, sec) == [i \in 1..EntriesNum(sec) |-> Entry(img, sec, i)]

DynamicEntries(img) ==
  LET dyns == {i \in 1..SectionsNum(img) : SectionAt(img, i).type = "DYNAMIC"}
  IN IF dyns = {} THEN <<>>
     ELSE Entries(img, SectionAt(img, CHOOSE i \in dyns : \A j \in dyns : i <= j))

Named(elf) ==
  IF elf.type = "Library" /\ elf.soName = "" THEN [elf EXCEPT !.soName = Basename(elf.name)]
  ELSE elf

After(elf, entries) ==
  LET after[i \in 0..Len(entries)] ==
        IF i = 0 THEN elf ELSE AfterEntry(after[i - 1], entries[i])
  IN after[Len(entries)]

WithEntries(elf, entries) == IF entries = <<>> THEN elf ELSE Named(After(elf, entries))

WithDynamic(elf, img) == WithEntries(elf, DynamicEntries(img))

ElfOf(name, img) ==
  LET elf == [NotElf(name) EXCEPT !.arch = img.class,
                                  !.type = TypeOfHeader(img.type)]
  IN IF ~Loads(img) THEN NotElf(name)
     ELSE IF ~IsElf(elf) THEN elf
     ELSE WithDynamic(elf, img)

\* The file a path names, read through the links on its way.
ElfAt(fs, name) ==
  LET elf(at) == IF IsFileAt(fs, at) THEN ElfOf(name, fs[at].image) ELSE NotElf(name)
  IN elf(Chased(fs, name))

-----------------------------------------------------------------------------
(* Paths of the dynamic section, made absolute.                            *)

ReplaceORIGIN(origin, from) ==
  ReplaceFirstSubSeq(from, <<"$ORIGIN">>,
    ReplaceFirstSubSeq(Dirname(from), <<"$ORIGIN", "..">>, origin))

\* For an ELF file of no known class replaceLIB throws.
ReplaceLIB(path, arch) ==
  ReplaceFirstSubSeq(<<IF arch = 32 THEN "lib" ELSE "lib64">>, <<"$LIB">>, path)
=============================================================================
