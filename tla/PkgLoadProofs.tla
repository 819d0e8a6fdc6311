---------------------------- MODULE PkgLoadProofs ----------------------------
(***************************************************************************)
(* Pkg::Load(), for any file system, any package and any removals meanwhile:*)
(* its types, that a list's files are all taken, that a walk finds each as *)
(* often as it should, and when loading throws.                            *)
(***************************************************************************)
EXTENDS PkgLoad, FileSystemLemmas, FiniteSetTheorems

\* What is left of a file system that something is removed from.
Without(world, p) == [q \in {r \in DOMAIN world : ~IsPrefix(p, r)} |-> world[q]]

\* It is one, and has the directories that are not below what was removed.
LEMMA WithoutIs ==
  ASSUME NEW world, IsFileSystem(world), HaveContents(world), NEW p \in Seq(NodeNames)
  PROVE  /\ IsFileSystem(Without(world, p)) /\ HaveContents(Without(world, p))
         /\ \A d : IsDirAt(world, d) /\ ~IsPrefix(p, d) => IsDirAt(Without(world, p), d)
<1> DEFINE rest == Without(world, p)
<1>1. \A q : q \in DOMAIN rest <=> q \in DOMAIN world /\ ~IsPrefix(p, q)
  BY DEF Without
<1>2. \A q \in DOMAIN rest : rest[q] = world[q]
  BY DEF Without
<1> HIDE DEF rest
<1>3. IsFileSystem(rest)
  <2>1. ASSUME NEW q \in DOMAIN rest, NEW k \in 1..Len(q) - 1
        PROVE  SubSeq(q, 1, k) \in DOMAIN rest /\ rest[SubSeq(q, 1, k)].type = "ISDIR"
    <3> DEFINE s == SubSeq(q, 1, k)
    <3>1. q \in Seq(NodeNames) /\ s \in DOMAIN world /\ world[s].type = "ISDIR"
      BY <1>1, <2>1 DEF IsFileSystem
    <3>2. Len(s) = k /\ s \in Seq(NodeNames) /\ \A i \in 1..k : SubSeq(s, 1, i) = SubSeq(q, 1, i)
      BY <3>1, PartOfPart
    <3>3. IsPrefix(p, s) => IsPrefix(p, q)
      <4> HIDE DEF s
      <4> SUFFICES ASSUME IsPrefix(p, s) PROVE IsPrefix(p, q)
        OBVIOUS
      <4>1. Len(p) \in 0..k /\ Len(p) <= Len(q)
        BY <3>1, <3>2 DEF IsPrefix
      <4>2. SubSeq(s, 1, Len(p)) = SubSeq(q, 1, Len(p))
        BY <3>1, <3>2, <4>1
      <4> QED BY <4>1, <4>2 DEF IsPrefix
    <3> HIDE DEF s
    <3> QED BY <1>1, <1>2, <3>1, <3>3 DEF s
  <2> QED BY <1>1, <1>2, <2>1 DEF IsFileSystem
<1>4. HaveContents(rest)
  BY <1>1, <1>2 DEF HaveContents
<1>5. ASSUME NEW d, IsDirAt(world, d), ~IsPrefix(p, d) PROVE IsDirAt(rest, d)
  <2>1. \A q : IsLinkAt(rest, q) => IsLinkAt(world, q)
    BY <1>1, <1>2 DEF IsLinkAt
  <2>2. LinksOn(rest, d) \subseteq LinksOn(world, d)
    BY <2>1 DEF LinksOn
  <2>3. LinksOn(rest, d) = {}
    BY <1>5, <2>2 DEF IsDirAt, Landed
  <2> QED BY <1>1, <1>2, <1>5, <2>3 DEF IsDirAt, Landed, TypeAt
<1> QED BY <1>3, <1>4, <1>5 DEF rest

-----------------------------------------------------------------------------
(* The types, and what throws.                                             *)

\* The directories on the stack have no link on their path, and each is still
\* there or was removed.
Frames == [dir : Seq(NodeNames), listed : BOOLEAN, left : SUBSET NodeNames]

StillThere(d) == IsDirAt(fs, d) \/ \E p \in removed : IsPrefix(p, d)

LoadInv ==
  /\ PkgTypeOK
  /\ line \in Nat /\ (phase = "new" => line = 0)
  /\ elfFiles \in Seq(ToSet(elfFiles))
  /\ removed \subseteq Seq(NodeNames)
  /\ dirs \in Seq(Seq(PathNames))
  /\ frames \in Seq(Frames)
  /\ \A i \in 1..Len(frames) : StillThere(frames[i].dir)
  /\ phase = "threw" => frames # <<>> /\ \E p \in removed : IsPrefix(p, frames[1].dir)

\* What create() makes of any path of any file system is a package to load.
LEMMA LoadInit ==
  ASSUME NEW world, IsFileSystem(world), HaveContents(world), NEW url \in Seq(PathNames), NEW hint,
         PkgInit(world, url, hint)
  PROVE  LoadInv
<1>1. path.url \in Seq(PathNames) /\ path.type \in PathTypes
  BY RealPathIs DEF PkgInit
<1>2. type \in PkgTypes
  <2>1. type = TypeFor(path, hint)
    BY DEF PkgInit
  <2> QED BY <2>1 DEF TypeFor, PkgTypes
<1>3. elfFiles = <<>> /\ ToSet(elfFiles) = {}
  BY DEF PkgInit, ToSet
<1>4. PkgTypeOK
  BY <1>1, <1>2, <1>3 DEF PkgInit, PkgTypeOK
<1>5. frames = <<>> /\ dirs = <<>>
  BY DEF PkgInit
<1> QED BY <1>3, <1>4, <1>5 DEF PkgInit, LoadInv

\* A file that is appended is one of the package.
LEMMA OneMoreFile ==
  ASSUME elfFiles \in Seq(ToSet(elfFiles)), \A e \in ToSet(elfFiles) : IsElf(e),
         NEW more, more = <<>> \/ \E e : IsElf(e) /\ more = <<e>>
  PROVE  /\ elfFiles \o more \in Seq(ToSet(elfFiles \o more))
         /\ \A e \in ToSet(elfFiles \o more) : IsElf(e)
         /\ ToSet(elfFiles \o more) = ToSet(elfFiles) \union ToSet(more)
<1>1. more \in Seq(ToSet(more)) /\ \A e \in ToSet(more) : IsElf(e)
  <2>1. CASE more = <<>>
    BY <2>1 DEF ToSet
  <2>2. ASSUME NEW e, IsElf(e), more = <<e>>
        PROVE  more \in Seq(ToSet(more)) /\ \A x \in ToSet(more) : IsElf(x)
    <3>1. ToSet(more) = {e}
      BY <2>2, OneElement
    <3> QED BY <2>2, <3>1
  <2> QED BY <2>1, <2>2
<1> QED BY <1>1, PutBehind

\* Each step of Load() keeps it.
LEMMA LoadStep ==
  ASSUME LoadInv, [PkgNext]_pkgVars
  PROVE  LoadInv'
<1> USE DEF LoadInv
<1>1. CASE LoadUnknown
  BY <1>1 DEF LoadUnknown, PkgTypeOK, Lines, StillThere
<1>2. CASE LoadOneBinLib
  <2> DEFINE elf == ElfAt(fs, path.url)
  <2>1. elfFiles' = IF IsElf(elf) THEN <<elf>> ELSE <<>>
    BY <1>2 DEF LoadOneBinLib
  <2> HIDE DEF elf
  <2>2. elfFiles' \in Seq(ToSet(elfFiles')) /\ \A e \in ToSet(elfFiles') : IsElf(e)
    <3>1. CASE IsElf(elf)
      <4>1. elfFiles' = <<elf>> /\ ToSet(elfFiles') = {elf}
        BY <2>1, <3>1 DEF ToSet
      <4>2. elfFiles' \in Seq({elf}) /\ \A e \in {elf} : IsElf(e)
        BY <3>1, <4>1
      <4> QED BY <4>1, <4>2
    <3>2. CASE ~IsElf(elf)
      BY <2>1, <3>2 DEF ToSet
    <3> QED BY <3>1, <3>2
  <2> QED BY <1>2, <2>2 DEF LoadOneBinLib, PkgTypeOK, Lines, StillThere
<1>3. CASE OpenList
  <2>1. Len(Lines) \in Nat
    BY DEF PkgTypeOK, Lines, HaveContents
  <2> QED BY <1>3, <2>1 DEF OpenList, PkgTypeOK, Lines, StillThere, HeaderLines
<1>4. CASE ReadLine
  <2>1. Len(Lines) \in Nat
    BY DEF PkgTypeOK, Lines, HaveContents
  <2> DEFINE more == IF inList THEN ElfsOfLine(Lines[line]) ELSE <<>>
  <2>2. more = <<>> \/ \E e : IsElf(e) /\ more = <<e>>
    BY DEF ElfsOfLine
  <2>3. elfFiles' = elfFiles \o more
    <3>1. elfFiles \o <<>> = elfFiles
      BY ConcatEmptySeq
    <3> QED BY <1>4, <3>1 DEF ReadLine
  <2> HIDE DEF more
  <2>4. elfFiles' \in Seq(ToSet(elfFiles')) /\ \A e \in ToSet(elfFiles') : IsElf(e)
    BY <2>2, <2>3, OneMoreFile DEF PkgTypeOK
  <2>5. UNCHANGED <<fs, removed, path, type, phase, dirs, frames>> /\ line' = line + 1
        /\ line <= Len(Lines) /\ phase = "list"
    BY <1>4 DEF ReadLine
  <2>6. PkgTypeOK'
    BY <2>1, <2>4, <2>5 DEF PkgTypeOK, Lines, HeaderLines
  <2> QED BY <2>4, <2>5, <2>6 DEF StillThere
<1>5. CASE EndOfList
  BY <1>5 DEF EndOfList, PkgTypeOK, Lines, StillThere
<1>6. CASE StartWalk
  <2>1. BinDirs \o LdDirs \in Seq(Seq(PathNames))
    BY PkgLoadAssumption
  <2> QED BY <1>6, <2>1 DEF StartWalk, PkgTypeOK, Lines, StillThere
<1>7. CASE HandleDir
  <2> DEFINE d == MakeRealPath(fs, PathOf(fs, path.url \o Head(dirs)))
  <2>1. /\ phase = "walk" /\ dirs # <<>> /\ dirs' = Tail(dirs)
        /\ frames' = IF IsFolder(d) THEN <<Entered(d.url)>> ELSE <<>>
        /\ UNCHANGED <<fs, removed, path, type, phase, line, inList, elfFiles>>
    BY <1>7 DEF HandleDir
  <2>2. IsFolder(d) => d.url \in Seq(NodeNames) /\ IsDirAt(fs, d.url)
    <3>1. path.url \o Head(dirs) \in Seq(PathNames)
      BY <2>1 DEF PkgTypeOK
    <3> QED BY <3>1, RealPathIs DEF PkgTypeOK
  <2> HIDE DEF d
  <2>3. dirs' \in Seq(Seq(PathNames))
    BY <2>1
  <2>4. /\ frames' \in Seq(Frames)
        /\ \A i \in 1..Len(frames') : IsDirAt(fs, frames'[i].dir)
    <3>1. CASE IsFolder(d)
      <4>1. Entered(d.url) \in Frames /\ Entered(d.url).dir = d.url
        BY <2>2, <3>1 DEF Entered, Frames
      <4> QED BY <2>1, <2>2, <3>1, <4>1
    <3>2. CASE ~IsFolder(d)
      BY <2>1, <3>2
    <3> QED BY <3>1, <3>2
  <2>5. PkgTypeOK'
    BY <2>1 DEF PkgTypeOK, Lines
  <2> QED BY <2>1, <2>3, <2>4, <2>5 DEF StillThere
<1>8. CASE ListDir
  <2> DEFINE d == Head(frames).dir
  <2>1. /\ phase = "walk" /\ frames # <<>>
        /\ UNCHANGED <<fs, removed, path, type, line, inList, dirs, elfFiles>>
    BY <1>8 DEF ListDir
  <2>2. frames[1] \in Frames /\ d = frames[1].dir /\ d \in Seq(NodeNames) /\ StillThere(d)
        /\ 1 \in 1..Len(frames)
    <3>1. 1 \in 1..Len(frames) /\ Head(frames) = frames[1]
      BY <2>1
    <3>2. frames[1] \in Frames
      BY <3>1
    <3>3. StillThere(frames[1].dir)
      BY <3>1
    <3>4. frames[1].dir \in Seq(NodeNames)
      BY <3>2 DEF Frames
    <3> QED BY <3>1, <3>2, <3>3, <3>4
  <2> HIDE DEF d
  <2>3. CASE CanOpenDir(fs, d)
    <3>1. /\ frames' = [frames EXCEPT ![1].listed = TRUE, ![1].left = Content(fs, d)]
          /\ phase' = phase
      BY <1>8, <2>3 DEF ListDir, d
    <3>2. Content(fs, d) \in SUBSET NodeNames
      BY ContentIs DEF PkgTypeOK
    <3>3. frames' \in Seq(Frames) /\ Len(frames') = Len(frames)
          /\ \A i \in 1..Len(frames) : frames'[i].dir = frames[i].dir
      <4> DEFINE f == [frames[1] EXCEPT !.listed = TRUE, !.left = Content(fs, d)]
      <4>1. f \in Frames /\ f.dir = frames[1].dir
        BY <2>2, <3>2 DEF Frames
      <4>2. frames' = [frames EXCEPT ![1] = f]
        BY <2>2, <3>1 DEF Frames
      <4> HIDE DEF f
      <4> QED BY <2>2, <4>1, <4>2
    <3>4. PkgTypeOK'
      BY <2>1, <3>1 DEF PkgTypeOK, Lines
    <3> QED BY <2>1, <3>1, <3>3, <3>4 DEF StillThere
  <2>4. CASE ~CanOpenDir(fs, d)
    <3>1. phase' = "threw" /\ frames' = frames
      BY <1>8, <2>4 DEF ListDir, d
    <3>2. \E p \in removed : IsPrefix(p, frames[1].dir)
      BY <2>2, <2>4, DirOpens DEF PkgTypeOK, StillThere
    <3>3. PkgTypeOK'
      BY <2>1, <3>1 DEF PkgTypeOK, Lines
    <3> QED BY <2>1, <3>1, <3>2, <3>3 DEF StillThere
  <2> QED BY <2>3, <2>4
<1>9. CASE LeaveDir
  <2>1. /\ phase = "walk" /\ frames # <<>> /\ frames' = Tail(frames)
        /\ UNCHANGED <<fs, removed, path, type, phase, line, inList, dirs, elfFiles>>
    BY <1>9 DEF LeaveDir
  <2>2. frames' \in Seq(Frames) /\ \A i \in 1..Len(frames') : StillThere(frames'[i].dir)
    <3>1. frames' \in Seq(Frames) /\ Len(frames') = Len(frames) - 1 /\ Len(frames) \in Nat
          /\ \A i \in 1..Len(frames') : frames'[i] = frames[i + 1]
      BY <2>1
    <3>2. \A i \in 1..Len(frames') : i + 1 \in 1..Len(frames)
      BY <3>1
    <3> QED BY <3>1, <3>2
  <2>3. PkgTypeOK'
    BY <2>1 DEF PkgTypeOK, Lines
  <2> QED BY <2>1, <2>2, <2>3 DEF StillThere
<1>10. CASE EndOfWalk
  BY <1>10 DEF EndOfWalk, PkgTypeOK, Lines, StillThere
<1>11. ASSUME NEW name \in UNION {f.left : f \in ToSet(frames)}, WalkEntry(name) PROVE LoadInv'
  <2> DEFINE d == Head(frames).dir
             p == PathOf(fs, Append(d, name))
             top == [Head(frames) EXCEPT !.left = @ \ {name}]
             rest == <<top>> \o Tail(frames)
             more == IF IsRegularFile(p) /\ IsElf(ElfAt(fs, p.url)) THEN <<ElfAt(fs, p.url)>> ELSE <<>>
  <2>1. /\ phase = "walk" /\ frames # <<>> /\ name \in Head(frames).left
        /\ frames' = IF IsFolder(p) THEN <<Entered(p.url)>> \o rest ELSE rest
        /\ UNCHANGED <<fs, removed, path, type, phase, line, inList, dirs>>
    BY <1>11 DEF WalkEntry
  <2>2. elfFiles' = elfFiles \o more
    BY <1>11 DEF WalkEntry
  <2>3. elfFiles' \in Seq(ToSet(elfFiles')) /\ \A e \in ToSet(elfFiles') : IsElf(e)
    <3>1. more = <<>> \/ \E e : IsElf(e) /\ more = <<e>>
      OBVIOUS
    <3> HIDE DEF more
    <3> QED BY <2>2, <3>1, OneMoreFile DEF PkgTypeOK
  <2>4. frames[1] \in Frames /\ Head(frames) = frames[1] /\ 1 \in 1..Len(frames)
    BY <2>1
  <2>5. d \in Seq(NodeNames) /\ name \in NodeNames /\ StillThere(d)
    BY <2>1, <2>4 DEF Frames
  <2>6. top \in Frames /\ top.dir = d
    BY <2>4 DEF Frames
  <2>7. p.url = Append(d, name) /\ p.type = Lstat(fs, Append(d, name)) /\ Append(d, name) \in Seq(NodeNames)
    BY <2>5 DEF PathOf
  <2>8. IsFolder(p) => StillThere(Append(d, name))
    <3> SUFFICES ASSUME IsFolder(p) PROVE StillThere(Append(d, name))
      OBVIOUS
    <3>1. CASE IsDirAt(fs, d)
      BY <2>5, <2>7, <3>1, EntryIsDir DEF IsFolder, StillThere, PkgTypeOK
    <3>2. CASE \E q \in removed : IsPrefix(q, d)
      <4>1. PICK q \in removed : IsPrefix(q, d)
        BY <3>2
      <4>2. IsPrefix(q, Append(d, name))
        <5>1. q \in Seq(NodeNames)
          OBVIOUS
        <5> QED BY <2>5, <4>1, <5>1, PrefixOfLonger
      <4> QED BY <4>2 DEF StillThere
    <3> QED BY <2>5, <3>1, <3>2 DEF StillThere
  <2> HIDE DEF d, top, p
  <2>9. /\ rest \in Seq(Frames)
        /\ \A i \in 1..Len(rest) : StillThere(rest[i].dir)
    <3>1. Tail(frames) \in Seq(Frames) /\ Len(Tail(frames)) = Len(frames) - 1 /\ Len(frames) \in Nat
          /\ \A i \in 1..Len(Tail(frames)) : Tail(frames)[i] = frames[i + 1]
      BY <2>1
    <3>2. rest \in Seq(Frames) /\ Len(rest) = Len(frames) /\ rest[1] = top
          /\ \A i \in 2..Len(frames) : rest[i] = frames[i]
      BY <2>6, <3>1
    <3> HIDE DEF rest
    <3>3. ASSUME NEW i \in 1..Len(rest) PROVE StillThere(rest[i].dir)
      <4>1. CASE i = 1
        BY <2>5, <2>6, <3>2, <4>1
      <4>2. CASE i # 1
        <5>1. i \in 2..Len(frames) /\ i \in 1..Len(frames)
          BY <3>1, <3>2, <4>2
        <5> QED BY <3>2, <5>1
      <4> QED BY <4>1, <4>2
    <3> QED BY <3>2, <3>3
  <2> HIDE DEF rest
  <2>10. /\ frames' \in Seq(Frames)
         /\ \A i \in 1..Len(frames') : StillThere(frames'[i].dir)
    <3>1. CASE IsFolder(p)
      <4> DEFINE e == Entered(p.url)
      <4>1. e \in Frames /\ e.dir = Append(d, name)
        BY <2>7 DEF Entered, Frames
      <4>2. frames' = <<e>> \o rest
        BY <2>1, <3>1
      <4> HIDE DEF e
      <4>3. frames' \in Seq(Frames) /\ Len(frames') = Len(rest) + 1 /\ frames'[1] = e
            /\ Len(rest) \in Nat /\ \A i \in 1..Len(rest) : frames'[i + 1] = rest[i]
        BY <2>9, <4>1, <4>2
      <4>4. ASSUME NEW i \in 1..Len(frames') PROVE StillThere(frames'[i].dir)
        <5>1. CASE i = 1
          BY <2>8, <3>1, <4>1, <4>3, <5>1
        <5>2. CASE i # 1
          <6>1. i - 1 \in 1..Len(rest) /\ (i - 1) + 1 = i
            BY <4>3, <5>2
          <6> QED BY <2>9, <4>3, <6>1
        <5> QED BY <5>1, <5>2
      <4> QED BY <4>3, <4>4
    <3>2. CASE ~IsFolder(p)
      BY <2>1, <2>9, <3>2
    <3> QED BY <3>1, <3>2
  <2>11. PkgTypeOK'
    BY <2>1, <2>3 DEF PkgTypeOK, Lines
  <2> QED BY <2>1, <2>3, <2>10, <2>11 DEF StillThere
<1>12. ASSUME NEW p \in DOMAIN fs, Vanish(p) PROVE LoadInv'
  <2>1. /\ phase \in {"new", "list", "walk"}
        /\ phase = "list" => ~IsPrefix(p, path.url)
        /\ removed' = removed \union {p} /\ fs' = Without(fs, p)
        /\ UNCHANGED <<path, type, phase, line, inList, dirs, frames, elfFiles>>
    BY <1>12 DEF Vanish, Without
  <2>9. p \in Seq(NodeNames)
    BY DEF PkgTypeOK, IsFileSystem
  <2>2. IsFileSystem(fs') /\ HaveContents(fs')
    BY <2>1, <2>9, WithoutIs DEF PkgTypeOK
  <2>3. phase = "list" => Lines' = Lines
    BY <2>1 DEF Lines, Without
  <2>4. PkgTypeOK'
    BY <2>1, <2>2, <2>3 DEF PkgTypeOK
  <2>5. ASSUME NEW i \in 1..Len(frames) PROVE StillThere(frames[i].dir)'
    <3>1. StillThere(frames[i].dir)
      OBVIOUS
    <3>2. IsDirAt(fs, frames[i].dir) /\ ~IsPrefix(p, frames[i].dir) => IsDirAt(fs', frames[i].dir)
      BY <2>1, <2>9, WithoutIs DEF PkgTypeOK
    <3> QED BY <2>1, <3>1, <3>2 DEF StillThere
  <2>6. removed' \subseteq Seq(NodeNames)
    BY <2>1 DEF PkgTypeOK, IsFileSystem
  <2> QED BY <2>1, <2>4, <2>5, <2>6
<1>13. CASE UNCHANGED pkgVars
  BY <1>13 DEF pkgVars, PkgTypeOK, Lines, StillThere
<1> QED BY <1>1, <1>2, <1>3, <1>4, <1>5, <1>6, <1>7, <1>8, <1>9, <1>10, <1>11, <1>12, <1>13
        DEF PkgNext

\* Whatever the file system holds, whatever is loaded from it and whatever is
\* removed meanwhile.
LEMMA LoadKeeps ==
  ASSUME NEW world, IsFileSystem(world), HaveContents(world), NEW url \in Seq(PathNames), NEW hint
  PROVE  PkgInit(world, url, hint) /\ [][PkgNext]_pkgVars => []LoadInv
<1>1. PkgInit(world, url, hint) => LoadInv
  BY LoadInit
<1>2. LoadInv /\ [PkgNext]_pkgVars => LoadInv'
  BY LoadStep
<1> QED BY <1>1, <1>2, PTL

\* Pkg::Load() keeps its types, for any file system.
THEOREM LoadTypeCorrect ==
  ASSUME NEW world, IsFileSystem(world), HaveContents(world), NEW url \in Seq(PathNames), NEW hint
  PROVE  PkgInit(world, url, hint) /\ [][PkgNext]_pkgVars => []PkgTypeOK
<1>1. LoadInv => PkgTypeOK
  BY DEF LoadInv
<1> QED BY <1>1, LoadKeeps, PTL

\* The walk of a DESTDIR throws only where a directory was removed between
\* the lstat that found it and the opendir that lists it (Dir::forEach).
THEOREM LoadThrowsOnlyIfRemoved ==
  ASSUME NEW world, IsFileSystem(world), HaveContents(world), NEW url \in Seq(PathNames), NEW hint
  PROVE  PkgInit(world, url, hint) /\ [][PkgNext]_pkgVars => []ThrowsOnlyIfRemoved
<1>1. LoadInv => ThrowsOnlyIfRemoved
  <2>1. LoadInv /\ frames # <<>> => Head(frames) = frames[1]
    BY DEF LoadInv
  <2> QED BY <2>1 DEF LoadInv, ThrowsOnlyIfRemoved
<1> QED BY <1>1, LoadKeeps, PTL

-----------------------------------------------------------------------------
(* What a list names.                                                      *)

\* What was read of a list behind its "FILE LIST:" is among the files.
ListInv ==
  removed = {} /\ type = "Installed" /\ phase \in {"list", "loaded"} =>
    /\ phase = "loaded" => line > Len(Lines)
    /\ \A i \in HeaderLines + 1..Len(Lines) : i < line /\ Lines[i] = <<"FILE LIST:">> => inList
    /\ \A i, j \in HeaderLines + 1..Len(Lines) :
         i < j /\ j < line /\ Lines[i] = <<"FILE LIST:">> =>
           ToSet(ElfsOfLine(Lines[j])) \subseteq ToSet(elfFiles)

\* Each step of Load() keeps that, until something is removed.
LEMMA ListStep ==
  ASSUME LoadInv, ListInv, [PkgNext]_pkgVars
  PROVE  ListInv'
<1> SUFFICES ASSUME removed' = {}, type' = "Installed", phase' \in {"list", "loaded"}
             PROVE  ListInv'
  BY DEF ListInv
<1>1. CASE LoadUnknown
  BY <1>1 DEF LoadUnknown
<1>2. CASE LoadOneBinLib
  BY <1>2 DEF LoadOneBinLib
<1>3. CASE OpenList
  <2>1. phase' = "list" /\ line' = HeaderLines + 1 /\ UNCHANGED <<fs, path, elfFiles>>
    BY <1>3 DEF OpenList
  <2>2. \A i \in HeaderLines + 1..Len(Lines) : ~(i < line')
    BY <2>1 DEF HeaderLines
  <2>3. \A i, j \in HeaderLines + 1..Len(Lines) : ~(j < line')
    BY <2>2
  <2> QED BY <2>1, <2>2, <2>3 DEF ListInv, Lines
<1>4. CASE ReadLine
  <2>1. /\ phase = "list" /\ line <= Len(Lines) /\ line' = line + 1
        /\ inList' = (inList \/ Lines[line] = <<"FILE LIST:">>)
        /\ elfFiles' = IF inList THEN elfFiles \o ElfsOfLine(Lines[line]) ELSE elfFiles
        /\ UNCHANGED <<fs, removed, path, type, phase>>
    BY <1>4 DEF ReadLine
  <2>2. Lines' = Lines /\ \A pn : ElfsOfLine(pn)' = ElfsOfLine(pn)
    BY <2>1 DEF Lines, ElfsOfLine, FileToCheck
  <2>3. line \in Nat /\ Len(Lines) \in Nat
    BY DEF LoadInv, PkgTypeOK, Lines, HaveContents
  <2>4. /\ ToSet(elfFiles) \subseteq ToSet(elfFiles')
        /\ inList => ToSet(ElfsOfLine(Lines[line])) \subseteq ToSet(elfFiles')
    <3>1. ElfsOfLine(Lines[line]) = <<>> \/ \E e : IsElf(e) /\ ElfsOfLine(Lines[line]) = <<e>>
      BY DEF ElfsOfLine
    <3> DEFINE more == ElfsOfLine(Lines[line])
    <3> HIDE DEF more
    <3>2. ToSet(elfFiles \o more) = ToSet(elfFiles) \union ToSet(more)
      BY <3>1, OneMoreFile DEF LoadInv, PkgTypeOK, more
    <3> QED BY <2>1, <3>2 DEF more
  <2>7. \A k \in HeaderLines + 1..Len(Lines) : k < line' => k < line \/ k = line
    <3>1. \A k, n \in Int : k < n + 1 => k < n \/ k = n
      OBVIOUS
    <3>2. \A k \in HeaderLines + 1..Len(Lines) : k \in Int
      BY <2>3 DEF HeaderLines
    <3>3. line' = line + 1
      BY <1>4 DEF ReadLine
    <3>4. line \in Int
      BY <2>3
    <3> QED BY <3>1, <3>2, <3>3, <3>4
  <2>8. \A i, j \in HeaderLines + 1..Len(Lines) :
           i < j /\ j < line /\ Lines[i] = <<"FILE LIST:">> =>
             ToSet(ElfsOfLine(Lines[j])) \subseteq ToSet(elfFiles)
    BY <2>1 DEF ListInv
  <2>5. ASSUME NEW i \in HeaderLines + 1..Len(Lines), i < line', Lines[i] = <<"FILE LIST:">>
        PROVE  inList'
    <3>1. i < line \/ i = line
      BY <2>5, <2>7
    <3> QED BY <2>1, <2>5, <3>1 DEF ListInv
  <2>6. ASSUME NEW i \in HeaderLines + 1..Len(Lines), NEW j \in HeaderLines + 1..Len(Lines),
               i < j, j < line', Lines[i] = <<"FILE LIST:">>
        PROVE  ToSet(ElfsOfLine(Lines[j])) \subseteq ToSet(elfFiles')
    <3>1. j < line \/ j = line
      BY <2>6, <2>7
    <3>2. CASE j < line
      <4>1. ToSet(ElfsOfLine(Lines[j])) \subseteq ToSet(elfFiles)
        BY <2>6, <2>8, <3>2
      <4> QED BY <2>4, <4>1
    <3>3. CASE j = line
      <4>1. inList
        <5>1. i < line
          BY <2>6, <3>3
        <5> QED BY <2>1, <2>6, <5>1 DEF ListInv
      <4> QED BY <2>4, <3>3, <4>1
    <3> QED BY <3>1, <3>2, <3>3
  <2> QED BY <2>1, <2>2, <2>5, <2>6 DEF ListInv
<1>5. CASE EndOfList
  <2>1. /\ phase = "list" /\ line > Len(Lines)
        /\ UNCHANGED <<fs, removed, path, type, line, inList, elfFiles>>
    BY <1>5 DEF EndOfList
  <2>2. Lines' = Lines /\ \A pn : ElfsOfLine(pn)' = ElfsOfLine(pn)
    BY <2>1 DEF Lines, ElfsOfLine, FileToCheck
  <2> QED BY <2>1, <2>2 DEF ListInv
<1>6. CASE StartWalk
  BY <1>6 DEF StartWalk
<1>7. CASE HandleDir
  BY <1>7 DEF HandleDir
<1>8. CASE ListDir
  BY <1>8 DEF ListDir, LoadInv, PkgTypeOK
<1>9. CASE LeaveDir
  BY <1>9 DEF LeaveDir
<1>10. CASE EndOfWalk
  BY <1>10 DEF EndOfWalk, LoadInv, PkgTypeOK
<1>11. ASSUME NEW name \in UNION {f.left : f \in ToSet(frames)}, WalkEntry(name) PROVE ListInv'
  BY <1>11 DEF WalkEntry
<1>12. ASSUME NEW p \in DOMAIN fs, Vanish(p) PROVE ListInv'
  BY <1>12 DEF Vanish
<1>13. CASE UNCHANGED pkgVars
  <2>1. UNCHANGED <<fs, removed, path, type, phase, line, inList, elfFiles>>
    BY <1>13 DEF pkgVars
  <2>2. Lines' = Lines /\ \A pn : ElfsOfLine(pn)' = ElfsOfLine(pn)
    BY <2>1 DEF Lines, ElfsOfLine, FileToCheck
  <2> QED BY <2>1, <2>2 DEF ListInv
<1> QED BY <1>1, <1>2, <1>3, <1>4, <1>5, <1>6, <1>7, <1>8, <1>9, <1>10, <1>11, <1>12, <1>13
        DEF PkgNext

\* A path below a directory that is searched is one to check.
LEMMA BelowIsToCheck ==
  ASSUME NEW pn \in Seq(PathNames),
         NEW d \in ToSet(BinDirs \o LdDirs) \union {<<"opt">>}, IsStrictPrefix(d, pn)
  PROVE  IsToCheck(pn)
<1>1. Len(d) <= Len(pn) /\ SubSeq(d, 1, Len(d)) = SubSeq(pn, 1, Len(d)) /\ d # pn
  BY DEF IsStrictPrefix, IsPrefix
<1>2. ASSUME d \in Seq(PathNames) PROVE Leads(d, pn)
  <2>1. CASE d = <<>>
    BY <2>1 DEF Leads
  <2>2. CASE d # <<>>
    <3>1. Len(d) \in Nat \ {0} /\ Len(pn) \in Nat
      BY <1>2, <2>2
    <3>2. \A i \in 1..Len(d) : d[i] = pn[i]
      <4> TAKE i \in 1..Len(d)
      <4>1. SubSeq(d, 1, Len(d))[i] = d[i] /\ SubSeq(pn, 1, Len(d))[i] = pn[i]
        BY <1>1, <1>2, <3>1
      <4> QED BY <1>1, <4>1
    <3> QED BY <1>1, <3>1, <3>2 DEF Leads, Last
  <2> QED BY <2>1, <2>2
<1>3. CASE d \in ToSet(BinDirs \o LdDirs)
  <2>1. BinDirs \in Seq(Seq(PathNames)) /\ LdDirs \in Seq(Seq(PathNames))
    BY PkgLoadAssumption
  <2>2. \/ \E i \in 1..Len(BinDirs) : d = BinDirs[i]
        \/ \E i \in 1..Len(LdDirs) : d = LdDirs[i]
    <3>1. PICK i \in 1..Len(BinDirs) + Len(LdDirs) : d = (BinDirs \o LdDirs)[i]
      BY <1>3, <2>1 DEF ToSet
    <3>2. CASE i <= Len(BinDirs)
      <4>1. i \in 1..Len(BinDirs) /\ (BinDirs \o LdDirs)[i] = BinDirs[i]
        BY <2>1, <3>1, <3>2
      <4> QED BY <3>1, <4>1
    <3>3. CASE i > Len(BinDirs)
      <4>1. i - Len(BinDirs) \in 1..Len(LdDirs)
            /\ (BinDirs \o LdDirs)[i] = LdDirs[i - Len(BinDirs)]
        BY <2>1, <3>1, <3>3
      <4> QED BY <3>1, <4>1
    <3> QED BY <2>1, <3>1, <3>2, <3>3
  <2>3. d \in Seq(PathNames)
    BY <2>1, <2>2
  <2> QED BY <1>2, <2>2, <2>3 DEF IsToCheck
<1>4. CASE d = <<"opt">>
  <2>1. Len(d) = 1 /\ d[1] = "opt"
    BY <1>4
  <2>2. Len(pn) \in Nat /\ Len(pn) >= 1
    BY <1>1, <2>1
  <2>3. pn[1] = "opt"
    <3>1. SubSeq(d, 1, 1)[1] = d[1] /\ SubSeq(pn, 1, 1)[1] = pn[1]
      BY <2>2
    <3> QED BY <1>1, <2>1, <3>1
  <2>4. Len(pn) # 1
    <3> SUFFICES ASSUME Len(pn) = 1 PROVE FALSE
      OBVIOUS
    <3>1. pn = <<"opt">>
      BY <2>3
    <3> QED BY <1>1, <1>4, <3>1
  <2>5. Len(pn) >= 2
    <3>1. \A n \in Nat : n >= 1 /\ n # 1 => n >= 2
      OBVIOUS
    <3> QED BY <2>2, <2>4, <3>1
  <2>6. Leads(<<"opt", "">>, pn)
    <3> DEFINE opt == <<"opt", "">>
    <3>1. Len(opt) = 2 /\ opt[1] = "opt" /\ opt[2] = NoName /\ opt # <<>>
      BY DEF NoName
    <3> HIDE DEF opt
    <3>2. Len(opt) <= Len(pn)
      BY <2>2, <2>5, <3>1
    <3>3. \A i \in 1..Len(opt) - 1 : opt[i] = pn[i]
      BY <2>3, <3>1
    <3>4. Last(opt) \in {NoName, pn[Len(opt)]}
      BY <3>1 DEF Last
    <3>5. Leads(opt, pn)
      BY <3>2, <3>3, <3>4 DEF Leads
    <3> QED BY <3>5 DEF opt
  <2> QED BY <2>6 DEF IsToCheck
<1> QED BY <1>3, <1>4

\* The lines behind the header are lines, and read once all are.
LEMMA BehindHeader ==
  ASSUME NEW n \in Nat, NEW j \in HeaderLines + 1..n
  PROVE  j \in 1..n /\ \A k \in Nat : k > n => j < k
BY DEF HeaderLines

\* What a name becomes in its directory's directory.
LEMMA MovedUp ==
  ASSUME NEW pn \in Seq(PathNames), Basename(Dirname(pn)) = "incoming"
  PROVE  Basename(Append(Dirname(Dirname(pn)), Basename(pn))) = Basename(pn)
<1> DEFINE name == Basename(pn)
           up == Dirname(Dirname(pn))
           r == Append(up, name)
<1>1. ASSUME NEW q \in Seq(PathNames) PROVE Dirname(q) \in Seq(PathNames)
  <2> DEFINE u == Unslashed(q)
  <2>1. u \in Seq(PathNames)
    BY UnslashedIs
  <2> HIDE DEF u
  <2>2. u # <<>> => Front(u) \in Seq(PathNames)
    BY <2>1 DEF Front
  <2>3. u # <<>> => Unslashed(Front(u)) \in Seq(PathNames)
    BY <2>2, UnslashedIs
  <2> QED BY <2>3 DEF Dirname, u
<1>2. name \in PathNames /\ name # NoName
  <2> DEFINE u == Unslashed(pn)
  <2>1. u \in Seq(PathNames) /\ (u # <<>> => Last(u) # NoName)
    BY UnslashedIs
  <2>2. u # <<>>
    <3> SUFFICES ASSUME u = <<>> PROVE FALSE
      OBVIOUS
    <3>1. Unslashed(<<>>) = <<>>
      BY UnslashedIs, EmptySeq
    <3>2. Basename(Dirname(pn)) = "/"
      BY <3>1 DEF Dirname, Basename
    <3> QED BY <3>2
  <2> HIDE DEF u
  <2>3. Last(u) \in PathNames
    BY <2>1, <2>2 DEF Last
  <2> QED BY <2>1, <2>2, <2>3 DEF Basename, u
<1>3. up \in Seq(PathNames)
  BY <1>1
<1> HIDE DEF name, up
<1>4. r \in Seq(PathNames) /\ r # <<>> /\ Last(r) = name
  BY <1>2, <1>3 DEF Last
<1> HIDE DEF r
<1>5. Unslashed(r) = r
  BY <1>2, <1>4, UnslashedIs
<1>6. Basename(r) = Last(r)
  BY <1>4, <1>5 DEF Basename
<1> QED BY <1>4, <1>6 DEF r, name, up

\* The file that is checked for a line is the one in place.
LEMMA ChecksInPlace ==
  ASSUME NEW pn \in Seq(PathNames), IsElfFile(InPlace(pn)),
         InPlace(pn) = pn \/ Basename(InPlace(pn)) \notin DotNew
  PROVE  FileToCheck(pn) = PathOf(fs, InPlace(pn))
<1> DEFINE p == InPlace(pn)
<1>1. CASE p = pn
  <2>1. IsValid(PathOf(fs, pn))
    BY <1>1 DEF IsElfFile, IsValid, PathOf
  <2> QED BY <1>1, <2>1 DEF FileToCheck
<1>2. CASE p # pn
  <2>1. /\ ~IsValid(PathOf(fs, pn)) /\ Basename(Dirname(pn)) = "incoming"
        /\ p = Append(Dirname(Dirname(pn)), Basename(pn))
    BY <1>2 DEF InPlace
  <2>2. Basename(p) = Basename(pn)
    BY <2>1, MovedUp
  <2>3. Basename(pn) \notin DotNew
    BY <1>2, <2>2
  <2> QED BY <2>1, <2>3 DEF FileToCheck
<1> QED BY <1>1, <1>2

\* A list that was read to its end gives what it names.
LEMMA ListGivesAll ==
  ASSUME LoadInv, ListInv
  PROVE  NothingMissed
<1> SUFFICES ASSUME phase = "loaded", type = "Installed", removed = {},
                    NEW i \in HeaderLines + 1..Len(Lines), NEW j \in HeaderLines + 1..Len(Lines),
                    i < j, Lines[i] = <<"FILE LIST:">>,
                    IsElfFile(InPlace(Lines[j])),
                    InPlace(Lines[j]) = Lines[j] \/ Basename(InPlace(Lines[j])) \notin DotNew,
                    NEW d \in ToSet(BinDirs \o LdDirs) \union {<<"opt">>},
                    IsStrictPrefix(d, Lines[j])
             PROVE  ElfAt(fs, InPlace(Lines[j])) \in ToSet(elfFiles)
  BY DEF NothingMissed
<1> DEFINE pn == Lines[j]
           elf == ElfAt(fs, InPlace(pn))
<1>1. Lines \in Seq(Seq(PathNames)) /\ line \in Nat
  BY DEF Lines, LoadInv, PkgTypeOK, HaveContents
<1>2. line > Len(Lines)
  BY DEF ListInv
<1>3. Len(Lines) \in Nat
  BY <1>1, LenProperties
<1>4. j \in 1..Len(Lines) /\ j < line
  BY <1>1, <1>2, <1>3, BehindHeader
<1>5. pn \in Seq(PathNames)
  BY <1>1, <1>4, ElementOfSeq
<1>6. ToSet(ElfsOfLine(pn)) \subseteq ToSet(elfFiles)
  BY <1>4 DEF ListInv
<1>7. ElfsOfLine(pn) = <<elf>>
  <2>1. IsToCheck(pn)
    BY <1>5, BelowIsToCheck
  <2>2. FileToCheck(pn) = PathOf(fs, InPlace(pn))
    BY <1>5, ChecksInPlace
  <2>3. Lstat(fs, InPlace(pn)) = "ISREG" /\ IsElf(elf)
    BY DEF IsElfFile
  <2>4. PathOf(fs, InPlace(pn)).url = InPlace(pn) /\ IsRegularFile(PathOf(fs, InPlace(pn)))
    BY <2>3 DEF PathOf, IsRegularFile
  <2> QED BY <2>1, <2>2, <2>3, <2>4 DEF ElfsOfLine
<1> HIDE DEF elf, pn
<1>8. elf \in ToSet(<<elf>>)
  BY OneElement
<1>9. elf \in ToSet(elfFiles)
  BY <1>6, <1>7, <1>8
<1> QED BY <1>9 DEF elf, pn

\* A loaded installed package has every ELF file its list names, for any
\* file system and any list.
THEOREM LoadMissesNothing ==
  ASSUME NEW world, IsFileSystem(world), HaveContents(world), NEW url \in Seq(PathNames), NEW hint
  PROVE  PkgInit(world, url, hint) /\ [][PkgNext]_pkgVars => []NothingMissed
<1>1. PkgInit(world, url, hint) => ListInv
  BY DEF PkgInit, ListInv
<1>2. LoadInv /\ LoadInv' /\ ListInv /\ [PkgNext]_pkgVars => ListInv'
  BY ListStep
<1>3. LoadInv /\ ListInv => NothingMissed
  BY ListGivesAll
<1> QED BY <1>1, <1>2, <1>3, LoadKeeps, PTL

-----------------------------------------------------------------------------
(* What a DESTDIR holds.                                                   *)

\* What is kept of a file of a file system is kept under its name.
LEMMA ElfHasName ==
  ASSUME NEW world, HaveContents(world), NEW name
  PROVE  ElfAt(world, name).name = name
<1> DEFINE at == Chased(world, name)
<1>1. CASE IsFileAt(world, at)
  <2>1. at \in DOMAIN world /\ world[at].type = "ISREG"
    <3> HIDE DEF at
    <3> QED BY <1>1 DEF IsFileAt, TypeAt
  <2>2. HasSizes(world[at].image)
    BY <2>1 DEF HaveContents
  <2>3. ElfAt(world, name) = ElfOf(name, world[at].image)
    BY <1>1, Zenon DEF ElfAt
  <2> QED BY <2>2, <2>3, ElfOfHasName
<1>2. CASE ~IsFileAt(world, at)
  <2>1. ElfAt(world, name) = NotElf(name)
    BY <1>2, Zenon DEF ElfAt
  <2>2. HasName(NotElf(name), name)
    BY Zenon DEF NotElf, HasName
  <2> QED BY <2>1, <2>2 DEF HasName
<1> QED BY <1>1, <1>2

\* Where one directory leads to; where a listing leads to from it, which skips
\* some names.
Under(d, p) == Len(d) < Len(p) /\ \A k \in 1..Len(d) : d[k] = p[k]

Comes(d, p) == Under(d, p) /\ \A k \in Len(d) + 1..Len(p) : p[k] \notin Ignored

\* What is under a path is what the path is a proper beginning of.
LEMMA UnderIs ==
  ASSUME NEW d \in Seq(PathNames), NEW p \in Seq(PathNames)
  PROVE  IsStrictPrefix(d, p) <=> Under(d, p)
<1>1. ASSUME IsStrictPrefix(d, p) PROVE Under(d, p)
  <2>1. Len(d) <= Len(p) /\ SubSeq(d, 1, Len(d)) = SubSeq(p, 1, Len(d)) /\ d # p
    BY <1>1 DEF IsStrictPrefix, IsPrefix
  <2>2. \A k \in 1..Len(d) : d[k] = p[k]
    <3>1. Len(d) \in 0..Len(p) /\ Len(d) \in 0..Len(d)
      BY <2>1
    <3>2. /\ \A k \in 1..Len(d) : SubSeq(d, 1, Len(d))[k] = d[k]
          /\ \A k \in 1..Len(d) : SubSeq(p, 1, Len(d))[k] = p[k]
      BY <3>1, PartOfPart
    <3> QED BY <2>1, <3>2
  <2>3. Len(d) # Len(p)
    BY <2>1, <2>2, SeqEqual
  <2> QED BY <2>1, <2>2, <2>3 DEF Under
<1>2. ASSUME Under(d, p) PROVE IsStrictPrefix(d, p)
  <2>1. Len(d) \in 0..Len(p) /\ Len(d) \in 0..Len(d) /\ Len(d) # Len(p)
    BY <1>2 DEF Under
  <2> DEFINE a == SubSeq(d, 1, Len(d))
             b == SubSeq(p, 1, Len(d))
  <2>2. /\ a \in Seq(PathNames) /\ Len(a) = Len(d) /\ \A k \in 1..Len(d) : a[k] = d[k]
        /\ b \in Seq(PathNames) /\ Len(b) = Len(d) /\ \A k \in 1..Len(d) : b[k] = p[k]
    BY <2>1, PartOfPart
  <2> HIDE DEF a, b
  <2>3. a = b
    BY <1>2, <2>2, SeqEqual DEF Under
  <2>4. d # p
    BY <2>1
  <2> QED BY <2>1, <2>3, <2>4 DEF IsStrictPrefix, IsPrefix, a, b
<1> QED BY <1>1, <1>2

\* What a path leads through is there.
LEMMA WayIsThere ==
  ASSUME NEW world, IsFileSystem(world), NEW p \in DOMAIN world, NEW d \in Seq(NodeNames), Under(d, p)
  PROVE  LET name == p[Len(d) + 1]
             q == Append(d, name)
         IN /\ name \in NodeNames /\ q \in DOMAIN world
            /\ q = p \/ (Under(q, p) /\ world[q].type = "ISDIR")
<1> DEFINE n == Len(d) + 1
           q == Append(d, p[n])
<1>1. p \in Seq(NodeNames) /\ n \in 1..Len(p) /\ p[n] \in NodeNames
  BY DEF IsFileSystem, Under
<1>2. q \in Seq(NodeNames) /\ Len(q) = n /\ \A k \in 1..n : q[k] = p[k]
  BY <1>1 DEF Under
<1>3. SubSeq(p, 1, n) \in Seq(NodeNames) /\ Len(SubSeq(p, 1, n)) = n
      /\ \A k \in 1..n : SubSeq(p, 1, n)[k] = p[k]
  BY <1>1, PartOfPart
<1>4. SubSeq(p, 1, n) = q
  <2> HIDE DEF q, n
  <2> QED BY <1>2, <1>3, SeqEqual
<1> HIDE DEF q
<1>5. CASE n = Len(p)
  <2>1. q = p
    BY <1>1, <1>2, <1>5, SeqEqual
  <2> QED BY <1>1, <2>1 DEF q
<1>6. CASE n # Len(p)
  <2>1. n \in 1..Len(p) - 1
    BY <1>1, <1>6
  <2>2. q \in DOMAIN world /\ world[q].type = "ISDIR"
    BY <1>4, <2>1 DEF IsFileSystem
  <2>3. Under(q, p)
    BY <1>1, <1>2, <1>6 DEF Under
  <2> QED BY <1>1, <2>2, <2>3 DEF q
<1> QED BY <1>5, <1>6

\* A directory on the stack will still lead to a file; some of them will.
Reaches(f, p) == Comes(f.dir, p) /\ (f.listed => p[Len(f.dir) + 1] \in f.left)

Pending(stack, p) == \E k \in 1..Len(stack) : Reaches(stack[k], p)

\* What is on the stack are directories in directories, and no name of one is
\* left that is gone into.
IsStack(world, stack) ==
  /\ stack \in Seq(Frames)
  /\ \A k \in 1..Len(stack) :
       /\ IsDirAt(world, stack[k].dir)
       /\ stack[k].left \subseteq Content(world, stack[k].dir)
       /\ ~stack[k].listed => stack[k].left = {}
  /\ \A j, k \in 1..Len(stack) : k < j =>
       /\ stack[j].listed /\ Under(stack[j].dir, stack[k].dir)
       /\ stack[k].dir[Len(stack[j].dir) + 1] \notin stack[j].left

\* A directory in the one on top is put on the stack.
LEMMA PushedIs ==
  ASSUME NEW world, NEW stack, IsStack(world, stack), stack # <<>>, stack[1].listed,
         NEW name \in NodeNames, name \notin stack[1].left,
         IsDirAt(world, Append(stack[1].dir, name))
  PROVE  LET q == Append(stack[1].dir, name)
         IN /\ IsStack(world, <<Entered(q)>> \o stack)
            /\ \A p : Pending(<<Entered(q)>> \o stack, p) <=> Comes(q, p) \/ Pending(stack, p)
<1> DEFINE d == stack[1].dir
           q == Append(d, name)
           top == Entered(q)
           more == <<top>> \o stack
<1>1. /\ stack \in Seq(Frames) /\ Len(stack) \in Nat /\ 1 \in 1..Len(stack)
      /\ \A k \in 1..Len(stack) : stack[k] \in Frames
  BY DEF IsStack
<1>2. d \in Seq(NodeNames) /\ q \in Seq(NodeNames)
  <2>1. stack[1] \in Frames
    BY <1>1
  <2>2. d \in Seq(NodeNames)
    BY <2>1 DEF Frames
  <2> QED BY <2>2
<1>3. Len(q) = Len(d) + 1 /\ q[Len(d) + 1] = name /\ \A k \in 1..Len(d) : q[k] = d[k]
  BY <1>2
<1> HIDE DEF q, d
<1>4. top.dir = q /\ top.listed = FALSE /\ top.left = {} /\ top \in Frames
  BY <1>2 DEF Entered, Frames
<1> HIDE DEF top
<1>5. /\ more \in Seq(Frames) /\ Len(more) = Len(stack) + 1 /\ more[1] = top
      /\ \A k \in 1..Len(stack) : more[k + 1] = stack[k]
  BY <1>1, <1>4
<1> HIDE DEF more
<1>6. \A k \in 1..Len(more) : k = 1 \/ (k - 1 \in 1..Len(stack) /\ more[k] = stack[k - 1])
  <2> SUFFICES ASSUME NEW k \in 1..Len(more), k # 1
               PROVE  k - 1 \in 1..Len(stack) /\ more[k] = stack[k - 1]
    OBVIOUS
  <2>1. k - 1 \in 1..Len(stack) /\ (k - 1) + 1 = k
    BY <1>1, <1>5
  <2> QED BY <1>5, <2>1
<1>7. ASSUME NEW k \in 1..Len(more)
      PROVE  /\ IsDirAt(world, more[k].dir)
             /\ more[k].left \subseteq Content(world, more[k].dir)
             /\ ~more[k].listed => more[k].left = {}
  <2>1. CASE k = 1
    BY <1>4, <1>5, <2>1 DEF q, d
  <2>2. CASE k # 1
    BY <1>6, <2>2 DEF IsStack
  <2> QED BY <2>1, <2>2
<1>8. ASSUME NEW j \in 1..Len(more), NEW k \in 1..Len(more), k < j
      PROVE  /\ more[j].listed /\ Under(more[j].dir, more[k].dir)
             /\ more[k].dir[Len(more[j].dir) + 1] \notin more[j].left
  <2>1. j - 1 \in 1..Len(stack) /\ more[j] = stack[j - 1]
    BY <1>6, <1>8
  <2>2. CASE k # 1
    <3>1. k - 1 \in 1..Len(stack) /\ more[k] = stack[k - 1] /\ k - 1 < j - 1
      BY <1>6, <1>8, <2>1, <2>2
    <3> QED BY <2>1, <3>1 DEF IsStack
  <2>3. CASE k = 1 /\ j = 2
    <3>1. more[j] = stack[1] /\ more[k].dir = q
      BY <1>4, <1>5, <2>1, <2>3
    <3>2. Under(d, q)
      BY <1>2, <1>3 DEF Under
    <3> QED BY <1>3, <3>1, <3>2 DEF d
  <2>4. CASE k = 1 /\ j # 2
    <3>1. 1 < j - 1 /\ more[k].dir = q
      BY <1>4, <1>5, <1>8, <2>1, <2>4
    <3> DEFINE e == stack[j - 1].dir
    <3>2. /\ stack[j - 1].listed /\ Under(e, d)
          /\ d[Len(e) + 1] \notin stack[j - 1].left
      BY <1>1, <2>1, <3>1 DEF IsStack, d
    <3>3. e \in Seq(NodeNames)
      <4>1. stack[j - 1] \in Frames
        BY <1>1, <2>1
      <4> QED BY <4>1 DEF Frames
    <3> HIDE DEF e
    <3>4. Len(e) + 1 \in 1..Len(d)
      BY <1>2, <3>2, <3>3 DEF Under
    <3>5. Under(e, q) /\ q[Len(e) + 1] = d[Len(e) + 1]
      BY <1>2, <1>3, <3>2, <3>3, <3>4 DEF Under
    <3> QED BY <2>1, <3>1, <3>2, <3>5 DEF e
  <2> QED BY <2>2, <2>3, <2>4
<1>9. IsStack(world, more)
  BY <1>5, <1>7, <1>8 DEF IsStack
<1>10. ASSUME NEW p PROVE Pending(more, p) <=> Comes(q, p) \/ Pending(stack, p)
  <2>1. Reaches(more[1], p) <=> Comes(q, p)
    BY <1>4, <1>5 DEF Reaches
  <2>2. ASSUME Pending(more, p) PROVE Comes(q, p) \/ Pending(stack, p)
    <3>1. PICK k \in 1..Len(more) : Reaches(more[k], p)
      BY <2>2 DEF Pending
    <3> QED BY <1>6, <2>1, <3>1 DEF Pending
  <2>3. ASSUME Comes(q, p) PROVE Pending(more, p)
    <3>1. 1 \in 1..Len(more)
      BY <1>1, <1>5
    <3> QED BY <2>1, <2>3, <3>1 DEF Pending
  <2>4. ASSUME Pending(stack, p) PROVE Pending(more, p)
    <3>1. PICK k \in 1..Len(stack) : Reaches(stack[k], p)
      BY <2>4 DEF Pending
    <3>2. k + 1 \in 1..Len(more) /\ more[k + 1] = stack[k]
      BY <1>1, <1>5
    <3> QED BY <3>1, <3>2 DEF Pending
  <2> QED BY <2>2, <2>3, <2>4
<1> QED BY <1>9, <1>10 DEF more, top, q, d

\* The directory on top of the stack has other names left.
SameBut(stack, other, f) ==
  /\ other \in Seq(Frames) /\ Len(other) = Len(stack) /\ other[1] = f
  /\ \A k \in 2..Len(stack) : other[k] = stack[k]

\* A stack with another top is such a stack.
LEMMA ToppedIs ==
  ASSUME NEW world, NEW stack, IsStack(world, stack), stack # <<>>,
         NEW other, NEW f \in Frames, SameBut(stack, other, f),
         f.dir = stack[1].dir, f.left \subseteq Content(world, f.dir), ~f.listed => f.left = {}
  PROVE  /\ IsStack(world, other)
         /\ \A p : Pending(other, p) <=>
              Reaches(f, p) \/ \E k \in 2..Len(stack) : Reaches(stack[k], p)
<1>1. Len(stack) \in Nat /\ 1 \in 1..Len(stack) /\ Len(other) = Len(stack) /\ other[1] = f
      /\ \A k \in 1..Len(stack) : k = 1 \/ (k \in 2..Len(stack) /\ other[k] = stack[k])
  BY DEF IsStack, SameBut
<1>2. \A k \in 1..Len(stack) : other[k].dir = stack[k].dir
  BY <1>1
<1>3. ASSUME NEW k \in 1..Len(stack)
      PROVE  /\ IsDirAt(world, other[k].dir)
             /\ other[k].left \subseteq Content(world, other[k].dir)
             /\ ~other[k].listed => other[k].left = {}
  <2>1. IsDirAt(world, other[k].dir)
    BY <1>2 DEF IsStack
  <2>2. CASE k = 1
    BY <1>1, <2>1, <2>2
  <2>3. CASE k # 1
    BY <1>1, <2>3 DEF IsStack
  <2> QED BY <2>1, <2>2, <2>3
<1>4. ASSUME NEW j \in 1..Len(stack), NEW k \in 1..Len(stack), k < j
      PROVE  /\ other[j].listed /\ Under(other[j].dir, other[k].dir)
             /\ other[k].dir[Len(other[j].dir) + 1] \notin other[j].left
  <2>1. j # 1
    BY <1>4
  <2>2. other[j] = stack[j] /\ other[k].dir = stack[k].dir
    BY <1>1, <1>2, <2>1
  <2> QED BY <1>4, <2>2 DEF IsStack
<1>5. IsStack(world, other)
  BY <1>1, <1>3, <1>4 DEF IsStack, SameBut
<1>6. ASSUME NEW p
      PROVE  Pending(other, p) <=> Reaches(f, p) \/ \E k \in 2..Len(stack) : Reaches(stack[k], p)
  <2>1. \A k \in 2..Len(stack) : k \in 1..Len(stack) /\ k # 1
    OBVIOUS
  <2> QED BY <1>1, <2>1 DEF Pending
<1> QED BY <1>5, <1>6

\* The directory on top of the stack is left.
LEMMA LeftIs ==
  ASSUME NEW world, NEW stack, IsStack(world, stack), stack # <<>>,
         stack[1].listed, stack[1].left = {}
  PROVE  /\ IsStack(world, Tail(stack))
         /\ \A p : Pending(Tail(stack), p) <=> Pending(stack, p)
<1> DEFINE rest == Tail(stack)
<1>1. /\ stack \in Seq(Frames) /\ Len(stack) \in Nat /\ 1 \in 1..Len(stack)
      /\ rest \in Seq(Frames) /\ Len(rest) = Len(stack) - 1
      /\ \A k \in 1..Len(rest) : k + 1 \in 1..Len(stack) /\ rest[k] = stack[k + 1]
  BY DEF IsStack
<1> HIDE DEF rest
<1>2. \A k \in 1..Len(rest) : /\ IsDirAt(world, rest[k].dir)
                              /\ rest[k].left \subseteq Content(world, rest[k].dir)
                              /\ ~rest[k].listed => rest[k].left = {}
  BY <1>1 DEF IsStack
<1>3. ASSUME NEW j \in 1..Len(rest), NEW k \in 1..Len(rest), k < j
      PROVE  /\ rest[j].listed /\ Under(rest[j].dir, rest[k].dir)
             /\ rest[k].dir[Len(rest[j].dir) + 1] \notin rest[j].left
  <2>1. k + 1 \in 1..Len(stack) /\ j + 1 \in 1..Len(stack) /\ k + 1 < j + 1
    BY <1>1, <1>3
  <2>2. rest[j] = stack[j + 1] /\ rest[k] = stack[k + 1]
    BY <1>1
  <2> QED BY <2>1, <2>2 DEF IsStack
<1>4. IsStack(world, rest)
  BY <1>1, <1>2, <1>3 DEF IsStack
<1>5. ASSUME NEW p PROVE Pending(rest, p) <=> Pending(stack, p)
  <2>1. ~Reaches(stack[1], p)
    BY DEF Reaches
  <2>2. ASSUME Pending(stack, p) PROVE Pending(rest, p)
    <3>1. PICK k \in 1..Len(stack) : Reaches(stack[k], p)
      BY <2>2 DEF Pending
    <3>2. k - 1 \in 1..Len(rest) /\ (k - 1) + 1 = k
      BY <1>1, <2>1, <3>1
    <3> QED BY <1>1, <3>1, <3>2 DEF Pending
  <2>3. ASSUME Pending(rest, p) PROVE Pending(stack, p)
    BY <1>1, <2>3 DEF Pending
  <2> QED BY <2>2, <2>3
<1> QED BY <1>4, <1>5 DEF rest

\* What is waiting is waiting in the directory on top, or further down.
LEMMA PendingIs ==
  ASSUME NEW world, NEW stack, IsStack(world, stack), stack # <<>>
  PROVE  \A p : Pending(stack, p) <=>
           Reaches(stack[1], p) \/ \E k \in 2..Len(stack) : Reaches(stack[k], p)
<1>1. Len(stack) \in Nat /\ \A k \in 1..Len(stack) : k = 1 \/ k \in 2..Len(stack)
  BY DEF IsStack
<1>2. 1 \in 1..Len(stack) /\ \A k \in 2..Len(stack) : k \in 1..Len(stack)
  BY DEF IsStack
<1> QED BY <1>1, <1>2 DEF Pending

\* A directory is listed: everything it leads to is behind one of its names.
LEMMA ListedIs ==
  ASSUME NEW world, IsFileSystem(world), NEW stack, IsStack(world, stack), stack # <<>>,
         ~stack[1].listed, NEW other, NEW f \in Frames, SameBut(stack, other, f),
         f.dir = stack[1].dir, f.listed, f.left = Content(world, f.dir)
  PROVE  /\ IsStack(world, other)
         /\ \A p \in DOMAIN world : Pending(other, p) <=> Pending(stack, p)
<1>1. IsStack(world, other)
      /\ \A p : Pending(other, p) <=>
           Reaches(f, p) \/ \E k \in 2..Len(stack) : Reaches(stack[k], p)
  BY ToppedIs
<1>2. ASSUME NEW p \in DOMAIN world PROVE Reaches(f, p) <=> Reaches(stack[1], p)
  <2>1. 1 \in 1..Len(stack)
    BY DEF IsStack
  <2>2. f.dir \in Seq(NodeNames) /\ IsDirAt(world, f.dir)
    BY <2>1 DEF Frames, IsStack
  <2>3. ASSUME Comes(f.dir, p) PROVE p[Len(f.dir) + 1] \in f.left
    <3>1. /\ p[Len(f.dir) + 1] \in NodeNames
          /\ Append(f.dir, p[Len(f.dir) + 1]) \in DOMAIN world
      BY <2>2, <2>3, WayIsThere DEF Comes
    <3>2. Len(f.dir) + 1 \in Len(f.dir) + 1..Len(p)
      <4>1. p \in Seq(NodeNames) /\ Len(f.dir) \in Nat /\ Len(f.dir) < Len(p)
        BY <2>2, <2>3 DEF IsFileSystem, Comes, Under
      <4> QED BY <4>1
    <3>3. p[Len(f.dir) + 1] \notin Ignored
      BY <2>3, <3>2 DEF Comes
    <3> QED BY <2>2, <3>1, <3>3, ContentHas
  <2> QED BY <2>3 DEF Reaches
<1> QED BY <1>1, <1>2, PendingIs

\* An ELF file of a file system.
ElfIn(world, p) == Lstat(world, p) = "ISREG" /\ IsElf(ElfAt(world, p))

\* A directory is gone into, other entries are not.
IsGoneInto(world, stack, q, other) ==
  other = IF Lstat(world, q) = "ISDIR" THEN <<Entered(q)>> \o stack ELSE stack

\* A name is taken from the directory on top: what was waiting behind it is found
\* then, or is waiting still, but not both.
LEMMA EntryTaken ==
  ASSUME NEW world, IsFileSystem(world), NEW stack, IsStack(world, stack), stack # <<>>,
         NEW name \in stack[1].left,
         NEW rest, NEW f \in Frames, SameBut(stack, rest, f),
         f.dir = stack[1].dir, f.listed, f.left = stack[1].left \ {name},
         NEW other, IsGoneInto(world, rest, Append(f.dir, name), other)
  PROVE  /\ IsStack(world, other)
         /\ \A p \in DOMAIN world : ElfIn(world, p) =>
              /\ p = Append(f.dir, name) => Pending(stack, p) /\ ~Pending(other, p)
              /\ p # Append(f.dir, name) => (Pending(other, p) <=> Pending(stack, p))
<1> DEFINE d == f.dir
           q == Append(d, name)
<1>1. /\ 1 \in 1..Len(stack) /\ Len(stack) \in Nat /\ stack[1].listed
      /\ IsDirAt(world, d) /\ stack[1].left \subseteq Content(world, d)
  BY DEF IsStack
<1>2. d \in Seq(NodeNames)
  BY DEF Frames
<1>3. name \in NodeNames /\ name \notin Ignored /\ q \in DOMAIN world
  BY <1>1, <1>2, ContentHas
<1>4. q \in Seq(NodeNames) /\ Len(q) = Len(d) + 1 /\ q[Len(d) + 1] = name
      /\ \A k \in 1..Len(d) : q[k] = d[k]
  BY <1>2, <1>3
<1>5. Lstat(world, q) = TypeAt(world, q) /\ TypeAt(world, q) = world[q].type
  <2>1. Lstat(world, q) = TypeAt(world, q)
    BY <1>1, <1>2, <1>3, EntryTypeIs
  <2> HIDE DEF q
  <2>2. q # <<>>
    BY <1>2, <1>4
  <2> QED BY <1>3, <2>1, <2>2 DEF TypeAt
<1>6. /\ IsStack(world, rest)
      /\ \A p : Pending(rest, p) <=> Reaches(f, p) \/ \E k \in 2..Len(stack) : Reaches(stack[k], p)
  BY <1>1, ToppedIs
<1>7. /\ IsStack(world, other)
      /\ \A p : Pending(other, p) <=>
           (Lstat(world, q) = "ISDIR" /\ Comes(q, p)) \/ Pending(rest, p)
  <2>1. CASE Lstat(world, q) = "ISDIR"
    <3>1. IsDirAt(world, q)
      BY <1>1, <1>2, <1>3, <2>1, EntryIsDir
    <3>2. rest # <<>> /\ rest[1] = f
      BY <1>1 DEF SameBut
    <3>3. name \notin rest[1].left /\ rest[1].listed /\ rest[1].dir = d
      BY <3>2
    <3> HIDE DEF d
    <3>4. /\ IsStack(world, <<Entered(q)>> \o rest)
          /\ \A p : Pending(<<Entered(q)>> \o rest, p) <=> Comes(q, p) \/ Pending(rest, p)
      BY <1>3, <1>6, <3>1, <3>2, <3>3, PushedIs
    <3>5. other = <<Entered(q)>> \o rest
      BY <2>1 DEF d, IsGoneInto
    <3> HIDE DEF q
    <3> QED BY <2>1, <3>4, <3>5
  <2>2. CASE Lstat(world, q) # "ISDIR"
    BY <1>6, <2>2 DEF IsGoneInto
  <2> QED BY <2>1, <2>2
<1>8. \A p : Pending(stack, p) <=> Reaches(stack[1], p) \/ \E k \in 2..Len(stack) : Reaches(stack[k], p)
  BY PendingIs
<1> DEFINE Via(p) == Comes(d, p) /\ p[Len(d) + 1] = name
<1>9. \A p : Reaches(stack[1], p) <=> Reaches(f, p) \/ Via(p)
  BY <1>1 DEF Reaches
<1>10. ASSUME NEW p \in DOMAIN world PROVE Via(p) <=> p = q \/ Comes(q, p)
  <2>1. p \in Seq(NodeNames)
    BY DEF IsFileSystem
  <2> HIDE DEF d, q
  <2>2. ASSUME Via(p) PROVE p = q \/ Comes(q, p)
    <3>1. Under(d, p) /\ p[Len(d) + 1] = name /\ \A k \in Len(d) + 1..Len(p) : p[k] \notin Ignored
      BY <2>2 DEF Comes
    <3>2. q = p \/ Under(q, p)
      BY <1>2, <3>1, WayIsThere DEF q
    <3>3. \A k \in Len(q) + 1..Len(p) : k \in Len(d) + 1..Len(p)
      BY <1>2, <1>4, <2>1
    <3> QED BY <3>1, <3>2, <3>3 DEF Comes
  <2>3. ASSUME p = q \/ Comes(q, p) PROVE Via(p)
    <3>1. Len(q) <= Len(p) /\ \A k \in 1..Len(q) : q[k] = p[k]
      BY <1>4, <2>1, <2>3 DEF Comes, Under
    <3>2. Under(d, p) /\ p[Len(d) + 1] = name
      BY <1>2, <1>4, <2>1, <3>1 DEF Under
    <3>3. ASSUME NEW k \in Len(d) + 1..Len(p) PROVE p[k] \notin Ignored
      <4>1. CASE k = Len(d) + 1
        BY <1>3, <3>2, <4>1
      <4>2. CASE k # Len(d) + 1
        <5>1. k \in Len(q) + 1..Len(p) /\ p # q
          BY <1>2, <1>4, <2>1, <4>2
        <5> QED BY <2>3, <5>1 DEF Comes
      <4> QED BY <4>1, <4>2
    <3> QED BY <3>2, <3>3 DEF Comes
  <2> QED BY <2>2, <2>3
<1>11. ASSUME NEW k \in 2..Len(stack) PROVE ~Reaches(stack[k], q)
  <2> DEFINE e == stack[k].dir
  <2>1. k \in 1..Len(stack) /\ 1 < k
    OBVIOUS
  <2>2. stack[k].listed /\ Under(e, d) /\ d[Len(e) + 1] \notin stack[k].left
    BY <1>1, <2>1 DEF IsStack
  <2>3. e \in Seq(NodeNames)
    <3>1. stack[k] \in Frames
      BY <2>1 DEF IsStack
    <3> QED BY <3>1 DEF Frames
  <2> HIDE DEF e, d, q
  <2>4. Len(e) + 1 \in 1..Len(d)
    BY <1>2, <2>2, <2>3 DEF Under
  <2>5. q[Len(e) + 1] = d[Len(e) + 1]
    BY <1>4, <2>4
  <2> QED BY <2>2, <2>5 DEF Reaches, e
<1>12. ~Reaches(f, q)
  BY <1>4 DEF Reaches
<1>13. ASSUME NEW p \in DOMAIN world, ElfIn(world, p), p = q
       PROVE  Pending(stack, p) /\ ~Pending(other, p)
  <2>1. Lstat(world, q) # "ISDIR"
    BY <1>13 DEF ElfIn
  <2>2. Via(q)
    BY <1>3, <1>10
  <2> HIDE DEF Via, q, d
  <2> QED BY <1>6, <1>7, <1>8, <1>9, <1>11, <1>12, <1>13, <2>1, <2>2
<1>14. ASSUME NEW p \in DOMAIN world, ElfIn(world, p), p # q
       PROVE  Pending(other, p) <=> Pending(stack, p)
  <2>1. Comes(q, p) => Lstat(world, q) = "ISDIR"
    <3> SUFFICES ASSUME Comes(q, p) PROVE world[q].type = "ISDIR"
      BY <1>5
    <3>1. Via(p)
      BY <1>10
    <3>2. Under(d, p) /\ p[Len(d) + 1] = name
      BY <3>1 DEF Comes
    <3> HIDE DEF d
    <3> QED BY <1>2, <1>14, <3>2, WayIsThere
  <2>2. Via(p) <=> Comes(q, p)
    BY <1>10, <1>14
  <2> HIDE DEF Via, q, d
  <2> QED BY <1>6, <1>7, <1>8, <1>9, <2>1, <2>2
<1> QED BY <1>7, <1>13, <1>14

-----------------------------------------------------------------------------
(* The walk of a DESTDIR.                                                  *)

\* The directories dirhandler is called with, and those that are left after n.
Walked == BinDirs \o LdDirs

IsRest(todo, n) ==
  Len(todo) = Len(Walked) - n /\ \A i \in 1..Len(todo) : todo[i] = Walked[n + i]

\* Those of the first n a file is below of; where a file is among the found ones.
IsAbove(world, d, p) == CanOpenDir(world, d) /\ Comes(Chased(world, d), p)

AboveOf(world, url, p, n) == {i \in 1..n : IsAbove(world, url \o Walked[i], p)}

FoundIn(files, p) == {k \in 1..Len(files) : files[k].name = p}

\* Each ELF file is found, or waiting in the walk that is under way, as often as there
\* are directories above it that were walked or are being walked.
Counted(world, url, files, stack, n) ==
  \A p \in DOMAIN world : ElfIn(world, p) =>
    Cardinality(AboveOf(world, url, p, n)) =
      Cardinality(FoundIn(files, p)) + (IF Pending(stack, p) THEN 1 ELSE 0)

WalkInv ==
  removed = {} =>
    /\ phase = "new" => elfFiles = <<>>
    /\ type = "DestDir" /\ phase \in {"walk", "loaded"} =>
         /\ IsStack(fs, frames)
         /\ \E n \in 0..Len(Walked) :
              IsRest(dirs, n) /\ Counted(fs, path.url, elfFiles, frames, n)

\* What is to be walked are paths.
LEMMA WalkedIs ==
  /\ Walked \in Seq(Seq(PathNames)) /\ Len(Walked) \in Nat
  /\ \A i \in 1..Len(Walked) : Walked[i] \in Seq(PathNames)
<1>1. Walked \in Seq(Seq(PathNames))
  BY PkgLoadAssumption DEF Walked
<1> HIDE DEF Walked
<1> QED BY <1>1

\* One more number.
LEMMA OneMore ==
  ASSUME NEW n \in Nat, NEW S \in SUBSET (1..n)
  PROVE  /\ IsFiniteSet(S) /\ Cardinality(S) \in Nat
         /\ Cardinality(S \union {n + 1}) = Cardinality(S) + 1
<1>1. IsFiniteSet(1..n)
  BY FS_Interval
<1>2. IsFiniteSet(S)
  BY <1>1, FS_Subset
<1>3. Cardinality(S) \in Nat
  BY <1>2, FS_CardinalityType
<1>4. n + 1 \notin S
  OBVIOUS
<1> QED BY <1>2, <1>3, <1>4, FS_AddElement

\* One more directory.
LEMMA OneMoreAbove ==
  ASSUME NEW world, NEW url, NEW p, NEW n \in Nat
  PROVE  /\ Cardinality(AboveOf(world, url, p, n)) \in Nat
         /\ Cardinality(AboveOf(world, url, p, n + 1)) =
              Cardinality(AboveOf(world, url, p, n))
              + (IF IsAbove(world, url \o Walked[n + 1], p) THEN 1 ELSE 0)
<1> DEFINE S == AboveOf(world, url, p, n)
           T == AboveOf(world, url, p, n + 1)
<1>1. S \in SUBSET (1..n)
  BY DEF AboveOf
<1>2. \A i : i \in 1..(n + 1) <=> i \in 1..n \/ i = n + 1
  OBVIOUS
<1>3. T = IF IsAbove(world, url \o Walked[n + 1], p) THEN S \union {n + 1} ELSE S
  BY <1>2 DEF AboveOf
<1> HIDE DEF S, T
<1> QED BY <1>1, <1>3, OneMore DEF S, T

\* One more file.
LEMMA OneMoreFound ==
  ASSUME NEW S, NEW files \in Seq(S), NEW e \in S, NEW p
  PROVE  /\ Cardinality(FoundIn(files, p)) \in Nat
         /\ Cardinality(FoundIn(Append(files, e), p)) =
              Cardinality(FoundIn(files, p)) + (IF e.name = p THEN 1 ELSE 0)
<1> DEFINE more == Append(files, e)
           F == FoundIn(files, p)
           G == FoundIn(more, p)
           n == Len(files)
<1>1. /\ n \in Nat /\ Len(more) = n + 1 /\ more[n + 1] = e
      /\ \A k \in 1..n : more[k] = files[k]
  OBVIOUS
<1>2. \A k : k \in 1..(n + 1) <=> k \in 1..n \/ k = n + 1
  BY <1>1
<1> HIDE DEF more
<1>3. G = IF e.name = p THEN F \union {n + 1} ELSE F
  BY <1>1, <1>2 DEF FoundIn
<1>4. F \in SUBSET (1..n)
  BY DEF FoundIn
<1> HIDE DEF F, G, n
<1>5. Cardinality(F) \in Nat /\ Cardinality(F \union {n + 1}) = Cardinality(F) + 1
  BY <1>1, <1>4, OneMore
<1>6. Cardinality(G) = Cardinality(F) + (IF e.name = p THEN 1 ELSE 0)
  BY <1>3, <1>5
<1> QED BY <1>5, <1>6 DEF F, G, more

\* The next directory is walked, if it can be: it is above what waits then.
LEMMA HandledIs ==
  ASSUME NEW world, IsFileSystem(world), NEW url \in Seq(PathNames),
         NEW n \in Nat, n + 1 <= Len(Walked), NEW S, NEW files \in Seq(S),
         Counted(world, url, files, <<>>, n),
         NEW stack, stack = LET d == MakeRealPath(world, PathOf(world, url \o Walked[n + 1]))
                            IN IF IsFolder(d) THEN <<Entered(d.url)>> ELSE <<>>
  PROVE  IsStack(world, stack) /\ Counted(world, url, files, stack, n + 1)
<1> DEFINE q == url \o Walked[n + 1]
           d == MakeRealPath(world, PathOf(world, q))
<1>1. q \in Seq(PathNames)
  <2>1. Walked[n + 1] \in Seq(PathNames)
    BY WalkedIs
  <2> QED BY <2>1
<1>2. (IsFolder(d) <=> CanOpenDir(world, q)) /\ (IsFolder(d) => d.url = Chased(world, q))
  <2> HIDE DEF q
  <2> QED BY <1>1, RealDirIs
<1>3. stack = IF CanOpenDir(world, q) THEN <<Entered(Chased(world, q))>> ELSE <<>>
  BY <1>2
<1>4. Chased(world, q) \in Seq(NodeNames)
  BY <1>1, ChasedIs
<1> HIDE DEF d, q
<1>5. ASSUME CanOpenDir(world, q)
      PROVE  IsStack(world, stack) /\ \A p : Pending(stack, p) <=> Comes(Chased(world, q), p)
  <2> DEFINE f == Entered(Chased(world, q))
  <2>1. f.dir = Chased(world, q) /\ f.listed = FALSE /\ f.left = {} /\ f \in Frames
    BY <1>4 DEF Entered, Frames
  <2>2. IsDirAt(world, f.dir)
    BY <1>5, <2>1 DEF CanOpenDir
  <2> HIDE DEF f
  <2>3. stack = <<f>>
    BY <1>3, <1>5 DEF f
  <2>7. f \in Frames
    BY <2>1
  <2>4. stack \in Seq(Frames) /\ Len(stack) = 1 /\ stack[1] = f
    BY ONLY <2>3, <2>7
  <2>5. IsStack(world, stack)
    BY <2>1, <2>2, <2>4 DEF IsStack
  <2>6. \A p : Pending(stack, p) <=> Comes(Chased(world, q), p)
    BY <2>1, <2>4 DEF Pending, Reaches
  <2> QED BY <2>5, <2>6
<1>6. ASSUME ~CanOpenDir(world, q)
      PROVE  IsStack(world, stack) /\ \A p : ~Pending(stack, p)
  <2>1. stack = <<>> /\ stack \in Seq(Frames) /\ Len(stack) = 0
    BY <1>3, <1>6
  <2> QED BY <2>1 DEF IsStack, Pending
<1>7. \A p : Pending(stack, p) <=> IsAbove(world, q, p)
  BY <1>5, <1>6 DEF IsAbove
<1>8. \A p : ~Pending(<<>>, p)
  BY DEF Pending
<1>9. ASSUME NEW p \in DOMAIN world, ElfIn(world, p)
      PROVE  Cardinality(AboveOf(world, url, p, n + 1)) =
               Cardinality(FoundIn(files, p)) + (IF Pending(stack, p) THEN 1 ELSE 0)
  <2>1. Cardinality(AboveOf(world, url, p, n)) = Cardinality(FoundIn(files, p)) + 0
    BY <1>8, <1>9 DEF Counted
  <2>2. Cardinality(AboveOf(world, url, p, n)) \in Nat
        /\ Cardinality(AboveOf(world, url, p, n + 1)) =
             Cardinality(AboveOf(world, url, p, n)) + (IF IsAbove(world, q, p) THEN 1 ELSE 0)
    BY OneMoreAbove DEF q
  <2>3. Cardinality(FoundIn(files, p)) \in Nat
    <3>1. FoundIn(files, p) \in SUBSET (1..Len(files)) /\ Len(files) \in Nat
      BY DEF FoundIn
    <3> QED BY <3>1, OneMore
  <2> QED BY <1>7, <2>1, <2>2, <2>3
<1> QED BY <1>5, <1>6, <1>9 DEF Counted

\* A package is made: nothing of it is loaded yet.
LEMMA WalkInit ==
  ASSUME NEW world, NEW url, NEW hint, PkgInit(world, url, hint)
  PROVE  WalkInv
BY DEF PkgInit, WalkInv

\* Nothing is waiting where there is no stack.
LEMMA NoStack == \A world : IsStack(world, <<>>) /\ \A p : ~Pending(<<>>, p)
BY DEF IsStack, Pending

\* Each step of Load() keeps count, until something is removed.
LEMMA WalkStep ==
  ASSUME LoadInv, LoadInv', WalkInv, [PkgNext]_pkgVars
  PROVE  WalkInv'
<1> SUFFICES ASSUME removed' = {} PROVE WalkInv'
  BY DEF WalkInv
<1> DEFINE Walking ==
      /\ IsStack(fs, frames)
      /\ \E n \in 0..Len(Walked) : IsRest(dirs, n) /\ Counted(fs, path.url, elfFiles, frames, n)
<1>0. /\ IsFileSystem(fs) /\ HaveContents(fs) /\ path.url \in Seq(PathNames)
      /\ phase = "list" => type = "Installed"
      /\ elfFiles \in Seq(ToSet(elfFiles)) /\ frames \in Seq(Frames)
      /\ dirs \in Seq(Seq(PathNames))
  BY DEF LoadInv, PkgTypeOK
<1>1. CASE LoadUnknown
  BY <1>1 DEF LoadUnknown, WalkInv
<1>2. CASE LoadOneBinLib
  BY <1>2 DEF LoadOneBinLib, WalkInv
<1>3. CASE OpenList
  BY <1>3 DEF OpenList, WalkInv
<1>4. CASE ReadLine
  BY <1>0, <1>4 DEF ReadLine, WalkInv
<1>5. CASE EndOfList
  BY <1>0, <1>5 DEF EndOfList, WalkInv
<1>6. CASE StartWalk
  <2>1. /\ phase = "new" /\ phase' = "walk" /\ dirs' = Walked
        /\ UNCHANGED <<fs, removed, path, type, frames, elfFiles>>
    BY <1>6 DEF StartWalk, Walked
  <2>2. elfFiles = <<>> /\ frames = <<>>
    BY <2>1 DEF WalkInv, LoadInv, PkgTypeOK
  <2>3. IsRest(Walked, 0)
    BY WalkedIs DEF IsRest
  <2>4. ASSUME NEW p PROVE AboveOf(fs, path.url, p, 0) = {} /\ FoundIn(<<>>, p) = {}
    BY DEF AboveOf, FoundIn
  <2>5. Counted(fs, path.url, <<>>, <<>>, 0)
    <3>1. Cardinality({}) = 0
      BY FS_EmptySet
    <3>2. \A p : Cardinality(AboveOf(fs, path.url, p, 0)) = 0 /\ Cardinality(FoundIn(<<>>, p)) = 0
      BY <2>4, <3>1
    <3>3. \A p : ~Pending(<<>>, p)
      BY NoStack
    <3> QED BY <3>2, <3>3 DEF Counted
  <2>6. 0 \in 0..Len(Walked)
    BY WalkedIs
  <2> QED BY <2>1, <2>2, <2>3, <2>5, <2>6, NoStack DEF WalkInv
<1>7. CASE HandleDir
  <2>1. /\ phase = "walk" /\ frames = <<>> /\ dirs # <<>> /\ dirs' = Tail(dirs)
        /\ frames' = LET d == MakeRealPath(fs, PathOf(fs, path.url \o Head(dirs)))
                     IN IF IsFolder(d) THEN <<Entered(d.url)>> ELSE <<>>
        /\ UNCHANGED <<fs, removed, path, type, phase, elfFiles>>
    BY <1>7 DEF HandleDir
  <2> SUFFICES ASSUME type = "DestDir" PROVE Walking'
    BY <2>1 DEF WalkInv
  <2>2. PICK n \in 0..Len(Walked) : IsRest(dirs, n) /\ Counted(fs, path.url, elfFiles, <<>>, n)
    BY <2>1 DEF WalkInv
  <2>3. n + 1 \in 0..Len(Walked) /\ Head(dirs) = Walked[n + 1] /\ IsRest(dirs', n + 1)
    <3>1. Len(dirs) = Len(Walked) - n /\ \A i \in 1..Len(dirs) : dirs[i] = Walked[n + i]
      BY <2>2 DEF IsRest
    <3>2. 1 \in 1..Len(dirs) /\ Head(dirs) = dirs[1]
      BY <1>0, <2>1
    <3>3. /\ Len(dirs') = Len(dirs) - 1
          /\ \A i \in 1..Len(dirs') : i + 1 \in 1..Len(dirs) /\ dirs'[i] = dirs[i + 1]
      BY <1>0, <2>1
    <3>4. \A i \in 1..Len(dirs') : n + (i + 1) = (n + 1) + i
      OBVIOUS
    <3>5. n + 1 \in 0..Len(Walked) /\ Len(dirs') = Len(Walked) - (n + 1)
      BY <3>1, <3>2, <3>3, WalkedIs
    <3>6. \A i \in 1..Len(dirs') : dirs'[i] = Walked[(n + 1) + i]
      BY <3>1, <3>3, <3>4
    <3> QED BY <3>1, <3>2, <3>5, <3>6 DEF IsRest
  <2>4. frames' = LET d == MakeRealPath(fs, PathOf(fs, path.url \o Walked[n + 1]))
                  IN IF IsFolder(d) THEN <<Entered(d.url)>> ELSE <<>>
    BY <2>1, <2>3
  <2>5. IsStack(fs, frames') /\ Counted(fs, path.url, elfFiles, frames', n + 1)
    <3>1. n \in Nat /\ n + 1 <= Len(Walked)
      BY <2>3
    <3> QED BY <1>0, <2>2, <2>4, <3>1, HandledIs
  <2> QED BY <2>1, <2>3, <2>5
<1>8. CASE ListDir
  <2>1. /\ phase = "walk" /\ frames # <<>> /\ ~Head(frames).listed
        /\ \/ /\ CanOpenDir(fs, Head(frames).dir) /\ UNCHANGED phase
              /\ frames' = [frames EXCEPT ![1].listed = TRUE,
                                          ![1].left = Content(fs, Head(frames).dir)]
           \/ phase' = "threw"
        /\ UNCHANGED <<fs, removed, path, type, dirs, elfFiles>>
    BY <1>8 DEF ListDir
  <2> SUFFICES ASSUME type = "DestDir", phase' # "threw" PROVE Walking'
    BY <2>1 DEF WalkInv
  <2>2. IsStack(fs, frames)
    BY <2>1 DEF WalkInv
  <2>3. PICK n \in 0..Len(Walked) : IsRest(dirs, n) /\ Counted(fs, path.url, elfFiles, frames, n)
    BY <2>1 DEF WalkInv
  <2> DEFINE f == [frames[1] EXCEPT !.listed = TRUE, !.left = Content(fs, frames[1].dir)]
  <2>4. Head(frames) = frames[1] /\ 1 \in 1..Len(frames) /\ frames[1] \in Frames
    BY <1>0, <2>1
  <2>5. Content(fs, frames[1].dir) \subseteq NodeNames
    BY <1>0, ContentIs
  <2>6. f \in Frames /\ f.dir = frames[1].dir /\ f.listed /\ f.left = Content(fs, f.dir)
    BY <2>4, <2>5 DEF Frames
  <2>7. frames' = [frames EXCEPT ![1] = f]
    BY <2>1, <2>4
  <2> HIDE DEF f
  <2>8. SameBut(frames, frames', f)
    BY <1>0, <2>4, <2>6, <2>7 DEF SameBut
  <2>9. ~frames[1].listed
    BY <2>1, <2>4
  <2>10. IsStack(fs, frames') /\ \A p \in DOMAIN fs : Pending(frames', p) <=> Pending(frames, p)
    BY <1>0, <2>1, <2>2, <2>6, <2>8, <2>9, ListedIs
  <2>11. Counted(fs, path.url, elfFiles, frames', n)
    BY <2>3, <2>10 DEF Counted
  <2> QED BY <2>1, <2>3, <2>10, <2>11
<1>9. CASE LeaveDir
  <2>1. /\ phase = "walk" /\ frames # <<>> /\ Head(frames).listed /\ Head(frames).left = {}
        /\ frames' = Tail(frames)
        /\ UNCHANGED <<fs, removed, path, type, phase, dirs, elfFiles>>
    BY <1>9 DEF LeaveDir
  <2> SUFFICES ASSUME type = "DestDir" PROVE Walking'
    BY <2>1 DEF WalkInv
  <2>2. IsStack(fs, frames)
    BY <2>1 DEF WalkInv
  <2>3. PICK n \in 0..Len(Walked) : IsRest(dirs, n) /\ Counted(fs, path.url, elfFiles, frames, n)
    BY <2>1 DEF WalkInv
  <2>4. frames[1].listed /\ frames[1].left = {}
    BY <1>0, <2>1
  <2>5. IsStack(fs, frames') /\ \A p : Pending(frames', p) <=> Pending(frames, p)
    BY <2>1, <2>2, <2>4, LeftIs
  <2>6. Counted(fs, path.url, elfFiles, frames', n)
    BY <2>3, <2>5 DEF Counted
  <2> QED BY <2>1, <2>3, <2>5, <2>6
<1>10. CASE EndOfWalk
  BY <1>10 DEF EndOfWalk, WalkInv
<1>11. ASSUME NEW name \in UNION {f.left : f \in ToSet(frames)}, WalkEntry(name) PROVE WalkInv'
  <2> DEFINE f == [frames[1] EXCEPT !.left = @ \ {name}]
             rest == <<f>> \o Tail(frames)
             q == Append(frames[1].dir, name)
  <2>1. frames # <<>> /\ Head(frames) = frames[1] /\ 1 \in 1..Len(frames) /\ frames[1] \in Frames
    BY <1>0, <1>11 DEF WalkEntry
  <2>2. /\ phase = "walk" /\ name \in frames[1].left
        /\ frames' = IF IsFolder(PathOf(fs, q)) THEN <<Entered(q)>> \o rest ELSE rest
        /\ elfFiles' = IF IsRegularFile(PathOf(fs, q)) /\ IsElf(ElfAt(fs, q))
                       THEN Append(elfFiles, ElfAt(fs, q)) ELSE elfFiles
        /\ UNCHANGED <<fs, removed, path, type, phase, dirs>>
    <3>1. PathOf(fs, q).url = q
      BY DEF PathOf
    <3> HIDE DEF q
    <3> QED BY <1>11, <2>1, <3>1 DEF WalkEntry, q
  <2> SUFFICES ASSUME type = "DestDir" PROVE Walking'
    BY <2>2 DEF WalkInv
  <2>3. IsStack(fs, frames)
    BY <2>2 DEF WalkInv
  <2>4. PICK n \in 0..Len(Walked) : IsRest(dirs, n) /\ Counted(fs, path.url, elfFiles, frames, n)
    BY <2>2 DEF WalkInv
  <2>5. f \in Frames /\ f.dir = frames[1].dir /\ f.listed = frames[1].listed
        /\ f.left = frames[1].left \ {name}
    BY <2>1 DEF Frames
  <2>6. f.listed
    BY <2>1, <2>2, <2>3, <2>5 DEF IsStack
  <2> HIDE DEF f
  <2>7. SameBut(frames, rest, f)
    BY <1>0, <2>1, <2>5 DEF SameBut
  <2> HIDE DEF rest
  <2>8. IsGoneInto(fs, rest, Append(f.dir, name), frames')
    BY <2>2, <2>5 DEF IsFolder, PathOf, IsGoneInto
  <2>9. /\ IsStack(fs, frames')
        /\ \A p \in DOMAIN fs : ElfIn(fs, p) =>
             /\ p = Append(f.dir, name) => Pending(frames, p) /\ ~Pending(frames', p)
             /\ p # Append(f.dir, name) => (Pending(frames', p) <=> Pending(frames, p))
    <3>1. IsFileSystem(fs) /\ frames # <<>> /\ name \in frames[1].left
      BY <1>0, <2>1, <2>2
    <3> QED BY ONLY <2>3, <2>5, <2>6, <2>7, <2>8, <3>1, EntryTaken
  <2>10. q = Append(f.dir, name) /\ ElfAt(fs, q).name = q
    BY <1>0, <2>5, ElfHasName
  <2>11. elfFiles' = IF ElfIn(fs, q) THEN Append(elfFiles, ElfAt(fs, q)) ELSE elfFiles
    BY <2>2 DEF ElfIn, IsRegularFile, PathOf
  <2> HIDE DEF q
  <2>12. ASSUME NEW p \in DOMAIN fs, ElfIn(fs, p)
         PROVE  Cardinality(FoundIn(elfFiles', p)) =
                  Cardinality(FoundIn(elfFiles, p)) + (IF p = q THEN 1 ELSE 0)
                /\ Cardinality(FoundIn(elfFiles, p)) \in Nat
    <3> DEFINE e == ElfAt(fs, q)
               S == ToSet(elfFiles) \union {e}
    <3>1. elfFiles \in Seq(S) /\ e \in S
      <4>1. ToSet(elfFiles) \subseteq S
        OBVIOUS
      <4> HIDE DEF S
      <4>2. elfFiles \in Seq(S)
        BY <1>0, <4>1, SeqMonotonic
      <4> QED BY <4>2 DEF S
    <3> HIDE DEF e, S
    <3>2. /\ Cardinality(FoundIn(elfFiles, p)) \in Nat
          /\ Cardinality(FoundIn(Append(elfFiles, e), p)) =
               Cardinality(FoundIn(elfFiles, p)) + (IF e.name = p THEN 1 ELSE 0)
      BY <3>1, OneMoreFound
    <3>3. CASE ElfIn(fs, q)
      <4>1. elfFiles' = Append(elfFiles, e) /\ e.name = q
        BY <2>10, <2>11, <3>3 DEF e
      <4> QED BY <3>2, <4>1
    <3>4. CASE ~ElfIn(fs, q)
      <4>1. elfFiles' = elfFiles /\ p # q
        BY <2>11, <2>12, <3>4
      <4> QED BY <3>2, <4>1
    <3> QED BY <3>3, <3>4
  <2>13. Counted(fs, path.url, elfFiles', frames', n)
    <3> SUFFICES ASSUME NEW p \in DOMAIN fs, ElfIn(fs, p)
                 PROVE  Cardinality(AboveOf(fs, path.url, p, n)) =
                          Cardinality(FoundIn(elfFiles', p)) + (IF Pending(frames', p) THEN 1 ELSE 0)
      BY DEF Counted
    <3>1. Cardinality(AboveOf(fs, path.url, p, n)) =
            Cardinality(FoundIn(elfFiles, p)) + (IF Pending(frames, p) THEN 1 ELSE 0)
      BY <2>4 DEF Counted
    <3>2. /\ p = q => Pending(frames, p) /\ ~Pending(frames', p)
          /\ p # q => (Pending(frames', p) <=> Pending(frames, p))
      BY <2>9, <2>10
    <3> QED BY <2>12, <3>1, <3>2
  <2> QED BY <2>2, <2>4, <2>9, <2>13
<1>12. ASSUME NEW p \in DOMAIN fs, Vanish(p) PROVE WalkInv'
  BY <1>12 DEF Vanish
<1>13. CASE UNCHANGED pkgVars
  BY <1>13 DEF pkgVars, WalkInv
<1> QED BY <1>1, <1>2, <1>3, <1>4, <1>5, <1>6, <1>7, <1>8, <1>9, <1>10, <1>11, <1>12, <1>13
        DEF PkgNext

\* When nothing is waiting any more, each file was found as often as it should be.
LEMMA WalkGivesEach ==
  ASSUME LoadInv, WalkInv
  PROVE  WalkFindsEach
<1> SUFFICES ASSUME phase = "loaded", type = "DestDir", removed = {}
             PROVE  WalkFindsEach
  BY DEF WalkFindsEach
<1>1. IsFileSystem(fs) /\ path.url \in Seq(PathNames) /\ frames = <<>> /\ dirs = <<>>
  BY DEF LoadInv, PkgTypeOK
<1>2. PICK n \in 0..Len(Walked) : IsRest(dirs, n) /\ Counted(fs, path.url, elfFiles, frames, n)
  BY DEF WalkInv
<1>3. n = Len(Walked)
  BY <1>1, <1>2, WalkedIs DEF IsRest
<1>4. ASSUME NEW p \in DOMAIN fs, IsElfFile(p)
      PROVE  Cardinality(FoundIn(elfFiles, p)) = Cardinality(AboveOf(fs, path.url, p, Len(Walked)))
  <2>1. ElfIn(fs, p)
    BY <1>4 DEF ElfIn, IsElfFile
  <2>2. Cardinality(AboveOf(fs, path.url, p, n)) = Cardinality(FoundIn(elfFiles, p)) + 0
    BY <1>1, <1>2, <2>1, NoStack DEF Counted
  <2>3. Cardinality(FoundIn(elfFiles, p)) \in Nat
    <3>1. FoundIn(elfFiles, p) \in SUBSET (1..Len(elfFiles)) /\ Len(elfFiles) \in Nat
      BY DEF FoundIn, LoadInv
    <3> QED BY <3>1, OneMore
  <2> QED BY <1>3, <2>2, <2>3
<1>5. ASSUME NEW p \in DOMAIN fs
      PROVE  AboveOf(fs, path.url, p, Len(Walked)) =
               {i \in 1..Len(Walked) :
                  LET d == path.url \o Walked[i]
                  IN /\ CanOpenDir(fs, d)
                     /\ IsStrictPrefix(Chased(fs, d), p)
                     /\ \A k \in Len(Chased(fs, d)) + 1..Len(p) : p[k] \notin Ignored}
  <2>1. p \in Seq(PathNames)
    BY <1>1, Nodes DEF IsFileSystem
  <2>2. ASSUME NEW i \in 1..Len(Walked)
        PROVE  Chased(fs, path.url \o Walked[i]) \in Seq(PathNames)
    <3>1. path.url \o Walked[i] \in Seq(PathNames)
      <4>1. Walked[i] \in Seq(PathNames)
        BY WalkedIs
      <4> QED BY <1>1, <4>1
    <3> QED BY <1>1, <3>1, ChasedIs, Nodes
  <2>3. \A i \in 1..Len(Walked) : IsStrictPrefix(Chased(fs, path.url \o Walked[i]), p) <=>
                                  Under(Chased(fs, path.url \o Walked[i]), p)
    BY <2>1, <2>2, UnderIs
  <2> QED BY <2>3 DEF AboveOf, IsAbove, Comes
<1> QED BY <1>4, <1>5 DEF WalkFindsEach, FoundIn, Walked

\* A DESTDIR's walk finds each ELF file below the directories of binaries and
\* libraries, and as often as these are above it (doLoadDestDir), whatever is in the
\* DESTDIR and whatever the links in it lead to.
THEOREM LoadFindsEach ==
  ASSUME NEW world, IsFileSystem(world), HaveContents(world), NEW url \in Seq(PathNames), NEW hint
  PROVE  PkgInit(world, url, hint) /\ [][PkgNext]_pkgVars => []WalkFindsEach
<1>1. PkgInit(world, url, hint) => WalkInv
  BY WalkInit
<1>2. LoadInv /\ LoadInv' /\ WalkInv /\ [PkgNext]_pkgVars => WalkInv'
  BY WalkStep
<1>3. LoadInv /\ WalkInv => WalkFindsEach
  BY WalkGivesEach
<1> QED BY <1>1, <1>2, <1>3, LoadKeeps, PTL
=============================================================================
