------------------------------- MODULE PkgLoad ------------------------------
(***************************************************************************)
(* Pkg: a package is made from a path (create) and then loaded (Load): the *)
(* ELF files of an installed package are found through its file list, those*)
(* of a DESTDIR by walking it, a single file is its own package.  Files    *)
(* may be removed while a package is read: nothing locks them.             *)
(***************************************************************************)
EXTENDS ElfFile, FiniteSets

CONSTANTS
  AdmDir,       \* where the installed packages' lists are
  BinDirs,      \* Ldconf::getBinDirs, in order
  LdDirs,       \* Ldconf::getLdDirs, in order
  DotNew,       \* names that end in ".new"
  MaxRemovals   \* bound: files that vanish while a package is read

ASSUME PkgLoadAssumption ==
  /\ AdmDir # <<>>
  /\ BinDirs \in Seq(Seq(PathNames)) /\ LdDirs \in Seq(Seq(PathNames))
  /\ MaxRemovals \in Nat

VARIABLES
  fs,        \* the file system
  removed,   \* what was removed from it while the package was read
  path,      \* Pkg::_path
  type,      \* Pkg::_type
  phase,     \* "new", then "list" or "walk", then "loaded", "failed",
             \* "threw", or "endless"
  line,      \* the line of the list that is read next
  inList,    \* handleLine: the line "FILE LIST:" was seen
  dirs,      \* directories dirhandler still has to be called with
  frames,    \* checkdir's stack: [dir, listed, names left of it]
  elfFiles   \* Pkg::_elfFiles

pkgVars == <<fs, removed, path, type, phase, line, inList, dirs, frames, elfFiles>>

PkgTypes == {"Unknown", "Installed", "BinLib", "DestDir"}
HeaderLines == 5

InAdmDir(p) ==
  Dirname(p.url) = MakeRealPath(fs, PathOf(fs, AdmDir)).url

\* Pkg::create.  A hint of BinLib makes an Installed package.
TypeFor(p, hint) ==
  CASE hint = "Unknown" /\ IsFolder(p) -> "DestDir"
    [] hint = "Unknown" /\ IsRegularFile(p) /\ InAdmDir(p) -> "Installed"
    [] hint = "Unknown" /\ IsRegularFile(p) /\ ~InAdmDir(p)
       /\ IsElf(ElfAt(fs, p.url)) -> "BinLib"
    [] hint = "DestDir" /\ IsFolder(p) -> "DestDir"
    [] hint = "Installed" /\ InAdmDir(p) -> "Installed"
    [] hint = "BinLib" /\ IsElf(ElfAt(fs, p.url)) -> "Installed"
    [] OTHER -> "Unknown"

PkgInit(world, url, hint) ==
  /\ fs = world
  /\ removed = {}
  /\ path = MakeRealPath(fs, PathOf(fs, url))
  /\ type = TypeFor(path, hint)
  /\ phase = "new"
  /\ line = 0
  /\ inList = FALSE
  /\ dirs = <<>>
  /\ frames = <<>>
  /\ elfFiles = <<>>

-----------------------------------------------------------------------------
(* Pkg::Load.                                                              *)

LoadUnknown ==
  /\ phase = "new" /\ type = "Unknown"
  /\ phase' = "failed"
  /\ UNCHANGED <<fs, removed, path, type, line, inList, dirs, frames, elfFiles>>

\* doLoadOneBinLib succeeds even if the file is no ELF file any more.
LoadOneBinLib ==
  /\ phase = "new" /\ type = "BinLib"
  /\ elfFiles' = LET elf == ElfAt(fs, path.url)
                 IN IF IsElf(elf) THEN <<elf>> ELSE <<>>
  /\ phase' = "loaded"
  /\ UNCHANGED <<fs, removed, path, type, line, inList, dirs, frames>>

-----------------------------------------------------------------------------
(* doLoadInstalled.                                                        *)

Lines ==
  IF path.url \in DOMAIN fs /\ fs[path.url].type = "ISREG"
  THEN fs[path.url].lines
  ELSE <<>>

\* What is in a file: lines, of which those of a list are paths, and an image.
HaveContents(nodes) ==
  \A p \in DOMAIN nodes : nodes[p].type = "ISREG" =>
    nodes[p].lines \in Seq(Seq(PathNames)) /\ HasSizes(nodes[p].image)

IsListDir == path.url \in DOMAIN fs /\ fs[path.url].type = "ISDIR"

\* A list that cannot be opened, or with no more than the header, is no list.
\* A directory can be opened but not read: getline leaves a stream that is bad
\* and not at its end, and the loop over the lines has no other condition.
OpenList ==
  /\ phase = "new" /\ type = "Installed"
  /\ \/ IsListDir /\ phase' = "endless" /\ UNCHANGED line
     \/ ~IsListDir /\ Len(Lines) <= HeaderLines /\ phase' = "failed" /\ UNCHANGED line
     \/ Len(Lines) > HeaderLines /\ phase' = "list" /\ line' = HeaderLines + 1
  /\ UNCHANGED <<fs, removed, path, type, inList, dirs, frames, elfFiles>>

IsToCheck(pn) ==
  \/ \E i \in 1..Len(BinDirs) : Leads(BinDirs[i], pn)
  \/ \E i \in 1..Len(LdDirs) : Leads(LdDirs[i], pn)
  \/ Leads(<<"opt", "">>, pn)

\* Mutant: a file in incoming/ is not looked for where it belongs.
FileToCheckListed(pn) == PathOf(fs, pn)

\* The path checkFile looks at: a file the installation left in incoming/ is
\* looked for where it belongs.
FileToCheck(pn) ==
  LET p == PathOf(fs, pn)
  IN IF /\ ~IsValid(p)
        /\ Basename(pn) \notin DotNew
        /\ Basename(Dirname(pn)) = "incoming"
     THEN PathOf(fs, Append(Dirname(Dirname(pn)), Basename(pn)))
     ELSE p

ElfsOfLine(pn) ==
  LET p == FileToCheck(pn)
      elf == ElfAt(fs, p.url)
  IN IF IsToCheck(pn) /\ IsRegularFile(p) /\ IsElf(elf) THEN <<elf>> ELSE <<>>

ReadLine ==
  /\ phase = "list" /\ line <= Len(Lines)
  /\ line' = line + 1
  /\ inList' = (inList \/ Lines[line] = <<"FILE LIST:">>)
  /\ elfFiles' = IF inList THEN elfFiles \o ElfsOfLine(Lines[line]) ELSE elfFiles
  /\ UNCHANGED <<fs, removed, path, type, phase, dirs, frames>>

\* Mutant: the package does not count as loaded at the end of its list.
EndOfListAgain ==
  /\ phase = "list" /\ line > Len(Lines)
  /\ phase' = "new" /\ line' = 0
  /\ UNCHANGED <<fs, removed, path, type, inList, dirs, frames, elfFiles>>

\* Mutant: a missing break, a list is followed by a walk.
EndOfListFallsThrough ==
  /\ phase = "list" /\ line > Len(Lines)
  /\ phase' = "walk" /\ dirs' = BinDirs \o LdDirs
  /\ UNCHANGED <<fs, removed, path, type, line, inList, frames, elfFiles>>

EndOfList ==
  /\ phase = "list" /\ line > Len(Lines)
  /\ phase' = "loaded"
  /\ UNCHANGED <<fs, removed, path, type, line, inList, dirs, frames, elfFiles>>

-----------------------------------------------------------------------------
(* doLoadDestDir.                                                          *)

StartWalk ==
  /\ phase = "new" /\ type = "DestDir"
  /\ phase' = "walk"
  /\ dirs' = BinDirs \o LdDirs
  /\ UNCHANGED <<fs, removed, path, type, line, inList, frames, elfFiles>>

\* checkdir is called for a directory; its content is listed in the next step.
Entered(d) == [dir |-> d, listed |-> FALSE, left |-> {}]

\* Mutant: dirhandler opens what is no directory.
HandleDirBlind ==
  /\ phase = "walk" /\ frames = <<>> /\ dirs # <<>>
  /\ dirs' = Tail(dirs)
  /\ frames' = <<Entered(MakeRealPath(fs, PathOf(fs, path.url \o Head(dirs))).url)>>
  /\ UNCHANGED <<fs, removed, path, type, phase, line, inList, elfFiles>>

HandleDir ==
  /\ phase = "walk" /\ frames = <<>> /\ dirs # <<>>
  /\ dirs' = Tail(dirs)
  /\ LET d == MakeRealPath(fs, PathOf(fs, path.url \o Head(dirs)))
     IN frames' = IF IsFolder(d) THEN <<Entered(d.url)>> ELSE <<>>
  /\ UNCHANGED <<fs, removed, path, type, phase, line, inList, elfFiles>>

\* A directory that cannot be opened any more throws, and nobody catches it.
ListDir ==
  /\ phase = "walk" /\ frames # <<>> /\ ~Head(frames).listed
  /\ IF CanOpenDir(fs, Head(frames).dir)
     THEN /\ frames' = [frames EXCEPT ![1].listed = TRUE,
                                      ![1].left = Content(fs, Head(frames).dir)]
          /\ UNCHANGED phase
     ELSE /\ phase' = "threw"
          /\ UNCHANGED frames
  /\ UNCHANGED <<fs, removed, path, type, line, inList, dirs, elfFiles>>

\* One name of the content, in readdir's order: any.
WalkEntry(name) ==
  /\ phase = "walk" /\ frames # <<>>
  /\ name \in Head(frames).left
  /\ LET p == PathOf(fs, Append(Head(frames).dir, name))
         rest == <<[Head(frames) EXCEPT !.left = @ \ {name}]>> \o Tail(frames)
         elf == ElfAt(fs, p.url)
     IN /\ frames' = IF IsFolder(p) THEN <<Entered(p.url)>> \o rest ELSE rest
        /\ elfFiles' = IF IsRegularFile(p) /\ IsElf(elf)
                       THEN Append(elfFiles, elf) ELSE elfFiles
  /\ UNCHANGED <<fs, removed, path, type, phase, line, inList, dirs>>

\* Mutant: the stack is dropped with the directory that is left.
LeaveDirAll ==
  /\ phase = "walk" /\ frames # <<>>
  /\ Head(frames).listed /\ Head(frames).left = {}
  /\ frames' = <<>>
  /\ UNCHANGED <<fs, removed, path, type, phase, line, inList, dirs, elfFiles>>

LeaveDir ==
  /\ phase = "walk" /\ frames # <<>>
  /\ Head(frames).listed /\ Head(frames).left = {}
  /\ frames' = Tail(frames)
  /\ UNCHANGED <<fs, removed, path, type, phase, line, inList, dirs, elfFiles>>

EndOfWalk ==
  /\ phase = "walk" /\ frames = <<>> /\ dirs = <<>>
  /\ phase' = "loaded"
  /\ UNCHANGED <<fs, removed, path, type, line, inList, dirs, frames, elfFiles>>

-----------------------------------------------------------------------------
(* A file, or a directory with all it holds, is removed by someone else.   *)
Vanish(p) ==
  /\ phase \in {"new", "list", "walk"}
  /\ Cardinality(removed) < MaxRemovals
  /\ p \in DOMAIN fs
  /\ phase = "list" => ~IsPrefix(p, path.url)  \* an open file stays readable
  /\ removed' = removed \union {p}
  /\ fs' = [q \in {r \in DOMAIN fs : ~IsPrefix(p, r)} |-> fs[q]]
  /\ UNCHANGED <<path, type, phase, line, inList, dirs, frames, elfFiles>>

PkgNext ==
  \/ LoadUnknown \/ LoadOneBinLib
  \/ OpenList \/ ReadLine \/ EndOfList
  \/ StartWalk \/ HandleDir \/ ListDir \/ LeaveDir \/ EndOfWalk
  \/ \E name \in UNION {f.left : f \in ToSet(frames)} : WalkEntry(name)
  \/ \E p \in DOMAIN fs : Vanish(p)

-----------------------------------------------------------------------------
(* What a loaded package promises.                                         *)

\* Every variable stays within its type, and only the way of loading that fits
\* the package's type is under way.
PkgTypeOK ==
  /\ IsFileSystem(fs) /\ HaveContents(fs) /\ path.url \in Seq(PathNames)
  /\ type \in PkgTypes
  /\ path.type \in PathTypes
  /\ phase \in {"new", "list", "walk", "loaded", "failed", "threw", "endless"}
  /\ phase = "list" => type = "Installed" /\ line \in HeaderLines + 1..Len(Lines) + 1
  /\ phase = "walk" => type = "DestDir" /\ line = 0
  /\ phase # "threw" /\ phase # "walk" => frames = <<>> /\ dirs = <<>>
  /\ \A e \in ToSet(elfFiles) : IsElf(e)

\* Where an installation puts a file its list names: in place, or out of the
\* directory incoming/ it came with.
InPlace(pn) ==
  IF ~IsValid(PathOf(fs, pn)) /\ Basename(Dirname(pn)) = "incoming"
  THEN Append(Dirname(Dirname(pn)), Basename(pn))
  ELSE pn

IsElfFile(p) == Lstat(fs, p) = "ISREG" /\ IsElf(ElfAt(fs, p))

\* A loaded installed package has every ELF file its list names under a
\* directory of binaries or libraries or under /opt (doLoadInstalled): no
\* line is lost to the header, to incoming/ or to a name that looks like
\* another.  "dot new files are to ignore, these are not binaries": one in
\* incoming/ is not looked for.
NothingMissed ==
  phase = "loaded" /\ type = "Installed" /\ removed = {} =>
    \A i, j \in HeaderLines + 1..Len(Lines) :
      LET p == InPlace(Lines[j])
      IN /\ i < j /\ Lines[i] = <<"FILE LIST:">>
         /\ IsElfFile(p)
         /\ p = Lines[j] \/ Basename(p) \notin DotNew
         /\ \E d \in ToSet(BinDirs \o LdDirs) \union {<<"opt">>} : IsStrictPrefix(d, Lines[j])
         => ElfAt(fs, p) \in ToSet(elfFiles)

\* A loaded DESTDIR has each ELF file once for every directory of binaries or
\* libraries it is below of, links resolved (doLoadDestDir): the walk loses
\* nothing and follows no link on the way down, and a library directory
\* inside another one is walked twice.
WalkFindsEach ==
  phase = "loaded" /\ type = "DestDir" /\ removed = {} =>
    \A p \in DOMAIN fs :
      LET walked == BinDirs \o LdDirs
          above == {i \in 1..Len(walked) :
                      LET d == path.url \o walked[i]
                      IN /\ CanOpenDir(fs, d)
                         /\ IsStrictPrefix(Chased(fs, d), p)
                         /\ \A k \in Len(Chased(fs, d)) + 1..Len(p) : p[k] \notin Ignored}
      IN IsElfFile(p) =>
           Cardinality({k \in 1..Len(elfFiles) : elfFiles[k].name = p}) = Cardinality(above)

\* Loading throws only if a directory went away between the lstat that found
\* it and the opendir that lists it (dircontent.cpp, Dir::forEach).
ThrowsOnlyIfRemoved ==
  phase = "threw" => \E p \in removed : IsPrefix(p, Head(frames).dir)

\* Loading comes to an end, whatever the links in a DESTDIR point to and
\* whatever a list is, unless it is a directory (pkg.cpp, doLoadInstalled).
LoadEnds ==
  \/ type = "Installed" /\ IsListDir
  \/ <>(phase \in {"loaded", "failed", "threw"})
=============================================================================
