------------------------------ MODULE Reports -------------------------------
(***************************************************************************)
(* What sbbdep finds a query to require, and who needs it: the selections  *)
(* and the trees of src/cli/report_require.cpp, report_whoneed.cpp and     *)
(* report_utils.cpp.  A report is what is printed: a set of lines, and a   *)
(* line the set of the names it joins.                                     *)
(***************************************************************************)
EXTENDS CacheTables

-----------------------------------------------------------------------------
(* Required, by soname and directory.                                      *)

\* The paths of an ELF file as elfdeps() resolves them; what does not resolve is
\* taken as it is.  An empty path, which would stand for no directory, is not among
\* them: ElfFile::load() stops at one.
QueryDirs(fs, elf) ==
  {MakeRealPath(fs, PathOf(fs, ReplaceORIGIN(p, Dirname(elf.name)))).url :
     p \in Range(elf.rrunpaths)}

\* The directories are those of the linker and, of any ELF file that is indexed,
\* the run paths that are as well among those of this one.
SearchDirs(db, fs, elf) ==
  LinkerDirsIn(db) \cup ((UNION {r.lddir : r \in db.rrunpath}) \cap QueryDirs(fs, elf))

DepRows(db, elf, libs) ==
  UNION {{[pkg |-> d.pkg_id, file |-> d.filename, so |-> so, requiredby |-> elf.name] :
            so \in Range(elf.needed) \cap d.soname} : d \in libs}

\* Mutant: the width of the ELF file is not looked at.
ElfDepsAnyArch(db, fs, elf) ==
  DepRows(db, elf, {d \in db.dynlinked : d.dirname \in SearchDirs(db, fs, elf)})

ElfDeps(db, fs, elf) ==
  DepRows(db, elf, {d \in db.dynlinked : /\ d.arch = elf.arch
                                         /\ d.dirname \in SearchDirs(db, fs, elf)})

SoInDestDir(pkg) ==
  IF pkg.type = "DestDir" THEN {e.soName : e \in Range(pkg.elfFiles)} \ {""} ELSE {}

NotFoundBy(pkg, elf, deps) ==
  (Range(elf.needed) \ {r.so : r \in deps}) \ SoInDestDir(pkg)

\* getRequiredInfos(): the rows, and per file the names no row was found for.
RequiredInfos(db, fs, pkg) ==
  LET elfs == {e \in Range(pkg.elfFiles) : e.needed # <<>>}
      missing(e) == NotFoundBy(pkg, e, ElfDeps(db, fs, e))
  IN [rows |-> UNION {ElfDeps(db, fs, e) : e \in elfs},
      notFound |-> {[file |-> e.name, so |-> missing(e)] :
                      e \in {f \in elfs : missing(f) # {}}}]

-----------------------------------------------------------------------------
(* Required, by ldd.  ldd is a function from files to the lines of ldd.    *)

NamesLdd(ldd, pkg, elf) ==
  {so \in DOMAIN LddMap(ldd[elf.name]) :
     LddMap(ldd[elf.name])[so] = <<>> /\ so \notin SoInDestDir(pkg)}

\* What ldd has found, or finds in the DESTDIR: name, file, width and who needs it.
LddFound(ldd, pkg) ==
  UNION {{[so |-> so, file |-> LddMap(ldd[e.name])[so], arch |-> e.arch,
           requiredby |-> e.name] : so \in DOMAIN LddMap(ldd[e.name]) \ NamesLdd(ldd, pkg, e)} :
         e \in Range(pkg.elfFiles)}

\* while (path.isLink ()) path.makeRealPath (): a link that does not resolve is never
\* left.
LddLoops(fs, found) ==
  \E f \in found : IsLink(MakeRealPath(fs, PathOf(fs, f.file)))

LddFile(fs, file) ==
  LET p == PathOf(fs, file) IN IF IsLink(p) THEN MakeRealPath(fs, p).url ELSE file

RequiredInfosLDD(db, fs, ldd, pkg) ==
  [rows |-> UNION {{[pkg |-> p, file |-> LddFile(fs, f.file), so |-> f.so,
                     requiredby |-> f.requiredby] :
                      p \in PkgsOfFile(db, LddFile(fs, f.file), f.arch)} :
                   f \in LddFound(ldd, pkg)},
   notFound |-> {[file |-> e.name, so |-> NamesLdd(ldd, pkg, e)] :
                   e \in {f \in Range(pkg.elfFiles) : NamesLdd(ldd, pkg, f) # {}}}]

-----------------------------------------------------------------------------
(* printRequired().                                                        *)

\* The list to ignore has names of packages; full names are not looked for.
Kept(rows, ignores) == {r \in rows : NameOf(r.pkg) \notin ignores}

\* Of a name, the packages that have a file for it; none if one of them is the
\* installed package that is asked about.  The map of files is walked in order and
\* left at such a file, with what was collected thrown away.
PkgsOfSo(rows, so, own) ==
  LET pkgs == {r.pkg : r \in {q \in rows : q.so = so}}
  IN IF own \in pkgs THEN {} ELSE pkgs

RequiredLines(rows, own) ==
  {PkgsOfSo(rows, so, own) : so \in {r.so : r \in rows}} \ {{}}

\* substr() throws out_of_range for a package whose name is its full name.
NamesThrow(lines, shortNames) == ~shortNames /\ \E p \in UNION lines : ~HasRest(p)

ExplainedLines(rows) ==
  {[file |-> r.requiredby, so |-> r.so, found |-> r.file,
    pkgs |-> {q.pkg : q \in {q \in rows : /\ q.requiredby = r.requiredby
                                         /\ q.so = r.so /\ q.file = r.file}}] : r \in rows}

Own(pkg) == IF pkg.type = "Installed" THEN pkg.fullname ELSE <<>>

-----------------------------------------------------------------------------
(* printWhoNeed().                                                         *)

\* LEFT JOIN rrunpath: NULL for an ELF file without run paths.
RunPathsOf(db, id) ==
  LET rows == {r \in db.rrunpath : r.dynlinked_id = id}
  IN IF rows = {} THEN {{}} ELSE {r.lddir : r \in rows}

\* Mutant: a library outside of the linker's directories counts for any run path.
NeedsFromAnywhere(db, lddir, lib) ==
  lddir # {} \/ lib.dirname \in LinkerDirsIn(db) \/ lddir \subseteq LinkerDirsIn(db)

\* The condition the two queries share: an ELF file with a run path that is NULL, as
\* one without a run path, is taken to need a library of the name wherever it is.
NeedsFrom(db, lddir, lib) ==
  \/ lddir = {lib.dirname} /\ lib.dirname \notin LinkerDirsIn(db)
  \/ lib.dirname \in LinkerDirsIn(db)
  \/ lddir \subseteq LinkerDirsIn(db)

\* The names of a library that an ELF file needs and may find it by.
NeededOf(db, d, lib) ==
  {so \in lib.soname :
     /\ [dynlinked_id |-> d.id, needed |-> so] \in db.required /\ lib.arch = d.arch
     /\ \E lddir \in RunPathsOf(db, d.id) : NeedsFrom(db, lddir, lib)}

\* Rows of the two queries: libs are the rows of dynlinked a query asks about.
WhoNeeds(db, libs) ==
  UNION {{[pkg |-> d.pkg_id, file |-> d.filename, so |-> so, fromfile |-> lib.filename] :
            so \in NeededOf(db, d, lib)} : d \in db.dynlinked, lib \in libs}

WhoNeedsFile(db, filename) ==
  WhoNeeds(db, {d \in db.dynlinked : d.filename = filename})

WhoNeedsPkg(db, full) == WhoNeeds(db, {d \in db.dynlinked : d.pkg_id = full})

\* The plain list takes no heed of what is to be ignored, the explained one does.
WhoNeedsLines(rows) == {r.pkg : r \in rows}
WhoNeedsExplained(rows, ignores) == Kept(rows, ignores)
=============================================================================
