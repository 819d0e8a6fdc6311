---------------------------- MODULE CacheTables -----------------------------
(***************************************************************************)
(* The tables of the cache and the statements that write them: the schema  *)
(* and the functions of src/sbbdep/cachesql.cpp, and indexPkg(),           *)
(* updateLdDirInfo() and findDirWithLink() of src/sbbdep/cache.cpp.        *)
(*                                                                         *)
(* A table is the set of its rows.  For the numbers AUTOINCREMENT gives,   *)
(* a row of pkgs has its full name, a row of dynlinked that and the name   *)
(* of the file: a package is indexed after its rows have been cleared.  A  *)
(* column that may be NULL is the set of its value.                        *)
(***************************************************************************)
EXTENDS LinkerDirs, ElfFile, PackageName

CONSTANTS
  AppVersion,   \* <<major, minor>> of this program
  DirOrder      \* library directories in the order SQLite's UNION returns them

ASSUME DirOrderAssumption == DirOrder \in Seq(Seq(NodeNames))

Tables ==
  {"pkgs", "dynlinked", "required", "rrunpath", "lddirs", "ldlnkdirs", "version"}

NoTables == [t \in Tables |-> {}]

\* createSchema(), its last statement included.
CreateSchema(db) == [db EXCEPT !.version = {AppVersion}]

\* isNewDb(): pkgs and version are created in one transaction.
IsNewDb(db) == db.version = {}

\* The two numbers are compared as one, where a minor version has room for 99.
MajorMinor(v) == (100000 + v[1] * 10000) + (1000 + v[2] * 100)
CompatibleVersion(db) == \A v \in db.version : MajorMinor(v) = MajorMinor(AppVersion)

-----------------------------------------------------------------------------
(* Deleting: del_byfullname and the triggers of pkgs and dynlinked.        *)

\* Mutant: rrunpath is not part of the trigger.
DeleteDynLinkedKeepPaths(db, rows) ==
  LET ids == {r.id : r \in rows}
  IN [db EXCEPT !.dynlinked = @ \ rows,
                !.required = {r \in @ : r.dynlinked_id \notin ids}]

DeleteDynLinked(db, rows) ==
  LET ids == {r.id : r \in rows}
  IN [db EXCEPT !.dynlinked = @ \ rows,
                !.required = {r \in @ : r.dynlinked_id \notin ids},
                !.rrunpath = {r \in @ : r.dynlinked_id \notin ids}]

DeletePkgs(db, rows) ==
  LET ids == {r.fullname : r \in rows}
      cleared == DeleteDynLinked(db, {r \in db.dynlinked : r.pkg_id \in ids})
  IN [cleared EXCEPT !.pkgs = @ \ rows]

\* For each of some full names.
DelByFullName(db, fulls) == DeletePkgs(db, {r \in db.pkgs : r.fullname \in fulls})

-----------------------------------------------------------------------------
(* Inserting: indexPkg().                                                  *)

\* The table of a statement that is prepared when it is first asked for.
TableOf ==
  [insert_pkg |-> "pkgs", insert_dynlinked |-> "dynlinked", insert_required |-> "required",
   insert_rrunpath |-> "rrunpath", insert_ldDir |-> "lddirs", insert_ldLnkDir |-> "ldlnkdirs"]

Insert(db, id, rows) == [db EXCEPT ![TableOf[id]] = @ \cup rows]

\* mkRealPath(replaceOrigin(ldpath, dir)): NULL where nothing is.  The path of a
\* link that leads nowhere is kept as it is.
RRunPathDir(fs, ldpath, dir) ==
  LET p == MakeRealPath(fs, PathOf(fs, ReplaceORIGIN(ldpath, dir)))
  IN IF IsValid(p) THEN {p.url} ELSE {}

\* Is d/soname a link to the ELF file?
LinkedFrom(fs, d, elf) ==
  LET p == PathOf(fs, Append(d, elf.soName))
  IN IsLink(p) /\ MakeRealPath(fs, p).url = elf.name

\* Mutant: links are not looked for.
DirOnly(fs, elf, ldirs) == Dirname(elf.name)

\* findDirWithLink(): a library outside of the linker's directories belongs to the
\* first of them that has a link to it under its soname.
FindDirWithLink(fs, elf, ldirs) ==
  LET dir == Dirname(elf.name)
      linking == {i \in DOMAIN DirOrder :
                    DirOrder[i] \in ldirs /\ LinkedFrom(fs, DirOrder[i], elf)}
  IN IF dir \in ldirs \/ linking = {} THEN dir
     ELSE DirOrder[CHOOSE i \in linking : \A j \in linking : i <= j]

LinkerDirsIn(db) == db.lddirs \cup db.ldlnkdirs

IdOf(full, elf) == <<full, elf.name>>

PkgRow(pkg) ==
  [fullname |-> pkg.fullname, name |-> NameOf(pkg.fullname), timestamp |-> pkg.timestamp]

DynLinkedRow(ldirs, fs, full, elf) ==
  [id |-> IdOf(full, elf), pkg_id |-> full, filename |-> elf.name,
   dirname |-> IF elf.type = "Library" THEN FindDirWithLink(fs, elf, ldirs)
               ELSE Dirname(elf.name),
   basename |-> Basename(elf.name), soname |-> {elf.soName} \ {NoName}, arch |-> elf.arch]

RequiredRows(full, elf) ==
  {[dynlinked_id |-> IdOf(full, elf), needed |-> n] : n \in Range(elf.needed)}

RRunPathRows(fs, full, elf) ==
  {[dynlinked_id |-> IdOf(full, elf), ldpath |-> p,
    lddir |-> RRunPathDir(fs, p, Dirname(elf.name))] : p \in Range(elf.rrunpaths)}

\* The ELF files of packages, each with the full name of its package.
OwnedElfs(pkgs) == UNION {{<<p.fullname, e>> : e \in Range(p.elfFiles)} : p \in pkgs}

InsertElfs(db, fs, owned) ==
  LET dynlinked == {DynLinkedRow(LinkerDirsIn(db), fs, o[1], o[2]) : o \in owned}
      linked == Insert(db, "insert_dynlinked", dynlinked)
      required == Insert(linked, "insert_required", UNION {RequiredRows(o[1], o[2]) : o \in owned})
  IN Insert(required, "insert_rrunpath", UNION {RRunPathRows(fs, o[1], o[2]) : o \in owned})

\* For each of some packages, as they were loaded: the full name as a sequence, the
\* time and the ELF files.  No row is looked at while they are inserted.
IndexPkg(db, fs, pkgs) ==
  InsertElfs(Insert(db, "insert_pkg", {PkgRow(p) : p \in pkgs}), fs, OwnedElfs(pkgs))

-----------------------------------------------------------------------------
(* updateLdDirInfo(), a transaction of its own.                            *)

\* Mutant: the directories of earlier runs are not deleted.
UpdateLdDirInfoAdds(db, ldconf) ==
  Insert(Insert(db, "insert_ldDir", ldconf.lddirs), "insert_ldLnkDir", ldconf.ldlnkdirs)

UpdateLdDirInfo(db, ldconf) ==
  LET deleted == [db EXCEPT !.lddirs = {}, !.ldlnkdirs = {}]
  IN Insert(Insert(deleted, "insert_ldDir", ldconf.lddirs), "insert_ldLnkDir", ldconf.ldlnkdirs)

-----------------------------------------------------------------------------
(* Queries shared by the reports.                                          *)

\* getPkgsOfFile().
PkgsOfFile(db, filename, arch) ==
  {r.pkg_id : r \in {d \in db.dynlinked : d.filename = filename /\ d.arch = arch}}
=============================================================================
