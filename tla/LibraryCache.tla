---------------------------- MODULE LibraryCache ----------------------------
(***************************************************************************)
(* The libraries of the packages in the database, while packages come and  *)
(* go, the linker's directories change, and doSync() of cache.cpp runs     *)
(* again and again and may be interrupted.  CacheSync shows which packages *)
(* a sync finds changed; here it finds all of them, and the question is    *)
(* what their rows say.                                                    *)
(***************************************************************************)
EXTENDS Reports, LinkerSearch

CONSTANTS
  Names,        \* packages, as sequences: their full names
  Files(_, _),  \* the nodes a version of a package puts into the file system
  Versions,     \* its versions
  BaseFiles,    \* nodes that are there without packages
  Confs,        \* contents /etc/ld.so.conf may have
  FirstConf,    \* the one it begins with
  Ldconfig(_),  \* what ldconfig -p prints of a file system
  MaxChanges,   \* bound of the changes of the system
  MaxCrashes    \* bound of the interruptions

VARIABLES
  installed,    \* of each package its version, 0 without
  conf,         \* the content of /etc/ld.so.conf
  fs,           \* the file system: what the two make of it
  ldlines,      \* what ldconfig -p prints
  db,           \* the tables, as committed
  pc,           \* the thread in doSync()
  ld,           \* what the static of getLDDirs() holds, in this process: a set
  todo,         \* SyncData: packages to clear and to index
  changes, crashes,
  moved,        \* packages whose rows were made before the directories moved
  calm, quiet   \* no change since this doSync() began; since the last complete one

worldVars == <<installed, conf, fs, ldlines>>
procVars == <<pc, ld, todo>>
histVars == <<changes, crashes, moved, calm, quiet>>
vars == <<worldVars, db, procVars, histVars>>

Installed == {p \in Names : installed[p] # 0}

\* What there is, part by part.  lines is the set of the content of /etc/ld.so.conf, {}
\* without that file.
Parts(inst, lines) ==
  {BaseFiles} \cup {Files(p, inst[p]) : p \in {q \in Names : inst[q] # 0}}
    \cup {[at \in {Conf} |-> [type |-> "ISREG", lines |-> c]] : c \in lines}

FilesOf(inst, lines) ==
  LET parts == Parts(inst, lines)
      partOf(at) == CHOOSE part \in parts : at \in DOMAIN part
  IN [at \in UNION {DOMAIN part : part \in parts} |-> partOf(at)[at]]

\* Pkg::Load() of an installed package: the ELF files of its list.
ElfFilesOf(nodes, p, v) ==
  LET elfs == {ElfAt(nodes, f) : f \in {g \in DOMAIN Files(p, v) : nodes[g].type = "ISREG"}}
  IN SetToSeq({e \in elfs : IsElf(e)})

PkgOf(nodes, p, v) ==
  [fullname |-> p, type |-> "Installed", timestamp |-> v, elfFiles |-> ElfFilesOf(nodes, p, v)]

ASSUME LibraryAssumption ==
  FirstConf \in Confs /\ 0 \notin Versions /\ MaxChanges \in Nat /\ MaxCrashes \in Nat

\* Parts that have a path in common, as a directory of several packages, agree on it.
ASSUME WorldAssumption ==
  \A inst \in [Names -> {0} \cup Versions], lines \in Confs :
    /\ IsFileSystem(FilesOf(inst, lines))
    /\ \A a, b \in Parts(inst, lines) : \A at \in DOMAIN a \cap DOMAIN b : a[at] = b[at]

ElfIn(p, v, f) == ElfOf(f, Files(p, v)[f].image)

\* The files of a package can be read, and counted.
ASSUME FilesAssumption ==
  \A p \in Names, v \in Versions :
    /\ IsFiniteSet(DOMAIN Files(p, v))
    /\ \A f \in DOMAIN Files(p, v) :
         Files(p, v)[f].type = "ISREG" =>
           HasSizes(Files(p, v)[f].image) /\ ElfIn(p, v, f).soName \in PathNames

\* A run path is one of directories: it does not lead to a file.
ASSUME RunPathAssumption ==
  \A p \in Names, v \in Versions : \A f \in DOMAIN Files(p, v) :
    Files(p, v)[f].type = "ISREG" =>
      \A r \in Range(ElfIn(p, v, f).rrunpaths) :
        LET path == ReplaceORIGIN(r, Dirname(f))
        IN /\ path \in Seq(PathNames)
           /\ \A inst \in [Names -> {0} \cup Versions], lines \in Confs :
                LET at == PathOf(FilesOf(inst, lines), path)
                IN {at.type, MakeRealPath(FilesOf(inst, lines), at).type} \cap {"ISREG", "ISFIFO"} = {}

IndexedAs(d) == [p \in Names |-> IF \E r \in d.pkgs : r.fullname = p
                                 THEN (CHOOSE r \in d.pkgs : r.fullname = p).timestamp
                                 ELSE 0]

Init ==
  /\ installed \in [Names -> {0} \cup Versions]
  /\ conf = FirstConf
  /\ fs = FilesOf(installed, conf)
  /\ ldlines = Ldconfig(fs)
  /\ db = NoTables
  /\ pc = "idle" /\ ld = {} /\ todo = {}
  /\ changes = 0 /\ crashes = 0
  /\ moved = {} /\ calm = FALSE /\ quiet = FALSE

TypeOK ==
  /\ installed \in [Names -> {0} \cup Versions] /\ conf \in Confs
  /\ DOMAIN db = Tables
  /\ \A r \in db.pkgs : r.fullname \in Names /\ r.timestamp \in Versions
  /\ \A r \in db.required \cup db.rrunpath : \E d \in db.dynlinked : d.id = r.dynlinked_id
  /\ \A d \in db.dynlinked : \E r \in db.pkgs : r.fullname = d.pkg_id
  /\ pc \in {"idle", "diff", "dirs", "index"}
  /\ Cardinality(ld) <= 1 /\ todo \subseteq Names
  /\ changes \in 0..MaxChanges /\ crashes \in 0..MaxCrashes
  /\ moved \subseteq Names /\ calm \in BOOLEAN /\ quiet \in BOOLEAN

-----------------------------------------------------------------------------
(* The system.                                                             *)

\* What the constructor of Ldconf makes, if it does not throw.
LinkerView(nodes, lines) == IF Throws(nodes) THEN {} ELSE {Ldconf(nodes, lines)}

\* What a row is made from besides its ELF file: the linker's directories, and which
\* directories and links there are.
Places(nodes, lines) ==
  [ld |-> LinkerView(nodes, lines),
   at |-> [p \in {q \in DOMAIN nodes : nodes[q].type \in {"ISDIR", "ISLNK"}} |-> nodes[p]]]

Changed ==
  /\ changes < MaxChanges /\ changes' = changes + 1
  /\ fs' = FilesOf(installed', conf')
  /\ ldlines' = Ldconfig(fs')
  /\ moved' = IF Places(fs', ldlines') = Places(fs, ldlines) THEN moved
              ELSE moved \cup {r.fullname : r \in db.pkgs}
  /\ calm' = FALSE /\ quiet' = FALSE
  /\ UNCHANGED <<db, procVars, crashes>>

\* installpkg, upgradepkg or removepkg; each runs ldconfig.
ChangePackage ==
  /\ \E p \in Names, v \in {0} \cup Versions :
       v # installed[p] /\ installed' = [installed EXCEPT ![p] = v]
  /\ conf' = conf
  /\ Changed

\* /etc/ld.so.conf is edited, and ldconfig run.
ChangeConf ==
  /\ \E c \in Confs : c # conf /\ conf' = c
  /\ installed' = installed
  /\ Changed

-----------------------------------------------------------------------------
(* doSync().                                                               *)

\* isNewDb(), createDbSchema(), and the thread for getLDDirs() is started.
Open ==
  /\ pc = "idle"
  /\ pc' = "diff"
  /\ db' = IF IsNewDb(db) THEN CreateSchema(db) ELSE db
  /\ calm' = TRUE
  /\ UNCHANGED <<worldVars, ld, todo, changes, crashes, moved, quiet>>

\* The thread runs while the packages are compared, and the static is initialised
\* once in a process.  An exception of Ldconf in that thread ends the process.
GetLDDirs ==
  /\ pc \in {"diff", "dirs"} /\ ld = {}
  /\ ld' = LinkerView(fs, ldlines)
  /\ IF ld' = {} THEN pc' = "idle" /\ todo' = {} ELSE UNCHANGED <<pc, todo>>
  /\ UNCHANGED <<worldVars, db, histVars>>

\* createNewSyncData() and createUpdateSyncData().
Compare ==
  /\ pc = "diff"
  /\ todo' = {p \in Names : IndexedAs(db)[p] # installed[p]}
  /\ pc' = "dirs"
  /\ UNCHANGED <<worldVars, db, ld, histVars>>

\* Mutant: the index comes before the directories are in the database.
UpdateDirsLate ==
  /\ pc = "dirs" /\ ld # {}
  /\ db' = db
  /\ pc' = "index"
  /\ UNCHANGED <<worldVars, ld, todo, histVars>>

\* waitfor(t), then updateLdDirInfo().
UpdateDirs ==
  /\ pc = "dirs" /\ ld # {}
  /\ \E l \in ld : db' = UpdateLdDirInfo(db, l)
  /\ pc' = "index"
  /\ UNCHANGED <<worldVars, ld, todo, histVars>>

\* Clearing and indexing of packages; without a file there is nothing to index.
Reindexed(d, names) ==
  IndexPkg(DelByFullName(d, names), fs,
           {PkgOf(fs, p, installed[p]) : p \in names \cap Installed})

\* createIndex() and updateIndex(), whose todos may be carried out in any order: each
\* touches rows of its own.
Index ==
  /\ pc = "index"
  /\ db' = Reindexed(db, todo)
  /\ pc' = "idle" /\ ld' = {} /\ todo' = {}
  /\ moved' = IF calm THEN moved \ todo ELSE moved \cup todo
  /\ quiet' = calm
  /\ UNCHANGED <<worldVars, changes, crashes, calm>>

Crash ==
  /\ pc # "idle" /\ crashes < MaxCrashes
  /\ crashes' = crashes + 1
  /\ pc' = "idle" /\ ld' = {} /\ todo' = {}
  /\ UNCHANGED <<worldVars, db, changes, moved, calm, quiet>>

Next ==
  \/ ChangePackage \/ ChangeConf
  \/ Open \/ GetLDDirs \/ Compare \/ UpdateDirs \/ Index
  \/ Crash

Spec == Init /\ [][Next]_vars
-----------------------------------------------------------------------------
(* Properties.                                                             *)

\* The database as createIndex() would make it anew.
Fresh ==
  IndexPkg(UpdateLdDirInfo(CreateSchema(NoTables), Ldconf(fs, ldlines)), fs,
           {PkgOf(fs, p, installed[p]) : p \in Installed})

RowsOf(d, p) ==
  [dynlinked |-> {r \in d.dynlinked : r.pkg_id = p},
   required |-> {r \in d.required : r.dynlinked_id[1] = p},
   rrunpath |-> {r \in d.rrunpath : r.dynlinked_id[1] = p}]

Answer(d, p) == RequiredInfos(d, fs, PkgOf(fs, p, installed[p]))

\* Whatever was interrupted or came in between: after a complete sync the directories
\* in the database are the linker's (updateLdDirInfo() commits before the index), and
\* a package has the rows a new database would have, unless a directory or a link has
\* moved since it was indexed.
RowsStaleOnlyIfMoved ==
  LET asIn(fresh) ==
        /\ db.lddirs = fresh.lddirs /\ db.ldlnkdirs = fresh.ldlnkdirs
        /\ \A p \in Installed \ moved : RowsOf(db, p) = RowsOf(fresh, p)
  IN quiet => asIn(Fresh)

\* docs/options_cache.adoc: "Each time sbbdep is executed it scans the system for
\* changes.  If changes are found the cache is updated."  So a query after a sync has
\* the answer a new database gives.
AnswersAreFresh ==
  quiet => \A p \in Installed : Answer(db, p) = Answer(Fresh, p)

\* If a package is found to require a file, the packages that need the file, and
\* those that need its package, are found to include it: two queries of their own
\* over the same rows (report_require.cpp, report_whoneed.cpp).
RequiredIsNeeded ==
  quiet => \A p \in Installed \ moved : \A r \in Answer(db, p).rows :
    /\ \E w \in WhoNeedsFile(db, r.file) : w.pkg = p /\ w.file = r.requiredby
    /\ \E w \in WhoNeedsPkg(db, r.pkg) : w.pkg = p /\ w.fromfile = r.file

\* What ends the search for a library anywhere: no run path, or one that is not there or
\* is the linker's.
AnyDirectory(elf) ==
  \/ Range(elf.rrunpaths) = {}
  \/ \E r \in Range(elf.rrunpaths) :
       RRunPathDir(fs, r, Dirname(elf.name)) \subseteq LinkerDirsIn(db)

\* And back: what is found to need a library, by either query, is found to require it.
\* The exception: for an ELF file as above whoneeds takes a library of the name that is
\* outside of the linker's directories, wherever it is (report_whoneed.cpp).
NeededIsRequired ==
  quiet => \A p \in Installed \ moved, lib \in db.dynlinked : \A w \in WhoNeeds(db, {lib}) :
    w.pkg = p =>
      \/ \E r \in Answer(db, p).rows :
           r.file = lib.filename /\ r.so = w.so /\ r.requiredby = w.file
      \/ /\ lib.dirname \notin LinkerDirsIn(db)
         /\ \E e \in Range(ElfFilesOf(fs, p, installed[p])) : e.name = w.file /\ AnyDirectory(e)

\* What is found to require a library, and what is found to need it, are the same.
RequirementsAgree == RequiredIsNeeded /\ NeededIsRequired

\* A file of a package that the tree shows where a name is needed (findElfSo()) is
\* among the requirements that are listed (elfdeps()): looking for names in the
\* linker's directories and comparing sonames and directories come to the same.
TreeFindsRequired(p, e, so) ==
  LET listed(file) ==
        PkgsOfFile(db, file, e.arch) # {} =>
          \E r \in Answer(db, p).rows : r.file = file /\ r.so = so /\ r.requiredby = e.name
      listedIfElf(found) ==
        IsElf(found) => listed(MakeRealPath(fs, PathOf(fs, found.name)).url)
  IN listedIfElf(FindElfSo(fs, ldlines, <<>>, e, so))

\* Paths of the directory that findElfSo() does not take as they are meant.
SpecialPaths(e, dir) ==
  {r \in Range(e.rrunpaths) :
     /\ ReplaceLIB(ReplaceORIGIN(r, Dirname(e.name)), e.arch) # r
     /\ dir \in RRunPathDir(fs, r, Dirname(e.name))}

\* And back: the tree finds every name of which a file is listed, unless that file is in a
\* directory of a run path with $ORIGIN or $LIB in it (report_bdtree.cpp, findElfSo).
RequiredIsInTree(p, e, so) ==
  \A r \in Answer(db, p).rows :
    r.requiredby = e.name /\ r.so = so =>
      IsElf(FindElfSo(fs, ldlines, <<>>, e, so)) \/ SpecialPaths(e, Dirname(r.file)) # {}

\* Where nothing has moved, the tree and the list of requirements agree.
TreeAgreesWithList ==
  quiet /\ moved = {} => \A p \in Installed : \A e \in Range(ElfFilesOf(fs, p, installed[p])) :
    \A so \in Range(e.needed) : TreeFindsRequired(p, e, so) /\ RequiredIsInTree(p, e, so)
=============================================================================
