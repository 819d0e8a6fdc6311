---------------------------- MODULE CommandLine -----------------------------
(***************************************************************************)
(* One execution of sbbdep: main(), AppArgs::parse() and AppCli::run(),    *)
(* with the lookup, the opening of the cache and the tree, while files are *)
(* removed and other processes open the same cache.                        *)
(*                                                                         *)
(* A command line is a sequence of options [opt, arg, names] and of words, *)
(* whose opt is "".  An argument is a path, or names to ignore.  The words *)
(* are taken out of the way by getopt_long.                                *)
(***************************************************************************)
EXTENDS OpenCache, Lookup, DependencyTree, Reports

CONSTANTS
  Me,           \* the process, one of Procs
  AdmDir,       \* where the lists of the installed packages are
  BinDirs, LdDirs,  \* Ldconf's directories, as sequences
  BadFiles,     \* names of output files that cannot be opened
  DefaultDb,    \* the default name of the cache
  FullNames,    \* of a list's file name, the package's full name as a sequence
  Ldd(_),       \* of the files of a file system, what ldd prints
  Removable,    \* files that may be removed meanwhile
  MaxRemovals   \* bound of those that are

ASSUME CommandLineAssumption == Me \in Procs /\ MaxRemovals \in Nat

VARIABLES
  argv,      \* the command line
  args,      \* AppArgs
  fs,        \* the file system
  gone,      \* what has been removed from it
  phase,     \* the step of run() that is next, "done" at the end
  exit,      \* the exit code; "abort" without a handler, "signal" after undefined reads
  pkg,       \* the package of the query
  report     \* what has been printed of it, and what ldd has

worldVars == <<fs, gone>>
runVars == <<argv, args, phase, exit, pkg, report>>
vars == <<openVars, lookVars, treeVars, worldVars, runVars>>

NoPkg == [fullname |-> <<>>, type |-> "Unknown", path |-> [url |-> <<>>, type |-> "INVALID"],
          timestamp |-> 1, elfFiles |-> <<>>]
NoReport == [kind |-> "", lines |-> {}, ldd |-> <<>>]
Reported(kindOf, lines) == report' = [report EXCEPT !.kind = kindOf, !.lines = lines]

P == INSTANCE PkgLoad WITH
       DotNew <- {d[2] : d \in DotNew}, removed <- gone, path <- pkg.path, type <- pkg.type,
       line <- 0, inList <- TRUE, dirs <- <<>>, frames <- <<>>, elfFiles <- pkg.elfFiles

-----------------------------------------------------------------------------
(* AppArgs::parse().                                                       *)

NoArgs ==
  [help |-> FALSE, version |-> FALSE, short |-> FALSE, nosync |-> FALSE, require |-> FALSE,
   whoneeds |-> FALSE, xdl |-> FALSE, quiet |-> FALSE, ldd |-> FALSE, lookup |-> FALSE,
   bdtree |-> FALSE, fx |-> FALSE, file |-> <<>>, cache |-> DefaultDb, query |-> <<>>,
   ignore |-> {}]

Flags == {"help", "version", "short", "nosync", "require", "whoneeds", "xdl", "quiet",
          "ldd", "lookup", "bdtree", "fx"}

\* "-h" and "-v" end the loop, their long forms do not.
Letter(opt) == CASE opt = "-h" -> "help" [] opt = "-v" -> "version" [] OTHER -> opt

Option(read, o) ==
  CASE read.stop -> read
    [] ~read.stop /\ o.opt \in {"-h", "-v"} ->
         [read EXCEPT !.args[Letter(o.opt)] = TRUE, !.stop = TRUE]
    [] ~read.stop /\ o.opt \in Flags -> [read EXCEPT !.args[o.opt] = TRUE]
    [] ~read.stop /\ o.opt = "ignore" ->
         [read EXCEPT !.args.ignore = IF o.names = {} THEN @ ELSE o.names]
    [] ~read.stop /\ o.opt \in {"file", "cache"} -> [read EXCEPT !.args[o.opt] = o.arg]
    [] OTHER -> [read EXCEPT !.bad = TRUE, !.stop = TRUE]

\* The first word is the query, the others are reported and ignored.
Parsed(line) ==
  LET options == SelectSeq(line, LAMBDA o : o.opt # "")
      words == SelectSeq(line, LAMBDA o : o.opt = "")
      read == FoldLeft(Option, [args |-> NoArgs, stop |-> FALSE, bad |-> FALSE], options)
  IN IF words = <<>> \/ read.args.help \/ read.args.version THEN read
     ELSE [read EXCEPT !.args.query = words[1].arg]

-----------------------------------------------------------------------------
(* main() and AppCli::run().                                               *)

Init(line, nodes, files) ==
  /\ OpenInit(files) /\ LookInit /\ TreeInit
  /\ argv = line /\ args = NoArgs
  /\ fs = nodes /\ gone = {}
  /\ phase = "start" /\ exit = "" /\ pkg = NoPkg /\ report = NoReport

Goto(p) == phase' = p /\ UNCHANGED exit
Exit(code) == phase' = "done" /\ exit' = code

HasQuery == args.query # <<>>
IsDefault == args.cache = DefaultDb

\* Cache::defaultDb is made before main(), and throws without the directory it is to
\* be in.
HasDataFolder == IsFolder(MakeRealPath(fs, PathOf(fs, <<"cache">>)))

AppStm == IF args'.file = <<>> THEN "stdout" ELSE "file"

Start ==
  /\ phase = "start"
  /\ LET read == Parsed(argv)
     IN /\ args' = read.args
        /\ CASE ~HasDataFolder -> Exit("abort") /\ UNCHANGED setup
             [] read.bad -> Exit("1") /\ UNCHANGED setup
             [] read.args.help \/ read.args.version -> Exit("0") /\ UNCHANGED setup
             [] read.args.file \in BadFiles -> Exit("1") /\ UNCHANGED setup
             [] OTHER -> /\ CreateLog(AppStm, read.args.quiet)
                         /\ IF read.args.lookup /\ read.args.query = <<>> THEN Exit("1")
                            ELSE Goto(IF read.args.lookup THEN "lookup" ELSE "db")
  /\ UNCHANGED <<openVars, searchVars, message, out, treeVars, worldVars, argv, pkg, report>>

\* lookupInPackages(), which lists the directory first.
StartLookup ==
  /\ phase = "lookup" /\ kind = ""
  /\ IF CanOpenDir(fs, AdmDir)
     THEN Begin("text", args.query) /\ Goto("lookup")
     ELSE Exit("abort") /\ UNCHANGED lookVars
  /\ UNCHANGED <<openVars, treeVars, worldVars, argv, args, pkg, report>>

LookupStep ==
  /\ phase \in {"lookup", "find"} /\ ~LookupOver
  /\ Looking(fs)
  /\ UNCHANGED <<openVars, treeVars, worldVars, runVars>>

EndLookup ==
  /\ phase \in {"lookup", "find"} /\ LookupOver
  /\ Exit("0")
  /\ UNCHANGED <<openVars, lookVars, treeVars, worldVars, argv, args, pkg, report>>

CheckDb ==
  /\ phase = "db"
  /\ IF cacheFile = 0 /\ args.nosync THEN Exit("2") ELSE Goto("open")
  /\ UNCHANGED <<openVars, lookVars, treeVars, worldVars, argv, args, pkg, report>>

OpenStep ==
  /\ phase = "open" /\ Opening(Me, IsDefault)
  /\ UNCHANGED <<lookVars, treeVars, worldVars, runVars>>

\* What openCache() throws nobody catches.
Opened ==
  /\ phase = "open" /\ openPc[Me] \in {"open", "failed"}
  /\ CASE openPc[Me] = "failed" -> Exit("abort")
       [] openPc[Me] = "open" /\ IsNewDb(dbs[at[Me]]) /\ args.nosync -> Exit("2")
       [] openPc[Me] = "open" /\ ~(IsNewDb(dbs[at[Me]]) /\ args.nosync) /\ args.fx -> Exit("0")
       [] OTHER -> Goto("query")
  /\ UNCHANGED <<openVars, lookVars, treeVars, worldVars, argv, args, pkg, report>>

MyDb == dbs[at[Me]]

NameOfList(p) == FullNames[Basename(p)]

\* Pkg::create() of what the query resolves to.
QueryPkg ==
  LET p == MakeRealPath(fs, PathOf(fs, args.query))
      type == P!TypeFor(p, "Unknown")
  IN [NoPkg EXCEPT !.path = p, !.type = type,
                   !.fullname = IF type = "Installed" THEN NameOfList(p.url) ELSE <<>>]

\* What is no package is looked for in the lists; errors there are caught.
Query ==
  /\ phase = "query"
  /\ pkg' = IF HasQuery THEN QueryPkg ELSE NoPkg
  /\ LET unknown == HasQuery /\ pkg'.type = "Unknown"
     IN CASE unknown /\ ~IsValid(pkg'.path) -> Exit("33") /\ UNCHANGED lookVars
          [] unknown /\ IsValid(pkg'.path) /\ ~CanOpenDir(fs, AdmDir) ->
               Exit("3") /\ UNCHANGED lookVars
          [] unknown /\ IsValid(pkg'.path) /\ CanOpenDir(fs, AdmDir) ->
               Goto("find") /\ Begin("file", pkg'.path.url)
          [] OTHER -> Goto("sync") /\ UNCHANGED lookVars
  /\ UNCHANGED <<openVars, treeVars, worldVars, argv, args, report>>

-----------------------------------------------------------------------------
(* Sync, and Pkg::Load().                                                  *)

\* The ELF files Load() finds, where a walk of a DESTDIR is one step.
ElfFilesOf(p) ==
  LET under(d) == {q \in DOMAIN fs : fs[q].type = "ISREG" /\ IsPrefix(p.path.url \o d, q)}
  IN CASE p.type = "BinLib" -> SelectSeq(<<ElfAt(fs, p.path.url)>>, IsElf)
       [] p.type = "Installed" ->
            LET lines == Body(fs, p.path.url)
            IN FlattenSeq([i \in DOMAIN lines |-> P!ElfsOfLine(lines[i])])
       [] OTHER -> SelectSeq(SetToSeq({ElfAt(fs, q) : q \in UNION {under(d) :
                                       d \in BinDirsOf(fs) \cup LdDirsOf(fs)}}), IsElf)

\* It fails for a list that is gone, or has no more than its header.
CanLoad(p) == p.type = "Installed" => Body(fs, p.path.url) # <<>>

ListedPkgs ==
  {[fullname |-> NameOfList(l), type |-> "Installed", timestamp |-> 1,
    path |-> PathOf(fs, l), elfFiles |-> <<>>] : l \in Range(Lists) \cap DOMAIN fs}

WithSchema(db) == IF IsNewDb(db) THEN CreateSchema(db) ELSE db

\* doSync() in one step: schema, directories, and the packages that are not the same.
Synced(db) ==
  LET names == {p.fullname : p \in ListedPkgs}
      dirs == UpdateLdDirInfo(WithSchema(db), Ldconf(fs, LdLines))
      indexed == {r.fullname : r \in db.pkgs}
      cleared == DelByFullName(dirs, indexed \ names)
      added == {p \in ListedPkgs : CanLoad(p) /\ p.fullname \notin indexed}
  IN IndexPkg(cleared, fs, {[p EXCEPT !.elfFiles = ElfFilesOf(p)] : p \in added})

\* Old packages of updates, whose version printSyncReport() takes from the full name.
UpdatedOld(before, after) ==
  {o \in before \ after : \E n \in after \ before : NameOf(n) = NameOf(o)}

\* The thread for the linker's directories throws without /etc/ld.so.conf, and so does
\* the scan of a directory that cannot be listed: by then a new database has a schema.
CannotSync == Throws(fs) \/ ~CanOpenDir(fs, AdmDir)

\* Mutant: the sync is left out for a query.
SyncWithoutQuery ==
  /\ phase = "sync"
  /\ IF HasQuery \/ CannotSync THEN dbs' = dbs ELSE dbs' = [dbs EXCEPT ![at[Me]] = Synced(@)]
  /\ IF HasQuery THEN Goto("load") ELSE Exit("0")
  /\ UNCHANGED <<cacheFile, openPc, at, lookVars, treeVars, worldVars, argv, args, pkg, report>>

SyncDb ==
  /\ phase = "sync" /\ ~args.nosync
  /\ dbs' = [dbs EXCEPT ![at[Me]] = IF CannotSync THEN WithSchema(@) ELSE Synced(@)]
  /\ LET names(db) == {r.fullname : r \in db.pkgs}
         old == UpdatedOld(names(MyDb), names(dbs'[at[Me]]))
         throws == CannotSync \/ \E o \in old : ~HasRest(o)
     IN CASE throws -> Exit("abort")
          [] ~throws /\ HasQuery -> Goto("load")
          [] OTHER -> Exit("0")

NoSync ==
  /\ phase = "sync" /\ args.nosync
  /\ IF HasQuery THEN Goto("load") ELSE Exit("0")
  /\ UNCHANGED dbs

Sync ==
  /\ SyncDb \/ NoSync
  /\ UNCHANGED <<cacheFile, openPc, at, lookVars, treeVars, worldVars, argv, args, pkg, report>>

\* SBBASSERT (pkg.Load ()) only logs in a build without DEBUG: a package that cannot be
\* loaded is gone on with, empty.
Load ==
  /\ phase = "load"
  /\ pkg' = [pkg EXCEPT !.elfFiles = IF CanLoad(pkg) THEN ElfFilesOf(pkg) ELSE <<>>]
  /\ Goto("report")
  /\ UNCHANGED <<openVars, lookVars, treeVars, worldVars, argv, args, report>>

-----------------------------------------------------------------------------
(* The three reports.                                                      *)

NeededBy(p, db) ==
  IF p.type = "BinLib" THEN WhoNeedsFile(db, p.elfFiles[1].name) ELSE WhoNeedsPkg(db, p.fullname)

\* printWhoNeed(): a file that is no ELF file by now has no first element.
WhoNeedsReport ==
  /\ phase = "report" /\ args.whoneeds
  /\ CASE pkg.type = "DestDir" -> Exit("0") /\ UNCHANGED report
       [] pkg.type = "BinLib" /\ pkg.elfFiles = <<>> -> Exit("signal") /\ UNCHANGED report
       [] OTHER -> /\ Exit("0")
                   /\ LET rows == NeededBy(pkg, MyDb)
                      IN Reported("whoneeds", IF args.xdl THEN WhoNeedsExplained(rows, args.ignore)
                                              ELSE WhoNeedsLines(rows))
  /\ UNCHANGED <<openVars, lookVars, treeVars, worldVars, argv, args, pkg>>

StartTree ==
  /\ phase = "report" /\ ~args.whoneeds /\ args.bdtree
  /\ Goto("tree")
  /\ roots' = pkg.elfFiles
  /\ UNCHANGED <<openVars, lookVars, tree, shown, treeEnd, worldVars, argv, args, pkg, report>>

TreeStep ==
  /\ phase = "tree" /\ Printing(fs, MyDb, pkg.elfFiles)
  /\ UNCHANGED <<openVars, lookVars, worldVars, runVars>>

EndTree ==
  /\ phase = "tree" /\ treeEnd # ""
  /\ Exit(treeEnd)
  /\ Reported("bdtree", shown)
  /\ UNCHANGED <<openVars, lookVars, treeVars, worldVars, argv, args, pkg>>

\* printRequired(), of rows that have been found one way or the other.  The width of a
\* file is printed first, and one that is no ELF file by now has none.
PrintRequired(info) ==
  LET rows == Kept(info.rows, args.ignore)
      lines == RequiredLines(rows, Own(pkg))
  IN CASE pkg.type = "BinLib" /\ pkg.elfFiles = <<>> -> Exit("signal") /\ UNCHANGED report
       [] pkg.elfFiles # <<>> /\ ~args.xdl /\ NamesThrow(lines, args.short) ->
            Exit("abort") /\ UNCHANGED report
       [] OTHER -> /\ Exit("0")
                   /\ Reported("required", IF args.xdl THEN ExplainedLines(rows) ELSE lines)

RequiredReport ==
  /\ phase = "report" /\ ~args.whoneeds /\ ~args.bdtree /\ ~args.ldd
  /\ PrintRequired(RequiredInfos(MyDb, fs, pkg))
  /\ UNCHANGED <<openVars, lookVars, treeVars, worldVars, argv, args, pkg>>

\* ldd is run for every file, then what it printed is looked up.
RunLdd ==
  /\ phase = "report" /\ ~args.whoneeds /\ ~args.bdtree /\ args.ldd
  /\ Goto("ldd")
  /\ report' = [report EXCEPT !.ldd = Ldd(fs)]
  /\ UNCHANGED <<openVars, lookVars, treeVars, worldVars, argv, args, pkg>>

InLoop == phase = "ldd" /\ LddLoops(fs, LddFound(report.ldd, pkg))

LddReport ==
  /\ phase = "ldd" /\ ~InLoop
  /\ PrintRequired(RequiredInfosLDD(MyDb, fs, report.ldd, pkg))
  /\ UNCHANGED <<openVars, lookVars, treeVars, worldVars, argv, args, pkg>>

-----------------------------------------------------------------------------
(* Others.                                                                 *)

\* A file is removed.  The lists a lookup has listed, and files, but no directories.
Vanish(p) ==
  /\ p \in Removable \cap DOMAIN fs /\ Cardinality(gone) < MaxRemovals
  /\ p \in Range(Lists) => phase \in {"lookup", "find", "load"}
  /\ phase \notin {"start", "done"}
  /\ fs' = [q \in DOMAIN fs \ {p} |-> fs[q]]
  /\ gone' = gone \cup {p}
  /\ UNCHANGED <<openVars, lookVars, treeVars, runVars>>

\* Another sbbdep opens the cache of the same name, and fills it.
Others(p) ==
  /\ Opening(p, IsDefault) \/ OthersSchema(p)
  /\ UNCHANGED <<lookVars, treeVars, worldVars, runVars>>

MyStep ==
  \/ Start \/ StartLookup \/ LookupStep \/ EndLookup
  \/ CheckDb \/ OpenStep \/ Opened \/ Query \/ Sync \/ Load
  \/ WhoNeedsReport \/ StartTree \/ TreeStep \/ EndTree
  \/ RequiredReport \/ RunLdd \/ LddReport

Stopped == phase = "done" \/ InLoop
Terminated == Stopped /\ UNCHANGED vars

Next ==
  \/ MyStep
  \/ \E p \in Removable : Vanish(p)
  \/ \E p \in Procs \ {Me} : Others(p)
  \/ Terminated

\* The process is scheduled: it stops for good, or takes steps again and again.
Fairness == []<>Stopped \/ []<><<MyStep>>_vars

-----------------------------------------------------------------------------
(* Properties.                                                             *)

LookupComplete == Complete(fs) /\ PiecesAreWhole("msg")
TreeIsComplete == gone = {} => TreeComplete(fs, pkg.elfFiles)

\* The tables doSync() makes of an empty database, and the answer over them.
Filled == Synced(NoTables)

Answered(db) ==
  IF args.whoneeds
  THEN LET rows == NeededBy(pkg, db)
       IN IF args.xdl THEN WhoNeedsExplained(rows, args.ignore) ELSE WhoNeedsLines(rows)
  ELSE LET rows == Kept(RequiredInfos(db, fs, pkg).rows, args.ignore)
       IN IF args.xdl THEN ExplainedLines(rows) ELSE RequiredLines(rows, Own(pkg))

\* Exit code 0 means that what was asked for was done (AppCli::run()): a query of a package
\* has been answered, over all packages unless --nosync was given, and then at least from
\* a database that has its tables; and it was loaded, if nothing was removed meanwhile.
ZeroMeansAnswered ==
  exit = "0" /\ pkg.type # "Unknown" =>
    /\ ~IsNewDb(MyDb)
    /\ report.kind = "" => args.whoneeds /\ pkg.type = "DestDir"
    /\ gone = {} => CanLoad(pkg) /\ pkg.elfFiles = ElfFilesOf(pkg)
    /\ gone = {} /\ ~args.nosync /\ report.kind \in {"required", "whoneeds"} /\ ~args.ldd =>
         report.lines = Answered(Filled)

\* Every execution ends, however deep the tree, whoever else removes files or opens the
\* cache, unless ldd names a link that leads nowhere by now
\* (getRequiredInfosLDD(): while (path.isLink ())).
RunEnds == <>(phase = "done") \/ <>[]InLoop
=============================================================================
