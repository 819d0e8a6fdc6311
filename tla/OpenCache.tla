----------------------------- MODULE OpenCache ------------------------------
(***************************************************************************)
(* openCache() of src/cli/appcli.cpp: a database of another version is     *)
(* removed and made anew, by processes that do not know of each other.  A  *)
(* name stands for one file at a time; who has a file open keeps it when   *)
(* its name is removed.                                                    *)
(***************************************************************************)
EXTENDS CacheTables

CONSTANT Procs

VARIABLES
  cacheFile,   \* the file the name stands for, 0 without
  dbs,         \* the tables of every file there has been
  openPc,      \* of each process: where it is in openCache()
  at           \* of each process: the file it has opened

openVars == <<cacheFile, dbs, openPc, at>>

\* There is no file, or one: files is <<>>, or the sequence of its tables.
OpenInit(files) ==
  /\ dbs = files
  /\ cacheFile = Len(files)
  /\ openPc = [p \in Procs |-> "start"]
  /\ at = [p \in Procs |-> 0]

\* SQLite makes the file when the database is first read.
OpenFile(p) ==
  IF cacheFile = 0
  THEN /\ dbs' = Append(dbs, NoTables)
       /\ cacheFile' = Len(dbs')
       /\ at' = [at EXCEPT ![p] = Len(dbs')]
  ELSE at' = [at EXCEPT ![p] = cacheFile] /\ UNCHANGED <<dbs, cacheFile>>

\* Cache c{name}, isNewDb().
OpenDb(p) ==
  /\ openPc[p] = "start"
  /\ OpenFile(p)
  /\ openPc' = [openPc EXCEPT ![p] = IF IsNewDb(dbs'[at'[p]]) THEN "open" ELSE "version"]

\* Mutant: the versions are not compared.
CheckVersionNever(p, isDefault) ==
  /\ openPc[p] = "version"
  /\ openPc' = [openPc EXCEPT ![p] = IF isDefault THEN "remove" ELSE "failed"]
  /\ UNCHANGED <<cacheFile, dbs, at>>

\* Mutant: an incompatible database is tried again.
CheckVersionAgain(p, isDefault) ==
  /\ openPc[p] = "version"
  /\ openPc' = [openPc EXCEPT ![p] = IF CompatibleVersion(dbs[at[p]]) THEN "open" ELSE "start"]
  /\ UNCHANGED <<cacheFile, dbs, at>>

\* compatibleVersion(): only the default database may be removed.
CheckVersion(p, isDefault) ==
  /\ openPc[p] = "version"
  /\ openPc' = [openPc EXCEPT ![p] = CASE CompatibleVersion(dbs[at[p]]) -> "open"
                                       [] ~CompatibleVersion(dbs[at[p]]) /\ isDefault -> "remove"
                                       [] OTHER -> "failed"]
  /\ UNCHANGED <<cacheFile, dbs, at>>

\* remove() takes what the name stands for by now.
RemoveOld(p) ==
  /\ openPc[p] = "remove"
  /\ cacheFile' = 0
  /\ openPc' = [openPc EXCEPT ![p] = IF cacheFile = 0 THEN "failed" ELSE "reopen"]
  /\ UNCHANGED <<dbs, at>>

\* return Cache{name}: what is opened now is not looked at.
Reopen(p) ==
  /\ openPc[p] = "reopen"
  /\ OpenFile(p)
  /\ openPc' = [openPc EXCEPT ![p] = "open"]

Opening(p, isDefault) ==
  OpenDb(p) \/ CheckVersion(p, isDefault) \/ RemoveOld(p) \/ Reopen(p)

\* A process that goes on to sync makes the schema.
OthersSchema(p) ==
  /\ openPc[p] = "open" /\ IsNewDb(dbs[at[p]])
  /\ dbs' = [dbs EXCEPT ![at[p]] = CreateSchema(@)]
  /\ UNCHANGED <<cacheFile, openPc, at>>

\* Any number of processes, each for a name that is the default one or not.
OpenNext ==
  \E p \in Procs, isDefault \in BOOLEAN : Opening(p, isDefault) \/ OthersSchema(p)

OpenSpec(files) == OpenInit(files) /\ [][OpenNext]_openVars

-----------------------------------------------------------------------------
\* A database that is new or of this version is removed only by a process that has
\* looked at another file: one that was removed and made anew since
\* (openCache(): the name is used again after the database is closed).
CompatibleRemovedOnlyIfOvertaken ==
  [][\A p \in Procs :
       openPc[p] = "remove" /\ openPc'[p] = "reopen" =>
         ~CompatibleVersion(dbs[cacheFile]) \/ at[p] # cacheFile]_openVars
=============================================================================
