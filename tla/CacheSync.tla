------------------------------ MODULE CacheSync ------------------------------
(***************************************************************************)
(* Cache::doSync() of src/sbbdep/cache.cpp, run again and again, by one or *)
(* several processes, on a package directory that the package tools of the *)
(* system change meanwhile, and interrupted at any point.                  *)
(*                                                                         *)
(* createIndex() and updateIndex() are taken as IndexPipeline shows them:  *)
(* todos are loaded one by one, may be dropped, and are committed at once. *)
(***************************************************************************)
EXTENDS SyncDiff, Functions

CONSTANTS Procs,        \* sbbdep processes on one database
          MaxTime,      \* bound of the clock
          MaxChanges,   \* bound of the installations of each package
          MaxInstalls,  \* bound of the installations of all of them
          MaxCrashes,   \* bound of the interruptions
          Drops         \* BackgroundJob::push() may reject

ASSUME SyncAssumption ==
  /\ MaxTime \in Nat \ {0} /\ MaxChanges \in Nat \ {0} /\ MaxInstalls \in Nat /\ MaxCrashes \in Nat
  /\ Drops \in BOOLEAN

VARIABLES now,          \* the clock the file system stamps with, in seconds
          mtime,        \* of each entry of the package directory, 0 without entry
          version,      \* which installation of its package an entry describes
          hasSchema,    \* table pkgs exists
          pkgs,         \* its rows, per full name
          pc,           \* of each process in doSync()
          known,        \* its maxknownftime
          todo,         \* todos its producers have not picked
          done,         \* todos loaded and pushed, carried out at the commit
          newCache,     \* SyncData::wasNewCache
          crashes,      \* number of interruptions
          calm,         \* no change, drop or commit of others since doSync() began
          overtaken,    \* another process has committed since this one read pkgs
          quiet,        \* complete calm syncs since the last change, at most Enough
          hidden        \* packages whose last installation a sync may overlook

dirVars  == <<now, mtime, version>>
dbVars   == <<hasSchema, pkgs>>
procVars == <<pc, known, todo, done, newCache>>
histVars == <<crashes, calm, overtaken, quiet, hidden>>
vars == <<dirVars, dbVars, procVars, histVars>>

\* Half as many syncs as there are packages.
Enough == (Cardinality(Packages) + 1) \div 2

Points == {"idle", "schema", "list", "max", "scan", "index"}
Present == {p \in Packages : mtime[p] # 0}
Indexed == {p \in Packages : pkgs[p] # <<>>}

\* What an lstat that fails leaves in m_stat is indeterminate: a time long ago, or
\* one beyond every time the clock will show.
Garbage == {0, MaxTime + 1}
Times == 0..MaxTime + 1

Rows == [stamp : Times, version : 0..MaxChanges]
Carried == [rem : Packages \cup {NoPackage}, inst : Packages \cup {NoPackage},
            loaded : BOOLEAN, stamp : Times, version : 0..MaxChanges]

\* The columns and the locals of doSync() have their types, a local has a value only
\* where it lives, and there are no rows without their table.
TypeOK ==
  /\ now \in 1..MaxTime
  /\ mtime \in [Packages -> 0..MaxTime]
  /\ version \in [Packages -> 0..MaxChanges]
  /\ hasSchema \in BOOLEAN /\ pkgs \in [Packages -> Seq(Rows)]
  /\ pc \in [Procs -> Points] /\ known \in [Procs -> Times]
  /\ todo \in [Procs -> SUBSET [rem : Packages \cup {NoPackage},
                                inst : Packages \cup {NoPackage}]]
  /\ done \in [Procs -> SUBSET Carried]
  /\ newCache \in [Procs -> BOOLEAN]
  /\ crashes \in 0..MaxCrashes /\ quiet \in 0..Enough /\ hidden \subseteq Packages
  /\ calm \in [Procs -> BOOLEAN] /\ overtaken \in [Procs -> BOOLEAN]
  /\ Indexed # {} => hasSchema
  /\ \A s \in Procs : /\ known[s] # 0 => pc[s] = "scan"
                      /\ todo[s] \cup done[s] # {} => pc[s] = "index"
                      /\ newCache[s] => pc[s] \in {"schema", "list", "index"}

Init ==
  /\ now = 1
  /\ mtime \in [Packages -> 0..1]
  /\ version = [p \in Packages |-> mtime[p]]
  /\ hasSchema = FALSE /\ pkgs = [p \in Packages |-> <<>>]
  /\ pc = [s \in Procs |-> "idle"] /\ known = [s \in Procs |-> 0]
  /\ todo = [s \in Procs |-> {}] /\ done = [s \in Procs |-> {}]
  /\ newCache = [s \in Procs |-> FALSE]
  /\ crashes = 0 /\ quiet = 0 /\ hidden = {}
  /\ calm = [s \in Procs |-> FALSE] /\ overtaken = [s \in Procs |-> FALSE]

Stamps == UNION {{pkgs[p][i].stamp : i \in DOMAIN pkgs[p]} : p \in Packages}

\* SELECT MAX(timestamp) FROM pkgs, and 0 when there is none.
MaxStamp == IF Stamps = {} THEN 0 ELSE CHOOSE t \in Stamps : \A u \in Stamps : u <= t

-----------------------------------------------------------------------------
(* The package tools (installpkg, removepkg) and the clock. *)

\* Every sync in progress, and every one that has been, is out of date.
Disturbed == calm' = [s \in Procs |-> FALSE] /\ quiet' = 0

Tick ==
  /\ now < MaxTime
  /\ now' = now + 1
  /\ UNCHANGED <<mtime, version, dbVars, procVars, histVars>>

\* Every time the database, or a sync in progress, has read.
TimesRead == Stamps \cup UNION {{d.stamp : d \in done[s]} : s \in Procs}

\* An installation is stamped with a second that a sync has read already, or comes
\* while one is running.
MayBeOverlooked == (\E t \in TimesRead : now <= t) \/ \E s \in Procs : pc[s] # "idle"

\* A package is installed, or installed again.
Install(p) ==
  /\ version[p] < MaxChanges /\ SumFunction(version) < MaxInstalls
  /\ mtime' = [mtime EXCEPT ![p] = now]
  /\ version' = [version EXCEPT ![p] = @ + 1]
  /\ hidden' = IF MayBeOverlooked THEN hidden \cup {p} ELSE hidden \ {p}
  /\ Disturbed
  /\ UNCHANGED <<now, dbVars, procVars, crashes, overtaken>>

Remove(p) ==
  /\ p \in Present
  /\ mtime' = [mtime EXCEPT ![p] = 0]
  /\ Disturbed
  /\ UNCHANGED <<now, version, dbVars, procVars, crashes, overtaken, hidden>>

-----------------------------------------------------------------------------
(* doSync(). *)

Goto(s, point) == pc' = [pc EXCEPT ![s] = point]

\* doSync() is left, and its locals are gone.
Leave(s) ==
  /\ Goto(s, "idle")
  /\ known' = [known EXCEPT ![s] = 0]
  /\ todo' = [todo EXCEPT ![s] = {}]
  /\ done' = [done EXCEPT ![s] = {}]
  /\ newCache' = [newCache EXCEPT ![s] = FALSE]

\* isNewDb().
Open(s) ==
  /\ pc[s] = "idle"
  /\ Goto(s, IF hasSchema THEN "max" ELSE "schema")
  /\ newCache' = [newCache EXCEPT ![s] = ~hasSchema]
  /\ calm' = [calm EXCEPT ![s] = TRUE]
  /\ overtaken' = [overtaken EXCEPT ![s] = FALSE]
  /\ UNCHANGED <<dirVars, dbVars, known, todo, done, crashes, quiet, hidden>>

\* Mutant: the transaction is not committed.
CreateDbSchemaUncommitted(s) ==
  /\ pc[s] = "schema"
  /\ Goto(s, "list")
  /\ UNCHANGED <<known, todo, done, newCache>>
  /\ UNCHANGED <<dirVars, dbVars, histVars>>

\* createDbSchema(), a transaction of its own; the tables must not exist.
CreateDbSchema(s) ==
  /\ pc[s] = "schema"
  /\ IF hasSchema THEN Leave(s)
                  ELSE Goto(s, "list") /\ UNCHANGED <<known, todo, done, newCache>>
  /\ hasSchema' = TRUE
  /\ UNCHANGED <<dirVars, pkgs, histVars>>

\* createNewSyncData(): everything in the directory is installed.
CreateNewSyncData(s) ==
  /\ pc[s] = "list"
  /\ todo' = [todo EXCEPT ![s] = [rem : {NoPackage}, inst : Present]]
  /\ Goto(s, "index")
  /\ UNCHANGED <<dirVars, dbVars, known, done, newCache, histVars>>

\* The first statement of createUpdateSyncData().
ReadMax(s) ==
  /\ pc[s] = "max"
  /\ known' = [known EXCEPT ![s] = MaxStamp]
  /\ Goto(s, "scan")
  /\ UNCHANGED <<dirVars, dbVars, todo, done, newCache, histVars>>

\* Mutant: the date is not looked at.
NewerNone(s) == {}

Newer(s) == {p \in Present : mtime[p] > known[s]}

\* Mutant: the names in the database are not read.
ScanNoRows(s) ==
  /\ pc[s] = "scan"
  /\ Goto(s, "index")
  /\ todo' = [todo EXCEPT ![s] = Todos(UpdateSyncData({}, Present, Newer(s)))]
  /\ known' = [known EXCEPT ![s] = 0]
  /\ overtaken' = [overtaken EXCEPT ![s] = FALSE]
  /\ UNCHANGED <<dirVars, dbVars, done, newCache, crashes, calm, quiet, hidden>>

\* The rest of it.  A sync that reads beyond the end of its updates is undefined
\* behaviour, and ends here; where the constants allow that, Crash covers it.
Scan(s) ==
  /\ pc[s] = "scan"
  /\ LET data == UpdateSyncData(Indexed, Present, Newer(s))
     IN  IF Overruns(data)
         THEN Leave(s)
         ELSE /\ Goto(s, "index") /\ todo' = [todo EXCEPT ![s] = Todos(data)]
              /\ known' = [known EXCEPT ![s] = 0]
              /\ UNCHANGED <<done, newCache>>
  /\ overtaken' = [overtaken EXCEPT ![s] = FALSE]
  /\ UNCHANGED <<dirVars, dbVars, crashes, calm, quiet, hidden>>

Picked(s, t) == todo' = [todo EXCEPT ![s] = @ \ {t}]

\* A producer loads the package of a todo and pushes it.  What is gone meanwhile, or
\* was only to be removed, is pushed without a loaded package.
Load(s, t) ==
  /\ pc[s] = "index"
  /\ Picked(s, t)
  /\ \E stamp \in IF t.inst \in Present THEN {mtime[t.inst]}
                  ELSE IF t.inst = NoPackage THEN {0} ELSE Garbage :
       done' = [done EXCEPT ![s] = @ \cup
         {[rem |-> t.rem, inst |-> t.inst, loaded |-> t.inst \in Present, stamp |-> stamp,
           version |-> IF t.inst \in Present THEN version[t.inst] ELSE 0]}]
  /\ UNCHANGED <<dirVars, dbVars, pc, known, newCache, histVars>>

\* The push is rejected, and nobody looks.  That is so only until one is accepted:
\* DroppedOnlyBeforeStart of IndexPipeline.
Drop(s, t) ==
  /\ pc[s] = "index" /\ Drops /\ done[s] = {}
  /\ Picked(s, t)
  /\ calm' = [calm EXCEPT ![s] = FALSE]
  /\ hidden' = hidden \cup ({t.inst} \ {NoPackage})
  /\ UNCHANGED <<dirVars, dbVars, pc, known, done, newCache, crashes, overtaken, quiet>>

\* push() copies the package into the queue, and again when another one makes the
\* vector of messages grow, for Path's move constructor may throw: a copied Path asks
\* the file system again.
Restat(s, d) ==
  /\ pc[s] = "index" /\ d.inst # NoPackage
  /\ \E stamp \in IF d.inst \in Present THEN {mtime[d.inst]} ELSE Garbage :
       /\ stamp # d.stamp
       /\ done' = [done EXCEPT ![s] = (@ \ {d}) \cup {[d EXCEPT !.stamp = stamp]}]
  /\ UNCHANGED <<dirVars, dbVars, pc, known, todo, newCache, histVars>>

\* Mutant: what is to be removed stays.
CarriedOutKeeping(rows, s, p) ==
  LET comes == {d \in done[s] : d.inst = p /\ d.loaded}
  IN  IF comes = {} THEN rows
      ELSE LET d == CHOOSE d \in comes : TRUE
           IN  Append(rows, [stamp |-> d.stamp, version |-> d.version])

\* The rows of p after the commit: they are cleared, or kept, and one may come.
CarriedOut(rows, s, p) ==
  LET kept  == IF \E d \in done[s] : d.rem = p THEN <<>> ELSE rows
      comes == {d \in done[s] : d.inst = p /\ (newCache[s] \/ d.loaded)}
  IN  IF comes = {} THEN kept
      ELSE LET d == CHOOSE d \in comes : TRUE
           IN  Append(kept, [stamp |-> d.stamp, version |-> d.version])

\* createIndex() and updateIndex() commit.
Commit(s) ==
  /\ pc[s] = "index" /\ todo[s] = {}
  /\ pkgs' = [p \in Packages |-> CarriedOut(pkgs[p], s, p)]
  /\ Leave(s)
  /\ quiet' = IF ~calm[s] THEN 0 ELSE IF quiet < Enough THEN quiet + 1 ELSE Enough
  /\ calm' = [q \in Procs |-> q = s /\ calm[q]]
  /\ overtaken' = [q \in Procs |-> TRUE]
  /\ UNCHANGED <<dirVars, hasSchema, crashes, hidden>>

\* An exception, a kill or a power failure: what is not committed is rolled back.
Crash(s) ==
  /\ pc[s] # "idle" /\ crashes < MaxCrashes
  /\ Leave(s)
  /\ crashes' = crashes + 1
  /\ UNCHANGED <<dirVars, dbVars, calm, overtaken, quiet, hidden>>

-----------------------------------------------------------------------------

SyncStep(s) ==
  \/ Open(s) \/ CreateDbSchema(s) \/ CreateNewSyncData(s)
  \/ ReadMax(s) \/ Scan(s)
  \/ \E t \in todo[s] : Load(s, t)
  \/ Commit(s)

Next ==
  \/ Tick
  \/ \E p \in Packages : Install(p) \/ Remove(p)
  \/ \E s \in Procs : \/ SyncStep(s)
                      \/ \E t \in todo[s] : Drop(s, t)
                      \/ \E d \in done[s] : Restat(s, d)
                      \/ Crash(s)

Spec == Init /\ [][Next]_vars

\* sbbdep is run again and again, and not interrupted for ever.
FairSpec == Spec /\ \A s \in Procs : WF_vars(SyncStep(s))
-----------------------------------------------------------------------------
(* Properties. *)

SameName(p) == {q \in Packages : NameOf[q] = NameOf[p]}

\* The order of full names is one of names too.
NamesInOrder == \A p, q \in Packages : p < q => NameOf[p] <= NameOf[q]

\* Where that is so, a complete sync without a change meanwhile leaves only packages
\* out of sync of which another version is there.
OneSyncIsEnough ==
  NamesInOrder /\ quiet >= 1 => \A p \in Packages :
    (p \in Present) # (p \in Indexed) =>
      Cardinality(SameName(p) \cap (Present \cup Indexed)) > 1

\* Whatever happened before, interrupted syncs, dropped or vanished packages, and in
\* whatever order the names are: of a row of such syncs each leaves at least two
\* packages less out of sync than there were, or none.
SettlesInEnough == quiet = Enough => Indexed = Present

\* A package that is indexed is indexed as it is, unless its last installation fell
\* into a second that had been indexed, or came during a sync, or its push was
\* dropped: such a one may stay hidden from every later sync.
ReinstallsAreFound ==
  quiet >= 1 => \A p \in (Present \cap Indexed) \ hidden :
    \A i \in DOMAIN pkgs[p] : pkgs[p][i].version = version[p]

\* A full name gets a second row only by a process that another one has overtaken
\* between its look at the database and its commit.
DoubledOnlyIfOvertaken ==
  [][\A p \in Packages :
       Len(pkgs'[p]) > 1 /\ Len(pkgs'[p]) > Len(pkgs[p]) =>
         \E s \in Procs : pc[s] = "index" /\ pc'[s] = "idle" /\ overtaken[s]]_vars

\* Once packages no longer change, the database comes to have them, and stays so.
EventuallyInSync == <>[](Indexed = Present)
=============================================================================
