---------------------------- MODULE CacheSyncProofs ----------------------------
(***************************************************************************)
(* Cache::doSync(), for any packages and names, any number of processes,   *)
(* and any changes and interruptions: its types, who may store a package   *)
(* twice, that reinstalled packages are found, and that complete syncs     *)
(* bring the database to the directory.                                    *)
(***************************************************************************)
EXTENDS CacheSync, SyncDiffLemmas

\* The todos of a process, picked or not.
Tasks(s) == todo[s] \cup {[rem |-> d.rem, inst |-> d.inst] : d \in done[s]}

\* An installed package of which the database has an earlier installation, and which
\* the exceptions of ReinstallsAreFound do not cover.
Stale(p) ==
  p \in Present \ hidden /\ \E i \in DOMAIN pkgs[p] : pkgs[p][i].version # version[p]

\* A process is past createDbSchema() only with the tables there, and on its way
\* there, or just past it, only as the one for a new cache.
SchemaInv ==
  \A s \in Procs : /\ pc[s] \in {"list", "max", "scan", "index"} => hasSchema
                   /\ pc[s] \in {"schema", "list"} => newCache[s]

\* Since the look at the database no rows have come that the todos do not clear.
OvertakenInv ==
  \A s \in Procs : ~overtaken[s] =>
    /\ pc[s] = "list" => Indexed = {}
    /\ pc[s] = "index" => \A t \in Tasks(s) : t.inst \in Indexed => t.rem = t.inst

\* A stale package is later than all the database has.
StaleIsLatest == \A p \in Packages : Stale(p) => \A t \in Stamps : t < mtime[p]

\* What is to be stored of a package is its last installation.
LoadedIsFresh ==
  \A s \in Procs : \A d \in done[s] :
    d.inst \in Present \ hidden => d.loaded /\ d.version = version[d.inst]

\* A stale package is, or will be, on the list of every process on its way, for none
\* was when it was installed.
StaleIsListed ==
  \A s \in Procs, p \in Packages : Stale(p) =>
    /\ ~newCache[s]
    /\ pc[s] = "scan" => known[s] < mtime[p]
    /\ pc[s] = "index" => [rem |-> p, inst |-> p] \in Tasks(s)

QuietIsFresh == quiet >= 1 => \A p \in Packages : ~Stale(p)

FreshInv == StaleIsLatest /\ LoadedIsFresh /\ StaleIsListed /\ QuietIsFresh

\* In a calm sync the todos are those of the difference as it is still, and what was
\* loaded is there still.
CalmInv ==
  \A s \in Procs : calm[s] /\ pc[s] # "idle" =>
    /\ ~overtaken[s]
    /\ pc[s] = "index" =>
         /\ \E newer \in SUBSET Present :
              Tasks(s) = Todos(UpdateSyncData(Indexed, Present, newer))
         /\ \A d \in done[s] : d.inst # NoPackage => d.loaded

\* Each complete calm sync has brought two packages into sync at least, or all.
QuietInv ==
  \/ Indexed = Present
  \/ 2 * quiet + Cardinality(Apart(Indexed, Present)) <= Cardinality(Packages)

TypeInv == TypeOK /\ SchemaInv

-----------------------------------------------------------------------------
(* Types. *)

\* The latest time in the database is one the columns hold, and nothing is later.
LEMMA MaxStampIsGreatest ==
  ASSUME TypeOK
  PROVE  /\ Stamps \in SUBSET Times /\ MaxStamp \in Times
         /\ \A t \in Stamps : t <= MaxStamp
         /\ MaxStamp = 0 \/ MaxStamp \in Stamps
<1>1. Stamps \in SUBSET Times
  <2> SUFFICES ASSUME NEW p \in Packages, NEW i \in DOMAIN pkgs[p]
               PROVE  pkgs[p][i].stamp \in Times
    BY DEF Stamps
  <2>1. pkgs[p] \in Seq(Rows)
    BY DEF TypeOK
  <2>2. pkgs[p][i] \in Rows
    BY <2>1
  <2> QED BY <2>2 DEF Rows
<1>2. Times \in SUBSET Nat /\ IsFiniteSet(Times) /\ 0 \in Times
  <2>1. 0 \in Int /\ MaxTime + 1 \in Nat
    BY SyncAssumption
  <2> QED BY <2>1, FS_Interval DEF Times
<1>3. CASE Stamps = {}
  BY <1>1, <1>2, <1>3 DEF MaxStamp
<1>4. CASE Stamps # {}
  <2>1. IsFiniteSet(Stamps) /\ Stamps \in SUBSET Nat
    BY <1>1, <1>2, FS_Subset
  <2>2. \E t \in Stamps : \A u \in Stamps : u <= t
    BY <1>4, <2>1, GreatestExists
  <2>3. MaxStamp \in Stamps /\ \A u \in Stamps : u <= MaxStamp
    BY <1>4, <2>2 DEF MaxStamp
  <2> QED BY <1>1, <2>3
<1> QED BY <1>3, <1>4

\* The todos of a sync are pairs of packages, or of a package and none.
LEMMA ScanTodos ==
  ASSUME TypeOK, NEW newer \in SUBSET Present
  PROVE  LET todos == Todos(UpdateSyncData(Indexed, Present, newer))
         IN  /\ todos \in SUBSET [rem : Packages \cup {NoPackage}, inst : Packages \cup {NoPackage}]
             /\ \A t \in todos : t.inst \in Indexed => t.rem = t.inst
             /\ \A t \in todos : t.inst # NoPackage => t.inst \in Present
             /\ \A p \in newer \cap Indexed : [rem |-> p, inst |-> p] \in todos
<1> DEFINE data == UpdateSyncData(Indexed, Present, newer)
<1>1. Indexed \in SUBSET Packages /\ Present \in SUBSET Packages
  BY DEF Indexed, Present
<1>2. \A p \in newer \cap Indexed : p \in data.reinstalled
  BY <1>1 DEF UpdateSyncData, Reinstalled
<1>3. \A p \in newer \cap Indexed : [rem |-> p, inst |-> p] \in Todos(data)
  BY <1>2 DEF Todos
<1> QED BY <1>1, <1>3, TodosAreProper

\* The bounds and the special values are of their types.
LEMMA Bounds ==
  /\ MaxTime \in Nat /\ MaxTime >= 1 /\ MaxChanges \in Nat /\ MaxChanges >= 1
  /\ MaxCrashes \in Nat /\ Enough \in Nat
  /\ 0 \in Times /\ Garbage \subseteq Times /\ 0..MaxTime \subseteq Times
<1>1. Cardinality(Packages) \in Nat
  BY DiffAssumption, FS_CardinalityType
<1>2. Enough \in Nat
  BY <1>1 DEF Enough
<1> QED BY <1>2, SyncAssumption DEF Times, Garbage

\* Leaving doSync() keeps the types of its locals, and what they have to do with pc.
LEMMA LeaveTypes ==
  ASSUME TypeInv, NEW s \in Procs, Leave(s), hasSchema => hasSchema'
  PROVE  /\ pc' \in [Procs -> Points] /\ known' \in [Procs -> Times]
         /\ todo' \in [Procs -> SUBSET [rem : Packages \cup {NoPackage},
                                        inst : Packages \cup {NoPackage}]]
         /\ done' \in [Procs -> SUBSET Carried] /\ newCache' \in [Procs -> BOOLEAN]
         /\ \A q \in Procs : /\ known'[q] # 0 => pc'[q] = "scan"
                             /\ todo'[q] \cup done'[q] # {} => pc'[q] = "index"
                             /\ newCache'[q] => pc'[q] \in {"schema", "list", "index"}
         /\ SchemaInv'
<1>1. TypeOK /\ SchemaInv
  BY DEF TypeInv
<1>2. /\ pc' = [pc EXCEPT ![s] = "idle"] /\ known' = [known EXCEPT ![s] = 0]
      /\ todo' = [todo EXCEPT ![s] = {}] /\ done' = [done EXCEPT ![s] = {}]
      /\ newCache' = [newCache EXCEPT ![s] = FALSE]
  BY DEF Leave, Goto
<1>3. /\ pc' \in [Procs -> Points] /\ known' \in [Procs -> Times]
      /\ todo' \in [Procs -> SUBSET [rem : Packages \cup {NoPackage},
                                     inst : Packages \cup {NoPackage}]]
      /\ done' \in [Procs -> SUBSET Carried] /\ newCache' \in [Procs -> BOOLEAN]
  BY <1>1, <1>2, Bounds DEF TypeOK, Points
<1>4. /\ pc'[s] = "idle" /\ known'[s] = 0 /\ todo'[s] = {} /\ done'[s] = {} /\ ~newCache'[s]
      /\ \A q \in Procs \ {s} : /\ pc'[q] = pc[q] /\ known'[q] = known[q] /\ todo'[q] = todo[q]
                                /\ done'[q] = done[q] /\ newCache'[q] = newCache[q]
  BY <1>1, <1>2 DEF TypeOK
<1>5. \A q \in Procs : /\ known'[q] # 0 => pc'[q] = "scan"
                       /\ todo'[q] \cup done'[q] # {} => pc'[q] = "index"
                       /\ newCache'[q] => pc'[q] \in {"schema", "list", "index"}
  BY <1>1, <1>4 DEF TypeOK
<1>6. SchemaInv'
  BY <1>1, <1>4 DEF SchemaInv
<1> QED BY <1>3, <1>5, <1>6

\* The types hold at the start.
LEMMA InitTypes == Init => TypeInv
<1> SUFFICES ASSUME Init PROVE TypeInv
  OBVIOUS
<1>1. mtime \in [Packages -> 0..MaxTime] /\ version \in [Packages -> 0..MaxChanges]
  BY Bounds DEF Init
<1>2. Indexed = {}
  BY DEF Init, Indexed
<1>3. TypeOK
  <2>1. /\ now \in 1..MaxTime /\ crashes \in 0..MaxCrashes /\ quiet \in 0..Enough
        /\ known \in [Procs -> Times]
    BY Bounds DEF Init
  <2>2. pc \in [Procs -> Points] /\ pkgs \in [Packages -> Seq(Rows)]
    BY DEF Init, Points
  <2> QED BY <1>1, <1>2, <2>1, <2>2 DEF Init, TypeOK
<1>4. SchemaInv
  BY DEF Init, SchemaInv
<1> QED BY <1>3, <1>4 DEF TypeInv

\* The package tools and the clock keep the types.
LEMMA DirStepTypes ==
  ASSUME TypeInv, Tick \/ \E p \in Packages : Install(p) \/ Remove(p)
  PROVE  TypeInv'
<1> USE DEF TypeInv
<1>1. CASE Tick
  BY <1>1, Bounds DEF Tick, TypeOK, SchemaInv, Indexed, dbVars, procVars, histVars
<1>2. ASSUME NEW p \in Packages, Install(p) PROVE TypeInv'
  <2>1. /\ mtime' \in [Packages -> 0..MaxTime] /\ version' \in [Packages -> 0..MaxChanges]
        /\ hidden' \subseteq Packages /\ calm' \in [Procs -> BOOLEAN] /\ quiet' \in 0..Enough
    BY <1>2, Bounds DEF Install, Disturbed, TypeOK
  <2> QED BY <1>2, <2>1 DEF Install, TypeOK, SchemaInv, Indexed, dbVars, procVars
<1>3. ASSUME NEW p \in Packages, Remove(p) PROVE TypeInv'
  <2>1. /\ mtime' \in [Packages -> 0..MaxTime]
        /\ calm' \in [Procs -> BOOLEAN] /\ quiet' \in 0..Enough
    BY <1>3, Bounds DEF Remove, Disturbed, TypeOK
  <2> QED BY <1>3, <2>1 DEF Remove, TypeOK, SchemaInv, Indexed, dbVars, procVars
<1> QED BY <1>1, <1>2, <1>3

\* So do the steps of doSync() up to the todos.
LEMMA ScanStepTypes ==
  ASSUME TypeInv, NEW s \in Procs,
         Open(s) \/ CreateDbSchema(s) \/ CreateNewSyncData(s) \/ ReadMax(s) \/ Scan(s)
  PROVE  TypeInv'
<1>0. TypeOK /\ SchemaInv
  BY DEF TypeInv
<1>1. CASE Open(s)
  BY <1>0, <1>1 DEF Open, Goto, TypeInv, TypeOK, Points, SchemaInv, Indexed, dirVars, dbVars
<1>2. CASE CreateDbSchema(s)
  <2>1. CASE hasSchema
    <3>1. Leave(s) /\ (hasSchema => hasSchema')
      BY <1>2, <2>1 DEF CreateDbSchema
    <3> QED BY <1>0, <1>2, <2>1, <3>1, LeaveTypes
            DEF CreateDbSchema, TypeInv, TypeOK, Indexed, dirVars, histVars
  <2>2. CASE ~hasSchema
    BY <1>0, <1>2, <2>2
       DEF CreateDbSchema, Goto, TypeInv, TypeOK, Points, SchemaInv, Indexed, dirVars, histVars
  <2> QED BY <2>1, <2>2
<1>3. CASE CreateNewSyncData(s)
  <2>1. [rem : {NoPackage}, inst : Present] \subseteq [rem : Packages \cup {NoPackage},
                                                      inst : Packages \cup {NoPackage}]
    BY DEF Present
  <2> QED BY <1>0, <1>3, <2>1 DEF CreateNewSyncData, Goto, TypeInv, TypeOK, Points, SchemaInv,
                                  Indexed, dirVars, dbVars, histVars
<1>4. CASE ReadMax(s)
  <2>1. MaxStamp \in Times
    BY <1>0, MaxStampIsGreatest
  <2> QED BY <1>0, <1>4, <2>1 DEF ReadMax, Goto, TypeInv, TypeOK, Points, SchemaInv, Indexed,
                                  dirVars, dbVars, histVars
<1>5. CASE Scan(s)
  <2> DEFINE data == UpdateSyncData(Indexed, Present, Newer(s))
  <2>1. Newer(s) \in SUBSET Present
    BY DEF Newer
  <2>2. Todos(data) \in SUBSET [rem : Packages \cup {NoPackage}, inst : Packages \cup {NoPackage}]
    BY <1>0, <2>1, ScanTodos
  <2>3. /\ overtaken' \in [Procs -> BOOLEAN]
        /\ UNCHANGED <<dirVars, dbVars, crashes, calm, quiet, hidden>>
    BY <1>0, <1>5 DEF Scan, TypeOK
  <2>4. CASE Overruns(data)
    <3>1. Leave(s) /\ (hasSchema => hasSchema')
      BY <1>5, <2>3, <2>4 DEF Scan, dbVars
    <3> QED BY <1>0, <2>3, <3>1, LeaveTypes DEF TypeInv, TypeOK, Indexed, dirVars, dbVars
  <2>5. CASE ~Overruns(data)
    <3>1. /\ pc[s] = "scan" /\ pc' = [pc EXCEPT ![s] = "index"]
          /\ todo' = [todo EXCEPT ![s] = Todos(data)] /\ known' = [known EXCEPT ![s] = 0]
          /\ UNCHANGED <<done, newCache>>
      BY <1>5, <2>5 DEF Scan, Goto
    <3> HIDE DEF data
    <3> QED BY <1>0, <2>2, <2>3, <3>1, Bounds
            DEF TypeInv, TypeOK, Points, SchemaInv, Indexed, dirVars, dbVars
  <2> QED BY <2>4, <2>5
<1> QED BY <1>1, <1>2, <1>3, <1>4, <1>5

\* The rows after a commit: those that are kept, and one of what was carried out.
LEMMA CommitRows ==
  ASSUME TypeInv, NEW s \in Procs, Commit(s), NEW p \in Packages
  PROVE  LET kept  == IF \E d \in done[s] : d.rem = p THEN <<>> ELSE pkgs[p]
             comes == {d \in done[s] : d.inst = p /\ (newCache[s] \/ d.loaded)}
         IN  /\ pkgs'[p] \in Seq(Rows) /\ pkgs[p] \in Seq(Rows)
             /\ comes = {} => pkgs'[p] = kept
             /\ comes # {} => \E d \in comes :
                  pkgs'[p] = Append(kept, [stamp |-> d.stamp, version |-> d.version])
             /\ \A d \in done[s] : [stamp |-> d.stamp, version |-> d.version] \in Rows
<1> DEFINE kept  == IF \E d \in done[s] : d.rem = p THEN <<>> ELSE pkgs[p]
           comes == {d \in done[s] : d.inst = p /\ (newCache[s] \/ d.loaded)}
           d     == CHOOSE d \in comes : TRUE
           row   == [stamp |-> d.stamp, version |-> d.version]
<1>1. pkgs'[p] = IF comes = {} THEN kept ELSE Append(kept, row)
  BY DEF Commit, CarriedOut
<1>2. kept \in Seq(Rows) /\ pkgs[p] \in Seq(Rows)
  BY DEF TypeInv, TypeOK
<1>3. comes # {} => d \in comes
  OBVIOUS
<1>4. \A e \in done[s] : [stamp |-> e.stamp, version |-> e.version] \in Rows
  <2> SUFFICES ASSUME NEW e \in done[s] PROVE [stamp |-> e.stamp, version |-> e.version] \in Rows
    OBVIOUS
  <2>1. e \in Carried
    BY DEF TypeInv, TypeOK
  <2> QED BY <2>1 DEF Carried, Rows
<1>5. comes \subseteq done[s]
  OBVIOUS
<1> HIDE DEF kept, comes, d
<1>6. comes # {} => Append(kept, row) \in Seq(Rows)
  BY <1>2, <1>3, <1>4, <1>5
<1> QED BY <1>1, <1>2, <1>3, <1>4, <1>6 DEF kept, comes

\* And those of createIndex() and updateIndex().
LEMMA IndexStepTypes ==
  ASSUME TypeInv, NEW s \in Procs,
         \/ \E t \in todo[s] : Load(s, t) \/ Drop(s, t)
         \/ \E d \in done[s] : Restat(s, d)
         \/ Commit(s) \/ Crash(s)
  PROVE  TypeInv'
<1>0. TypeOK /\ SchemaInv
  BY DEF TypeInv
<1>1. ASSUME NEW t \in todo[s], Load(s, t) PROVE TypeInv'
  <2>1. t \in [rem : Packages \cup {NoPackage}, inst : Packages \cup {NoPackage}]
    BY <1>0 DEF TypeOK
  <2>2. PICK stamp \in IF t.inst \in Present THEN {mtime[t.inst]}
                       ELSE IF t.inst = NoPackage THEN {0} ELSE Garbage :
          done' = [done EXCEPT ![s] = @ \cup
            {[rem |-> t.rem, inst |-> t.inst, loaded |-> t.inst \in Present, stamp |-> stamp,
              version |-> IF t.inst \in Present THEN version[t.inst] ELSE 0]}]
    BY <1>1 DEF Load
  <2>3. stamp \in Times /\ (IF t.inst \in Present THEN version[t.inst] ELSE 0) \in 0..MaxChanges
    BY <1>0, Bounds DEF TypeOK, Present
  <2> DEFINE e == [rem |-> t.rem, inst |-> t.inst, loaded |-> t.inst \in Present, stamp |-> stamp,
                   version |-> IF t.inst \in Present THEN version[t.inst] ELSE 0]
  <2>4. e \in Carried
    BY <2>1, <2>3 DEF Carried
  <2> HIDE DEF e
  <2>5. done' \in [Procs -> SUBSET Carried] /\ \A q \in Procs \ {s} : done'[q] = done[q]
    BY <1>0, <2>2, <2>4 DEF TypeOK, e
  <2>6. /\ todo' \in [Procs -> SUBSET [rem : Packages \cup {NoPackage},
                                       inst : Packages \cup {NoPackage}]]
        /\ \A q \in Procs \ {s} : todo'[q] = todo[q]
    BY <1>0, <1>1 DEF Load, Picked, TypeOK
  <2> QED BY <1>0, <1>1, <2>5, <2>6
          DEF Load, TypeInv, TypeOK, SchemaInv, Indexed, dirVars, dbVars, histVars
<1>2. ASSUME NEW t \in todo[s], Drop(s, t) PROVE TypeInv'
  <2>1. t \in [rem : Packages \cup {NoPackage}, inst : Packages \cup {NoPackage}]
    BY <1>0 DEF TypeOK
  <2>2. /\ todo' \in [Procs -> SUBSET [rem : Packages \cup {NoPackage},
                                       inst : Packages \cup {NoPackage}]]
        /\ \A q \in Procs \ {s} : todo'[q] = todo[q]
    BY <1>0, <1>2 DEF Drop, Picked, TypeOK
  <2>3. hidden' \subseteq Packages /\ calm' \in [Procs -> BOOLEAN]
    BY <1>0, <1>2, <2>1 DEF Drop, TypeOK
  <2> QED BY <1>0, <1>2, <2>2, <2>3
          DEF Drop, TypeInv, TypeOK, SchemaInv, Indexed, dirVars, dbVars
<1>3. ASSUME NEW d \in done[s], Restat(s, d) PROVE TypeInv'
  <2>1. d \in Carried
    BY <1>0 DEF TypeOK
  <2>2. PICK stamp \in IF d.inst \in Present THEN {mtime[d.inst]} ELSE Garbage :
          done' = [done EXCEPT ![s] = (@ \ {d}) \cup {[d EXCEPT !.stamp = stamp]}]
    BY <1>3 DEF Restat
  <2>3. stamp \in Times
    BY <1>0, Bounds DEF TypeOK, Present
  <2>4. [d EXCEPT !.stamp = stamp] \in Carried
    BY <2>1, <2>3 DEF Carried
  <2>5. done' \in [Procs -> SUBSET Carried] /\ \A q \in Procs \ {s} : done'[q] = done[q]
    BY <1>0, <2>2, <2>4 DEF TypeOK
  <2> QED BY <1>0, <1>3, <2>5
          DEF Restat, TypeInv, TypeOK, SchemaInv, Indexed, dirVars, dbVars, histVars
<1>4. CASE Commit(s)
  <2>1. Leave(s) /\ (hasSchema => hasSchema') /\ hasSchema
    BY <1>0, <1>4 DEF Commit, SchemaInv
  <2>2. pkgs' \in [Packages -> Seq(Rows)]
    BY <1>0, <1>4, CommitRows DEF Commit
  <2>3. quiet' \in 0..Enough /\ calm' \in [Procs -> BOOLEAN] /\ overtaken' \in [Procs -> BOOLEAN]
    BY <1>0, <1>4, Bounds DEF Commit, TypeOK
  <2> QED BY <1>0, <1>4, <2>1, <2>2, <2>3, LeaveTypes DEF Commit, TypeInv, TypeOK, dirVars
<1>5. CASE Crash(s)
  <2>1. Leave(s) /\ (hasSchema => hasSchema')
    BY <1>5 DEF Crash, dbVars
  <2> QED BY <1>0, <1>5, <2>1, LeaveTypes, Bounds
          DEF Crash, TypeInv, TypeOK, Indexed, dirVars, dbVars
<1> QED BY <1>1, <1>2, <1>3, <1>4, <1>5

\* Every reachable state has the types, and a process is where the tables allow.
THEOREM SyncTypes == Spec => []TypeInv
<1>1. TypeInv /\ [Next]_vars => TypeInv'
  <2> SUFFICES ASSUME TypeInv, [Next]_vars PROVE TypeInv'
    OBVIOUS
  <2>1. CASE Next
    BY <2>1, DirStepTypes, ScanStepTypes, IndexStepTypes DEF Next, SyncStep
  <2>2. CASE UNCHANGED vars
    BY <2>2 DEF vars, dirVars, dbVars, procVars, histVars, TypeInv, TypeOK, SchemaInv, Indexed
  <2> QED BY <2>1, <2>2
<1> QED BY <1>1, InitTypes, PTL DEF Spec

\* The columns and the locals of doSync() have their types, for any packages, any
\* processes and any bounds.
THEOREM SyncTypeCorrect == Spec => []TypeOK
<1>1. TypeInv => TypeOK
  BY DEF TypeInv
<1> QED BY <1>1, SyncTypes, PTL

-----------------------------------------------------------------------------
(* Who may store a package twice. *)

\* What a process was to do stays the same when it loads a package, or one is copied;
\* a rejected push takes one todo away.
LEMMA TasksKept ==
  ASSUME TypeInv, NEW s \in Procs
  PROVE  /\ \A t \in todo[s] : Load(s, t) => \A q \in Procs : Tasks(q)' = Tasks(q)
         /\ \A d \in done[s] : Restat(s, d) => \A q \in Procs : Tasks(q)' = Tasks(q)
         /\ \A t \in todo[s] : Drop(s, t) =>
              /\ \A q \in Procs \ {s} : Tasks(q)' = Tasks(q)
              /\ Tasks(s)' \subseteq Tasks(s) /\ Tasks(s) \ {t} \subseteq Tasks(s)'
<1>0. TypeOK
  BY DEF TypeInv
<1>1. ASSUME NEW t \in todo[s], Load(s, t) PROVE \A q \in Procs : Tasks(q)' = Tasks(q)
  <2>1. t \in [rem : Packages \cup {NoPackage}, inst : Packages \cup {NoPackage}]
    BY <1>0 DEF TypeOK
  <2>2. PICK stamp \in IF t.inst \in Present THEN {mtime[t.inst]}
                       ELSE IF t.inst = NoPackage THEN {0} ELSE Garbage :
          done' = [done EXCEPT ![s] = @ \cup
            {[rem |-> t.rem, inst |-> t.inst, loaded |-> t.inst \in Present, stamp |-> stamp,
              version |-> IF t.inst \in Present THEN version[t.inst] ELSE 0]}]
    BY <1>1 DEF Load
  <2> DEFINE e == [rem |-> t.rem, inst |-> t.inst, loaded |-> t.inst \in Present, stamp |-> stamp,
                   version |-> IF t.inst \in Present THEN version[t.inst] ELSE 0]
  <2>3. [rem |-> e.rem, inst |-> e.inst] = t
    BY <2>1
  <2> HIDE DEF e
  <2>4. /\ todo'[s] = todo[s] \ {t} /\ done'[s] = done[s] \cup {e}
        /\ \A q \in Procs \ {s} : todo'[q] = todo[q] /\ done'[q] = done[q]
    BY <1>0, <1>1, <2>2 DEF Load, Picked, TypeOK, e
  <2>5. {[rem |-> d.rem, inst |-> d.inst] : d \in done'[s]}
          = {[rem |-> d.rem, inst |-> d.inst] : d \in done[s]} \cup {t}
    BY <2>3, <2>4
  <2>6. Tasks(s)' = Tasks(s)
    BY <2>4, <2>5 DEF Tasks
  <2> QED BY <2>4, <2>6 DEF Tasks
<1>2. ASSUME NEW d \in done[s], Restat(s, d) PROVE \A q \in Procs : Tasks(q)' = Tasks(q)
  <2>1. d \in Carried
    BY <1>0 DEF TypeOK
  <2>2. PICK stamp : done' = [done EXCEPT ![s] = (@ \ {d}) \cup {[d EXCEPT !.stamp = stamp]}]
    BY <1>2 DEF Restat
  <2> DEFINE e == [d EXCEPT !.stamp = stamp]
  <2>3. e.rem = d.rem /\ e.inst = d.inst
    BY <2>1 DEF Carried
  <2> HIDE DEF e
  <2>4. /\ todo' = todo /\ done'[s] = (done[s] \ {d}) \cup {e}
        /\ \A q \in Procs \ {s} : done'[q] = done[q]
    BY <1>0, <1>2, <2>2 DEF Restat, TypeOK, e
  <2>5. {[rem |-> x.rem, inst |-> x.inst] : x \in done'[s]}
          = {[rem |-> x.rem, inst |-> x.inst] : x \in done[s]}
    BY <2>3, <2>4
  <2>6. Tasks(s)' = Tasks(s)
    BY <2>4, <2>5 DEF Tasks
  <2> QED BY <2>4, <2>6 DEF Tasks
<1>3. ASSUME NEW t \in todo[s], Drop(s, t)
      PROVE  /\ \A q \in Procs \ {s} : Tasks(q)' = Tasks(q)
             /\ Tasks(s)' \subseteq Tasks(s) /\ Tasks(s) \ {t} \subseteq Tasks(s)'
  <2>1. /\ todo'[s] = todo[s] \ {t} /\ done' = done
        /\ \A q \in Procs \ {s} : todo'[q] = todo[q]
    BY <1>0, <1>3 DEF Drop, Picked, TypeOK
  <2> QED BY <2>1 DEF Tasks
<1> QED BY <1>1, <1>2, <1>3

\* Doing so, only the process that makes the step moves, and the rows stay.
LEMMA OthersStay ==
  ASSUME TypeInv, NEW s \in Procs,
         \/ Open(s) \/ CreateDbSchema(s) \/ CreateNewSyncData(s) \/ ReadMax(s) \/ Scan(s)
         \/ Crash(s)
  PROVE  /\ pkgs' = pkgs
         /\ \A q \in Procs \ {s} :
              /\ pc'[q] = pc[q] /\ known'[q] = known[q] /\ todo'[q] = todo[q]
              /\ done'[q] = done[q] /\ newCache'[q] = newCache[q]
              /\ calm'[q] = calm[q] /\ overtaken'[q] = overtaken[q]
<1> USE DEF TypeInv
<1>1. CASE Open(s)
  BY <1>1 DEF Open, Goto, TypeOK, dbVars
<1>2. CASE CreateDbSchema(s)
  BY <1>2 DEF CreateDbSchema, Leave, Goto, TypeOK, histVars
<1>3. CASE CreateNewSyncData(s)
  BY <1>3 DEF CreateNewSyncData, Goto, TypeOK, dbVars, histVars
<1>4. CASE ReadMax(s)
  BY <1>4 DEF ReadMax, Goto, TypeOK, dbVars, histVars
<1>5. CASE Scan(s)
  <2>1. /\ overtaken' = [overtaken EXCEPT ![s] = FALSE] /\ calm' = calm /\ pkgs' = pkgs
    BY <1>5 DEF Scan, dbVars
  <2>2. /\ known' = [known EXCEPT ![s] = 0]
        /\ \/ pc' = [pc EXCEPT ![s] = "idle"] \/ pc' = [pc EXCEPT ![s] = "index"]
        /\ \E x : todo' = [todo EXCEPT ![s] = x]
        /\ done' = [done EXCEPT ![s] = {}] \/ done' = done
        /\ newCache' = [newCache EXCEPT ![s] = FALSE] \/ newCache' = newCache
    BY <1>5 DEF Scan, Leave, Goto
  <2> QED BY <2>1, <2>2 DEF TypeOK
<1>6. CASE Crash(s)
  BY <1>6 DEF Crash, Leave, Goto, TypeOK, dbVars
<1> QED BY <1>1, <1>2, <1>3, <1>4, <1>5, <1>6

\* Where each of them leads.
LEMMA WhereTo ==
  ASSUME TypeInv, NEW s \in Procs
  PROVE  /\ Open(s) => /\ pc'[s] \in {"schema", "max"} /\ done'[s] = {} /\ calm'[s]
                       /\ ~overtaken'[s] /\ newCache'[s] = ~hasSchema
         /\ CreateDbSchema(s) => \/ pc'[s] = "idle"
                                 \/ /\ pc'[s] = "list" /\ ~hasSchema /\ done'[s] = {}
                                    /\ newCache'[s] = newCache[s]
         /\ CreateNewSyncData(s) => /\ pc'[s] = "index" /\ done'[s] = {} /\ pc[s] = "list"
                                    /\ todo'[s] = [rem : {NoPackage}, inst : Present]
         /\ ReadMax(s) => pc'[s] = "scan" /\ known'[s] = MaxStamp /\ done'[s] = {}
         /\ Scan(s) => \/ pc'[s] = "idle"
                       \/ /\ pc'[s] = "index" /\ done'[s] = {} /\ ~newCache'[s]
                          /\ todo'[s] = Todos(UpdateSyncData(Indexed, Present, Newer(s)))
         /\ Crash(s) => pc'[s] = "idle"
<1> USE DEF TypeInv
<1>1. /\ pc[s] # "index" => done[s] = {} /\ todo[s] = {}
      /\ newCache[s] => pc[s] \in {"schema", "list", "index"}
  BY DEF TypeOK
<1>2. Open(s) => /\ pc'[s] \in {"schema", "max"} /\ done'[s] = {} /\ calm'[s]
                 /\ ~overtaken'[s] /\ newCache'[s] = ~hasSchema
  BY <1>1 DEF Open, Goto, TypeOK
<1>3. CreateDbSchema(s) => \/ pc'[s] = "idle"
                           \/ /\ pc'[s] = "list" /\ ~hasSchema /\ done'[s] = {}
                              /\ newCache'[s] = newCache[s]
  BY <1>1 DEF CreateDbSchema, Leave, Goto, TypeOK
<1>4. CreateNewSyncData(s) => /\ pc'[s] = "index" /\ done'[s] = {} /\ pc[s] = "list"
                              /\ todo'[s] = [rem : {NoPackage}, inst : Present]
  BY <1>1 DEF CreateNewSyncData, Goto, TypeOK
<1>5. ReadMax(s) => pc'[s] = "scan" /\ known'[s] = MaxStamp /\ done'[s] = {}
  BY <1>1 DEF ReadMax, Goto, TypeOK
<1>6. ASSUME Scan(s)
      PROVE  \/ pc'[s] = "idle"
             \/ /\ pc'[s] = "index" /\ done'[s] = {} /\ ~newCache'[s]
                /\ todo'[s] = Todos(UpdateSyncData(Indexed, Present, Newer(s)))
  <2> DEFINE data == UpdateSyncData(Indexed, Present, Newer(s))
  <2>1. pc[s] = "scan"
    BY <1>6 DEF Scan
  <2>2. CASE Overruns(data)
    BY <1>6, <2>2 DEF Scan, Leave, Goto, TypeOK
  <2>3. CASE ~Overruns(data)
    <3>1. /\ pc' = [pc EXCEPT ![s] = "index"] /\ todo' = [todo EXCEPT ![s] = Todos(data)]
          /\ done' = done /\ newCache' = newCache
      BY <1>6, <2>3 DEF Scan, Goto
    <3> HIDE DEF data
    <3>2. pc'[s] = "index" /\ todo'[s] = Todos(data) /\ done'[s] = {} /\ ~newCache'[s]
      BY <1>1, <2>1, <3>1 DEF TypeOK
    <3> QED BY <3>2 DEF data
  <2> QED BY <2>2, <2>3
<1>7. Crash(s) => pc'[s] = "idle"
  BY DEF Crash, Leave, Goto, TypeOK
<1> QED BY <1>2, <1>3, <1>4, <1>5, <1>6, <1>7

SecondRow(p) == Len(pkgs'[p]) > 1 /\ Len(pkgs'[p]) > Len(pkgs[p])

\* The commit of a process that is not overtaken gives no package a second row.
LEMMA CommitAddsOne ==
  ASSUME TypeInv, OvertakenInv, NEW s \in Procs, Commit(s), ~overtaken[s],
         NEW p \in Packages
  PROVE  ~SecondRow(p)
<1> SUFFICES ASSUME SecondRow(p) PROVE FALSE
  OBVIOUS
<1> DEFINE kept  == IF \E d \in done[s] : d.rem = p THEN <<>> ELSE pkgs[p]
           comes == {d \in done[s] : d.inst = p /\ (newCache[s] \/ d.loaded)}
<1>1. /\ pkgs'[p] \in Seq(Rows) /\ pkgs[p] \in Seq(Rows)
      /\ comes = {} => pkgs'[p] = kept
      /\ comes # {} => \E d \in comes :
           pkgs'[p] = Append(kept, [stamp |-> d.stamp, version |-> d.version])
      /\ \A d \in done[s] : [stamp |-> d.stamp, version |-> d.version] \in Rows
  BY CommitRows
<1>2. Len(pkgs'[p]) \in Nat /\ Len(pkgs[p]) \in Nat
  BY <1>1
<1>3. kept \in Seq(Rows) /\ Len(kept) <= Len(pkgs[p]) /\ Len(kept) \in Nat
  BY <1>1, <1>2
<1> HIDE DEF kept, comes
<1>4. comes # {}
  BY <1>1, <1>2, <1>3 DEF SecondRow
<1>5. PICK d \in comes : pkgs'[p] = Append(kept, [stamp |-> d.stamp, version |-> d.version])
  BY <1>1, <1>4
<1>6. d \in done[s] /\ d.inst = p
  BY DEF comes
<1>7. Len(pkgs'[p]) = Len(kept) + 1
  BY <1>1, <1>3, <1>5, <1>6
<1>8. kept # <<>>
  BY <1>3, <1>7 DEF SecondRow
<1>9. p \in Indexed /\ d.rem # p
  BY <1>6, <1>8 DEF kept, Indexed
<1>10. [rem |-> d.rem, inst |-> d.inst] \in Tasks(s)
  BY <1>6 DEF Tasks
<1>11. pc[s] = "index"
  BY DEF Commit
<1> QED BY <1>6, <1>9, <1>10, <1>11 DEF OvertakenInv

\* Every step keeps that.
LEMMA OvertakenStep ==
  ASSUME TypeInv, OvertakenInv, [Next]_vars
  PROVE  OvertakenInv'
<1> USE DEF TypeInv
<1>1. ASSUME Tick \/ (\E p \in Packages : Install(p) \/ Remove(p)) \/ UNCHANGED vars
      PROVE  OvertakenInv'
  <2>1. UNCHANGED <<pkgs, pc, todo, done, overtaken>>
    BY <1>1 DEF Tick, Install, Remove, vars, dbVars, procVars, histVars
  <2> QED BY <2>1 DEF OvertakenInv, Tasks, Indexed
<1>2. ASSUME NEW s \in Procs,
             \/ Open(s) \/ CreateDbSchema(s) \/ CreateNewSyncData(s) \/ ReadMax(s) \/ Scan(s)
             \/ Crash(s)
      PROVE  OvertakenInv'
  <2>1. Indexed' = Indexed /\ \A q \in Procs \ {s} : Tasks(q)' = Tasks(q)
    BY <1>2, OthersStay DEF Indexed, Tasks
  <2>2. \A q \in Procs \ {s} : pc'[q] = pc[q] /\ overtaken'[q] = overtaken[q]
    BY <1>2, OthersStay
  <2>3. ASSUME ~overtaken'[s], pc'[s] = "list" PROVE Indexed = {}
    <3>1. ~hasSchema
      BY <1>2, <2>3, WhereTo
    <3> QED BY <3>1 DEF TypeOK
  <2>4. ASSUME ~overtaken'[s], pc'[s] = "index", NEW t \in Tasks(s)', t.inst \in Indexed
        PROVE  t.rem = t.inst
    <3>1. CASE CreateNewSyncData(s)
      <4>1. overtaken' = overtaken /\ pc[s] = "list"
        BY <3>1 DEF CreateNewSyncData, histVars
      <4> QED BY <2>4, <4>1 DEF OvertakenInv
    <3>2. CASE Scan(s)
      <4>1. done'[s] = {} /\ todo'[s] = Todos(UpdateSyncData(Indexed, Present, Newer(s)))
        BY <2>4, <3>2, WhereTo
      <4>2. t \in Todos(UpdateSyncData(Indexed, Present, Newer(s)))
        BY <2>4, <4>1 DEF Tasks
      <4>3. Newer(s) \in SUBSET Present
        BY DEF Newer
      <4> QED BY <2>4, <4>2, <4>3, ScanTodos
    <3> QED BY <1>2, <2>4, <3>1, <3>2, WhereTo
  <2> QED BY <2>1, <2>2, <2>3, <2>4 DEF OvertakenInv
<1>3. ASSUME NEW s \in Procs, NEW t \in todo[s], Load(s, t) \/ Drop(s, t)
      PROVE  OvertakenInv'
  <2>1. /\ UNCHANGED <<pkgs, pc, overtaken>>
        /\ \A q \in Procs : Tasks(q)' \subseteq Tasks(q)
    BY <1>3, TasksKept DEF Load, Drop, dbVars, histVars
  <2> QED BY <2>1 DEF OvertakenInv, Indexed
<1>4. ASSUME NEW s \in Procs, NEW d \in done[s], Restat(s, d) PROVE OvertakenInv'
  <2>1. UNCHANGED <<pkgs, pc, overtaken>> /\ \A q \in Procs : Tasks(q)' = Tasks(q)
    BY <1>4, TasksKept DEF Restat, dbVars, histVars
  <2> QED BY <2>1 DEF OvertakenInv, Indexed
<1>5. ASSUME NEW s \in Procs, Commit(s) PROVE OvertakenInv'
  BY <1>5 DEF Commit, OvertakenInv
<1> QED BY <1>1, <1>2, <1>3, <1>4, <1>5 DEF Next, SyncStep

\* What a process that was not overtaken is about to do clears what it installs.
LEMMA OvertakenInvariant == Spec => [](TypeInv /\ OvertakenInv)
<1>1. Init => OvertakenInv
  BY DEF Init, OvertakenInv
<1> QED BY <1>1, InitTypes, SyncTypes, OvertakenStep, PTL DEF Spec

\* A full name gets a second row only in the commit of a process that another one has
\* overtaken, with any number of processes, changes and interruptions.
THEOREM SyncDoublesOnlyIfOvertaken == Spec => DoubledOnlyIfOvertaken
<1> DEFINE Blamed == \A p \in Packages : SecondRow(p) =>
                       \E s \in Procs : pc[s] = "index" /\ pc'[s] = "idle" /\ overtaken[s]
<1>1. ASSUME TypeInv, OvertakenInv, [Next]_vars PROVE [Blamed]_vars
  <2> SUFFICES ASSUME Next PROVE Blamed
    BY <1>1
  <2>1. ASSUME NEW s \in Procs, Commit(s) PROVE Blamed
    <3>1. pc[s] = "index" /\ pc'[s] = "idle"
      BY <1>1, <2>1 DEF Commit, Leave, Goto, TypeInv, TypeOK
    <3> QED BY <1>1, <2>1, <3>1, CommitAddsOne
  <2>2. ASSUME pkgs' = pkgs PROVE Blamed
    <3> SUFFICES ASSUME NEW p \in Packages PROVE ~SecondRow(p)
      OBVIOUS
    <3>1. Len(pkgs[p]) \in Nat
      BY <1>1 DEF TypeInv, TypeOK
    <3> QED BY <2>2, <3>1 DEF SecondRow
  <2>3. ASSUME NEW s \in Procs,
               \/ Open(s) \/ CreateDbSchema(s) \/ CreateNewSyncData(s) \/ ReadMax(s) \/ Scan(s)
               \/ Crash(s)
        PROVE  pkgs' = pkgs
    BY <1>1, <2>3, OthersStay
  <2>4. Tick \/ (\E p \in Packages : Install(p) \/ Remove(p)) => pkgs' = pkgs
    BY DEF Tick, Install, Remove, dbVars
  <2>5. ASSUME NEW s \in Procs, \/ \E t \in todo[s] : Load(s, t) \/ Drop(s, t)
                                \/ \E d \in done[s] : Restat(s, d)
        PROVE  pkgs' = pkgs
    BY <2>5 DEF Load, Drop, Restat, dbVars
  <2> HIDE DEF Blamed
  <2> QED BY <2>1, <2>2, <2>3, <2>4, <2>5 DEF Next, SyncStep
<1>2. TypeInv /\ OvertakenInv /\ [Next]_vars => [Blamed]_vars
  BY <1>1
<1>3. [Blamed]_vars =>
        [\A p \in Packages : Len(pkgs'[p]) > 1 /\ Len(pkgs'[p]) > Len(pkgs[p]) =>
           \E s \in Procs : pc[s] = "index" /\ pc'[s] = "idle" /\ overtaken[s]]_vars
  BY DEF SecondRow
<1> QED BY <1>2, <1>3, OvertakenInvariant, PTL DEF Spec, DoubledOnlyIfOvertaken

-----------------------------------------------------------------------------
(* Reinstalled packages are found. *)

\* A step of one process that leaves rows, directory and history alone has to make
\* good what FreshInv says of that process only.
LEMMA FreshFrame ==
  ASSUME FreshInv, NEW s \in Procs,
         UNCHANGED <<pkgs, mtime, version, hidden, quiet>>,
         \A q \in Procs \ {s} :
           /\ pc'[q] = pc[q] /\ known'[q] = known[q] /\ newCache'[q] = newCache[q]
           /\ done'[q] = done[q] /\ Tasks(q)' = Tasks(q),
         \A d \in done'[s] :
           d.inst \in Present \ hidden => d.loaded /\ d.version = version[d.inst],
         \A p \in Packages : Stale(p) =>
           /\ ~newCache'[s]
           /\ pc'[s] = "scan" => known'[s] < mtime[p]
           /\ pc'[s] = "index" => [rem |-> p, inst |-> p] \in Tasks(s)'
  PROVE  FreshInv'
<1>1. /\ Present' = Present /\ Stamps' = Stamps /\ \A p \in Packages : Stale(p)' = Stale(p)
  BY DEF Present, Stamps, Stale
<1> QED BY <1>1 DEF FreshInv, StaleIsLatest, LoadedIsFresh, StaleIsListed, QuietIsFresh

\* No row, no stale package.
LEMMA StaleHasRows ==
  ASSUME TypeOK, NEW p \in Packages, Stale(p)
  PROVE  p \in Indexed /\ hasSchema /\ mtime[p] \in Nat /\ mtime[p] > 0 /\ p \in Present
<1>1. p \in Indexed
  BY DEF Stale, Indexed, TypeOK
<1>2. hasSchema
  BY <1>1 DEF TypeOK
<1>3. mtime[p] \in Nat /\ mtime[p] > 0 /\ p \in Present
  BY Bounds DEF Stale, Present, TypeOK
<1> QED BY <1>1, <1>2, <1>3

\* The package tools: a package installed while no sync is on its way, and later than
\* all there is, is later than all that the syncs to come will read.
LEMMA FreshDirStep ==
  ASSUME TypeInv, FreshInv, Tick \/ (\E p \in Packages : Install(p) \/ Remove(p))
  PROVE  FreshInv'
<1>0. TypeOK
  BY DEF TypeInv
<1>1. CASE Tick
  <2>1. UNCHANGED <<mtime, version, pkgs, pc, known, todo, done, newCache, hidden, quiet>>
    BY <1>1 DEF Tick, dbVars, procVars, histVars
  <2> QED BY <2>1 DEF FreshInv, StaleIsLatest, LoadedIsFresh, StaleIsListed, QuietIsFresh,
                      Present, Stamps, Stale, Tasks
<1>2. ASSUME NEW p \in Packages, Install(p) PROVE FreshInv'
  <2>1. /\ UNCHANGED <<pkgs, pc, known, todo, done, newCache>> /\ quiet' = 0
        /\ mtime' = [mtime EXCEPT ![p] = now]
        /\ version' = [version EXCEPT ![p] = @ + 1]
        /\ hidden' = IF MayBeOverlooked THEN hidden \cup {p} ELSE hidden \ {p}
    BY <1>2 DEF Install, Disturbed, dbVars, procVars
  <2>2. /\ mtime'[p] = now /\ Stamps' = Stamps
        /\ \A q \in Packages \ {p} : mtime'[q] = mtime[q] /\ version'[q] = version[q]
    BY <1>0, <2>1 DEF TypeOK, Stamps
  <2>3. \A q \in Packages \ {p} : /\ q \in Present' <=> q \in Present
                                  /\ q \in hidden' <=> q \in hidden
                                  /\ Stale(q)' = Stale(q)
    BY <2>1, <2>2 DEF Present, Stale
  <2>4. ASSUME p \notin hidden'
        PROVE  /\ \A t \in Stamps : t < now
               /\ \A s \in Procs : pc[s] = "idle" /\ done[s] = {} /\ ~newCache[s]
    <3>1. ~MayBeOverlooked
      BY <2>1, <2>4
    <3>2. \A s \in Procs : pc[s] = "idle"
      BY <3>1 DEF MayBeOverlooked
    <3>3. \A t \in Stamps : ~(now <= t)
      BY <3>1 DEF MayBeOverlooked, TimesRead
    <3>4. Stamps \in SUBSET Nat /\ now \in Nat
      BY <1>0, MaxStampIsGreatest, Bounds DEF TypeOK, Times
    <3>5. \A t \in Stamps : t < now
      BY <3>3, <3>4
    <3>6. \A s \in Procs : pc[s] = "idle" /\ done[s] = {} /\ ~newCache[s]
      BY <1>0, <3>2 DEF TypeOK
    <3> QED BY <3>5, <3>6
  <2>5. Stale(p)' => p \notin hidden'
    BY DEF Stale
  <2>6. StaleIsLatest'
    BY <2>1, <2>2, <2>3, <2>4, <2>5 DEF FreshInv, StaleIsLatest
  <2>7. LoadedIsFresh'
    <3> SUFFICES ASSUME NEW s \in Procs, NEW d \in done[s], d.inst \in Present' \ hidden'
                 PROVE  d.loaded /\ d.version = version'[d.inst]
      BY <2>1 DEF LoadedIsFresh
    <3>1. d.inst # p
      BY <2>4
    <3>2. d.inst \in Packages
      BY DEF Present
    <3> QED BY <2>2, <2>3, <3>1, <3>2 DEF FreshInv, LoadedIsFresh
  <2>8. StaleIsListed'
    <3> SUFFICES ASSUME NEW s \in Procs, NEW q \in Packages, Stale(q)'
                 PROVE  /\ ~newCache'[s]
                        /\ pc'[s] = "scan" => known'[s] < mtime'[q]
                        /\ pc'[s] = "index" => [rem |-> q, inst |-> q] \in Tasks(s)'
      BY DEF StaleIsListed
    <3>1. CASE q = p
      BY <2>1, <2>4, <2>5, <3>1
    <3>2. CASE q # p
      BY <2>1, <2>2, <2>3, <3>2 DEF FreshInv, StaleIsListed, Tasks
    <3> QED BY <3>1, <3>2
  <2>9. QuietIsFresh'
    BY <2>1 DEF QuietIsFresh
  <2> QED BY <2>6, <2>7, <2>8, <2>9 DEF FreshInv
<1>3. ASSUME NEW p \in Packages, Remove(p) PROVE FreshInv'
  <2>1. /\ UNCHANGED <<version, pkgs, pc, known, todo, done, newCache, hidden>> /\ quiet' = 0
        /\ mtime' = [mtime EXCEPT ![p] = 0]
    BY <1>3 DEF Remove, Disturbed, dbVars, procVars
  <2>2. /\ mtime'[p] = 0 /\ Stamps' = Stamps /\ \A q \in Packages \ {p} : mtime'[q] = mtime[q]
    BY <1>0, <2>1 DEF TypeOK, Stamps
  <2>3. /\ Present' = Present \ {p}
        /\ \A q \in Packages : Stale(q)' => Stale(q) /\ mtime'[q] = mtime[q]
    BY <2>1, <2>2 DEF Present, Stale
  <2>4. StaleIsLatest' /\ LoadedIsFresh' /\ QuietIsFresh'
    BY <2>1, <2>2, <2>3 DEF FreshInv, StaleIsLatest, LoadedIsFresh, QuietIsFresh
  <2>5. StaleIsListed'
    BY <2>1, <2>3 DEF FreshInv, StaleIsListed, Tasks
  <2> QED BY <2>4, <2>5 DEF FreshInv
<1> QED BY <1>1, <1>2, <1>3

\* doSync() up to the todos: what is stale is later than MAX(timestamp), so it is in
\* the scan, and it is reinstalled, for it has rows.
LEMMA FreshScanStep ==
  ASSUME TypeInv, FreshInv, NEW s \in Procs,
         \/ Open(s) \/ CreateDbSchema(s) \/ CreateNewSyncData(s) \/ ReadMax(s) \/ Scan(s)
         \/ Crash(s)
  PROVE  FreshInv'
<1>0. TypeOK /\ SchemaInv
  BY DEF TypeInv
<1>1. UNCHANGED <<pkgs, mtime, version, hidden, quiet>>
  BY OthersStay DEF Open, CreateDbSchema, CreateNewSyncData, ReadMax, Scan, Crash,
                    dirVars, histVars
<1>2. \A q \in Procs \ {s} :
        /\ pc'[q] = pc[q] /\ known'[q] = known[q] /\ newCache'[q] = newCache[q]
        /\ done'[q] = done[q] /\ Tasks(q)' = Tasks(q)
  BY OthersStay DEF Tasks
<1>3. TypeInv'
  BY ScanStepTypes, IndexStepTypes
<1>4. \A p \in Packages : Stale(p) => ~newCache[s]
  BY DEF FreshInv, StaleIsListed
<1>5. CASE Open(s)
  <2>1. pc'[s] \in {"schema", "max"} /\ done'[s] = {} /\ newCache'[s] = ~hasSchema
    BY <1>5, WhereTo
  <2>2. \A p \in Packages : Stale(p) => ~newCache'[s]
    BY <1>0, <2>1, StaleHasRows
  <2> QED BY <1>1, <1>2, <2>1, <2>2, FreshFrame
<1>6. CASE pc'[s] = "idle"
  <2>1. done'[s] = {} /\ ~newCache'[s]
    BY <1>3, <1>6 DEF TypeInv, TypeOK
  <2> QED BY <1>1, <1>2, <1>6, <2>1, FreshFrame
<1>7. CASE CreateDbSchema(s) /\ pc'[s] = "list"
  <2>1. done'[s] = {} /\ newCache'[s] = newCache[s]
    BY <1>7, WhereTo
  <2> QED BY <1>1, <1>2, <1>4, <1>7, <2>1, FreshFrame
<1>8. CASE CreateNewSyncData(s)
  <2>1. pc[s] = "list" /\ done'[s] = {}
    BY <1>8, WhereTo
  <2>2. \A p \in Packages : ~Stale(p)
    BY <1>0, <1>4, <2>1 DEF SchemaInv
  <2> QED BY <1>1, <1>2, <2>1, <2>2, FreshFrame
<1>9. CASE ReadMax(s)
  <2>1. pc'[s] = "scan" /\ known'[s] = MaxStamp /\ done'[s] = {} /\ newCache' = newCache
    BY <1>9, WhereTo DEF ReadMax
  <2>2. ASSUME NEW p \in Packages, Stale(p) PROVE MaxStamp < mtime[p]
    BY <1>0, <2>2, MaxStampIsGreatest, StaleHasRows DEF FreshInv, StaleIsLatest
  <2> QED BY <1>1, <1>2, <1>4, <2>1, <2>2, FreshFrame
<1>10. CASE Scan(s) /\ pc'[s] # "idle"
  <2>1. /\ pc'[s] = "index" /\ done'[s] = {} /\ ~newCache'[s] /\ pc[s] = "scan"
        /\ todo'[s] = Todos(UpdateSyncData(Indexed, Present, Newer(s)))
    BY <1>10, WhereTo DEF Scan
  <2>2. ASSUME NEW p \in Packages, Stale(p) PROVE [rem |-> p, inst |-> p] \in Tasks(s)'
    <3>1. known[s] < mtime[p]
      BY <2>1, <2>2 DEF FreshInv, StaleIsListed
    <3>2. known[s] \in Nat /\ mtime[p] \in Nat /\ p \in Present /\ p \in Indexed
      BY <1>0, <2>2, StaleHasRows, Bounds DEF TypeOK, Times
    <3>3. p \in Newer(s) \cap Indexed /\ Newer(s) \in SUBSET Present
      BY <3>1, <3>2 DEF Newer
    <3>4. [rem |-> p, inst |-> p] \in Todos(UpdateSyncData(Indexed, Present, Newer(s)))
      BY <1>0, <3>3, ScanTodos
    <3> QED BY <2>1, <3>4 DEF Tasks
  <2> QED BY <1>1, <1>2, <2>1, <2>2, FreshFrame
<1> QED BY <1>5, <1>6, <1>7, <1>8, <1>9, <1>10, WhereTo

\* createIndex() and updateIndex(): no row that comes is of an earlier installation,
\* and every stale one goes.
LEMMA FreshIndexStep ==
  ASSUME TypeInv, FreshInv, NEW s \in Procs,
         \/ \E t \in todo[s] : Load(s, t) \/ Drop(s, t)
         \/ \E d \in done[s] : Restat(s, d)
         \/ Commit(s)
  PROVE  FreshInv'
<1>0. TypeOK /\ SchemaInv
  BY DEF TypeInv
<1>1. ASSUME NEW t \in todo[s], Load(s, t) PROVE FreshInv'
  <2>1. /\ UNCHANGED <<pkgs, mtime, version, hidden, quiet, pc, known, newCache>>
        /\ \A q \in Procs : Tasks(q)' = Tasks(q)
    BY <1>1, TasksKept DEF Load, dirVars, dbVars, histVars
  <2>2. /\ \A q \in Procs \ {s} : done'[q] = done[q]
        /\ \A d \in done'[s] : \/ d \in done[s]
                               \/ d.inst \in Present => d.loaded /\ d.version = version[d.inst]
    <3>1. PICK stamp \in IF t.inst \in Present THEN {mtime[t.inst]}
                         ELSE IF t.inst = NoPackage THEN {0} ELSE Garbage :
            done' = [done EXCEPT ![s] = @ \cup
              {[rem |-> t.rem, inst |-> t.inst, loaded |-> t.inst \in Present, stamp |-> stamp,
                version |-> IF t.inst \in Present THEN version[t.inst] ELSE 0]}]
      BY <1>1 DEF Load
    <3> DEFINE e == [rem |-> t.rem, inst |-> t.inst, loaded |-> t.inst \in Present,
                     stamp |-> stamp, version |-> IF t.inst \in Present THEN version[t.inst] ELSE 0]
    <3>2. e.inst \in Present => e.loaded /\ e.version = version[e.inst]
      OBVIOUS
    <3> HIDE DEF e
    <3>3. done'[s] = done[s] \cup {e} /\ \A q \in Procs \ {s} : done'[q] = done[q]
      BY <1>0, <3>1 DEF TypeOK, e
    <3> QED BY <3>2, <3>3
  <2>3. \A d \in done'[s] :
          d.inst \in Present \ hidden => d.loaded /\ d.version = version[d.inst]
    BY <2>2 DEF FreshInv, LoadedIsFresh
  <2> QED BY <2>1, <2>2, <2>3, FreshFrame DEF FreshInv, StaleIsListed
<1>2. ASSUME NEW d \in done[s], Restat(s, d) PROVE FreshInv'
  <2>1. /\ UNCHANGED <<pkgs, mtime, version, hidden, quiet, pc, known, newCache>>
        /\ \A q \in Procs : Tasks(q)' = Tasks(q)
    BY <1>2, TasksKept DEF Restat, dirVars, dbVars, histVars
  <2>2. /\ \A q \in Procs \ {s} : done'[q] = done[q]
        /\ \A e \in done'[s] : \/ e \in done[s]
                               \/ e.inst = d.inst /\ e.loaded = d.loaded /\ e.version = d.version
    <3>1. PICK stamp : done' = [done EXCEPT ![s] = (@ \ {d}) \cup {[d EXCEPT !.stamp = stamp]}]
      BY <1>2 DEF Restat
    <3> DEFINE e == [d EXCEPT !.stamp = stamp]
    <3>2. d \in Carried
      BY <1>0 DEF TypeOK
    <3>3. e.inst = d.inst /\ e.loaded = d.loaded /\ e.version = d.version
      BY <3>2 DEF Carried
    <3> HIDE DEF e
    <3>4. /\ done'[s] = (done[s] \ {d}) \cup {e}
          /\ \A q \in Procs \ {s} : done'[q] = done[q]
      BY <1>0, <3>1 DEF TypeOK, e
    <3> QED BY <3>3, <3>4
  <2>3. \A e \in done'[s] :
          e.inst \in Present \ hidden => e.loaded /\ e.version = version[e.inst]
    BY <2>2 DEF FreshInv, LoadedIsFresh
  <2> QED BY <2>1, <2>2, <2>3, FreshFrame DEF FreshInv, StaleIsListed
<1>3. ASSUME NEW t \in todo[s], Drop(s, t) PROVE FreshInv'
  <2>1. /\ UNCHANGED <<pkgs, mtime, version, quiet, pc, known, newCache, done>>
        /\ hidden' = hidden \cup ({t.inst} \ {NoPackage})
    BY <1>3 DEF Drop, dirVars, dbVars
  <2>2. /\ Present' = Present /\ Stamps' = Stamps
        /\ \A p \in Packages : Stale(p)' => Stale(p) /\ p # t.inst
    <3>1. NoPackage \notin Packages
      BY DiffAssumption DEF NoPackage
    <3> QED BY <2>1, <3>1 DEF Present, Stamps, Stale
  <2>3. StaleIsLatest' /\ LoadedIsFresh' /\ QuietIsFresh'
    BY <2>1, <2>2 DEF FreshInv, StaleIsLatest, LoadedIsFresh, QuietIsFresh
  <2>4. StaleIsListed'
    <3> SUFFICES ASSUME NEW q \in Procs, NEW p \in Packages, Stale(p)'
                 PROVE  /\ ~newCache'[q]
                        /\ pc'[q] = "scan" => known'[q] < mtime'[p]
                        /\ pc'[q] = "index" => [rem |-> p, inst |-> p] \in Tasks(q)'
      BY DEF StaleIsListed
    <3>1. /\ ~newCache[q]
          /\ pc[q] = "scan" => known[q] < mtime[p]
          /\ pc[q] = "index" => [rem |-> p, inst |-> p] \in Tasks(q)
      BY <2>2 DEF FreshInv, StaleIsListed
    <3>2. [rem |-> p, inst |-> p] # t
      BY <2>2
    <3>3. [rem |-> p, inst |-> p] \in Tasks(q) => [rem |-> p, inst |-> p] \in Tasks(q)'
      BY <1>3, <3>2, TasksKept
    <3> QED BY <2>1, <3>1, <3>3
  <2> QED BY <2>3, <2>4 DEF FreshInv
<1>4. CASE Commit(s)
  <2>1. /\ UNCHANGED <<mtime, version, hidden>> /\ pc[s] = "index" /\ todo[s] = {}
        /\ done'[s] = {} /\ \A q \in Procs \ {s} : done'[q] = done[q]
    BY <1>0, <1>4 DEF Commit, Leave, dirVars, TypeOK
  <2>2. ASSUME NEW p \in Packages PROVE ~Stale(p)'
    <3> DEFINE kept  == IF \E d \in done[s] : d.rem = p THEN <<>> ELSE pkgs[p]
               comes == {d \in done[s] : d.inst = p /\ (newCache[s] \/ d.loaded)}
    <3>1. /\ pkgs'[p] \in Seq(Rows) /\ pkgs[p] \in Seq(Rows)
          /\ comes = {} => pkgs'[p] = kept
          /\ comes # {} => \E d \in comes :
               pkgs'[p] = Append(kept, [stamp |-> d.stamp, version |-> d.version])
          /\ \A d \in done[s] : [stamp |-> d.stamp, version |-> d.version] \in Rows
      BY <1>4, CommitRows
    <3> SUFFICES ASSUME p \in Present \ hidden, NEW i \in DOMAIN pkgs'[p]
                 PROVE  pkgs'[p][i].version = version[p]
      BY <2>1 DEF Stale, Present
    <3>2. \A k \in DOMAIN kept : kept[k].version = version[p]
      <4>1. CASE Stale(p)
        <5>1. [rem |-> p, inst |-> p] \in Tasks(s)
          BY <2>1, <4>1 DEF FreshInv, StaleIsListed
        <5>2. \E d \in done[s] : d.rem = p
          BY <2>1, <5>1 DEF Tasks
        <5> QED BY <5>2
      <4>2. CASE ~Stale(p)
        BY <4>2 DEF Stale
      <4> QED BY <4>1, <4>2
    <3>3. \A d \in comes : d.version = version[p] /\ d \in done[s]
      BY DEF FreshInv, LoadedIsFresh
    <3>4. kept \in Seq(Rows)
      BY <3>1
    <3> HIDE DEF kept, comes
    <3>5. CASE comes = {}
      BY <3>1, <3>2, <3>5
    <3>6. CASE comes # {}
      <4>1. PICK d \in comes : pkgs'[p] = Append(kept, [stamp |-> d.stamp, version |-> d.version])
        BY <3>1, <3>6
      <4>2. d.version = version[p] /\ [stamp |-> d.stamp, version |-> d.version] \in Rows
        BY <3>1, <3>3
      <4> DEFINE row == [stamp |-> d.stamp, version |-> d.version]
      <4>3. row.version = version[p]
        BY <4>2
      <4> HIDE DEF row
      <4>4. /\ row \in Rows /\ pkgs'[p] = Append(kept, row)
        BY <4>1, <4>2 DEF row
      <4>5. pkgs'[p][i] = row \/ (i \in DOMAIN kept /\ pkgs'[p][i] = kept[i])
        BY <3>4, <4>4
      <4> QED BY <3>2, <4>3, <4>5
    <3> QED BY <3>5, <3>6
  <2>3. StaleIsLatest' /\ StaleIsListed' /\ QuietIsFresh'
    BY <2>2 DEF StaleIsLatest, StaleIsListed, QuietIsFresh
  <2>4. LoadedIsFresh'
    BY <2>1 DEF FreshInv, LoadedIsFresh, Present
  <2> QED BY <2>3, <2>4 DEF FreshInv
<1> QED BY <1>1, <1>2, <1>3, <1>4

\* What is stale is found by every sync to come, and by those on their way.
LEMMA FreshInvariant == Spec => [](TypeInv /\ FreshInv)
<1>1. ASSUME Init PROVE FreshInv
  <2>1. /\ \A p \in Packages : pkgs[p] = <<>>
        /\ \A s \in Procs : done[s] = {}
    BY <1>1 DEF Init
  <2>2. \A p \in Packages : ~Stale(p)
    BY <2>1 DEF Stale
  <2> QED BY <2>1, <2>2 DEF FreshInv, StaleIsLatest, LoadedIsFresh, StaleIsListed, QuietIsFresh
<1>2. ASSUME TypeInv, FreshInv, [Next]_vars PROVE FreshInv'
  <2>1. CASE Next
    BY <1>2, <2>1, FreshDirStep, FreshScanStep, FreshIndexStep DEF Next, SyncStep
  <2>2. CASE UNCHANGED vars
    BY <1>2, <2>2 DEF vars, dirVars, dbVars, procVars, histVars, FreshInv, StaleIsLatest,
       LoadedIsFresh, StaleIsListed, QuietIsFresh, Present, Stamps, Stale, Tasks
  <2> QED BY <1>2, <2>1, <2>2
<1> QED BY <1>1, <1>2, InitTypes, SyncTypes, PTL DEF Spec

\* After a complete calm sync a package that is indexed is indexed as it is, unless its
\* last installation is one of the exceptions: however many packages, processes,
\* changes and interruptions.
THEOREM SyncFindsReinstalls == Spec => []ReinstallsAreFound
<1>1. FreshInv => ReinstallsAreFound
  BY DEF FreshInv, QuietIsFresh, Stale, ReinstallsAreFound, Present
<1> QED BY <1>1, FreshInvariant, PTL

-----------------------------------------------------------------------------
(* Complete syncs bring the database to the directory. *)

\* createNewSyncData() makes the todos createUpdateSyncData() would make.
LEMMA NewSyncTodos ==
  [rem : {NoPackage}, inst : Present] = Todos(UpdateSyncData({}, Present, {}))
<1> DEFINE data == UpdateSyncData({}, Present, {})
           none == Sorted({})
<1>1. none \in Seq(Packages) /\ Elements(none) = {}
  BY SortedEnumerates
<1>2. Updated({}, Present) = none /\ Updated(Present, {}) = none
  BY DEF Updated, IsIn
<1>3. DOMAIN none = {} 
  BY <1>1 DEF Elements
<1> HIDE DEF none
<1>4. /\ data.removed = {} /\ data.reinstalled = {} /\ data.installed = Present
      /\ data.updatedOld = none
  BY <1>1, <1>2 DEF UpdateSyncData, Reinstalled, Filter
<1> HIDE DEF data
<1>5. Pairs(data) = {}
  BY <1>3, <1>4 DEF Pairs
<1>6. Todos(data) = [rem : {NoPackage}, inst : Present]
  BY <1>4, <1>5 DEF Todos
<1> QED BY <1>6 DEF data

\* A step of one process that leaves rows and directory alone has to make good what
\* CalmInv says of that process only.
LEMMA CalmFrame ==
  ASSUME CalmInv, NEW s \in Procs, UNCHANGED <<pkgs, mtime>>,
         \A q \in Procs \ {s} :
           /\ pc'[q] = pc[q] /\ calm'[q] = calm[q] /\ overtaken'[q] = overtaken[q]
           /\ done'[q] = done[q] /\ Tasks(q)' = Tasks(q),
         calm'[s] /\ pc'[s] # "idle" =>
           /\ ~overtaken'[s]
           /\ pc'[s] = "index" =>
                /\ \E newer \in SUBSET Present :
                     Tasks(s)' = Todos(UpdateSyncData(Indexed, Present, newer))
                /\ \A d \in done'[s] : d.inst # NoPackage => d.loaded
  PROVE  CalmInv'
<1>1. Present' = Present /\ Indexed' = Indexed
  BY DEF Present, Indexed
<1> SUFFICES ASSUME NEW q \in Procs, calm'[q], pc'[q] # "idle"
             PROVE  /\ ~overtaken'[q]
                    /\ pc'[q] = "index" =>
                         /\ \E newer \in SUBSET Present :
                              Tasks(q)' = Todos(UpdateSyncData(Indexed, Present, newer))
                         /\ \A d \in done'[q] : d.inst # NoPackage => d.loaded
  BY <1>1 DEF CalmInv
<1>2. CASE q = s
  BY <1>2
<1>3. CASE q # s
  BY <1>3 DEF CalmInv
<1> QED BY <1>2, <1>3

\* doSync() up to the todos.
LEMMA CalmScanStep ==
  ASSUME TypeInv, OvertakenInv, CalmInv, NEW s \in Procs,
         \/ Open(s) \/ CreateDbSchema(s) \/ CreateNewSyncData(s) \/ ReadMax(s) \/ Scan(s)
         \/ Crash(s)
  PROVE  CalmInv'
<1>0. TypeOK
  BY DEF TypeInv
<1>1. UNCHANGED <<pkgs, mtime>>
  BY OthersStay DEF Open, CreateDbSchema, CreateNewSyncData, ReadMax, Scan, Crash, dirVars
<1>2. \A q \in Procs \ {s} :
        /\ pc'[q] = pc[q] /\ calm'[q] = calm[q] /\ overtaken'[q] = overtaken[q]
        /\ done'[q] = done[q] /\ Tasks(q)' = Tasks(q)
  BY OthersStay DEF Tasks
<1>3. CASE pc'[s] = "idle"
  BY <1>1, <1>2, <1>3, CalmFrame
<1>4. CASE Open(s)
  <2>1. pc'[s] # "index" /\ ~overtaken'[s]
    BY <1>4, WhereTo
  <2> QED BY <1>1, <1>2, <2>1, CalmFrame
<1>5. CASE (CreateDbSchema(s) /\ pc'[s] # "idle") \/ ReadMax(s)
  <2>1. pc'[s] # "index" /\ pc[s] # "idle" /\ calm' = calm /\ overtaken' = overtaken
    BY <1>5, WhereTo DEF CreateDbSchema, ReadMax, histVars
  <2>2. calm'[s] => ~overtaken'[s]
    BY <2>1 DEF CalmInv
  <2> QED BY <1>1, <1>2, <2>1, <2>2, CalmFrame
<1>6. CASE CreateNewSyncData(s)
  <2>1. /\ done'[s] = {} /\ pc[s] = "list" /\ calm' = calm /\ overtaken' = overtaken
        /\ todo'[s] = [rem : {NoPackage}, inst : Present]
    BY <1>6, WhereTo DEF CreateNewSyncData, histVars
  <2>2. ASSUME calm'[s]
        PROVE  /\ ~overtaken'[s]
               /\ \E newer \in SUBSET Present :
                    Tasks(s)' = Todos(UpdateSyncData(Indexed, Present, newer))
    <3>1. ~overtaken[s] /\ Indexed = {}
      BY <2>1, <2>2 DEF CalmInv, OvertakenInv
    <3>2. Tasks(s)' = Todos(UpdateSyncData({}, Present, {}))
      BY <2>1, NewSyncTodos DEF Tasks
    <3> QED BY <2>1, <3>1, <3>2
  <2> QED BY <1>1, <1>2, <2>1, <2>2, CalmFrame
<1>7. CASE Scan(s) /\ pc'[s] # "idle"
  <2>1. /\ done'[s] = {} /\ todo'[s] = Todos(UpdateSyncData(Indexed, Present, Newer(s)))
    BY <1>7, WhereTo
  <2>2. ~overtaken'[s]
    BY <1>0, <1>7 DEF Scan, TypeOK
  <2>3. Newer(s) \in SUBSET Present
    BY DEF Newer
  <2>4. Tasks(s)' = Todos(UpdateSyncData(Indexed, Present, Newer(s)))
    BY <2>1 DEF Tasks
  <2> QED BY <1>1, <1>2, <2>1, <2>2, <2>3, <2>4, CalmFrame
<1> QED BY <1>3, <1>4, <1>5, <1>6, <1>7, WhereTo

\* createIndex() and updateIndex().
LEMMA CalmIndexStep ==
  ASSUME TypeInv, CalmInv, NEW s \in Procs,
         \/ \E t \in todo[s] : Load(s, t) \/ Drop(s, t)
         \/ \E d \in done[s] : Restat(s, d)
         \/ Commit(s)
  PROVE  CalmInv'
<1>0. TypeOK
  BY DEF TypeInv
<1>1. ASSUME NEW t \in todo[s], Load(s, t) PROVE CalmInv'
  <2>1. /\ UNCHANGED <<pkgs, mtime, pc, calm, overtaken>> /\ pc[s] = "index"
        /\ \A q \in Procs : Tasks(q)' = Tasks(q)
    BY <1>1, TasksKept DEF Load, dirVars, dbVars, histVars
  <2>2. /\ \A q \in Procs \ {s} : done'[q] = done[q]
        /\ \A d \in done'[s] : d \in done[s] \/ (d.inst = t.inst /\ (t.inst \in Present => d.loaded))
    <3>1. PICK stamp \in IF t.inst \in Present THEN {mtime[t.inst]}
                         ELSE IF t.inst = NoPackage THEN {0} ELSE Garbage :
            done' = [done EXCEPT ![s] = @ \cup
              {[rem |-> t.rem, inst |-> t.inst, loaded |-> t.inst \in Present, stamp |-> stamp,
                version |-> IF t.inst \in Present THEN version[t.inst] ELSE 0]}]
      BY <1>1 DEF Load
    <3> DEFINE e == [rem |-> t.rem, inst |-> t.inst, loaded |-> t.inst \in Present,
                     stamp |-> stamp, version |-> IF t.inst \in Present THEN version[t.inst] ELSE 0]
    <3>2. e.inst = t.inst /\ (t.inst \in Present => e.loaded)
      OBVIOUS
    <3> HIDE DEF e
    <3>3. done'[s] = done[s] \cup {e} /\ \A q \in Procs \ {s} : done'[q] = done[q]
      BY <1>0, <3>1 DEF TypeOK, e
    <3> QED BY <3>2, <3>3
  <2>3. ASSUME calm[s]
        PROVE  /\ ~overtaken[s]
               /\ \E newer \in SUBSET Present :
                    Tasks(s) = Todos(UpdateSyncData(Indexed, Present, newer))
               /\ \A d \in done'[s] : d.inst # NoPackage => d.loaded
    <3>1. PICK newer \in SUBSET Present :
            Tasks(s) = Todos(UpdateSyncData(Indexed, Present, newer))
      BY <2>1, <2>3 DEF CalmInv
    <3>2. t.inst # NoPackage => t.inst \in Present
      <4>1. t \in Todos(UpdateSyncData(Indexed, Present, newer))
        BY <3>1 DEF Tasks
      <4> QED BY <1>0, <4>1, ScanTodos
    <3> QED BY <2>1, <2>2, <2>3, <3>1, <3>2 DEF CalmInv
  <2> QED BY <2>1, <2>2, <2>3, CalmFrame
<1>2. ASSUME NEW d \in done[s], Restat(s, d) PROVE CalmInv'
  <2>1. /\ UNCHANGED <<pkgs, mtime, pc, calm, overtaken>> /\ pc[s] = "index"
        /\ \A q \in Procs : Tasks(q)' = Tasks(q)
    BY <1>2, TasksKept DEF Restat, dirVars, dbVars, histVars
  <2>2. /\ \A q \in Procs \ {s} : done'[q] = done[q]
        /\ \A e \in done'[s] : e \in done[s] \/ (e.inst = d.inst /\ e.loaded = d.loaded)
    <3>1. PICK stamp : done' = [done EXCEPT ![s] = (@ \ {d}) \cup {[d EXCEPT !.stamp = stamp]}]
      BY <1>2 DEF Restat
    <3> DEFINE e == [d EXCEPT !.stamp = stamp]
    <3>2. d \in Carried
      BY <1>0 DEF TypeOK
    <3>3. e.inst = d.inst /\ e.loaded = d.loaded
      BY <3>2 DEF Carried
    <3> HIDE DEF e
    <3>4. done'[s] = (done[s] \ {d}) \cup {e} /\ \A q \in Procs \ {s} : done'[q] = done[q]
      BY <1>0, <3>1 DEF TypeOK, e
    <3> QED BY <3>3, <3>4
  <2>3. calm[s] => /\ ~overtaken[s]
                   /\ \E newer \in SUBSET Present :
                        Tasks(s) = Todos(UpdateSyncData(Indexed, Present, newer))
                   /\ \A e \in done'[s] : e.inst # NoPackage => e.loaded
    BY <2>1, <2>2 DEF CalmInv
  <2> QED BY <2>1, <2>2, <2>3, CalmFrame
<1>3. ASSUME NEW t \in todo[s], Drop(s, t) PROVE CalmInv'
  <2>1. /\ UNCHANGED <<pkgs, mtime, pc, overtaken, done>>
        /\ \A q \in Procs \ {s} : Tasks(q)' = Tasks(q)
    BY <1>3, TasksKept DEF Drop, dirVars, dbVars
  <2>2. ~calm'[s] /\ \A q \in Procs \ {s} : calm'[q] = calm[q]
    BY <1>0, <1>3 DEF Drop, TypeOK
  <2> QED BY <2>1, <2>2, CalmFrame
<1>4. CASE Commit(s)
  <2>1. \A q \in Procs : calm'[q] => pc'[q] = "idle"
    BY <1>0, <1>4 DEF Commit, Leave, Goto, TypeOK
  <2> QED BY <2>1 DEF CalmInv
<1> QED BY <1>1, <1>2, <1>3, <1>4

\* The commit of a calm sync carries out the todos of the difference.
LEMMA CalmCommit ==
  ASSUME TypeInv, CalmInv, NEW s \in Procs, calm[s], Commit(s)
  PROVE  \E newer \in SUBSET Present :
           Indexed' = PackagesAfter(Indexed, UpdateSyncData(Indexed, Present, newer))
<1>0. pc[s] = "index" /\ todo[s] = {} /\ pc[s] # "idle"
  BY DEF Commit
<1>1. PICK newer \in SUBSET Present :
        Tasks(s) = Todos(UpdateSyncData(Indexed, Present, newer))
  BY <1>0 DEF CalmInv
<1>2. \A d \in done[s] : d.inst # NoPackage => d.loaded
  BY <1>0 DEF CalmInv
<1> DEFINE todos == Todos(UpdateSyncData(Indexed, Present, newer))
<1>3. todos = {[rem |-> d.rem, inst |-> d.inst] : d \in done[s]}
  BY <1>0, <1>1 DEF Tasks
<1>4. /\ \A d \in done[s] : \E t \in todos : t.rem = d.rem /\ t.inst = d.inst
      /\ \A t \in todos : \E d \in done[s] : t.rem = d.rem /\ t.inst = d.inst
  <2> HIDE DEF todos
  <2>1. ASSUME NEW d \in done[s] PROVE \E t \in todos : t.rem = d.rem /\ t.inst = d.inst
    <3>1. [rem |-> d.rem, inst |-> d.inst] \in todos
      BY <1>3
    <3> QED BY <3>1
  <2>2. ASSUME NEW t \in todos PROVE \E d \in done[s] : t.rem = d.rem /\ t.inst = d.inst
    BY <1>3
  <2> QED BY <2>1, <2>2
<1>5. \A t \in todos : t.inst # NoPackage => t.inst \in Present
  BY ScanTodos DEF TypeInv
<1>6. NoPackage \notin Packages /\ Present \subseteq Packages
  BY DiffAssumption DEF NoPackage, Present
<1> HIDE DEF todos
<1>7. ASSUME NEW p \in Packages
      PROVE  p \in Indexed' <=> \/ p \in Indexed /\ \A t \in todos : t.rem # p
                                \/ \E t \in todos : t.inst = p
  <2> DEFINE kept  == IF \E d \in done[s] : d.rem = p THEN <<>> ELSE pkgs[p]
             comes == {d \in done[s] : d.inst = p /\ (newCache[s] \/ d.loaded)}
  <2>1. /\ pkgs'[p] \in Seq(Rows) /\ pkgs[p] \in Seq(Rows)
        /\ comes = {} => pkgs'[p] = kept
        /\ comes # {} => \E d \in comes :
             pkgs'[p] = Append(kept, [stamp |-> d.stamp, version |-> d.version])
        /\ \A d \in done[s] : [stamp |-> d.stamp, version |-> d.version] \in Rows
    BY CommitRows
  <2>2. comes # {} <=> \E t \in todos : t.inst = p
    BY <1>2, <1>4, <1>6
  <2>3. kept # <<>> <=> p \in Indexed /\ \A t \in todos : t.rem # p
    BY <1>4 DEF Indexed
  <2>4. kept \in Seq(Rows) /\ comes \subseteq done[s]
    BY <2>1
  <2> HIDE DEF kept, comes
  <2>5. comes # {} => pkgs'[p] # <<>>
    <3> SUFFICES ASSUME NEW d \in comes,
                        pkgs'[p] = Append(kept, [stamp |-> d.stamp, version |-> d.version])
                 PROVE  pkgs'[p] # <<>>
      BY <2>1
    <3>1. [stamp |-> d.stamp, version |-> d.version] \in Rows
      BY <2>1, <2>4
    <3>2. Len(pkgs'[p]) = Len(kept) + 1 /\ Len(kept) \in Nat
      BY <2>4, <3>1
    <3> QED BY <3>2
  <2>6. p \in Indexed' <=> pkgs'[p] # <<>>
    BY DEF Indexed
  <2> QED BY <2>1, <2>2, <2>3, <2>5, <2>6
<1>8. Indexed' \subseteq Packages /\ Indexed \subseteq Packages
  BY DEF Indexed
<1>9. Indexed' = (Indexed \ {t.rem : t \in todos}) \cup ({t.inst : t \in todos} \ {NoPackage})
  BY <1>5, <1>6, <1>7, <1>8
<1> QED BY <1>9 DEF PackagesAfter, todos

\* Where a complete calm sync adds to quiet, it has made progress.
LEMMA QuietStep ==
  ASSUME TypeInv, CalmInv, QuietInv, [Next]_vars
  PROVE  QuietInv'
<1> DEFINE N == Cardinality(Packages)
           Gap == Cardinality(Apart(Indexed, Present))
           Rest == Cardinality(Apart(Indexed', Present'))
<1>0. TypeOK /\ N \in Nat /\ quiet \in 0..Enough /\ Enough \in Nat
  BY DiffAssumption, FS_CardinalityType, Bounds DEF TypeInv, TypeOK
<1>1. /\ Gap \in Nat /\ Gap <= N /\ Rest \in Nat /\ Rest <= N
      /\ Indexed \in SUBSET Packages /\ Present \in SUBSET Packages
      /\ Indexed' \in SUBSET Packages /\ Present' \in SUBSET Packages
  <2>1. /\ Indexed \in SUBSET Packages /\ Present \in SUBSET Packages
        /\ Indexed' \in SUBSET Packages /\ Present' \in SUBSET Packages
    BY DEF Indexed, Present
  <2>2. /\ Apart(Indexed, Present) \in SUBSET Packages
        /\ Apart(Indexed', Present') \in SUBSET Packages
    BY <2>1 DEF Apart
  <2>3. /\ Gap \in Nat /\ Gap <= N
    BY <2>2, DiffAssumption, FS_Subset, FS_CardinalityType
  <2>4. /\ Rest \in Nat /\ Rest <= N
    BY <2>2, DiffAssumption, FS_Subset, FS_CardinalityType
  <2> QED BY <2>1, <2>3, <2>4
<1> HIDE DEF Gap, Rest, N
<1>2. QuietInv <=> Indexed = Present \/ 2 * quiet + Gap <= N
  BY DEF QuietInv, Gap, N
<1>3. QuietInv' <=> Indexed' = Present' \/ 2 * quiet' + Rest <= N
  BY DEF QuietInv, Rest, N
<1>4. ASSUME quiet' = 0 PROVE QuietInv'
  BY <1>1, <1>3, <1>4
<1>5. ASSUME UNCHANGED <<pkgs, mtime, quiet>> PROVE QuietInv'
  BY <1>5 DEF QuietInv, Indexed, Present
<1>6. ASSUME NEW s \in Procs, Commit(s), calm[s] PROVE QuietInv'
  <2>1. /\ Present' = Present
        /\ quiet' = IF quiet < Enough THEN quiet + 1 ELSE Enough
    BY <1>6 DEF Commit, Present, dirVars
  <2>2. quiet \in Nat /\ quiet' \in Nat /\ quiet' <= quiet + 1
    BY <1>0, <2>1
  <2>3. PICK newer \in SUBSET Present :
          Indexed' = PackagesAfter(Indexed, UpdateSyncData(Indexed, Present, newer))
    BY <1>6, CalmCommit
  <2>4. Indexed' = Present \/ Cardinality(Apart(Indexed', Present)) + 2 <= Gap
    BY <1>1, <2>3, SyncProgresses DEF Gap
  <2>5. CASE Indexed' = Present
    BY <1>3, <2>1, <2>5
  <2>6. CASE Indexed' # Present
    <3>1. Rest + 2 <= Gap
      BY <2>1, <2>4, <2>6 DEF Rest
    <3>2. Indexed # Present
      <4>1. Indexed = Present => Gap = 0
        <5>1. Indexed = Present => Apart(Indexed, Present) = {}
          BY DEF Apart
        <5>2. Cardinality({}) = 0
          BY FS_EmptySet
        <5> QED BY <5>1, <5>2 DEF Gap
      <4> QED BY <1>1, <3>1, <4>1
    <3>3. 2 * quiet + Gap <= N
      BY <1>2, <3>2
    <3>4. \A a, b, g, h, n \in Nat :
            b <= a + 1 /\ h + 2 <= g /\ 2 * a + g <= n => 2 * b + h <= n
      OBVIOUS
    <3>5. 2 * quiet' + Rest <= N
      BY <1>0, <1>1, <2>2, <3>1, <3>3, <3>4
    <3> QED BY <1>3, <3>5
  <2> QED BY <2>5, <2>6
<1>7. ASSUME NEW s \in Procs, Commit(s), ~calm[s] PROVE quiet' = 0
  BY <1>7 DEF Commit
<1>8. \/ quiet' = 0
      \/ UNCHANGED <<pkgs, mtime, quiet>>
      \/ \E s \in Procs : Commit(s)
  BY OthersStay
     DEF Next, SyncStep, Tick, Install, Remove, Disturbed, Open, CreateDbSchema,
         CreateNewSyncData, ReadMax, Scan, Load, Drop, Restat, Crash,
         vars, dirVars, dbVars, histVars
<1> QED BY <1>4, <1>5, <1>6, <1>7, <1>8

\* A calm sync works on what is there, and a row of them gets through.
LEMMA QuietInvariant == Spec => [](TypeInv /\ OvertakenInv /\ CalmInv /\ QuietInv)
<1>1. ASSUME Init PROVE CalmInv /\ QuietInv
  <2>1. CalmInv
    BY <1>1 DEF Init, CalmInv
  <2>2. Apart(Indexed, Present) \in SUBSET Packages
    BY DEF Apart, Indexed, Present
  <2>3. /\ Cardinality(Apart(Indexed, Present)) <= Cardinality(Packages)
        /\ Cardinality(Apart(Indexed, Present)) \in Nat
    BY <2>2, DiffAssumption, FS_Subset, FS_CardinalityType
  <2> QED BY <1>1, <2>1, <2>3 DEF Init, QuietInv
<1>2. ASSUME TypeInv, OvertakenInv, CalmInv, [Next]_vars PROVE CalmInv'
  <2>1. CASE Tick \/ UNCHANGED vars
    <3>1. UNCHANGED <<pkgs, mtime, pc, todo, done, calm, overtaken>>
      BY <2>1 DEF Tick, vars, dirVars, dbVars, procVars, histVars
    <3>2. /\ Indexed' = Indexed /\ Present' = Present
          /\ \A s \in Procs : Tasks(s)' = Tasks(s)
      BY <3>1 DEF Tasks, Indexed, Present
    <3> QED BY <1>2, <3>1, <3>2 DEF CalmInv
  <2>2. CASE \E p \in Packages : Install(p) \/ Remove(p)
    BY <2>2 DEF Install, Remove, Disturbed, CalmInv
  <2> QED BY <1>2, <2>1, <2>2, CalmScanStep, CalmIndexStep DEF Next, SyncStep
<1> QED BY <1>1, <1>2, OvertakenInvariant, QuietStep, PTL DEF Spec

\* After as many complete calm syncs as half the packages the database has exactly the
\* packages of the directory, whatever happened before, and in whatever orders full
\* names and names are.
THEOREM SyncSettles == Spec => []SettlesInEnough
<1>1. ASSUME TypeInv, QuietInv PROVE SettlesInEnough
  <2> SUFFICES ASSUME quiet = Enough, Indexed # Present PROVE FALSE
    BY DEF SettlesInEnough
  <2> DEFINE N == Cardinality(Packages)
             Gap == Cardinality(Apart(Indexed, Present))
  <2>1. Apart(Indexed, Present) \in SUBSET Packages /\ Apart(Indexed, Present) # {}
    BY DEF Apart, Indexed, Present
  <2>2. IsFiniteSet(Apart(Indexed, Present)) /\ Gap \in Nat /\ N \in Nat
    BY <2>1, DiffAssumption, FS_Subset, FS_CardinalityType
  <2>3. Gap # 0
    BY <2>1, <2>2, FS_EmptySet
  <2>4. 2 * Enough + Gap <= N
    BY <1>1 DEF QuietInv
  <2>5. Enough = (N + 1) \div 2
    BY DEF Enough
  <2> HIDE DEF N, Gap
  <2> QED BY <2>2, <2>3, <2>4, <2>5
<1> QED BY <1>1, QuietInvariant, PTL

\* Where names are in the order of full names, one complete calm sync leaves only
\* packages out of sync of which another version is there.
THEOREM SyncOnceIsEnough == Spec => []OneSyncIsEnough
<1>1. Init => OneSyncIsEnough
  BY DEF Init, OneSyncIsEnough
<1>2. ASSUME TypeInv, CalmInv, OneSyncIsEnough, [Next]_vars PROVE OneSyncIsEnough'
  <2>1. ASSUME NEW s \in Procs, Commit(s), calm[s], NamesInOrder PROVE OneSyncIsEnough'
    <3>1. Present' = Present
      BY <2>1 DEF Commit, Present, dirVars
    <3>2. PICK newer \in SUBSET Present :
            Indexed' = PackagesAfter(Indexed, UpdateSyncData(Indexed, Present, newer))
      BY <1>2, <2>1, CalmCommit
    <3>3. Indexed \in SUBSET Packages /\ Present \in SUBSET Packages
          /\ Indexed' \in SUBSET Packages
      BY DEF Indexed, Present
    <3>4. /\ NameOrdered(Updated(Indexed \ Present, Present \ Indexed))
          /\ NameOrdered(Updated(Present \ Indexed, Indexed \ Present))
      BY <2>1, <3>3, UpdatedInOrder DEF NamesInOrder
    <3>5. \A p \in Apart(Indexed', Present) :
            \E q \in (Present \cup Indexed') \ {p} : NameOf[q] = NameOf[p]
      BY <3>2, <3>3, <3>4, LeftOverIsNotAlone
    <3>6. ASSUME NEW p \in Packages, (p \in Present) # (p \in Indexed')
          PROVE  Cardinality(SameName(p) \cap (Present \cup Indexed')) > 1
      <4> DEFINE others == SameName(p) \cap (Present \cup Indexed')
      <4>1. p \in Apart(Indexed', Present)
        BY <3>6 DEF Apart
      <4>2. PICK q \in (Present \cup Indexed') \ {p} : NameOf[q] = NameOf[p]
        BY <3>5, <4>1
      <4>3. {p, q} \in SUBSET others /\ others \in SUBSET Packages
        BY <3>3, <4>1, <4>2 DEF SameName, Apart
      <4>4. IsFiniteSet(others)
        BY <4>3, DiffAssumption, FS_Subset
      <4> HIDE DEF others
      <4>5. IsFiniteSet({p}) /\ Cardinality({p}) = 1
        BY FS_Singleton
      <4> DEFINE one == {p}
      <4>6. q \notin one /\ one \cup {q} \in SUBSET others
        BY <4>2, <4>3
      <4> HIDE DEF one
      <4>7. Cardinality(one \cup {q}) = Cardinality(one) + 1
        BY <4>5, <4>6, FS_AddElement DEF one
      <4>8. Cardinality(one \cup {q}) <= Cardinality(others) /\ Cardinality(others) \in Nat
        BY <4>4, <4>6, FS_Subset, FS_CardinalityType
      <4>9. Cardinality(one) = 1
        BY <4>5 DEF one
      <4>10. Cardinality(others) > 1
        BY <4>7, <4>8, <4>9
      <4> QED BY <4>10 DEF others
    <3>7. ASSUME NEW p \in Packages PROVE SameName(p)' = SameName(p)
      BY DEF SameName
    <3> QED BY <3>1, <3>6, <3>7 DEF OneSyncIsEnough
  <2>2. ASSUME NEW s \in Procs, Commit(s), ~calm[s] PROVE quiet' = 0
    BY <2>2 DEF Commit
  <2>3. ASSUME quiet' = 0 \/ ~NamesInOrder PROVE OneSyncIsEnough'
    <3>1. ~(0 >= 1) /\ (NamesInOrder' <=> NamesInOrder)
      BY DEF NamesInOrder
    <3> QED BY <2>3, <3>1 DEF OneSyncIsEnough
  <2>4. ASSUME UNCHANGED <<pkgs, mtime, quiet>> PROVE OneSyncIsEnough'
    <3>1. /\ Indexed' = Indexed /\ Present' = Present /\ quiet' = quiet
          /\ NamesInOrder' <=> NamesInOrder
      BY <2>4 DEF Indexed, Present, NamesInOrder
    <3>2. ASSUME NEW p \in Packages PROVE SameName(p)' = SameName(p)
      BY DEF SameName
    <3> QED BY <1>2, <3>1, <3>2 DEF OneSyncIsEnough
  <2>5. \/ quiet' = 0
        \/ UNCHANGED <<pkgs, mtime, quiet>>
        \/ \E s \in Procs : Commit(s)
    BY <1>2, OthersStay
       DEF Next, SyncStep, Tick, Install, Remove, Disturbed, Open, CreateDbSchema,
           CreateNewSyncData, ReadMax, Scan, Load, Drop, Restat, Crash,
           vars, dirVars, dbVars, histVars
  <2> QED BY <2>1, <2>2, <2>3, <2>4, <2>5
<1> QED BY <1>1, <1>2, QuietInvariant, PTL DEF Spec
=============================================================================
