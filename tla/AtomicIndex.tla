----------------------------- MODULE AtomicIndex -----------------------------
(***************************************************************************)
(* What createIndex() and updateIndex() of src/sbbdep/cache.cpp promise    *)
(* about the database: it changes in one step, from what it was to what it *)
(* is with a set of the todos carried out.                                 *)
(***************************************************************************)
EXTENDS Naturals, Sequences

CONSTANTS Names,        \* full names of packages
          NoName,       \* the empty string
          Todo,         \* sequence of [rem, inst], either name may be NoName
          InDb,         \* names of the packages the database has to begin with
          NewCache      \* createIndex() is at work, not updateIndex()

\* What createUpdateSyncData() and createNewSyncData() hand over.
ProperTodo ==
  /\ NoName \notin Names
  /\ Todo \in Seq([rem : Names \cup {NoName}, inst : Names \cup {NoName}])
  /\ InDb \subseteq Names
  /\ NewCache \in BOOLEAN
  \* SyncData of a new cache has installed packages only, and updateIndex()
  \* returns before it makes a job when there is nothing to do.
  /\ NewCache => InDb = {} /\ \A i \in DOMAIN Todo : Todo[i].rem = NoName
  /\ ~NewCache => Todo # <<>>
  \* No name is removed or installed by two todos.
  /\ \A i, j \in DOMAIN Todo : i # j =>
       ({Todo[i].rem, Todo[i].inst} \cap {Todo[j].rem, Todo[j].inst}) \subseteq {NoName}
  \* What has rows already is removed by the todo that installs it.
  /\ \A i \in DOMAIN Todo : Todo[i].inst \in InDb => Todo[i].rem = Todo[i].inst

\* A todo together with what Pkg::Load() returned for it.
Actions == [todo : DOMAIN Todo, loaded : BOOLEAN]

\* The rows of table pkgs that have a full name, each by what was indexed:
\* before this run, a file list, or nothing because the file was not loaded.
Contents == {"old", "files", "nothing"}

InitialDb == [n \in Names |-> IF n \in InDb THEN <<"old">> ELSE <<>>]

Indexed(a) == IF a.loaded THEN "files" ELSE "nothing"

Installs(a, n) == Todo[a.todo].inst = n /\ (NewCache \/ a.loaded)
Removes(a, n)  == Todo[a.todo].rem = n

\* The database with every action of S carried out.
DbAfter(S) ==
  [n \in Names |->
     LET inst == {a \in S : Installs(a, n)}
     IN  IF inst # {} THEN <<Indexed(CHOOSE a \in inst : TRUE)>>
         ELSE IF \E a \in S : Removes(a, n) THEN <<>> ELSE InitialDb[n]]

VARIABLES db,           \* what another process, or the next run, reads
          done          \* the transaction has ended

AtomicInit == db = InitialDb /\ done = FALSE

\* Each todo carried out at most once, with one outcome of its load.
Consistent(S) == \A a, b \in S : a.todo = b.todo => a = b

Commit == /\ ~done /\ done' = TRUE
          /\ \E S \in SUBSET Actions : Consistent(S) /\ db' = DbAfter(S)

Abort == /\ ~done /\ done' = TRUE
         /\ UNCHANGED db

AtomicSpec == AtomicInit /\ [][Commit \/ Abort]_<<db, done>>
=============================================================================
