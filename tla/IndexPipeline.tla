---------------------------- MODULE IndexPipeline ----------------------------
(***************************************************************************)
(* Cache::createIndex() and Cache::updateIndex() of src/sbbdep/cache.cpp:  *)
(* producers pick todos, load the package files and push to a              *)
(* BackgroundJob whose task writes to the database, inside a transaction   *)
(* that the main thread opens, and commits after the job was stopped.      *)
(***************************************************************************)
EXTENDS BackgroundJob, ConcurrentPeek, FiniteSets

CONSTANTS Names, NoName, Todo, InDb, NewCache,
          LoadMayFail   \* Pkg::Load() may return false

VARIABLES main,         \* control point of the thread in createIndex/updateIndex
          producer,     \* control point of each indexWorker thread
          held,         \* position of the todo each of them works on
          work,         \* the database as the open transaction sees it
          stable,       \* the database as committed
          dropped       \* history: todos whose push was rejected

Producers == Callers

pipeVars == <<main, pos, producer, held, work, stable, dropped>>
vars == <<jobVars, pipeVars>>

Atomic == INSTANCE AtomicIndex WITH db <- stable,
                                    done <- main \in {"analyze", "return", "raise"}

ASSUME PipelineAssumption ==
  /\ Atomic!ProperTodo
  /\ Messages = Atomic!Actions /\ Vectors = {} /\ Size = Len(Todo)
  /\ LoadMayFail \in BOOLEAN

Init ==
  /\ JobInit /\ PeekInit
  /\ main = "begin"
  /\ producer = [p \in Producers |-> "unborn"] /\ held = [p \in Producers |-> 0]
  /\ work = Atomic!InitialDb /\ stable = Atomic!InitialDb
  /\ dropped = {}

-----------------------------------------------------------------------------
(* The task of the job. *)

\* del_byfullname deletes every row of the name.
Delete(rows, name) == [n \in Names |-> IF n = name THEN <<>> ELSE rows[n]]

\* insert_pkg adds a row; nothing in the schema keeps full names unique.
Insert(rows, name, content) ==
  [n \in Names |-> IF n = name THEN Append(rows[n], content) ELSE rows[n]]

\* Mutant: the old rows are not cleared.
TaskNoDelete(rows, m) ==
  LET t == Todo[m.todo]
  IN IF NewCache \/ m.loaded THEN Insert(rows, t.inst, Atomic!Indexed(m)) ELSE rows

\* createIndex() indexes what it is given, updateIndex() deletes first and then
\* indexes only what was loaded.
Task(rows, m) ==
  LET t     == Todo[m.todo]
      after == IF t.rem = NoName THEN rows ELSE Delete(rows, t.rem)
  IN  IF NewCache \/ m.loaded THEN Insert(after, t.inst, Atomic!Indexed(m)) ELSE after

\* A step that finishes a message has run the task on it.
TaskEffect ==
  work' = IF Len(processed') > Len(processed)
          THEN Task(work, processed'[Len(processed')])
          ELSE work

\* Mutant: the task writes outside of a transaction.
JobRunsAutoCommit ==
  JobStep /\ TaskEffect /\ stable' = work' /\ UNCHANGED <<main, pos, producer, held, dropped>>

JobRuns == JobStep /\ TaskEffect /\ UNCHANGED <<main, pos, producer, held, stable, dropped>>

-----------------------------------------------------------------------------
(* The producers: indexWorker. *)

\* picker(): the end-of-list element ends the thread.
Pick(p) ==
  /\ life = "up" /\ producer[p] = "pick"
  /\ Peek
  /\ held' = [held EXCEPT ![p] = Peeked]
  /\ producer' = [producer EXCEPT ![p] = IF AtEnd THEN "done" ELSE "load"]
  /\ UNCHANGED <<jobVars, main, work, stable, dropped>>

CanLoad(i) == IF Todo[i].inst = NoName THEN {FALSE}
              ELSE IF LoadMayFail THEN BOOLEAN ELSE {TRUE}

\* Pkg::create() and Load(), then push().  Its result is not looked at.
LoadAndPush(p) ==
  /\ life = "up" /\ producer[p] = "load"
  /\ \/ /\ \E l \in CanLoad(held[p]) :
              PushCall(p, <<[todo |-> held[p], loaded |-> l]>>, "one")
        /\ producer' = [producer EXCEPT ![p] = "push"]
        /\ UNCHANGED <<held, dropped>>
     \/ /\ PushRejected(p)
        /\ producer' = [producer EXCEPT ![p] = "pick"]
        /\ dropped' = dropped \cup {held[p]}
        /\ held' = [held EXCEPT ![p] = 0]
  /\ UNCHANGED <<main, pos, work, stable>>

PushReturned(p) ==
  /\ life = "up" /\ producer[p] = "push" /\ caller[p] = "idle"
  /\ producer' = [producer EXCEPT ![p] = "pick"]
  /\ held' = [held EXCEPT ![p] = 0]
  /\ UNCHANGED <<jobVars, main, pos, work, stable, dropped>>

-----------------------------------------------------------------------------
(* The main thread. *)

\* beginTransaction(), and the producers are started.
Begin ==
  /\ life = "up" /\ main = "begin"
  /\ main' = "join"
  /\ producer' = [p \in Producers |-> "pick"]
  /\ work' = stable
  /\ UNCHANGED <<jobVars, pos, held, stable, dropped>>

\* Mutant: the producers are not joined.
StopEarly ==
  /\ main = "join"
  /\ StopCall
  /\ main' = "stopping"
  /\ UNCHANGED <<pos, producer, held, work, stable, dropped>>

\* Mutant: the job is left to its destructor.
StopForgotten ==
  /\ life = "up" /\ main = "join" /\ \A p \in Producers : producer[p] = "done"
  /\ main' = "stopping"
  /\ UNCHANGED <<jobVars, pos, producer, held, work, stable, dropped>>

\* Both producers joined, then dbjob.stop().
Stop ==
  /\ main = "join" /\ \A p \in Producers : producer[p] = "done"
  /\ StopCall
  /\ main' = "stopping"
  /\ UNCHANGED <<pos, producer, held, work, stable, dropped>>

\* An exception of the task inside stop(), of commit() or of ANALYZE; what was not
\* committed is rolled back.
Raise ==
  /\ life = "up"
  /\ \/ main = "stopping" /\ owner = "threw"
     \/ main = "stopping" /\ owner = "idle" /\ processed # <<>>
     \/ main = "analyze"
  /\ main' = "raise"
  /\ work' = stable
  /\ UNCHANGED <<jobVars, pos, producer, held, stable, dropped>>

\* Mutant: committed before the job has been stopped.
CommitBeforeStopEnds ==
  /\ life = "up" /\ main = "stopping"
  /\ stable' = work
  /\ main' = IF NewCache THEN "return" ELSE "analyze"
  /\ UNCHANGED <<jobVars, pos, producer, held, work, dropped>>

Commit ==
  /\ life = "up" /\ main = "stopping" /\ owner = "idle"
  /\ stable' = work
  /\ main' = IF NewCache THEN "return" ELSE "analyze"
  /\ UNCHANGED <<jobVars, pos, producer, held, work, dropped>>

\* ANALYZE, after the commit.
Analyze ==
  /\ life = "up" /\ main = "analyze"
  /\ main' = "return"
  /\ UNCHANGED <<jobVars, pos, producer, held, work, stable, dropped>>

\* The end of the function's scope destroys the job.
Leave ==
  /\ main \in {"return", "raise"}
  /\ DtorCall
  /\ UNCHANGED pipeVars

Ended == life # "up" /\ UNCHANGED vars

-----------------------------------------------------------------------------

ProducerStep(p) == Pick(p) \/ LoadAndPush(p) \/ PushReturned(p)

MainStep == Begin \/ Stop \/ Commit \/ Analyze \/ Leave

Next == \/ JobRuns
        \/ \E p \in Producers : ProducerStep(p)
        \/ MainStep \/ Raise
        \/ Ended

Spec == Init /\ [][Next]_vars

\* A main thread at a step of its own takes it, or an exception takes it further.
Fairness ==
  /\ JobFairness
  /\ \A p \in Producers : WF_vars(ProducerStep(p))
  /\ WF_vars(MainStep \/ Raise)

FairSpec == Spec /\ Fairness
-----------------------------------------------------------------------------
(* Properties. *)

\* The job's types, and those of the picker, the producers and the two views of the
\* database.
PipelineTypeOK ==
  /\ TypeOK
  /\ main \in {"begin", "join", "stopping", "analyze", "return", "raise"}
  /\ pos \in 1..(Len(Todo) + 1)
  /\ producer \in [Producers -> {"unborn", "pick", "load", "push", "done"}]
  /\ held \in [Producers -> 0..Len(Todo)]
  /\ work \in [Names -> Seq(Atomic!Contents)]
  /\ stable \in [Names -> Seq(Atomic!Contents)]
  /\ dropped \subseteq DOMAIN Todo

AcceptedSet == {accepted[k] : k \in DOMAIN accepted}

\* Producer p has picked todo i and its push is not through yet.
InHand(p, i) == held[p] = i /\ (producer[p] = "load" \/ caller[p] = "one")

\* What was picked is with one producer, or accepted once, or dropped, and in one
\* of these places only: two threads on one picker neither skip nor repeat a todo.
TodoAccounted ==
  \A i \in DOMAIN Todo :
    LET hands == {p \in Producers : InHand(p, i)}
        times == {k \in DOMAIN accepted : accepted[k].todo = i}
    IN  Cardinality(hands) + Cardinality(times) + (IF i \in dropped THEN 1 ELSE 0)
          = IF i < pos THEN 1 ELSE 0

\* No full name ever has two rows, though the schema would allow it.
OneRow == \A n \in Names : Len(work[n]) <= 1

\* The task writes only while the transaction of this run is open.
TaskInTransaction ==
  [][processed' # processed => main \in {"join", "stopping"}]_vars

\* A push is rejected only because the worker thread has not begun to run: never
\* because stop() overtook a producer.
DroppedOnlyBeforeStart == [][dropped' # dropped => worker = "start"]_vars

\* What is committed is every accepted todo carried out once, in whatever order and
\* by whichever thread the messages were processed.
CommitsAllAccepted ==
  main \in {"analyze", "return"} => stable = Atomic!DbAfter(AcceptedSet)

\* An exit that terminates because the worker was never joined has committed an
\* index without a single package of this run.
UnjoinedIsEmpty == main = "return" /\ inDtor /\ ~joined => accepted = <<>>

\* The database changes once and as a whole, or not at all.
IndexIsAtomic == Atomic!AtomicSpec

\* createIndex/updateIndex return, raise or terminate, or stop() has missed its
\* worker and waits for it for ever; nothing else keeps a sync from ending.
EndsUnlessMissed == <>(life # "up") \/ <>[]MissedNotify

\* docs/options_cache.adoc: "On its first run sbbdep indexes all installed
\* packages".
AllIndexed ==
  main = "return" => \A i \in DOMAIN Todo : stable[Todo[i].inst] # <<>>

\* docs/options_cache.adoc: "If changes are found the cache is updated."
SyncEnds == <>(main \in {"analyze", "return", "raise"} \/ life # "up")
=============================================================================
