---------------------------- MODULE BackgroundJob ----------------------------
(***************************************************************************)
(* The single-consumer, multiple-producer job queue of                     *)
(* include/sbbdep/utils/backgroundjob.hpp: a worker thread that swaps out  *)
(* the message vector and runs a task on every message, callers that push, *)
(* and one owner that stops and destroys the job.                          *)
(*                                                                         *)
(* A step is what one thread does between two points another thread can    *)
(* observe.  A critical section that never leaves the mutex is one step;   *)
(* the worker's section is split, because stop() writes newData and        *)
(* notifies without taking the mutex.                                      *)
(***************************************************************************)
EXTENDS Naturals, Sequences

CONSTANTS Callers,      \* threads that push
          Messages,     \* what is pushed
          Vectors       \* what the vector overload of push() is given

ASSUME VectorsAssumption == Vectors \subseteq Seq(Messages)

VARIABLES running,      \* j::running (atomic)
          newData,      \* j::newData (a plain bool, see lateStore)
          lateStore,    \* stop()'s unlocked store to newData, not yet visible
          messages,     \* j::messages
          mtx,          \* owner of j::mtx between two steps
          cleanUp,      \* _cleanUp
          worker,       \* control point of the worker thread
          batch,        \* the swapped-out vector: what consume() has left
          caller,       \* control point of each pushing thread
          arg,          \* what each pushing thread pushes
          owner,        \* control point of stop() in the owning thread
          inDtor,       \* stop() was called by the destructor
          joined,       \* the worker thread has been joined
          life,         \* of the object, and of the process
          accepted,     \* history: messages whose push was accepted, in order
          processed     \* history: messages the task has finished with

jobVars == <<running, newData, lateStore, messages, mtx, cleanUp, worker, batch,
             caller, arg, owner, inDtor, joined, life, accepted, processed>>

workerVars == <<worker, batch>>
callerVars == <<caller, arg>>
ownerVars  == <<owner, inDtor, joined, life>>
queueVars  == <<running, newData, messages, mtx>>

WorkerPoints == {"start", "loop", "lock", "test", "wait", "waiting", "woken",
                 "swap", "consume", "exited"}
CallerPoints == {"idle", "one", "many", "notify"}
OwnerPoints  == {"idle", "storeData", "notify", "join", "lockRest", "drain", "threw"}

\* Every variable is in the range its C++ declaration has, and the mutex is held in
\* exactly the sections the code encloses with it, an exception's way out included.
TypeOK ==
  /\ running \in BOOLEAN /\ newData \in BOOLEAN /\ lateStore \in BOOLEAN
  /\ cleanUp \in BOOLEAN /\ inDtor \in BOOLEAN /\ joined \in BOOLEAN
  /\ messages \in Seq(Messages) /\ batch \in Seq(Messages)
  /\ accepted \in Seq(Messages) /\ processed \in Seq(Messages)
  /\ mtx \in {"free", "worker", "owner"}
  /\ worker \in WorkerPoints
  /\ caller \in [Callers -> CallerPoints]
  /\ arg \in [Callers -> Seq(Messages)]
  /\ owner \in OwnerPoints
  /\ life \in {"up", "gone", "terminated"}
  /\ mtx = "worker" <=> worker \in {"test", "wait", "swap"}
  /\ mtx = "owner" <=> owner = "drain"

\* The constructor value-initialises j and starts the worker thread.
JobInit ==
  /\ running = FALSE /\ newData = FALSE /\ lateStore = FALSE
  /\ messages = <<>> /\ mtx = "free" /\ cleanUp = TRUE
  /\ worker = "start" /\ batch = <<>>
  /\ caller = [c \in Callers |-> "idle"] /\ arg = [c \in Callers |-> <<>>]
  /\ owner = "idle" /\ inDtor = FALSE /\ joined = FALSE /\ life = "up"
  /\ accepted = <<>> /\ processed = <<>>

-----------------------------------------------------------------------------
(* The worker thread. *)

WorkerStart ==
  /\ life = "up" /\ worker = "start"
  /\ running' = TRUE /\ worker' = "loop"
  /\ UNCHANGED <<newData, lateStore, messages, mtx, cleanUp, batch, callerVars,
                 ownerVars, accepted, processed>>

\* Mutant: the loop does not look at running.
WorkerLoopForever ==
  /\ life = "up" /\ worker = "loop"
  /\ worker' = "lock"
  /\ UNCHANGED <<queueVars, lateStore, cleanUp, batch, callerVars, ownerVars,
                 accepted, processed>>

WorkerLoop ==
  /\ life = "up" /\ worker = "loop"
  /\ worker' = IF running THEN "lock" ELSE "exited"
  /\ UNCHANGED <<queueVars, lateStore, cleanUp, batch, callerVars, ownerVars,
                 accepted, processed>>

\* The first acquisition, and the one wait() makes before it returns.
WorkerLock ==
  /\ life = "up" /\ worker \in {"lock", "woken"} /\ mtx = "free"
  /\ mtx' = "worker" /\ worker' = "test"
  /\ UNCHANGED <<running, newData, messages, lateStore, cleanUp, batch,
                 callerVars, ownerVars, accepted, processed>>

WorkerTest ==
  /\ life = "up" /\ worker = "test"
  /\ worker' = IF newData THEN "swap" ELSE "wait"
  /\ UNCHANGED <<queueVars, lateStore, cleanUp, batch, callerVars, ownerVars,
                 accepted, processed>>

\* wait() releases the mutex and enters the wait set in one step.
WorkerWait ==
  /\ life = "up" /\ worker = "wait"
  /\ mtx' = "free" /\ worker' = "waiting"
  /\ UNCHANGED <<running, newData, messages, lateStore, cleanUp, batch,
                 callerVars, ownerVars, accepted, processed>>

\* A condition variable may wake without a notification.
SpuriousWake ==
  /\ life = "up" /\ worker = "waiting"
  /\ worker' = "woken"
  /\ UNCHANGED <<queueVars, lateStore, cleanUp, batch, callerVars, ownerVars,
                 accepted, processed>>

\* Mutant: the vector is copied and not swapped.
SwapCopies ==
  /\ messages' = messages /\ batch' = messages
  /\ newData' = FALSE

Swap ==
  /\ messages' = batch /\ batch' = messages
  /\ newData' = FALSE

\* Mutant: lock.unlock () is missing.
WorkerSwapLocked ==
  /\ life = "up" /\ worker = "swap"
  /\ Swap
  /\ worker' = "consume"
  /\ UNCHANGED <<mtx, running, lateStore, cleanUp, callerVars, ownerVars, accepted,
                 processed>>

WorkerSwap ==
  /\ life = "up" /\ worker = "swap"
  /\ Swap
  /\ mtx' = "free" /\ worker' = "consume"
  /\ UNCHANGED <<running, lateStore, cleanUp, callerVars, ownerVars, accepted,
                 processed>>

\* One turn of consume(), or messages.clear() when nothing is left.
WorkerConsume ==
  /\ life = "up" /\ worker = "consume"
  /\ IF batch = <<>>
     THEN worker' = "loop" /\ UNCHANGED <<batch, processed>>
     ELSE /\ processed' = Append(processed, Head(batch))
          /\ batch' = Tail(batch)
          /\ UNCHANGED worker
  /\ UNCHANGED <<queueVars, lateStore, cleanUp, callerVars, ownerVars, accepted>>

\* An exception that leaves the worker's function ends the process.
WorkerTaskThrows ==
  /\ life = "up" /\ worker = "consume" /\ batch # <<>>
  /\ life' = "terminated"
  /\ UNCHANGED <<queueVars, lateStore, cleanUp, workerVars, callerVars, owner,
                 inDtor, joined, accepted, processed>>

-----------------------------------------------------------------------------
(* The pushing threads: push(T&&), push(const T&) and push(vector). *)

\* A push that reads running = FALSE returns false and changes nothing.
PushRejected(c) ==
  /\ life = "up" /\ caller[c] = "idle" /\ ~running
  /\ UNCHANGED jobVars

PushCall(c, ms, kind) ==
  /\ life = "up" /\ caller[c] = "idle" /\ running
  /\ caller' = [caller EXCEPT ![c] = kind]
  /\ arg' = [arg EXCEPT ![c] = ms]
  /\ UNCHANGED <<queueVars, lateStore, cleanUp, workerVars, ownerVars, accepted,
                 processed>>

Notified(w) == IF w = "waiting" THEN "woken" ELSE w

\* Mutant: newData is not set.
PushEnqueueNoFlag(c) ==
  /\ life = "up" /\ caller[c] \in {"one", "many"} /\ mtx = "free"
  /\ messages' = messages \o arg[c]
  /\ accepted' = accepted \o arg[c]
  /\ caller' = [caller EXCEPT ![c] = IF caller[c] = "one" THEN "notify" ELSE "idle"]
  /\ worker' = IF caller[c] = "many" THEN Notified(worker) ELSE worker
  /\ arg' = [arg EXCEPT ![c] = <<>>]
  /\ UNCHANGED <<running, mtx, newData, lateStore, cleanUp, batch, ownerVars,
                 processed>>

\* The critical section; the vector overload notifies inside it.
PushEnqueue(c) ==
  /\ life = "up" /\ caller[c] \in {"one", "many"} /\ mtx = "free"
  /\ messages' = messages \o arg[c]
  /\ newData' = TRUE
  /\ accepted' = accepted \o arg[c]
  /\ caller' = [caller EXCEPT ![c] = IF caller[c] = "one" THEN "notify" ELSE "idle"]
  /\ worker' = IF caller[c] = "many" THEN Notified(worker) ELSE worker
  /\ arg' = [arg EXCEPT ![c] = <<>>]
  /\ UNCHANGED <<running, mtx, lateStore, cleanUp, batch, ownerVars, processed>>

\* Mutant: nobody is notified.
PushNotifyLost(c) ==
  /\ life = "up" /\ caller[c] = "notify"
  /\ caller' = [caller EXCEPT ![c] = "idle"]
  /\ UNCHANGED <<queueVars, lateStore, cleanUp, workerVars, arg, ownerVars, accepted,
                 processed>>

PushNotify(c) ==
  /\ life = "up" /\ caller[c] = "notify"
  /\ caller' = [caller EXCEPT ![c] = "idle"]
  /\ worker' = Notified(worker)
  /\ UNCHANGED <<queueVars, lateStore, cleanUp, batch, arg, ownerVars, accepted,
                 processed>>

-----------------------------------------------------------------------------
(* The owner: setCleanup(), stop() and the destructor. *)

SetCleanup(v) ==
  /\ life = "up" /\ owner = "idle" /\ ~inDtor
  /\ cleanUp' = v
  /\ UNCHANGED <<queueVars, lateStore, workerVars, callerVars, ownerVars, accepted,
                 processed>>

\* stop() entered: a job that is not running is left alone.
StopEntry ==
  IF running
  THEN running' = FALSE /\ owner' = "storeData"
  ELSE UNCHANGED running /\ owner' = "idle"

StopCall ==
  /\ life = "up" /\ owner \in {"idle", "threw"} /\ ~inDtor
  /\ StopEntry
  /\ UNCHANGED <<newData, messages, mtx, lateStore, cleanUp, workerVars, callerVars,
                 inDtor, joined, life, accepted, processed>>

\* newData = true without the mutex: a data race.  StoreVisible is the moment the
\* worker can see the store, at the latest when join() returns.
StopStoreData ==
  /\ life = "up" /\ owner = "storeData"
  /\ lateStore' = TRUE /\ owner' = "notify"
  /\ UNCHANGED <<queueVars, cleanUp, workerVars, callerVars, inDtor, joined, life,
                 accepted, processed>>

StoreVisible ==
  /\ life = "up" /\ lateStore
  /\ newData' = TRUE /\ lateStore' = FALSE
  /\ UNCHANGED <<running, messages, mtx, cleanUp, workerVars, callerVars, ownerVars,
                 accepted, processed>>

\* notify_all wakes nobody when nobody waits, and then orders nothing either;
\* a thread it does wake sees what was stored before.
StopNotify ==
  /\ life = "up" /\ owner = "notify"
  /\ worker = "waiting" => ~lateStore
  /\ worker' = Notified(worker) /\ owner' = "join"
  /\ UNCHANGED <<queueVars, lateStore, cleanUp, batch, callerVars, inDtor, joined,
                 life, accepted, processed>>

\* Mutant: the worker is not waited for.
StopJoinNoWait ==
  /\ life = "up" /\ owner = "join" /\ ~lateStore
  /\ joined' = TRUE
  /\ owner' = IF cleanUp THEN "lockRest" ELSE "idle"
  /\ UNCHANGED <<queueVars, lateStore, cleanUp, workerVars, callerVars, inDtor, life,
                 accepted, processed>>

StopJoin ==
  /\ life = "up" /\ owner = "join" /\ worker = "exited" /\ ~lateStore
  /\ joined' = TRUE
  /\ owner' = IF cleanUp THEN "lockRest" ELSE "idle"
  /\ UNCHANGED <<queueVars, lateStore, cleanUp, workerVars, callerVars, inDtor, life,
                 accepted, processed>>

StopLockRest ==
  /\ life = "up" /\ owner = "lockRest" /\ mtx = "free"
  /\ mtx' = "owner" /\ owner' = "drain"
  /\ UNCHANGED <<running, newData, messages, lateStore, cleanUp, workerVars,
                 callerVars, inDtor, joined, life, accepted, processed>>

\* Mutant: the rest is cleared and not consumed.
StopDrainNothing ==
  /\ life = "up" /\ owner = "drain"
  /\ owner' = "idle" /\ mtx' = "free"
  /\ UNCHANGED <<messages, processed>>
  /\ UNCHANGED <<running, newData, lateStore, cleanUp, workerVars, callerVars,
                 inDtor, joined, life, accepted>>

\* consume (_queue.messages) in the owner's thread, under the mutex.
StopDrain ==
  /\ life = "up" /\ owner = "drain"
  /\ IF messages = <<>>
     THEN owner' = "idle" /\ mtx' = "free" /\ UNCHANGED <<messages, processed>>
     ELSE /\ processed' = Append(processed, Head(messages))
          /\ messages' = Tail(messages)
          /\ UNCHANGED <<owner, mtx>>
  /\ UNCHANGED <<running, newData, lateStore, cleanUp, workerVars, callerVars,
                 inDtor, joined, life, accepted>>

\* An exception of the task leaves stop(); out of the destructor it terminates.
StopTaskThrows ==
  /\ life = "up" /\ owner = "drain" /\ messages # <<>>
  /\ owner' = "threw" /\ mtx' = "free"
  /\ life' = IF inDtor THEN "terminated" ELSE "up"
  /\ UNCHANGED <<running, newData, messages, lateStore, cleanUp, workerVars,
                 callerVars, inDtor, joined, accepted, processed>>

\* The destructor: stop(), after which no thread may use the job any more.
DtorCall ==
  /\ life = "up" /\ owner \in {"idle", "threw"} /\ ~inDtor
  /\ \A c \in Callers : caller[c] = "idle"
  /\ inDtor' = TRUE
  /\ StopEntry
  /\ UNCHANGED <<newData, messages, mtx, lateStore, cleanUp, workerVars, callerVars,
                 joined, life, accepted, processed>>

\* The members are destroyed; a std::thread that is still joinable terminates.
DtorMembers ==
  /\ life = "up" /\ inDtor /\ owner = "idle"
  /\ life' = IF joined THEN "gone" ELSE "terminated"
  /\ UNCHANGED <<queueVars, lateStore, cleanUp, workerVars, callerVars, owner,
                 inDtor, joined, accepted, processed>>

-----------------------------------------------------------------------------

WorkerStep == \/ WorkerStart \/ WorkerLoop \/ WorkerLock \/ WorkerTest \/ WorkerWait
              \/ WorkerSwap \/ WorkerConsume

CallerStep(c) == PushEnqueue(c) \/ PushNotify(c)

StopStep == \/ StopStoreData \/ StopNotify \/ StopJoin \/ StopLockRest \/ StopDrain
            \/ DtorMembers

\* What the job's own threads, the pushes in progress and a stop in progress do.
JobStep == \/ WorkerStep \/ SpuriousWake \/ WorkerTaskThrows
           \/ \E c \in Callers : CallerStep(c)
           \/ StopStep \/ StopTaskThrows \/ StoreVisible

\* What a client may call; nobody uses a job whose destructor has begun.
JobCall == \/ \E c \in Callers, m \in Messages : ~inDtor /\ PushCall(c, <<m>>, "one")
           \/ \E c \in Callers, ms \in Vectors : ~inDtor /\ PushCall(c, ms, "many")
           \/ \E v \in BOOLEAN : SetCleanup(v)
           \/ StopCall
           \/ DtorCall

JobNext == JobStep \/ JobCall

JobSpec == JobInit /\ [][JobNext]_jobVars

\* Every thread that can run eventually does, and a push is not kept off the mutex
\* for ever by a worker that spurious wakeups make take it again and again.  Nothing
\* forces a spurious wakeup or an exception, and no client has to call anything.
JobFairness ==
  /\ WF_jobVars(WorkerStep)
  /\ \A c \in Callers : SF_jobVars(CallerStep(c))
  /\ WF_jobVars(StopStep)
  /\ WF_jobVars(StoreVisible)

FairJobSpec == JobSpec /\ JobFairness
-----------------------------------------------------------------------------
(* Properties. *)

\* The task is not reentrant in the cache (one connection, one transaction): the
\* worker's consume() and the one stop() makes itself never run at the same time.
SerialTask ==
  owner \in {"lockRest", "drain", "threw"} => worker = "exited" /\ batch = <<>>

\* A worker that waits, or is about to, has something to do only if a thread is
\* still on its way to notify_one(): a push can lose no wakeup.
NoLostPush ==
  worker \in {"wait", "waiting"} /\ messages # <<>> =>
    \E c \in Callers : caller[c] = "notify"

\* No accepted message is lost, doubled or overtaken on its way through the two
\* vectors, the swap, the exception path and the leftovers stop() runs itself.
Conserved == accepted = processed \o batch \o messages

\* A stop() that cleans up returns with everything accepted so far processed, the
\* pushes that raced with it included.
DrainedAtReturn ==
  [][owner = "drain" /\ owner' = "idle" => processed' = accepted']_jobVars

\* The worker waits though newData is set: the notification of stop() fell between
\* its test of newData and its wait().
MissedNotify == worker = "waiting" /\ newData /\ owner = "join"

\* That is the only way for the join() of stop() to wait for ever.
StopEndsUnlessMissed == owner = "join" ~> (owner # "join" \/ life # "up" \/ MissedNotify)

\* While nobody stops the job and the task does not throw, an accepted message is
\* processed in the end.
AcceptedIsProcessed ==
  \A n \in 1..3 : Len(accepted) >= n ~> (Len(processed) >= n \/ ~running \/ life # "up")
=============================================================================
