------------------------- MODULE IndexPipelineProofs -------------------------
(***************************************************************************)
(* Theorems about BackgroundJob, for any set of pushing threads and any    *)
(* messages; and about IndexPipeline, for any number of producers and any  *)
(* list of todos: what it does to the jobs, and that it implements         *)
(* AtomicIndex, the database changes once and as a whole.                  *)
(***************************************************************************)
EXTENDS IndexPipeline, FiniteSetTheorems, SequenceTheorems, TLAPS

-----------------------------------------------------------------------------
(* The job, for any set of pushing threads and any messages.               *)

\* The swapped-out vector is empty except while the worker consumes it.
BatchInv == batch # <<>> => worker = "consume"

\* Every message in the queue is announced by newData, and a worker that found
\* newData unset leaves for wait() with the queue still empty.
FlagInv ==
  /\ messages # <<>> => newData
  /\ worker = "wait" => messages = <<>>

JobInv == TypeOK /\ BatchInv /\ SerialTask /\ FlagInv /\ NoLostPush /\ Conserved

-----------------------------------------------------------------------------

\* Moving the head of t to the end of s leaves their concatenation as it was.
LEMMA MoveHead ==
  ASSUME NEW S, NEW s \in Seq(S), NEW t \in Seq(S), t # <<>>
  PROVE  /\ Head(t) \in S /\ Tail(t) \in Seq(S)
         /\ Append(s, Head(t)) \in Seq(S)
         /\ Append(s, Head(t)) \o Tail(t) = s \o t
<1>1. Head(t) \in S /\ Tail(t) \in Seq(S) /\ Len(Tail(t)) = Len(t) - 1
      /\ \A i \in 1..Len(Tail(t)) : Tail(t)[i] = t[i + 1]
  BY HeadTailProperties
<1>2. Append(s, Head(t)) \in Seq(S)
  BY <1>1
<1>3. Append(s, Head(t)) \o Tail(t) = s \o t
  <2> DEFINE u == Append(s, Head(t)) \o Tail(t)
             v == s \o t
  <2>1. u \in Seq(S) /\ v \in Seq(S) /\ Len(u) = Len(v)
    BY <1>1, <1>2, ConcatProperties
  <2>2. ASSUME NEW i \in 1..Len(u) PROVE u[i] = v[i]
    BY <1>1, <1>2, <2>1
  <2>3. u = v
    BY <2>1, <2>2, SeqEqual
  <2> QED BY <2>3
<1> QED BY <1>1, <1>2, <1>3

-----------------------------------------------------------------------------

\* A job that was just made.
LEMMA InitInv == JobInit => JobInv
<1> SUFFICES ASSUME JobInit PROVE JobInv
  OBVIOUS
<1>1. <<>> \in Seq(Messages)
  OBVIOUS
<1>2. TypeOK
  BY <1>1 DEF JobInit, TypeOK, WorkerPoints, CallerPoints, OwnerPoints
<1>3. BatchInv /\ SerialTask /\ FlagInv /\ NoLostPush
  BY DEF JobInit, BatchInv, SerialTask, FlagInv, NoLostPush
<1>4. Conserved
  BY <1>1, ConcatEmptySeq DEF JobInit, Conserved
<1> QED BY <1>2, <1>3, <1>4 DEF JobInv

\* Type correctness is kept by every step.
LEMMA TypeStep == TypeOK /\ [JobNext]_jobVars => TypeOK'
<1> SUFFICES ASSUME TypeOK, [JobNext]_jobVars PROVE TypeOK'
  OBVIOUS
<1> USE DEF TypeOK, WorkerPoints, CallerPoints, OwnerPoints, queueVars, workerVars,
            callerVars, ownerVars
<1>1. CASE WorkerStart BY <1>1 DEF WorkerStart
<1>2. CASE WorkerLoop BY <1>2 DEF WorkerLoop
<1>3. CASE WorkerLock BY <1>3 DEF WorkerLock
<1>4. CASE WorkerTest BY <1>4 DEF WorkerTest
<1>5. CASE WorkerWait BY <1>5 DEF WorkerWait
<1>6. CASE WorkerSwap BY <1>6 DEF WorkerSwap, Swap
<1>7. CASE WorkerConsume
  <2>1. CASE batch = <<>> BY <1>7, <2>1 DEF WorkerConsume
  <2>2. CASE batch # <<>>
    <3>1. Tail(batch) \in Seq(Messages) /\ Append(processed, Head(batch)) \in Seq(Messages)
      BY <2>2, MoveHead
    <3> QED BY <1>7, <2>2, <3>1 DEF WorkerConsume
  <2> QED BY <2>1, <2>2
<1>8. CASE SpuriousWake BY <1>8 DEF SpuriousWake
<1>9. CASE WorkerTaskThrows BY <1>9 DEF WorkerTaskThrows
<1>10. ASSUME NEW c \in Callers, PushEnqueue(c) PROVE TypeOK'
  <2>1. messages \o arg[c] \in Seq(Messages) /\ accepted \o arg[c] \in Seq(Messages)
    OBVIOUS
  <2>2. <<>> \in Seq(Messages)
    OBVIOUS
  <2> QED BY <1>10, <2>1, <2>2 DEF PushEnqueue, Notified
<1>11. ASSUME NEW c \in Callers, PushNotify(c) PROVE TypeOK'
  BY <1>11 DEF PushNotify, Notified
<1>12. CASE StopStoreData BY <1>12 DEF StopStoreData
<1>13. CASE StopNotify BY <1>13 DEF StopNotify, Notified
<1>14. CASE StopJoin BY <1>14 DEF StopJoin
<1>15. CASE StopLockRest BY <1>15 DEF StopLockRest
<1>16. CASE StopDrain
  <2>1. CASE messages = <<>> BY <1>16, <2>1 DEF StopDrain
  <2>2. CASE messages # <<>>
    <3>1. /\ Tail(messages) \in Seq(Messages)
          /\ Append(processed, Head(messages)) \in Seq(Messages)
      BY <2>2, MoveHead
    <3> QED BY <1>16, <2>2, <3>1 DEF StopDrain
  <2> QED BY <2>1, <2>2
<1>17. CASE DtorMembers BY <1>17 DEF DtorMembers
<1>18. CASE StopTaskThrows BY <1>18 DEF StopTaskThrows
<1>19. CASE StoreVisible BY <1>19 DEF StoreVisible
<1>20. ASSUME NEW c \in Callers, NEW m \in Messages, PushCall(c, <<m>>, "one")
       PROVE  TypeOK'
  <2>1. <<m>> \in Seq(Messages)
    OBVIOUS
  <2> QED BY <1>20, <2>1 DEF PushCall
<1>21. ASSUME NEW c \in Callers, NEW ms \in Vectors, PushCall(c, ms, "many")
       PROVE  TypeOK'
  BY <1>21, VectorsAssumption DEF PushCall
<1>22. ASSUME NEW v \in BOOLEAN, SetCleanup(v) PROVE TypeOK'
  BY <1>22 DEF SetCleanup
<1>23. CASE StopCall BY <1>23 DEF StopCall, StopEntry
<1>24. CASE DtorCall BY <1>24 DEF DtorCall, StopEntry
<1>25. CASE UNCHANGED jobVars BY <1>25 DEF jobVars
<1> QED
  BY <1>1, <1>2, <1>3, <1>4, <1>5, <1>6, <1>7, <1>8, <1>9, <1>10, <1>11, <1>12, <1>13,
     <1>14, <1>15, <1>16, <1>17, <1>18, <1>19, <1>20, <1>21, <1>22, <1>23, <1>24, <1>25
  DEF JobNext, JobStep, JobCall, WorkerStep, CallerStep, StopStep

\* The worker is past its last consume() before the owner runs the task itself.
LEMMA SerialStep == JobInv /\ [JobNext]_jobVars => (BatchInv /\ SerialTask)'
<1> SUFFICES ASSUME JobInv, [JobNext]_jobVars PROVE (BatchInv /\ SerialTask)'
  OBVIOUS
<1> USE DEF JobInv, BatchInv, SerialTask, queueVars, workerVars, callerVars, ownerVars
<1>1. CASE WorkerStep
  BY <1>1 DEF WorkerStep, WorkerStart, WorkerLoop, WorkerLock, WorkerTest, WorkerWait,
              WorkerSwap, Swap, WorkerConsume
<1>2. CASE SpuriousWake \/ WorkerTaskThrows
  BY <1>2 DEF SpuriousWake, WorkerTaskThrows
<1>3. ASSUME NEW c \in Callers, CallerStep(c) PROVE (BatchInv /\ SerialTask)'
  BY <1>3 DEF CallerStep, PushEnqueue, PushNotify, Notified
<1>4. CASE StopStep
  BY <1>4 DEF StopStep, StopStoreData, StopNotify, Notified, StopJoin, StopLockRest,
              StopDrain, DtorMembers
<1>5. CASE StopTaskThrows \/ StoreVisible
  BY <1>5 DEF StopTaskThrows, StoreVisible
<1>6. CASE JobCall
  BY <1>6 DEF JobCall, PushCall, SetCleanup, StopCall, DtorCall, StopEntry
<1>7. CASE UNCHANGED jobVars
  BY <1>7 DEF jobVars
<1> QED BY <1>1, <1>2, <1>3, <1>4, <1>5, <1>6, <1>7 DEF JobNext, JobStep

\* A worker at wait() has an empty queue, or a notification is on its way: the
\* queue is filled, and newData tested and reset, under one mutex.
LEMMA WakeupStep == JobInv /\ [JobNext]_jobVars => (FlagInv /\ NoLostPush)'
<1> SUFFICES ASSUME JobInv, [JobNext]_jobVars PROVE (FlagInv /\ NoLostPush)'
  OBVIOUS
<1> USE DEF JobInv, FlagInv, NoLostPush, queueVars, workerVars, callerVars, ownerVars
<1>1. CASE WorkerStart \/ WorkerLoop \/ WorkerLock \/ WorkerTest \/ WorkerWait
  BY <1>1 DEF WorkerStart, WorkerLoop, WorkerLock, WorkerTest, WorkerWait
<1>2. CASE WorkerSwap
  <2>1. messages' = <<>>
    BY <1>2 DEF WorkerSwap, Swap, BatchInv
  <2> QED BY <1>2, <2>1 DEF WorkerSwap
<1>3. CASE WorkerConsume
  BY <1>3 DEF WorkerConsume
<1>4. CASE SpuriousWake \/ WorkerTaskThrows
  BY <1>4 DEF SpuriousWake, WorkerTaskThrows
<1>5. ASSUME NEW c \in Callers, PushEnqueue(c) PROVE (FlagInv /\ NoLostPush)'
  <2>1. newData' /\ worker # "wait" /\ worker' # "wait"
    BY <1>5 DEF PushEnqueue, Notified, TypeOK
  <2>2. CASE caller[c] = "many"
    BY <1>5, <2>1, <2>2 DEF PushEnqueue, Notified
  <2>3. CASE caller[c] = "one"
    <3>1. caller'[c] = "notify"
      BY <1>5, <2>3 DEF PushEnqueue, TypeOK
    <3> QED BY <2>1, <3>1
  <2> QED BY <1>5, <2>2, <2>3 DEF PushEnqueue
<1>6. ASSUME NEW c \in Callers, PushNotify(c) PROVE (FlagInv /\ NoLostPush)'
  <2>1. worker' # "waiting" /\ (worker' = "wait" => worker = "wait")
        /\ messages' = messages /\ newData' = newData
    BY <1>6 DEF PushNotify, Notified
  <2> QED BY <2>1
<1>7. CASE StopStep \/ StopTaskThrows \/ StoreVisible
  <2>1. CASE StopStoreData \/ StopJoin \/ StopLockRest \/ DtorMembers \/ StopTaskThrows
             \/ StoreVisible
    BY <2>1 DEF StopStoreData, StopJoin, StopLockRest, DtorMembers, StopTaskThrows,
                StoreVisible
  <2>2. CASE StopNotify
    BY <2>2 DEF StopNotify, Notified
  <2>3. CASE StopDrain
    BY <2>3 DEF StopDrain, SerialTask
  <2> QED BY <1>7, <2>1, <2>2, <2>3 DEF StopStep
<1>8. ASSUME NEW c \in Callers, NEW ms, NEW kind \in {"one", "many"}, PushCall(c, ms, kind)
      PROVE  (FlagInv /\ NoLostPush)'
  <2>1. \A d \in Callers : caller[d] = "notify" => caller'[d] = "notify"
    BY <1>8 DEF PushCall, TypeOK
  <2>2. UNCHANGED <<messages, newData, worker>>
    BY <1>8 DEF PushCall
  <2> QED BY <2>1, <2>2
<1>9. ASSUME NEW v \in BOOLEAN, SetCleanup(v) PROVE (FlagInv /\ NoLostPush)'
  BY <1>9 DEF SetCleanup
<1>10. CASE StopCall \/ DtorCall
  BY <1>10 DEF StopCall, DtorCall, StopEntry
<1>11. CASE UNCHANGED jobVars
  BY <1>11 DEF jobVars
<1> QED
  BY <1>1, <1>2, <1>3, <1>4, <1>5, <1>6, <1>7, <1>8, <1>9, <1>10, <1>11
  DEF JobNext, JobStep, JobCall, WorkerStep, CallerStep

\* Every step moves messages between the parts of accepted, or leaves them alone.
LEMMA ConservedStep == JobInv /\ [JobNext]_jobVars => Conserved'
<1> SUFFICES ASSUME JobInv, [JobNext]_jobVars PROVE Conserved'
  OBVIOUS
<1> USE DEF queueVars, workerVars, callerVars, ownerVars
<1>0. /\ messages \in Seq(Messages) /\ batch \in Seq(Messages)
      /\ accepted \in Seq(Messages) /\ processed \in Seq(Messages)
      /\ arg \in [Callers -> Seq(Messages)]
      /\ accepted = processed \o batch \o messages
  BY DEF JobInv, TypeOK, Conserved
<1>1. CASE UNCHANGED <<accepted, processed, batch, messages>>
  BY <1>0, <1>1 DEF Conserved
<1>2. CASE WorkerSwap
  <2>1. batch = <<>>
    BY <1>2 DEF JobInv, BatchInv, WorkerSwap
  <2>2. accepted = processed \o messages
    BY <1>0, <2>1, ConcatEmptySeq
  <2>3. (processed \o messages) \o <<>> = processed \o messages
    BY <1>0, ConcatProperties, ConcatEmptySeq
  <2> QED BY <1>2, <2>1, <2>2, <2>3 DEF WorkerSwap, Swap, Conserved
<1>3. CASE WorkerConsume
  <2>1. CASE batch = <<>> BY <1>0, <1>3, <2>1 DEF WorkerConsume, Conserved
  <2>2. CASE batch # <<>>
    <3>1. Append(processed, Head(batch)) \o Tail(batch) = processed \o batch
      BY <1>0, <2>2, MoveHead
    <3> QED BY <1>0, <1>3, <2>2, <3>1 DEF WorkerConsume, Conserved
  <2> QED BY <2>1, <2>2
<1>4. ASSUME NEW c \in Callers, PushEnqueue(c) PROVE Conserved'
  <2>1. (processed \o batch \o messages) \o arg[c] = (processed \o batch) \o (messages \o arg[c])
    BY <1>0, ConcatProperties, ConcatAssociative
  <2> QED BY <1>0, <1>4, <2>1 DEF PushEnqueue, Conserved
<1>5. CASE StopDrain
  <2>1. CASE messages = <<>> BY <1>0, <1>5, <2>1 DEF StopDrain, Conserved
  <2>2. CASE messages # <<>>
    <3>1. batch = <<>>
      BY <1>5 DEF JobInv, SerialTask, StopDrain
    <3>2. Append(processed, Head(messages)) \o Tail(messages) = processed \o messages
          /\ Append(processed, Head(messages)) \in Seq(Messages)
      BY <1>0, <2>2, MoveHead
    <3>3. /\ processed \o <<>> = processed
          /\ Append(processed, Head(messages)) \o <<>> = Append(processed, Head(messages))
      BY <1>0, <3>2, ConcatEmptySeq
    <3> QED BY <1>0, <1>5, <2>2, <3>1, <3>2, <3>3 DEF StopDrain, Conserved
  <2> QED BY <2>1, <2>2
<1>6. CASE SpuriousWake \/ WorkerTaskThrows \/ StopTaskThrows \/ StoreVisible
  BY <1>1, <1>6 DEF SpuriousWake, WorkerTaskThrows, StopTaskThrows, StoreVisible
<1>7. CASE WorkerStart \/ WorkerLoop \/ WorkerLock \/ WorkerTest \/ WorkerWait
  BY <1>1, <1>7 DEF WorkerStart, WorkerLoop, WorkerLock, WorkerTest, WorkerWait
<1>8. CASE StopStoreData \/ StopNotify \/ StopJoin \/ StopLockRest \/ DtorMembers
  BY <1>1, <1>8 DEF StopStoreData, StopNotify, StopJoin, StopLockRest, DtorMembers
<1>9. CASE JobCall \/ \E c \in Callers : PushNotify(c)
  BY <1>1, <1>9 DEF JobCall, PushCall, SetCleanup, StopCall, DtorCall, PushNotify
<1>10. CASE UNCHANGED jobVars
  BY <1>1, <1>10 DEF jobVars
<1> QED
  BY <1>2, <1>3, <1>4, <1>5, <1>6, <1>7, <1>8, <1>9, <1>10
  DEF JobNext, JobStep, WorkerStep, CallerStep, StopStep

-----------------------------------------------------------------------------

\* Each part of the invariant is kept by every step of the job and of its client.
LEMMA JobInvStep == JobInv /\ [JobNext]_jobVars => JobInv'
  BY TypeStep, SerialStep, WakeupStep, ConservedStep DEF JobInv

\* The inductive invariant of the job.
THEOREM JobInvariant == JobSpec => []JobInv
  BY InitInv, JobInvStep, PTL DEF JobSpec

\* Every variable keeps its type and the mutex its discipline.
THEOREM JobTypeCorrect == JobSpec => []TypeOK
<1>1. JobInv => TypeOK
  BY DEF JobInv
<1> QED BY <1>1, JobInvariant, PTL

\* The task never runs in two threads at once.
THEOREM JobSerialTask == JobSpec => []SerialTask
<1>1. JobInv => SerialTask
  BY DEF JobInv
<1> QED BY <1>1, JobInvariant, PTL

\* A push never loses its wakeup.
THEOREM JobNoLostPush == JobSpec => []NoLostPush
<1>1. JobInv => NoLostPush
  BY DEF JobInv
<1> QED BY <1>1, JobInvariant, PTL

\* Accepted messages are processed in order, each once, and none is lost.
THEOREM JobConserved == JobSpec => []Conserved
<1>1. JobInv => Conserved
  BY DEF JobInv
<1> QED BY <1>1, JobInvariant, PTL

\* A stop() that cleans up leaves nothing accepted unprocessed.
THEOREM JobDrainedAtReturn == JobSpec => DrainedAtReturn
<1>1. JobInv /\ [JobNext]_jobVars
        => [owner = "drain" /\ owner' = "idle" => processed' = accepted']_jobVars
  <2> SUFFICES ASSUME JobInv, [JobNext]_jobVars, owner = "drain", owner' = "idle"
               PROVE  processed' = accepted'
    OBVIOUS
  <2>1. worker = "exited" /\ batch = <<>>
    BY DEF JobInv, SerialTask
  <2>2. StopDrain
    BY <2>1 DEF JobNext, JobStep, JobCall, WorkerStep, WorkerStart, WorkerLoop, WorkerLock,
       WorkerTest, WorkerWait, WorkerSwap, WorkerConsume, SpuriousWake, WorkerTaskThrows,
       CallerStep, PushEnqueue, PushNotify, StopStep, StopStoreData, StopNotify, StopJoin,
       StopLockRest, DtorMembers, StopTaskThrows, StoreVisible, PushCall, SetCleanup,
       StopCall, DtorCall, jobVars, ownerVars
  <2>3. messages = <<>> /\ processed' = processed /\ accepted' = accepted
    BY <2>2 DEF StopDrain
  <2>4. accepted = processed \o <<>> \o <<>> /\ processed \in Seq(Messages)
    BY <2>1, <2>3 DEF JobInv, Conserved, TypeOK
  <2> QED BY <2>3, <2>4, ConcatEmptySeq
<1> QED BY <1>1, JobInvariant, PTL DEF JobSpec, DrainedAtReturn

-----------------------------------------------------------------------------
(* The pipeline.                                                           *)

\* Which threads exist at which point of the main thread.
ControlInv ==
  /\ main \in {"begin", "join", "stopping", "analyze", "return", "raise"}
  /\ producer \in [Producers -> {"unborn", "pick", "load", "push", "done"}]
  /\ main = "begin" => \A p \in Producers : producer[p] = "unborn"
  /\ main \notin {"begin", "join"} => \A p \in Producers : producer[p] = "done"
  /\ \A p \in Producers : caller[p] # "idle" => producer[p] = "push" /\ caller[p] # "many"
  /\ main \in {"begin", "join"} => owner = "idle" /\ ~joined
  /\ main \in {"begin", "join", "stopping"} => ~inDtor
  /\ \A p \in Producers : producer[p] \in {"load", "push"} => held[p] \in DOMAIN Todo
  /\ held \in [Producers -> Nat] /\ pos \in Nat \ {0}
  /\ cleanUp

\* Before stop(), the job runs from the worker's first step on; and a job that has
\* accepted something has a worker that has made it.
StartInv ==
  /\ main \in {"begin", "join"} /\ worker # "start" => running
  /\ worker = "start" => ~running /\ accepted = <<>>
  /\ \A p \in Producers : caller[p] # "idle" => worker # "start"
  /\ main = "begin" => accepted = <<>>

\* Once something was accepted, stop() is effective and has joined the worker before
\* the main thread moves on.
JoinInv ==
  /\ owner \in {"lockRest", "drain", "threw"} => joined
  /\ owner \in {"storeData", "notify", "join"} => ~running /\ worker # "start"
  /\ joined => worker = "exited" /\ ~running
              /\ owner \in {"idle", "lockRest", "drain", "threw"}
  /\ accepted # <<>> /\ main = "stopping" =>
       joined \/ owner \in {"storeData", "notify", "join"}
  /\ accepted # <<>> /\ main \in {"analyze", "return", "raise"} =>
       joined /\ owner \in {"idle", "threw"}

\* What has been processed when stop() has returned is all that was accepted.
DoneInv ==
  \/ main = "stopping" /\ owner = "idle"
  \/ main \in {"analyze", "return"}
  => processed = accepted

PipelineInv == JobInv /\ ControlInv /\ StartInv /\ JoinInv /\ DoneInv

-----------------------------------------------------------------------------

\* The pipeline uses the job as its interface allows: every step is a step of the
\* job, or leaves the job alone.
LEMMA PipelineStepIsJobStep ==
  PipelineInv /\ [Next]_vars => [JobNext]_jobVars
<1> SUFFICES ASSUME PipelineInv, [Next]_vars PROVE [JobNext]_jobVars
  OBVIOUS
<1>1. CASE JobRuns
  BY <1>1 DEF JobRuns, JobNext
<1>2. ASSUME NEW p \in Producers, ProducerStep(p) PROVE [JobNext]_jobVars
  <2>1. CASE Pick(p) \/ PushReturned(p)
    BY <2>1 DEF Pick, PushReturned
  <2>2. CASE LoadAndPush(p)
    <3>1. ~inDtor
      BY <2>2 DEF LoadAndPush, PipelineInv, ControlInv
    <3>2. CASE PushRejected(p)
      BY <3>2 DEF PushRejected
    <3>3. ASSUME NEW l \in CanLoad(held[p]),
                 PushCall(p, <<[todo |-> held[p], loaded |-> l]>>, "one")
          PROVE  [JobNext]_jobVars
      <4>1. l \in BOOLEAN
        BY PipelineAssumption DEF CanLoad
      <4>2. [todo |-> held[p], loaded |-> l] \in Messages
        BY <2>2, <4>1, PipelineAssumption
        DEF LoadAndPush, PipelineInv, ControlInv, Atomic!Actions
      <4> QED BY <3>1, <3>3, <4>2 DEF JobNext, JobCall, Producers
    <3> QED BY <2>2, <3>2, <3>3 DEF LoadAndPush
  <2> QED BY <1>2, <2>1, <2>2 DEF ProducerStep
<1>3. CASE Stop \/ Leave
  BY <1>3 DEF Stop, Leave, JobNext, JobCall
<1>4. CASE Begin \/ Commit \/ Analyze \/ Raise \/ Ended
  BY <1>4 DEF Begin, Commit, Analyze, Raise, Ended, vars
<1>5. CASE UNCHANGED vars
  BY <1>5 DEF vars
<1> QED BY <1>1, <1>2, <1>3, <1>4, <1>5 DEF Next, MainStep

\* The todos are a sequence.
LEMMA TodoLength == Len(Todo) \in Nat /\ DOMAIN Todo = 1..Len(Todo) /\ Size = Len(Todo)
  BY PipelineAssumption DEF Atomic!ProperTodo

\* The invariant holds in the beginning.
LEMMA PipelineInit == Init => PipelineInv
<1> SUFFICES ASSUME Init PROVE PipelineInv
  OBVIOUS
<1>1. JobInv
  BY InitInv DEF Init
<1>2. ControlInv
  BY DEF Init, JobInit, PeekInit, ControlInv, Producers
<1>3. StartInv /\ JoinInv /\ DoneInv
  BY DEF Init, JobInit, StartInv, JoinInv, DoneInv, Producers
<1> QED BY <1>1, <1>2, <1>3 DEF PipelineInv

\* What a step of the job's own does to the threads that push and to the owner.
LEMMA JobStepControl ==
  ASSUME TypeOK, JobStep
  PROVE  /\ UNCHANGED <<inDtor, cleanUp>>
         /\ \A p \in Callers : caller'[p] # "idle" =>
               caller[p] # "idle" /\ caller'[p] \in {"notify", caller[p]}
         /\ owner = "idle" => owner' = "idle" /\ joined' = joined
<1> USE DEF queueVars, workerVars, callerVars, ownerVars
<1>1. CASE WorkerStep \/ SpuriousWake \/ WorkerTaskThrows \/ StoreVisible
  <2>1. UNCHANGED <<inDtor, cleanUp, caller, owner, joined>>
    BY <1>1 DEF WorkerStep, WorkerStart, WorkerLoop, WorkerLock, WorkerTest,
       WorkerWait, WorkerSwap, WorkerConsume, SpuriousWake, WorkerTaskThrows, StoreVisible
  <2> QED BY <2>1
<1>2. ASSUME NEW c \in Callers, CallerStep(c)
      PROVE  /\ UNCHANGED <<owner, inDtor, joined, cleanUp>>
             /\ \A p \in Callers : caller'[p] # "idle" =>
                   caller[p] # "idle" /\ caller'[p] \in {"notify", caller[p]}
  BY <1>2 DEF CallerStep, PushEnqueue, PushNotify, TypeOK
<1>3. CASE StopStep \/ StopTaskThrows
  <2>1. UNCHANGED <<inDtor, cleanUp, caller>>
    BY <1>3 DEF StopStep, StopStoreData, StopNotify, StopJoin, StopLockRest, StopDrain,
       DtorMembers, StopTaskThrows
  <2>2. owner = "idle" => owner' = "idle" /\ joined' = joined
    BY <1>3 DEF StopStep, StopStoreData, StopNotify, StopJoin, StopLockRest, StopDrain,
       DtorMembers, StopTaskThrows
  <2> QED BY <2>1, <2>2
<1> QED BY <1>1, <1>2, <1>3 DEF JobStep

\* Every step keeps where main, the producers and the job are.
LEMMA ControlStep == PipelineInv /\ [Next]_vars => ControlInv'
<1> SUFFICES ASSUME PipelineInv, [Next]_vars PROVE ControlInv'
  OBVIOUS
<1> USE DEF Producers
<1>0. ControlInv /\ TypeOK
  BY DEF PipelineInv, JobInv
<1>1. CASE JobRuns
  <2>1. UNCHANGED <<main, producer, held, pos>> /\ JobStep
    BY <1>1 DEF JobRuns
  <2> QED BY <1>0, <2>1, JobStepControl DEF ControlInv
<1>2. ASSUME NEW p \in Producers, Pick(p) PROVE ControlInv'
  <2>1. main = "join"
    BY <1>0, <1>2 DEF Pick, ControlInv
  <2>2. Peeked \in Nat /\ (~AtEnd => Peeked \in DOMAIN Todo) /\ pos' \in Nat \ {0}
    BY <1>0, <1>2, TodoLength DEF Pick, Peek, Peeked, AtEnd, ControlInv
  <2> QED BY <1>0, <1>2, <2>1, <2>2 DEF Pick, jobVars, ControlInv
<1>3. ASSUME NEW p \in Producers, LoadAndPush(p) PROVE ControlInv'
  <2>1. main = "join" /\ UNCHANGED <<main, pos>>
    BY <1>0, <1>3 DEF LoadAndPush, ControlInv
  <2>2. CASE PushRejected(p) /\ producer' = [producer EXCEPT ![p] = "pick"]
             /\ held' = [held EXCEPT ![p] = 0]
    <3>1. UNCHANGED <<caller, owner, joined, inDtor, cleanUp>> /\ caller[p] = "idle"
      BY <2>2 DEF PushRejected, jobVars
    <3> QED BY <1>0, <2>1, <2>2, <3>1 DEF ControlInv
  <2>3. ASSUME NEW ms, PushCall(p, ms, "one"), UNCHANGED held,
               producer' = [producer EXCEPT ![p] = "push"]
        PROVE  ControlInv'
    <3>1. UNCHANGED <<owner, joined, inDtor, cleanUp>>
          /\ caller' = [caller EXCEPT ![p] = "one"]
      BY <2>3 DEF PushCall, ownerVars
    <3>2. held[p] \in DOMAIN Todo
      BY <1>0, <1>3 DEF LoadAndPush, ControlInv
    <3>3. \A q \in Callers : caller'[q] # "idle" => producer'[q] = "push" /\ caller'[q] # "many"
      BY <1>0, <2>3, <3>1 DEF ControlInv, TypeOK
    <3> QED BY <1>0, <2>1, <2>3, <3>1, <3>2, <3>3 DEF ControlInv
  <2> QED BY <1>3, <2>2, <2>3 DEF LoadAndPush
<1>4. ASSUME NEW p \in Producers, PushReturned(p) PROVE ControlInv'
  <2>1. main = "join"
    BY <1>0, <1>4 DEF PushReturned, ControlInv
  <2> QED BY <1>0, <1>4, <2>1 DEF PushReturned, jobVars, ControlInv
<1>5. CASE Begin BY <1>0, <1>5 DEF Begin, jobVars, ControlInv
<1>6. CASE Stop BY <1>0, <1>6 DEF Stop, StopCall, callerVars, ControlInv
<1>7. CASE Commit \/ Analyze \/ Raise
  <2>1. /\ UNCHANGED <<jobVars, pos, producer, held>>
        /\ main \notin {"begin", "join"} /\ main' \in {"analyze", "return", "raise"}
    BY <1>7 DEF Commit, Analyze, Raise
  <2> QED BY <1>0, <2>1 DEF ControlInv, jobVars
<1>8. CASE Leave BY <1>0, <1>8 DEF Leave, DtorCall, callerVars, pipeVars, ControlInv
<1>9. CASE UNCHANGED vars BY <1>0, <1>9 DEF vars, jobVars, pipeVars, ControlInv
<1> QED BY <1>1, <1>2, <1>3, <1>4, <1>5, <1>6, <1>7, <1>8, <1>9
        DEF Next, ProducerStep, MainStep, Ended

\* What a step of the job's own does to the worker's beginning and to accepted.
LEMMA JobStepStart ==
  ASSUME TypeOK, JobStep
  PROVE  /\ worker # "start" => worker' # "start" /\ running' = running
         /\ worker = "start" => IF worker' = "start" THEN running' = running ELSE running'
         /\ accepted' # accepted => \E c \in Callers : caller[c] # "idle"
<1> USE DEF queueVars, workerVars, callerVars, ownerVars
<1>1. CASE WorkerStep \/ SpuriousWake \/ WorkerTaskThrows \/ StoreVisible
  BY <1>1 DEF WorkerStep, WorkerStart, WorkerLoop, WorkerLock, WorkerTest, WorkerWait,
     WorkerSwap, WorkerConsume, SpuriousWake, WorkerTaskThrows, StoreVisible
<1>2. ASSUME NEW c \in Callers, CallerStep(c)
      PROVE  /\ UNCHANGED running /\ caller[c] # "idle"
             /\ worker' \in {worker, "woken"} /\ (worker = "start" => worker' = "start")
  BY <1>2 DEF CallerStep, PushEnqueue, PushNotify, Notified, TypeOK
<1>3. CASE StopStep \/ StopTaskThrows
  BY <1>3 DEF StopStep, StopStoreData, StopNotify, Notified, StopJoin, StopLockRest,
     StopDrain, DtorMembers, StopTaskThrows
<1> QED BY <1>1, <1>2, <1>3 DEF JobStep

\* Every step keeps what holds until the worker thread has run.
LEMMA StartStep == PipelineInv /\ [Next]_vars => StartInv'
<1> SUFFICES ASSUME PipelineInv, [Next]_vars PROVE StartInv'
  OBVIOUS
<1> USE DEF Producers
<1>0. StartInv /\ ControlInv /\ TypeOK
  BY DEF PipelineInv, JobInv
<1>1. CASE JobRuns
  <2>1. UNCHANGED main /\ JobStep
    BY <1>1 DEF JobRuns
  <2>2. main = "begin" => \A p \in Callers : caller[p] = "idle"
    BY <1>0 DEF ControlInv
  <2> QED BY <1>0, <2>1, <2>2, JobStepStart, JobStepControl DEF StartInv
<1>2. ASSUME NEW p \in Producers, LoadAndPush(p) PROVE StartInv'
  <2>1. main = "join" /\ main' = "join"
    BY <1>0, <1>2 DEF LoadAndPush, ControlInv
  <2>2. CASE PushRejected(p)
    BY <1>0, <2>1, <2>2 DEF PushRejected, jobVars, StartInv
  <2>3. ASSUME NEW ms, PushCall(p, ms, "one") PROVE StartInv'
    <3>1. running /\ UNCHANGED <<running, worker, accepted>>
          /\ \A q \in Callers : q # p => caller'[q] = caller[q]
      BY <1>0, <2>3 DEF PushCall, queueVars, workerVars, TypeOK
    <3>2. worker # "start"
      BY <1>0, <3>1 DEF StartInv
    <3> QED BY <1>0, <2>1, <3>1, <3>2 DEF StartInv
  <2> QED BY <1>2, <2>2, <2>3 DEF LoadAndPush
<1>3. ASSUME NEW p \in Producers, Pick(p) \/ PushReturned(p) PROVE StartInv'
  BY <1>0, <1>3 DEF Pick, PushReturned, jobVars, StartInv
<1>4. CASE Begin \/ Commit \/ Analyze \/ Raise
  BY <1>0, <1>4 DEF Begin, Commit, Analyze, Raise, jobVars, StartInv
<1>5. CASE Stop
  BY <1>0, <1>5 DEF Stop, StopCall, StopEntry, workerVars, callerVars, StartInv
<1>6. CASE Leave
  BY <1>0, <1>6 DEF Leave, DtorCall, StopEntry, workerVars, callerVars, pipeVars, StartInv
<1>7. CASE UNCHANGED vars
  BY <1>0, <1>7 DEF vars, jobVars, pipeVars, StartInv
<1> QED BY <1>1, <1>2, <1>3, <1>4, <1>5, <1>6, <1>7
        DEF Next, ProducerStep, MainStep, Ended

\* Pushes are accepted only while the main thread waits for the producers.
LEMMA AcceptsOnlyInJoin ==
  ASSUME PipelineInv, [Next]_vars, main # "join"
  PROVE  accepted' = accepted
<1>0. ControlInv /\ TypeOK
  BY DEF PipelineInv, JobInv
<1>1. CASE JobRuns
  <2>1. \A p \in Callers : caller[p] = "idle"
    BY <1>0 DEF ControlInv, Producers
  <2> QED BY <1>0, <1>1, <2>1, JobStepStart DEF JobRuns
<1>2. CASE ~JobRuns
  BY <1>2
  DEF Next, ProducerStep, Pick, LoadAndPush, PushReturned, PushRejected, PushCall, MainStep,
      Begin, Stop, StopCall, Commit, Analyze, Leave, DtorCall, Raise, Ended, vars, jobVars,
      pipeVars
<1> QED BY <1>1, <1>2

\* Every step keeps what holds while the worker is to be joined.
LEMMA JoinStep == PipelineInv /\ [Next]_vars => JoinInv'
<1> SUFFICES ASSUME PipelineInv, [Next]_vars PROVE JoinInv'
  OBVIOUS
<1> USE DEF Producers
<1>0. JoinInv /\ StartInv /\ ControlInv /\ TypeOK
  BY DEF PipelineInv, JobInv
<1>1. CASE JobRuns
  <2>1. UNCHANGED main /\ JobStep
    BY <1>1 DEF JobRuns
  <2>2. accepted' # accepted => main = "join"
    BY AcceptsOnlyInJoin
  <2>3. CASE WorkerStep \/ SpuriousWake \/ WorkerTaskThrows \/ StoreVisible
    <3>1. UNCHANGED <<owner, joined>> /\ (worker = "exited" => UNCHANGED <<worker, running>>)
      BY <2>3 DEF WorkerStep, WorkerStart, WorkerLoop, WorkerLock, WorkerTest, WorkerWait,
         WorkerSwap, WorkerConsume, SpuriousWake, WorkerTaskThrows, StoreVisible, ownerVars,
         queueVars, workerVars
    <3> QED BY <1>0, <2>1, <2>2, <3>1, JobStepStart DEF JoinInv
  <2>4. ASSUME NEW c \in Callers, CallerStep(c) PROVE JoinInv'
    <3>1. UNCHANGED <<owner, joined, running>>
          /\ (worker \in {"start", "exited"} => worker' = worker)
          /\ (worker \notin {"start", "exited"} => worker' # "start")
      BY <2>4 DEF CallerStep, PushEnqueue, PushNotify, Notified, ownerVars, queueVars
    <3> QED BY <1>0, <2>1, <2>2, <3>1, JobStepStart DEF JoinInv
  <2>5. CASE StopStoreData \/ StopLockRest \/ StopDrain \/ DtorMembers \/ StopTaskThrows
    BY <1>0, <2>1, <2>5
    DEF JoinInv, StopStoreData, StopLockRest, StopDrain, DtorMembers, StopTaskThrows,
        ownerVars, queueVars, workerVars
  <2>6. CASE StopNotify
    <3>1. UNCHANGED <<running, joined, accepted>> /\ owner = "notify" /\ owner' = "join"
          /\ (worker # "start" => worker' # "start")
      BY <2>6 DEF StopNotify, Notified, queueVars
    <3> QED BY <1>0, <2>1, <3>1 DEF JoinInv, ControlInv
  <2>7. CASE StopJoin
    BY <1>0, <2>1, <2>7 DEF JoinInv, StopJoin, queueVars, workerVars
  <2> QED BY <2>1, <2>3, <2>4, <2>5, <2>6, <2>7 DEF JobStep, StopStep
<1>2. ASSUME NEW p \in Producers, ProducerStep(p) PROVE JoinInv'
  <2>1. UNCHANGED <<main, owner, joined, worker, running, accepted>>
    BY <1>2 DEF ProducerStep, Pick, LoadAndPush, PushReturned, PushRejected, PushCall,
       jobVars, ownerVars, queueVars, workerVars
  <2> QED BY <1>0, <2>1 DEF JoinInv
<1>3. CASE Begin \/ Commit \/ Analyze \/ Raise
  BY <1>0, <1>3 DEF Begin, Commit, Analyze, Raise, jobVars, JoinInv
<1>4. CASE Stop
  BY <1>0, <1>4 DEF Stop, StopCall, StopEntry, workerVars, JoinInv, StartInv, ControlInv
<1>5. CASE Leave
  BY <1>0, <1>5
  DEF Leave, DtorCall, StopEntry, workerVars, pipeVars, JoinInv, StartInv, ControlInv
<1>6. CASE UNCHANGED vars
  BY <1>0, <1>6 DEF vars, jobVars, pipeVars, JoinInv
<1> QED BY <1>1, <1>2, <1>3, <1>4, <1>5, <1>6 DEF Next, MainStep, Ended

\* Nothing is left in the job's vectors when processed has caught up with accepted.
LEMMA NothingLeft ==
  ASSUME TypeOK, Conserved, processed = accepted
  PROVE  batch = <<>> /\ messages = <<>>
<1>1. /\ processed \in Seq(Messages) /\ batch \in Seq(Messages)
      /\ messages \in Seq(Messages) /\ batch \o messages \in Seq(Messages)
  BY ConcatProperties DEF TypeOK
<1>2. processed \o (batch \o messages) = processed
  BY <1>1, ConcatAssociative DEF Conserved
<1>3. batch \o messages = <<>>
  BY <1>1, <1>2, ConcatEqualIffEmpty
<1> QED BY <1>1, <1>3, ConcatEqualIffEmpty

\* And nothing has been processed when nothing was accepted.
LEMMA NothingDone ==
  ASSUME TypeOK, Conserved, accepted = <<>>
  PROVE  processed = <<>>
<1>1. /\ processed \in Seq(Messages) /\ batch \in Seq(Messages)
      /\ messages \in Seq(Messages) /\ processed \o batch \in Seq(Messages)
  BY ConcatProperties DEF TypeOK
<1>2. (processed \o batch) \o messages = <<>>
  BY DEF Conserved
<1>3. processed \o batch = <<>>
  BY <1>1, <1>2, ConcatEqualIffEmpty
<1> QED BY <1>1, <1>3, ConcatEqualIffEmpty

\* A job with empty vectors runs no task.
LEMMA NoTaskStep ==
  ASSUME batch = <<>>, messages = <<>> \/ owner # "drain", JobStep
  PROVE  processed' = processed
  BY DEF JobStep, WorkerStep, WorkerStart, WorkerLoop, WorkerLock, WorkerTest, WorkerWait,
         WorkerSwap, WorkerConsume, SpuriousWake, WorkerTaskThrows, StoreVisible,
         CallerStep, PushEnqueue, PushNotify, StopStep, StopStoreData, StopNotify,
         StopJoin, StopLockRest, StopDrain, DtorMembers, StopTaskThrows

\* Every step keeps what holds once the job is over.
LEMMA DoneStep == PipelineInv /\ [Next]_vars => DoneInv'
<1> SUFFICES ASSUME PipelineInv, [Next]_vars PROVE DoneInv'
  OBVIOUS
<1>0. DoneInv /\ JoinInv /\ StartInv /\ ControlInv /\ JobInv /\ TypeOK /\ Conserved
  BY DEF PipelineInv, JobInv
<1>1. CASE JobRuns
  <2>1. UNCHANGED main /\ JobStep
    BY <1>1 DEF JobRuns
  <2>2. main # "join" => accepted' = accepted
    BY AcceptsOnlyInJoin
  <2>3. CASE processed = accepted /\ main # "join"
    <3>1. batch = <<>> /\ messages = <<>>
      BY <1>0, <2>3, NothingLeft
    <3>2. processed' = processed
      BY <2>1, <3>1, NoTaskStep
    <3> QED BY <2>1, <2>2, <2>3, <3>2 DEF DoneInv
  <2>4. CASE main = "join"
    BY <2>1, <2>4 DEF DoneInv
  <2>5. CASE processed # accepted /\ main # "join" /\ owner' # "idle"
    BY <1>0, <2>1, <2>5 DEF DoneInv
  <2>6. CASE processed # accepted /\ main # "join" /\ owner' = "idle"
    <3>1. main \notin {"analyze", "return"} /\ (main = "stopping" => owner # "idle")
      BY <1>0, <2>6 DEF DoneInv
    <3>2. CASE main # "stopping"
      BY <2>1, <3>1, <3>2 DEF DoneInv
    <3>3. CASE main = "stopping"
      <4>1. cleanUp
        BY <1>0 DEF ControlInv
      <4>2. StopDrain
        BY <2>1, <2>6, <3>1, <3>3, <4>1
        DEF JobStep, WorkerStep, WorkerStart, WorkerLoop, WorkerLock, WorkerTest,
            WorkerWait, WorkerSwap, WorkerConsume, SpuriousWake, WorkerTaskThrows,
            StoreVisible, CallerStep, PushEnqueue, PushNotify, StopStep, StopStoreData,
            StopNotify, StopJoin, StopLockRest, DtorMembers, StopTaskThrows, ownerVars
      <4>3. messages = <<>> /\ batch = <<>>
        BY <1>0, <2>6, <4>2 DEF StopDrain, JobInv, SerialTask
      <4>4. accepted = processed
        BY <1>0, <4>3, ConcatEmptySeq DEF Conserved, TypeOK
      <4> QED BY <2>6, <4>4
    <3> QED BY <3>2, <3>3
  <2> QED BY <2>3, <2>4, <2>5, <2>6
<1>2. ASSUME NEW p \in Producers, ProducerStep(p) PROVE DoneInv'
  <2>1. main = "join" /\ main' = main
    BY <1>0, <1>2 DEF ProducerStep, Pick, LoadAndPush, PushReturned, ControlInv
  <2> QED BY <2>1 DEF DoneInv
<1>3. CASE Stop
  <2>1. UNCHANGED <<processed, accepted>> /\ main = "join"
    BY <1>3 DEF Stop, StopCall
  <2>2. CASE running
    BY <1>3, <2>2 DEF Stop, StopCall, StopEntry, DoneInv
  <2>3. CASE ~running
    <3>1. accepted = <<>>
      BY <1>0, <2>1, <2>3 DEF StartInv
    <3> QED BY <1>0, <2>1, <3>1, NothingDone DEF DoneInv
  <2> QED BY <2>2, <2>3
<1>4. CASE Begin \/ Commit \/ Analyze \/ Raise
  BY <1>0, <1>4 DEF Begin, Commit, Analyze, Raise, jobVars, DoneInv
<1>5. CASE Leave
  BY <1>0, <1>5 DEF Leave, DtorCall, pipeVars, DoneInv
<1>6. CASE UNCHANGED vars
  BY <1>0, <1>6 DEF vars, jobVars, pipeVars, DoneInv
<1> QED BY <1>1, <1>2, <1>3, <1>4, <1>5, <1>6 DEF Next, MainStep, Ended

\* The task runs only while the transaction of this run is open.
LEMMA TaskOnlyInTransaction ==
  ASSUME PipelineInv, [Next]_vars, processed' # processed
  PROVE  main \in {"join", "stopping"}
<1> SUFFICES ASSUME main \notin {"join", "stopping"} PROVE processed' = processed
  OBVIOUS
<1>0. DoneInv /\ JoinInv /\ StartInv /\ ControlInv /\ TypeOK /\ Conserved /\ BatchInv
  BY DEF PipelineInv, JobInv
<1>1. CASE JobRuns
  <2>1. CASE accepted = <<>> \/ processed = accepted
    <3>1. processed = accepted
      BY <1>0, <2>1, NothingDone
    <3>2. batch = <<>> /\ messages = <<>>
      BY <1>0, <3>1, NothingLeft
    <3> QED BY <1>1, <3>2, NoTaskStep DEF JobRuns
  <2>2. CASE accepted # <<>> /\ processed # accepted
    <3>1. main = "raise"
      BY <1>0, <2>2 DEF ControlInv, StartInv, DoneInv
    <3>2. batch = <<>> /\ owner # "drain"
      BY <1>0, <2>2, <3>1 DEF JoinInv, BatchInv
    <3> QED BY <1>1, <3>2, NoTaskStep DEF JobRuns
  <2> QED BY <2>1, <2>2
<1>2. CASE ~JobRuns
  BY <1>2
  DEF Next, ProducerStep, Pick, LoadAndPush, PushReturned, PushRejected, PushCall, MainStep,
      Begin, Stop, StopCall, Commit, Analyze, Leave, DtorCall, Raise, Ended, vars, jobVars,
      pipeVars
<1> QED BY <1>1, <1>2

-----------------------------------------------------------------------------

\* Each part of the invariant is kept by every step.
LEMMA PipelineStep == PipelineInv /\ [Next]_vars => PipelineInv'
<1>1. PipelineInv /\ [Next]_vars => JobInv'
  BY PipelineStepIsJobStep, JobInvStep DEF PipelineInv
<1> QED BY <1>1, ControlStep, StartStep, JoinStep, DoneStep DEF PipelineInv

\* The inductive invariant of the pipeline, that of its job included.
THEOREM PipelineInvariant == Spec => []PipelineInv
  BY PipelineInit, PipelineStep, PTL DEF Spec

\* The pipeline is one of the clients BackgroundJob allows: what is proved of the job
\* holds in it.
THEOREM PipelineUsesJob == Spec => JobSpec
<1>1. Init => JobInit
  BY DEF Init
<1> QED BY <1>1, PipelineStepIsJobStep, PipelineInvariant, PTL DEF Spec, JobSpec

\* A push is rejected only as long as the worker thread has not begun to run.
THEOREM PipelineDropsOnlyBeforeStart == Spec => DroppedOnlyBeforeStart
<1>1. PipelineInv /\ [Next]_vars => [dropped' # dropped => worker = "start"]_vars
  <2> SUFFICES ASSUME PipelineInv, [Next]_vars, dropped' # dropped
               PROVE  worker = "start"
    OBVIOUS
  <2>1. PICK p \in Producers : LoadAndPush(p) /\ PushRejected(p)
    BY DEF Next, JobRuns, ProducerStep, Pick, LoadAndPush, PushReturned, MainStep, Begin,
       Stop, Commit, Analyze, Leave, Raise, Ended, vars, pipeVars
  <2> QED BY <2>1 DEF PushRejected, LoadAndPush, PipelineInv, ControlInv, StartInv
<1> QED BY <1>1, PipelineInvariant, PTL DEF Spec, DroppedOnlyBeforeStart

\* An exit that terminates for an unjoined worker has committed an empty index.
THEOREM PipelineUnjoinedIsEmpty == Spec => []UnjoinedIsEmpty
<1>1. PipelineInv => UnjoinedIsEmpty
  BY DEF PipelineInv, JoinInv, UnjoinedIsEmpty
<1> QED BY <1>1, PipelineInvariant, PTL

\* What has been committed includes everything accepted.
THEOREM PipelineCommitsAccepted ==
  Spec => [](main \in {"analyze", "return"} => processed = accepted)
<1>1. PipelineInv => (main \in {"analyze", "return"} => processed = accepted)
  BY DEF PipelineInv, DoneInv
<1> QED BY <1>1, PipelineInvariant, PTL

\* No task runs before the transaction has begun, nor after it has ended, be it in
\* the destructor of the job or after an exception.
THEOREM PipelineTaskInTransaction == Spec => TaskInTransaction
<1>1. PipelineInv /\ [Next]_vars => [processed' # processed => main \in {"join", "stopping"}]_vars
  BY TaskOnlyInTransaction
<1> QED BY <1>1, PipelineInvariant, PTL DEF Spec, TaskInTransaction

-----------------------------------------------------------------------------
(* The atomic index.                                                       *)

Picked == 1..(pos - 1)
AcceptedTodos == {accepted[k].todo : k \in DOMAIN accepted}
ProcessedSet  == {processed[k] : k \in DOMAIN processed}

\* The push of the todo that p has picked is not through yet.
Working(p) == producer[p] = "load" \/ caller[p] = "one"

\* Where the todos are that were picked: with one producer, in accepted once, or
\* dropped.
HandInv ==
  /\ \A p \in Producers : Working(p) =>
       held[p] \in Picked /\ held[p] \notin AcceptedTodos /\ held[p] \notin dropped
  /\ \A p, q \in Producers : Working(p) /\ Working(q) /\ p # q => held[p] # held[q]
  /\ \A p \in Producers : caller[p] = "one" =>
       \E l \in BOOLEAN : arg[p] = <<[todo |-> held[p], loaded |-> l]>>
  /\ \A k, l \in DOMAIN accepted : accepted[k].todo = accepted[l].todo => k = l
  /\ AcceptedTodos \subseteq Picked /\ dropped \subseteq Picked
  /\ AcceptedTodos \cap dropped = {}
  /\ \A i \in Picked :
       i \in AcceptedTodos \/ i \in dropped \/ \E p \in Producers : InHand(p, i)

\* What the database has, committed and not, at every point of the main thread.
DbInv ==
  /\ main = "begin" => processed = <<>>
  /\ main \in {"begin", "join", "stopping"} =>
       stable = Atomic!InitialDb /\ work = Atomic!DbAfter(ProcessedSet)
  /\ main \in {"analyze", "return"} =>
       stable = Atomic!DbAfter(AcceptedSet) /\ work = stable
  /\ main = "raise" =>
       work = stable /\ stable \in {Atomic!InitialDb, Atomic!DbAfter(AcceptedSet)}

\* Positions are those of todos.
RangeInv ==
  /\ pos \in 1..(Len(Todo) + 1)
  /\ held \in [Producers -> 0..Len(Todo)]

IndexInv == PipelineInv /\ RangeInv /\ HandInv /\ DbInv

-----------------------------------------------------------------------------

\* What ProperTodo says of a single todo.
LEMMA TodoRecord ==
  ASSUME NEW i \in DOMAIN Todo
  PROVE  /\ Todo[i].rem \in Names \cup {NoName} /\ Todo[i].inst \in Names \cup {NoName}
         /\ NoName \notin Names
         /\ Todo[i].inst \in InDb => Todo[i].rem = Todo[i].inst
<1> DEFINE Records == [rem : Names \cup {NoName}, inst : Names \cup {NoName}]
<1>1. Todo \in Seq(Records)
  BY PipelineAssumption DEF Atomic!ProperTodo
<1>2. Todo[i] \in Records
  <2> HIDE DEF Records
  <2> QED BY <1>1, ElementOfSeq
<1> QED BY <1>2, PipelineAssumption DEF Atomic!ProperTodo

\* And of two of them.
LEMMA TodosDisjoint ==
  ASSUME NEW i \in DOMAIN Todo, NEW j \in DOMAIN Todo, i # j,
         NEW n \in Names, n \in {Todo[i].rem, Todo[i].inst}
  PROVE  n # Todo[j].rem /\ n # Todo[j].inst
<1>1. NoName \notin Names /\
      ({Todo[i].rem, Todo[i].inst} \cap {Todo[j].rem, Todo[j].inst}) \subseteq {NoName}
  BY PipelineAssumption DEF Atomic!ProperTodo
<1> QED BY <1>1

-----------------------------------------------------------------------------
(* The database as a function of the set of actions carried out. *)

\* Nothing carried out: the database as it was.
LEMMA DbAfterNone == Atomic!DbAfter({}) = Atomic!InitialDb
  BY DEF Atomic!DbAfter, Atomic!InitialDb

\* A list of rows for every name, and never two rows.
LEMMA DbAfterType ==
  ASSUME NEW S \in SUBSET Atomic!Actions
  PROVE  /\ Atomic!DbAfter(S) \in [Names -> Seq(Atomic!Contents)]
         /\ \A n \in Names : Len(Atomic!DbAfter(S)[n]) <= 1
<1> SUFFICES ASSUME NEW n \in Names
             PROVE  /\ Atomic!DbAfter(S)[n] \in Seq(Atomic!Contents)
                    /\ Len(Atomic!DbAfter(S)[n]) <= 1
  BY DEF Atomic!DbAfter
<1> DEFINE inst == {a \in S : Atomic!Installs(a, n)}
<1>1. \A c \in Atomic!Contents : <<c>> \in Seq(Atomic!Contents) /\ Len(<<c>>) <= 1
  OBVIOUS
<1>2. <<>> \in Seq(Atomic!Contents) /\ Len(<<>>) <= 1
  OBVIOUS
<1>3. \A a \in S : Atomic!Indexed(a) \in Atomic!Contents
  BY DEF Atomic!Indexed, Atomic!Contents
<1>4. CASE inst # {}
  <2>1. Atomic!DbAfter(S)[n] = <<Atomic!Indexed(CHOOSE a \in inst : TRUE)>>
    BY <1>4 DEF Atomic!DbAfter
  <2>2. (CHOOSE a \in inst : TRUE) \in S
    BY <1>4
  <2> QED BY <1>1, <1>3, <2>1, <2>2
<1>5. CASE inst = {}
  <2>1. Atomic!DbAfter(S)[n] \in {<<>>, <<"old">>}
    BY <1>5 DEF Atomic!DbAfter, Atomic!InitialDb
  <2>2. "old" \in Atomic!Contents
    BY DEF Atomic!Contents
  <2> QED BY <1>1, <1>2, <2>1, <2>2
<1> QED BY <1>4, <1>5

\* Two views of the database that agree on every name are the same.
LEMMA SameRows ==
  ASSUME NEW V, NEW f \in [Names -> V], NEW g \in [Names -> V],
         \A n \in Names : f[n] = g[n]
  PROVE  f = g
  OBVIOUS

\* The task of the job keeps a list of rows for every name.
LEMMA TaskType ==
  ASSUME NEW rows \in [Names -> Seq(Atomic!Contents)], NEW m \in Atomic!Actions
  PROVE  Task(rows, m) \in [Names -> Seq(Atomic!Contents)]
<1>1. Atomic!Indexed(m) \in Atomic!Contents
  BY DEF Atomic!Indexed, Atomic!Contents
<1>2. \A name : Delete(rows, name) \in [Names -> Seq(Atomic!Contents)]
  BY DEF Delete
<1>3. ASSUME NEW db \in [Names -> Seq(Atomic!Contents)], NEW name
      PROVE  Insert(db, name, Atomic!Indexed(m)) \in [Names -> Seq(Atomic!Contents)]
  BY <1>1 DEF Insert
<1> QED BY <1>2, <1>3 DEF Task

\* The task carries one more action out: the order in which the threads process the
\* messages does not matter, for no name is touched by two todos.
LEMMA DbAfterAdd ==
  ASSUME NEW S \in SUBSET Atomic!Actions, NEW a \in Atomic!Actions,
         \A b \in S : b.todo # a.todo
  PROVE  Atomic!DbAfter(S \cup {a}) = Task(Atomic!DbAfter(S), a)
<1> DEFINE t     == Todo[a.todo]
           db    == Atomic!DbAfter(S)
           after == IF t.rem = NoName THEN db ELSE Delete(db, t.rem)
<1>0. a.todo \in DOMAIN Todo /\ \A b \in S : b.todo \in DOMAIN Todo
  BY DEF Atomic!Actions
<1>1. /\ t.rem \in Names \cup {NoName} /\ t.inst \in Names \cup {NoName}
      /\ NoName \notin Names
      /\ t.inst \in InDb => t.rem = t.inst
  BY <1>0, TodoRecord
<1>2. ASSUME NEW b \in S, NEW n \in Names, n \in {t.rem, t.inst}
      PROVE  n # Todo[b.todo].rem /\ n # Todo[b.todo].inst
  <2>1. b.todo # a.todo
    OBVIOUS
  <2> QED BY <1>0, <1>2, <2>1, TodosDisjoint
<1>3. /\ db \in [Names -> Seq(Atomic!Contents)]
      /\ Atomic!DbAfter(S \cup {a}) \in [Names -> Seq(Atomic!Contents)]
      /\ Task(db, a) \in [Names -> Seq(Atomic!Contents)]
  BY DbAfterType, TaskType
<1> SUFFICES ASSUME NEW n \in Names
             PROVE  Atomic!DbAfter(S \cup {a})[n] = Task(db, a)[n]
  BY <1>3, SameRows
<1>4. after[n] = IF n = t.rem THEN <<>> ELSE db[n]
  BY <1>1 DEF Delete
<1>5. Task(db, a)[n] = IF Atomic!Installs(a, n)
                       THEN Append(after[n], Atomic!Indexed(a)) ELSE after[n]
  BY DEF Task, Insert, Atomic!Installs, Delete, Atomic!DbAfter
<1>6. CASE Atomic!Installs(a, n)
  <2>1. {b \in S \cup {a} : Atomic!Installs(b, n)} = {a}
    BY <1>2, <1>6 DEF Atomic!Installs
  <2>2. Atomic!DbAfter(S \cup {a})[n] = <<Atomic!Indexed(a)>>
    BY <2>1 DEF Atomic!DbAfter
  <2>3. after[n] = <<>>
    <3>1. n \in InDb => n = t.rem
      BY <1>1, <1>6 DEF Atomic!Installs
    <3>2. \A b \in S : ~Atomic!Installs(b, n) /\ ~Atomic!Removes(b, n)
      BY <1>2, <1>6 DEF Atomic!Installs, Atomic!Removes
    <3>3. n # t.rem => db[n] = <<>>
      BY <3>1, <3>2 DEF Atomic!DbAfter, Atomic!InitialDb
    <3> QED BY <1>4, <3>3
  <2>4. Append(<<>>, Atomic!Indexed(a)) = <<Atomic!Indexed(a)>>
    OBVIOUS
  <2> QED BY <1>5, <1>6, <2>2, <2>3, <2>4
<1>7. CASE ~Atomic!Installs(a, n)
  <2>1. {b \in S \cup {a} : Atomic!Installs(b, n)} = {b \in S : Atomic!Installs(b, n)}
    BY <1>7
  <2>2. CASE n = t.rem
    <3>1. {b \in S : Atomic!Installs(b, n)} = {}
      BY <1>2, <2>2 DEF Atomic!Installs
    <3>2. Atomic!DbAfter(S \cup {a})[n] = <<>>
      BY <2>1, <2>2, <3>1 DEF Atomic!DbAfter, Atomic!Removes
    <3> QED BY <1>4, <1>5, <1>7, <2>2, <3>2
  <2>3. CASE n # t.rem
    <3>1. (\E b \in S \cup {a} : Atomic!Removes(b, n)) <=> \E b \in S : Atomic!Removes(b, n)
      BY <2>3 DEF Atomic!Removes
    <3>2. (CHOOSE b \in {c \in S \cup {a} : Atomic!Installs(c, n)} : TRUE)
            = CHOOSE b \in {c \in S : Atomic!Installs(c, n)} : TRUE
      BY <2>1, Zenon
    <3>3. Atomic!DbAfter(S \cup {a})[n] = db[n]
      BY <2>1, <3>1, <3>2 DEF Atomic!DbAfter
    <3> QED BY <1>4, <1>5, <1>7, <2>3, <3>3
  <2> QED BY <2>2, <2>3
<1> QED BY <1>6, <1>7

-----------------------------------------------------------------------------
(* Where the todos are. *)

\* Before the first step nothing is picked, and the database is as it was.
LEMMA IndexInit == Init => IndexInv
<1> SUFFICES ASSUME Init PROVE IndexInv
  OBVIOUS
<1>1. PipelineInv
  BY PipelineInit
<1>2. RangeInv
  BY TodoLength DEF Init, PeekInit, RangeInv
<1>3. HandInv
  <2>1. Picked = {} /\ accepted = <<>> /\ dropped = {}
    BY DEF Init, PeekInit, JobInit, Picked
  <2>2. \A p \in Producers : ~Working(p) /\ caller[p] = "idle"
    BY DEF Init, JobInit, Working, Producers
  <2> QED BY <2>1, <2>2 DEF HandInv, AcceptedTodos
<1>4. DbInv
  <2>1. ProcessedSet = {} /\ processed = <<>> /\ main = "begin"
    BY DEF Init, JobInit, ProcessedSet
  <2> QED BY <2>1, DbAfterNone DEF Init, DbInv
<1> QED BY <1>1, <1>2, <1>3, <1>4 DEF IndexInv

\* What a step of the job's own does to the pushes: nothing, or one is accepted.
LEMMA JobStepPushes ==
  ASSUME TypeOK, JobStep, \A c \in Callers : caller[c] # "many"
  PROVE  \/ /\ UNCHANGED <<accepted, arg>>
            /\ \A c \in Callers : caller'[c] = "one" <=> caller[c] = "one"
         \/ \E c \in Callers :
              /\ caller[c] = "one" /\ caller' = [caller EXCEPT ![c] = "notify"]
              /\ accepted' = accepted \o arg[c] /\ arg' = [arg EXCEPT ![c] = <<>>]
<1> USE DEF queueVars, workerVars, callerVars, ownerVars
<1>1. CASE WorkerStep \/ SpuriousWake \/ WorkerTaskThrows \/ StoreVisible
  BY <1>1 DEF WorkerStep, WorkerStart, WorkerLoop, WorkerLock, WorkerTest, WorkerWait,
     WorkerSwap, WorkerConsume, SpuriousWake, WorkerTaskThrows, StoreVisible
<1>2. ASSUME NEW c \in Callers, PushEnqueue(c)
      PROVE  /\ caller[c] = "one" /\ caller' = [caller EXCEPT ![c] = "notify"]
             /\ accepted' = accepted \o arg[c] /\ arg' = [arg EXCEPT ![c] = <<>>]
  BY <1>2 DEF PushEnqueue
<1>3. ASSUME NEW c \in Callers, PushNotify(c)
      PROVE  /\ UNCHANGED <<accepted, arg>>
             /\ \A d \in Callers : caller'[d] = "one" <=> caller[d] = "one"
  BY <1>3 DEF PushNotify, TypeOK
<1>4. CASE StopStep \/ StopTaskThrows
  BY <1>4 DEF StopStep, StopStoreData, StopNotify, StopJoin, StopLockRest, StopDrain,
     DtorMembers, StopTaskThrows
<1> QED BY <1>1, <1>2, <1>3, <1>4 DEF JobStep, CallerStep

\* And to processed: nothing, or the task has finished with one message.
LEMMA JobStepProcesses ==
  ASSUME TypeOK, JobStep
  PROVE  processed' = processed \/ \E m \in Messages : processed' = Append(processed, m)
<1> USE DEF queueVars, workerVars, callerVars, ownerVars
<1>1. CASE WorkerConsume
  BY <1>1, MoveHead DEF WorkerConsume, TypeOK
<1>2. CASE StopDrain
  BY <1>2, MoveHead DEF StopDrain, TypeOK
<1>3. CASE ~WorkerConsume /\ ~StopDrain
  BY <1>3 DEF JobStep, WorkerStep, WorkerStart, WorkerLoop, WorkerLock, WorkerTest,
     WorkerWait, WorkerSwap, SpuriousWake, WorkerTaskThrows, StoreVisible, CallerStep,
     PushEnqueue, PushNotify, StopStep, StopStoreData, StopNotify, StopJoin, StopLockRest,
     DtorMembers, StopTaskThrows
<1> QED BY <1>1, <1>2, <1>3

\* Positions of the picker stay those of todos.
LEMMA RangeStep == IndexInv /\ [Next]_vars => RangeInv'
<1> SUFFICES ASSUME IndexInv, [Next]_vars PROVE RangeInv'
  OBVIOUS
<1>0. RangeInv /\ Len(Todo) \in Nat /\ Size = Len(Todo)
  BY TodoLength DEF IndexInv
<1>1. ASSUME NEW p \in Producers, Pick(p) PROVE RangeInv'
  BY <1>0, <1>1 DEF Pick, Peek, Peeked, AtEnd, RangeInv
<1>2. ASSUME NEW p \in Producers, LoadAndPush(p) \/ PushReturned(p) PROVE RangeInv'
  BY <1>0, <1>2 DEF LoadAndPush, PushReturned, RangeInv
<1>3. CASE JobRuns \/ MainStep \/ Raise \/ Ended \/ UNCHANGED vars
  BY <1>0, <1>3 DEF JobRuns, MainStep, Begin, Stop, Commit, Analyze, Leave, Raise, Ended, vars,
     pipeVars, RangeInv
<1> QED BY <1>1, <1>2, <1>3 DEF Next, ProducerStep

\* One more element at the end of a sequence.
LEMMA Appended ==
  ASSUME NEW S, NEW s \in Seq(S), NEW e \in S
  PROVE  /\ s \o <<e>> = Append(s, e) /\ Append(s, e) \in Seq(S)
         /\ Len(Append(s, e)) = Len(s) + 1
         /\ DOMAIN s = 1..Len(s) /\ Len(s) \in Nat
         /\ DOMAIN Append(s, e) = DOMAIN s \cup {Len(s) + 1}
         /\ Append(s, e)[Len(s) + 1] = e
         /\ \A k \in DOMAIN s : k # Len(s) + 1 /\ Append(s, e)[k] = s[k]
  OBVIOUS

\* A push is accepted: its todo moves from the producer's hand into accepted.
LEMMA HandAccepted ==
  ASSUME IndexInv, NEW c \in Producers, caller[c] = "one",
         caller' = [caller EXCEPT ![c] = "notify"],
         accepted' = accepted \o arg[c], arg' = [arg EXCEPT ![c] = <<>>],
         UNCHANGED <<producer, held, pos, dropped>>
  PROVE  HandInv'
<1>0. HandInv /\ ControlInv /\ TypeOK
  BY DEF IndexInv, PipelineInv, JobInv
<1>1. PICK l \in BOOLEAN : arg[c] = <<[todo |-> held[c], loaded |-> l]>>
  BY <1>0 DEF HandInv
<1> DEFINE m == [todo |-> held[c], loaded |-> l]
<1>2. producer[c] = "push" /\ held[c] \in DOMAIN Todo
  BY <1>0 DEF ControlInv, Producers
<1>3. m \in Messages
  BY <1>2, PipelineAssumption DEF Atomic!Actions
<1>4. accepted' = Append(accepted, m)
  BY <1>0, <1>1, <1>3, Appended DEF TypeOK
<1>5. /\ DOMAIN accepted' = DOMAIN accepted \cup {Len(accepted) + 1}
      /\ accepted'[Len(accepted) + 1].todo = held[c]
      /\ \A k \in DOMAIN accepted : k # Len(accepted) + 1 /\ accepted'[k] = accepted[k]
  BY <1>0, <1>3, <1>4, Appended DEF TypeOK
<1>6. AcceptedTodos' = AcceptedTodos \cup {held[c]}
  BY <1>5 DEF AcceptedTodos
<1>7. \A p \in Producers : /\ Working(p)' <=> Working(p) /\ p # c
                           /\ caller'[p] = "one" <=> caller[p] = "one" /\ p # c
                           /\ p # c => arg'[p] = arg[p]
  BY <1>0, <1>2 DEF Working, TypeOK, Producers
<1>8. Working(c) /\ held[c] \in Picked /\ held[c] \notin AcceptedTodos /\ held[c] \notin dropped
  BY <1>0 DEF HandInv, Working
<1>9. \A p \in Producers : Working(p)' =>
        held'[p] \in Picked' /\ held'[p] \notin AcceptedTodos' /\ held'[p] \notin dropped'
  BY <1>0, <1>6, <1>7, <1>8 DEF HandInv, Picked
<1>10. \A p, q \in Producers : Working(p)' /\ Working(q)' /\ p # q => held'[p] # held'[q]
  BY <1>0, <1>7 DEF HandInv
<1>11. \A p \in Producers : caller'[p] = "one" =>
         \E v \in BOOLEAN : arg'[p] = <<[todo |-> held'[p], loaded |-> v]>>
  BY <1>0, <1>7 DEF HandInv
<1>12. \A i, j \in DOMAIN accepted' : accepted'[i].todo = accepted'[j].todo => i = j
  <2>1. \A k \in DOMAIN accepted : accepted[k].todo # held[c]
    BY <1>8 DEF AcceptedTodos
  <2> QED BY <1>0, <1>5, <2>1 DEF HandInv
<1>13. /\ AcceptedTodos' \subseteq Picked' /\ dropped' \subseteq Picked'
       /\ AcceptedTodos' \cap dropped' = {}
  BY <1>0, <1>6, <1>8 DEF HandInv, Picked
<1>14. \A i \in Picked' :
         i \in AcceptedTodos' \/ i \in dropped' \/ \E p \in Producers : InHand(p, i)'
  BY <1>0, <1>6, <1>7 DEF HandInv, Picked, InHand, Working
<1> QED BY <1>9, <1>10, <1>11, <1>12, <1>13, <1>14 DEF HandInv

\* A todo is picked by one thread: pos moves on, and the hand is a new one.
LEMMA HandPicked ==
  ASSUME IndexInv, NEW p \in Producers, Pick(p)
  PROVE  HandInv'
<1>0. HandInv /\ ControlInv /\ RangeInv /\ TypeOK /\ Size = Len(Todo) /\ Len(Todo) \in Nat
  BY TodoLength DEF IndexInv, PipelineInv, JobInv
<1>1. UNCHANGED <<accepted, caller, arg, dropped>> /\ producer[p] = "pick"
  BY DEF Pick, jobVars
<1>2. AcceptedTodos' = AcceptedTodos /\ caller[p] = "idle" /\ pos \in Nat \ {0}
  BY <1>0, <1>1 DEF AcceptedTodos, ControlInv, Producers
<1>3. \A q \in Producers : q # p => producer'[q] = producer[q] /\ held'[q] = held[q]
  BY <1>0 DEF Pick, ControlInv, Producers
<1>4. CASE AtEnd
  <2>1. UNCHANGED pos /\ producer'[p] = "done"
    BY <1>0, <1>4 DEF Pick, Peek, ControlInv, Producers
  <2>2. \A q \in Producers : /\ Working(q)' <=> Working(q)
                             /\ Working(q) => q # p
                             /\ \A i : InHand(q, i)' <=> InHand(q, i)
    BY <1>1, <1>2, <1>3, <2>1 DEF Working, InHand
  <2> QED BY <1>0, <1>1, <1>2, <1>3, <2>1, <2>2 DEF HandInv, Picked
<1>5. CASE ~AtEnd
  <2>1. pos' = pos + 1 /\ producer'[p] = "load" /\ held'[p] = pos
    BY <1>0, <1>5 DEF Pick, Peek, Peeked, ControlInv, Producers
  <2>2. Picked' = Picked \cup {pos} /\ pos \notin Picked
    BY <1>2, <2>1 DEF Picked
  <2>3. \A q \in Producers : /\ Working(q)' <=> Working(q) \/ q = p
                             /\ Working(q) => q # p
                             /\ \A i : InHand(q, i) => InHand(q, i)'
    BY <1>1, <1>2, <1>3, <2>1 DEF Working, InHand
  <2>4. \A q \in Producers : Working(q)' =>
          held'[q] \in Picked' /\ held'[q] \notin AcceptedTodos' /\ held'[q] \notin dropped'
    BY <1>0, <1>1, <1>2, <1>3, <2>1, <2>2, <2>3 DEF HandInv
  <2>5. \A q, r \in Producers : Working(q)' /\ Working(r)' /\ q # r => held'[q] # held'[r]
    BY <1>0, <1>3, <2>1, <2>2, <2>3 DEF HandInv
  <2>6. \A q \in Producers : caller'[q] = "one" =>
          \E l \in BOOLEAN : arg'[q] = <<[todo |-> held'[q], loaded |-> l]>>
    BY <1>0, <1>1, <1>2, <1>3 DEF HandInv
  <2>7. \A i \in Picked' :
          i \in AcceptedTodos' \/ i \in dropped' \/ \E q \in Producers : InHand(q, i)'
    <3>1. ASSUME NEW i \in Picked
          PROVE  i \in AcceptedTodos' \/ i \in dropped' \/ \E q \in Producers : InHand(q, i)'
      BY <1>0, <1>1, <1>2, <2>3 DEF HandInv
    <3>2. held'[p] = pos /\ producer'[p] = "load"
      BY <2>1
    <3> QED BY <2>2, <3>1, <3>2 DEF InHand
  <2> QED BY <1>0, <1>1, <1>2, <2>2, <2>4, <2>5, <2>6, <2>7 DEF HandInv
<1> QED BY <1>4, <1>5

\* A loaded package is pushed, or its push is rejected, or it has been pushed: the
\* todo stays with its producer, or is dropped, or is accepted already.
LEMMA HandPushed ==
  ASSUME IndexInv, NEW p \in Producers, LoadAndPush(p) \/ PushReturned(p)
  PROVE  HandInv'
<1>0. HandInv /\ ControlInv /\ TypeOK
  BY DEF IndexInv, PipelineInv, JobInv
<1>1. UNCHANGED <<pos, accepted>> /\ AcceptedTodos' = AcceptedTodos
  BY DEF LoadAndPush, PushReturned, PushCall, PushRejected, jobVars, AcceptedTodos
<1>2. ASSUME NEW l \in CanLoad(held[p]), PushCall(p, <<[todo |-> held[p], loaded |-> l]>>, "one"),
             producer[p] = "load", producer' = [producer EXCEPT ![p] = "push"],
             UNCHANGED <<held, dropped>>
      PROVE  HandInv'
  <2>1. l \in BOOLEAN
    BY PipelineAssumption DEF CanLoad
  <2>2. /\ caller'[p] = "one" /\ arg'[p] = <<[todo |-> held[p], loaded |-> l]>>
        /\ \A q \in Producers : q # p => caller'[q] = caller[q] /\ arg'[q] = arg[q]
    BY <1>0, <1>2 DEF PushCall, TypeOK, Producers
  <2>3. \A q \in Producers : /\ Working(q)' <=> Working(q)
                             /\ \A i : InHand(q, i)' <=> InHand(q, i)
    BY <1>0, <1>2, <2>2 DEF Working, InHand, ControlInv
  <2> QED BY <1>0, <1>1, <1>2, <2>1, <2>2, <2>3 DEF HandInv, Picked
<1>3. CASE /\ PushRejected(p) /\ producer[p] = "load"
           /\ producer' = [producer EXCEPT ![p] = "pick"]
           /\ dropped' = dropped \cup {held[p]} /\ held' = [held EXCEPT ![p] = 0]
  <2>1. UNCHANGED <<caller, arg>> /\ caller[p] = "idle" /\ Working(p)
    BY <1>3 DEF PushRejected, jobVars, Working
  <2>2. \A q \in Producers : /\ Working(q)' <=> Working(q) /\ q # p
                             /\ q # p => held'[q] = held[q] /\ \A i : InHand(q, i)' <=> InHand(q, i)
    BY <1>0, <1>3, <2>1 DEF Working, InHand, ControlInv
  <2>3. \A i : InHand(p, i) => i = held[p]
    BY DEF InHand
  <2>4. \A i \in Picked' :
          i \in AcceptedTodos' \/ i \in dropped' \/ \E q \in Producers : InHand(q, i)'
    BY <1>0, <1>1, <1>3, <2>2, <2>3 DEF HandInv, Picked
  <2>5. /\ held[p] \in Picked /\ held[p] \notin AcceptedTodos /\ held[p] \notin dropped
        /\ \A q \in Producers : Working(q) /\ q # p => held[q] # held[p]
    BY <1>0, <2>1 DEF HandInv
  <2>6. \A q \in Producers : Working(q)' =>
          held'[q] \in Picked' /\ held'[q] \notin AcceptedTodos' /\ held'[q] \notin dropped'
    BY <1>0, <1>1, <1>3, <2>2, <2>5 DEF HandInv, Picked
  <2>7. \A q \in Producers : caller'[q] = "one" =>
          \E l \in BOOLEAN : arg'[q] = <<[todo |-> held'[q], loaded |-> l]>>
    <3>1. \A q \in Producers : caller'[q] = "one" =>
            caller[q] = "one" /\ held'[q] = held[q] /\ arg'[q] = arg[q]
      BY <2>1, <2>2
    <3> QED BY <1>0, <3>1 DEF HandInv
  <2>8. \A q, r \in Producers : Working(q)' /\ Working(r)' /\ q # r => held'[q] # held'[r]
    BY <1>0, <2>2 DEF HandInv
  <2>9. /\ Picked' = Picked /\ dropped' \subseteq Picked
        /\ AcceptedTodos \subseteq Picked /\ AcceptedTodos \cap dropped' = {}
    BY <1>0, <1>1, <1>3, <2>5 DEF HandInv, Picked
  <2>10. \A k, l \in DOMAIN accepted' : accepted'[k].todo = accepted'[l].todo => k = l
    BY <1>0, <1>1 DEF HandInv
  <2> QED BY <1>1, <2>4, <2>6, <2>7, <2>8, <2>9, <2>10 DEF HandInv
<1>4. CASE PushReturned(p)
  <2>1. UNCHANGED <<caller, arg, dropped>> /\ ~Working(p)
    BY <1>4 DEF PushReturned, jobVars, Working
  <2>2. \A q \in Producers : /\ Working(q)' <=> Working(q)
                             /\ q # p => held'[q] = held[q]
                             /\ \A i : InHand(q, i)' <=> InHand(q, i)
    BY <1>0, <1>4, <2>1 DEF PushReturned, Working, InHand, ControlInv
  <2>3. Working(p)' = FALSE /\ caller[p] = "idle"
    BY <1>4, <2>1, <2>2 DEF PushReturned
  <2> QED BY <1>0, <1>1, <2>1, <2>2, <2>3 DEF HandInv, Picked
<1> QED BY <1>2, <1>3, <1>4 DEF LoadAndPush

\* A todo that is picked goes from one hand to the next.
LEMMA HandStep == IndexInv /\ [Next]_vars => HandInv'
<1> SUFFICES ASSUME IndexInv, [Next]_vars PROVE HandInv'
  OBVIOUS
<1>0. HandInv /\ ControlInv /\ StartInv /\ TypeOK
  BY DEF IndexInv, PipelineInv, JobInv
<1>1. ASSUME UNCHANGED <<pos, held, dropped, accepted, arg>>,
             \A p \in Producers : /\ caller'[p] = "one" <=> caller[p] = "one"
                                  /\ producer'[p] = "load" <=> producer[p] = "load"
      PROVE  HandInv'
  <2>1. AcceptedTodos' = AcceptedTodos /\ Picked' = Picked
    BY <1>1 DEF AcceptedTodos, Picked
  <2>2. \A p \in Producers : /\ Working(p)' <=> Working(p)
                             /\ \A i : InHand(p, i)' <=> InHand(p, i)
    BY <1>1 DEF Working, InHand
  <2> QED BY <1>0, <1>1, <2>1, <2>2 DEF HandInv
<1>2. CASE JobRuns
  <2>1. \A c \in Callers : caller[c] # "many"
    BY <1>0 DEF ControlInv, Producers
  <2>2. JobStep /\ UNCHANGED <<producer, held, pos, dropped>>
    BY <1>2 DEF JobRuns
  <2>3. CASE /\ UNCHANGED <<accepted, arg>>
             /\ \A c \in Callers : caller'[c] = "one" <=> caller[c] = "one"
    BY <1>1, <2>2, <2>3 DEF Producers
  <2>4. ASSUME NEW c \in Callers, caller[c] = "one", caller' = [caller EXCEPT ![c] = "notify"],
               accepted' = accepted \o arg[c], arg' = [arg EXCEPT ![c] = <<>>]
        PROVE  HandInv'
    BY <2>2, <2>4, HandAccepted DEF Producers
  <2> QED BY <1>0, <2>1, <2>2, <2>3, <2>4, JobStepPushes
<1>3. ASSUME NEW p \in Producers, ProducerStep(p) PROVE HandInv'
  BY <1>3, HandPicked, HandPushed DEF ProducerStep
<1>4. CASE Begin
  BY <1>0, <1>1, <1>4 DEF Begin, jobVars, ControlInv
<1>5. CASE Stop \/ Leave
  BY <1>1, <1>5 DEF Stop, StopCall, Leave, DtorCall, callerVars, pipeVars
<1>6. CASE Commit \/ Analyze \/ Raise \/ Ended \/ UNCHANGED vars
  BY <1>1, <1>6 DEF Commit, Analyze, Raise, Ended, vars, jobVars, pipeVars
<1> QED BY <1>2, <1>3, <1>4, <1>5, <1>6 DEF Next, MainStep

-----------------------------------------------------------------------------
(* What the database has. *)

\* What is processed is a prefix of what was accepted.
ProcessedFirst ==
  /\ DOMAIN processed \subseteq DOMAIN accepted
  /\ \A k \in DOMAIN processed : processed[k] = accepted[k]

\* It follows from what is conserved.
LEMMA ProcessedPrefix == TypeOK /\ Conserved => ProcessedFirst
<1> SUFFICES ASSUME TypeOK, Conserved PROVE ProcessedFirst
  OBVIOUS
<1>1. /\ processed \in Seq(Messages) /\ batch \in Seq(Messages)
      /\ messages \in Seq(Messages) /\ batch \o messages \in Seq(Messages)
  BY ConcatProperties DEF TypeOK
<1>2. accepted = processed \o (batch \o messages)
  BY <1>1, ConcatAssociative DEF Conserved
<1> DEFINE rest == batch \o messages
<1>3. rest \in Seq(Messages) /\ accepted = processed \o rest
  BY <1>1, <1>2
<1> HIDE DEF rest
<1>4. Len(accepted) = Len(processed) + Len(rest)
  BY <1>1, <1>3, ConcatProperties
<1>5. \A k \in 1..Len(processed) : accepted[k] = processed[k]
  BY <1>1, <1>3
<1>6. DOMAIN processed = 1..Len(processed) /\ DOMAIN accepted = 1..Len(accepted)
      /\ Len(rest) \in Nat /\ Len(processed) \in Nat
  BY <1>1, <1>3 DEF TypeOK
<1> QED BY <1>4, <1>5, <1>6 DEF ProcessedFirst

\* Every accepted message is one of the actions, each on a todo of its own.
LEMMA AcceptedConsistent ==
  ASSUME TypeOK, HandInv
  PROVE  AcceptedSet \in SUBSET Atomic!Actions /\ Atomic!Consistent(AcceptedSet)
<1>1. \A k \in DOMAIN accepted : accepted[k] \in Atomic!Actions
  BY ElementOfSeq, PipelineAssumption DEF TypeOK
<1> QED BY <1>1 DEF HandInv, AcceptedSet, Atomic!Consistent

\* One more message processed is one more action carried out.
LEMMA DbTask ==
  ASSUME TypeOK, TypeOK', Conserved', HandInv', NEW m \in Messages,
         processed' = Append(processed, m), work = Atomic!DbAfter(ProcessedSet), TaskEffect
  PROVE  work' = Atomic!DbAfter(ProcessedSet')
<1>1. /\ processed \in Seq(Messages)
      /\ Len(processed') = Len(processed) + 1 /\ Len(processed) \in Nat
      /\ DOMAIN processed' = DOMAIN processed \cup {Len(processed) + 1}
      /\ processed'[Len(processed) + 1] = m
      /\ \A k \in DOMAIN processed : k # Len(processed) + 1 /\ processed'[k] = processed[k]
  BY Appended DEF TypeOK
<1>2. work' = Task(work, m)
  BY <1>1 DEF TaskEffect
<1>3. ProcessedSet' = ProcessedSet \cup {m}
  BY <1>1 DEF ProcessedSet
<1>4. m \in Atomic!Actions /\ ProcessedSet \in SUBSET Atomic!Actions
  BY <1>1, ElementOfSeq, PipelineAssumption DEF ProcessedSet
<1>5. DOMAIN processed' \subseteq DOMAIN accepted'
      /\ \A k \in DOMAIN processed' : processed'[k] = accepted'[k]
  <2>1. ProcessedFirst'
    BY ProcessedPrefix, PTL
  <2> QED BY <2>1 DEF ProcessedFirst
<1>6. \A b \in ProcessedSet : b.todo # m.todo
  BY <1>1, <1>5 DEF ProcessedSet, HandInv
<1> QED BY <1>2, <1>3, <1>4, <1>6, DbAfterAdd

\* The rows are those of what was processed, and of all of it once committed.
LEMMA DbStep ==
  ASSUME IndexInv, [Next]_vars, PipelineInv', HandInv'
  PROVE  DbInv'
<1>0. DbInv /\ HandInv /\ DoneInv /\ ControlInv /\ TypeOK /\ Conserved /\ TypeOK' /\ Conserved'
  BY DEF IndexInv, PipelineInv, JobInv
<1>1. main # "join" => AcceptedSet' = AcceptedSet
  BY AcceptsOnlyInJoin DEF IndexInv, AcceptedSet
<1>2. processed' # processed => main \in {"join", "stopping"}
  BY TaskOnlyInTransaction DEF IndexInv
<1>3. processed' = processed => ProcessedSet' = ProcessedSet
  BY DEF ProcessedSet
<1>4. CASE JobRuns
  <2>1. JobStep /\ TaskEffect /\ UNCHANGED <<main, stable>>
    BY <1>4 DEF JobRuns
  <2>2. CASE processed' = processed
    <3>1. work' = work
      BY <2>1, <2>2 DEF TaskEffect
    <3> QED BY <1>0, <1>1, <1>3, <2>1, <2>2, <3>1 DEF DbInv
  <2>3. ASSUME NEW m \in Messages, processed' = Append(processed, m), processed' # processed
        PROVE  DbInv'
    <3>1. main \in {"join", "stopping"} /\ work = Atomic!DbAfter(ProcessedSet)
      BY <1>0, <1>2, <2>3 DEF DbInv
    <3>2. work' = Atomic!DbAfter(ProcessedSet')
      BY <1>0, <2>1, <2>3, <3>1, DbTask
    <3> QED BY <1>0, <2>1, <3>1, <3>2 DEF DbInv
  <2> QED BY <1>0, <2>1, <2>2, <2>3, JobStepProcesses
<1>5. ASSUME NEW p \in Producers, ProducerStep(p) PROVE DbInv'
  <2>1. UNCHANGED <<main, work, stable, processed>> /\ main = "join"
    BY <1>0, <1>5 DEF ProducerStep, Pick, LoadAndPush, PushReturned, PushCall, PushRejected,
       jobVars, ControlInv
  <2> QED BY <1>0, <1>3, <2>1 DEF DbInv
<1>6. CASE Begin
  <2>1. ProcessedSet = {} /\ processed' = processed /\ work' = Atomic!InitialDb
        /\ stable' = Atomic!InitialDb /\ main' = "join"
    BY <1>0, <1>6 DEF Begin, DbInv, ProcessedSet, jobVars
  <2> QED BY <1>3, <2>1, DbAfterNone DEF DbInv
<1>7. CASE Stop
  <2>1. UNCHANGED <<work, stable, processed>> /\ main = "join" /\ main' = "stopping"
    BY <1>7 DEF Stop, StopCall
  <2> QED BY <1>0, <1>3, <2>1 DEF DbInv
<1>8. CASE Commit
  <2>1. processed = accepted /\ UNCHANGED <<accepted, work>> /\ stable' = work
        /\ main = "stopping" /\ main' \in {"analyze", "return"}
    BY <1>0, <1>8 DEF Commit, DoneInv, jobVars
  <2>2. AcceptedSet' = ProcessedSet
    BY <2>1 DEF AcceptedSet, ProcessedSet
  <2> QED BY <1>0, <2>1, <2>2 DEF DbInv
<1>9. CASE Raise
  <2>1. /\ main \in {"stopping", "analyze"} /\ main' = "raise" /\ UNCHANGED stable
        /\ work' = stable
    BY <1>9 DEF Raise
  <2> QED BY <1>0, <1>1, <2>1 DEF DbInv
<1>10. CASE Analyze
  BY <1>0, <1>1, <1>10 DEF Analyze, DbInv
<1>11. CASE Leave \/ Ended \/ UNCHANGED vars
  <2>1. UNCHANGED <<main, work, stable, processed, accepted>>
    BY <1>11 DEF Leave, DtorCall, Ended, vars, jobVars, pipeVars
  <2> QED BY <1>0, <1>3, <2>1 DEF DbInv, AcceptedSet
<1> QED BY <1>4, <1>5, <1>6, <1>7, <1>8, <1>9, <1>10, <1>11 DEF Next, MainStep

-----------------------------------------------------------------------------

\* The inductive invariant: the pipeline's own, and what the todos and the database
\* are at every point.
THEOREM IndexInvariant == Spec => []IndexInv
<1>1. IndexInv /\ [Next]_vars => IndexInv'
  <2> SUFFICES ASSUME IndexInv, [Next]_vars PROVE IndexInv'
    OBVIOUS
  <2>1. PipelineInv'
    BY PipelineStep DEF IndexInv
  <2>2. HandInv' /\ RangeInv'
    BY HandStep, RangeStep
  <2> QED BY <2>1, <2>2, DbStep DEF IndexInv
<1> QED BY <1>1, IndexInit, PTL DEF Spec

\* The type invariant of the pipeline.
THEOREM IndexTypeCorrect == Spec => []PipelineTypeOK
<1>1. IndexInv => PipelineTypeOK
  <2> SUFFICES ASSUME IndexInv PROVE PipelineTypeOK
    OBVIOUS
  <2>0. TypeOK /\ ControlInv /\ RangeInv /\ HandInv /\ DbInv /\ Conserved
        /\ Len(Todo) \in Nat /\ DOMAIN Todo = 1..Len(Todo)
    BY TodoLength DEF IndexInv, PipelineInv, JobInv
  <2>1. AcceptedSet \in SUBSET Atomic!Actions /\ ProcessedSet \in SUBSET AcceptedSet
    BY <2>0, AcceptedConsistent, ProcessedPrefix DEF ProcessedFirst, AcceptedSet, ProcessedSet
  <2>2. /\ Atomic!InitialDb \in [Names -> Seq(Atomic!Contents)]
        /\ Atomic!DbAfter(AcceptedSet) \in [Names -> Seq(Atomic!Contents)]
        /\ Atomic!DbAfter(ProcessedSet) \in [Names -> Seq(Atomic!Contents)]
    BY <2>1, DbAfterType, DbAfterNone
  <2>3. /\ work \in [Names -> Seq(Atomic!Contents)]
        /\ stable \in [Names -> Seq(Atomic!Contents)]
    BY <2>0, <2>2 DEF DbInv, ControlInv
  <2>4. dropped \subseteq DOMAIN Todo
    BY <2>0 DEF HandInv, RangeInv, Picked
  <2> QED BY <2>0, <2>3, <2>4 DEF PipelineTypeOK, ControlInv, RangeInv
<1> QED BY <1>1, IndexInvariant, PTL

\* No full name ever has two rows, in the transaction or after it.
THEOREM IndexOneRow == Spec => []OneRow
<1>1. IndexInv => OneRow
  <2> SUFFICES ASSUME IndexInv PROVE OneRow
    OBVIOUS
  <2>0. TypeOK /\ ControlInv /\ HandInv /\ DbInv /\ Conserved
    BY DEF IndexInv, PipelineInv, JobInv
  <2>1. AcceptedSet \in SUBSET Atomic!Actions /\ ProcessedSet \in SUBSET AcceptedSet
    BY <2>0, AcceptedConsistent, ProcessedPrefix DEF ProcessedFirst, AcceptedSet, ProcessedSet
  <2>2. work \in {Atomic!DbAfter({}), Atomic!DbAfter(AcceptedSet), Atomic!DbAfter(ProcessedSet)}
    BY <2>0, DbAfterNone DEF DbInv, ControlInv
  <2>3. \A S \in SUBSET Atomic!Actions : \A n \in Names : Len(Atomic!DbAfter(S)[n]) <= 1
    BY DbAfterType
  <2> QED BY <2>1, <2>2, <2>3 DEF OneRow
<1> QED BY <1>1, IndexInvariant, PTL

\* What is committed is every accepted todo carried out once.
THEOREM IndexCommitsAllAccepted == Spec => []CommitsAllAccepted
<1>1. IndexInv => CommitsAllAccepted
  BY DEF IndexInv, DbInv, CommitsAllAccepted
<1> QED BY <1>1, IndexInvariant, PTL

\* A set without two elements.
LEMMA AtMostOne ==
  ASSUME NEW S, \A x, y \in S : x = y
  PROVE  Cardinality(S) = IF S = {} THEN 0 ELSE 1
<1>1. CASE S = {}
  BY <1>1, FS_EmptySet
<1>2. CASE S # {}
  <2>1. PICK x \in S : TRUE
    BY <1>2
  <2>2. S = {x}
    BY <2>1
  <2> QED BY <1>2, <2>2, FS_Singleton
<1> QED BY <1>1, <1>2

\* Every todo that was picked is in one place, and the others are in none.
THEOREM IndexTodoAccounted == Spec => []TodoAccounted
<1>1. IndexInv => TodoAccounted
  <2> SUFFICES ASSUME IndexInv, NEW i \in DOMAIN Todo
               PROVE  Cardinality({p \in Producers : InHand(p, i)})
                        + Cardinality({k \in DOMAIN accepted : accepted[k].todo = i})
                        + (IF i \in dropped THEN 1 ELSE 0)
                        = IF i < pos THEN 1 ELSE 0
    BY DEF TodoAccounted
  <2> DEFINE hands == {p \in Producers : InHand(p, i)}
             times == {k \in DOMAIN accepted : accepted[k].todo = i}
  <2>0. HandInv /\ RangeInv /\ i \in Nat \ {0} /\ pos \in Nat
    BY TodoLength DEF IndexInv, RangeInv
  <2>1. i \in Picked <=> i < pos
    BY <2>0 DEF Picked
  <2>2. /\ \A p, q \in hands : p = q
        /\ \A p \in hands : i \in Picked /\ i \notin AcceptedTodos /\ i \notin dropped
    BY <2>0 DEF HandInv, InHand, Working
  <2>3. /\ \A k, l \in times : k = l
        /\ times # {} <=> i \in AcceptedTodos
    BY <2>0 DEF HandInv, AcceptedTodos
  <2>4. /\ Cardinality(hands) = IF hands = {} THEN 0 ELSE 1
        /\ Cardinality(times) = IF times = {} THEN 0 ELSE 1
    BY <2>2, <2>3, AtMostOne
  <2>5. i \in Picked => i \in AcceptedTodos \/ i \in dropped \/ hands # {}
    BY <2>0 DEF HandInv
  <2>6. i \notin Picked => i \notin AcceptedTodos /\ i \notin dropped /\ hands = {}
    BY <2>0, <2>2 DEF HandInv
  <2>7. ~(i \in AcceptedTodos /\ i \in dropped)
    BY <2>0 DEF HandInv
  <2> HIDE DEF hands, times
  <2>8. Cardinality(hands) + Cardinality(times) + (IF i \in dropped THEN 1 ELSE 0)
          = IF i < pos THEN 1 ELSE 0
    <3>1. CASE i \in Picked
      <4>1. CASE hands # {}
        <5>1. times = {} /\ i \notin dropped
          BY <2>2, <2>3, <4>1
        <5> QED BY <2>1, <2>4, <3>1, <4>1, <5>1
      <4>2. CASE hands = {}
        BY <2>1, <2>3, <2>4, <2>5, <2>7, <3>1, <4>2
      <4> QED BY <4>1, <4>2
    <3>2. CASE i \notin Picked
      BY <2>1, <2>3, <2>4, <2>6, <3>2
    <3> QED BY <3>1, <3>2
  <2> QED BY <2>8 DEF hands, times
<1> QED BY <1>1, IndexInvariant, PTL

-----------------------------------------------------------------------------

\* createIndex() and updateIndex() implement AtomicIndex: the commit is its one step
\* that changes the database, an exception before the commit its Abort, and every
\* other step of any thread leaves what others can read as it is.
THEOREM IndexImplementsAtomicIndex == Spec => IndexIsAtomic
<1> DEFINE ended == main \in {"analyze", "return", "raise"}
<1>1. Init => Atomic!AtomicInit
  BY DEF Init, Atomic!AtomicInit
<1>2. IndexInv /\ IndexInv' /\ [Next]_vars
        => [Atomic!Commit \/ Atomic!Abort]_<<stable, main \in {"analyze", "return", "raise"}>>
  <2> SUFFICES ASSUME IndexInv, IndexInv', [Next]_vars
               PROVE  \/ Atomic!Commit \/ Atomic!Abort
                      \/ stable' = stable /\ ended' = ended
    OBVIOUS
  <2>1. CASE Commit
    <3>1. /\ ~ended /\ ended' = TRUE
          /\ main' \in {"analyze", "return"}
      BY <2>1 DEF Commit
    <3>2. stable' = Atomic!DbAfter(AcceptedSet')
      BY <3>1 DEF IndexInv, DbInv
    <3>3. AcceptedSet' \in SUBSET Atomic!Actions /\ Atomic!Consistent(AcceptedSet')
      <4>1. TypeOK /\ HandInv /\ AcceptedSet' = AcceptedSet
        BY <2>1 DEF Commit, jobVars, AcceptedSet, IndexInv, PipelineInv, JobInv
      <4> QED BY <4>1, AcceptedConsistent
    <3> QED BY <3>1, <3>2, <3>3 DEF Atomic!Commit
  <2>2. CASE Raise
    BY <2>2 DEF Raise, Atomic!Abort
  <2>3. CASE ~Commit /\ ~Raise
    <3>1. UNCHANGED stable
      BY <2>3 DEF Next, JobRuns, ProducerStep, Pick, LoadAndPush, PushReturned, MainStep,
         Begin, Stop, Analyze, Leave, Ended, vars, pipeVars
    <3>2. ended' = ended
      BY <2>3 DEF Next, JobRuns, ProducerStep, Pick, LoadAndPush, PushReturned, MainStep,
         Begin, Stop, Analyze, Leave, Ended, vars, pipeVars
    <3> QED BY <3>1, <3>2
  <2> QED BY <2>1, <2>2, <2>3
<1> QED BY <1>1, <1>2, IndexInvariant, PTL DEF Spec, IndexIsAtomic, Atomic!AtomicSpec
=============================================================================
