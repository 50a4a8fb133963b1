-------------------------- MODULE ThreadPoolProofs --------------------------
(* Proofs about the thread pool: types, the sufficiency of notify_one, the    *)
(* exactness of pending_count_, and that the pool implements JobService, for  *)
(* every set of threads and every bound.                                      *)
EXTENDS ThreadPool, SequenceTheorems, FiniteSetTheorems, TLAPS

\* What RemoveAt returns: the elements before i, then those after it.
LEMMA RemoveAtProperties ==
  ASSUME NEW S, NEW s \in Seq(S), NEW i \in DOMAIN s
  PROVE  /\ RemoveAt(s, i) \in Seq(S)
         /\ Len(RemoveAt(s, i)) = Len(s) - 1
         /\ \A j \in 1 .. Len(s) - 1 :
              RemoveAt(s, i)[j] = IF j < i THEN s[j] ELSE s[j + 1]
<1> DEFINE front == SubSeq(s, 1, i - 1)
           back == SubSeq(s, i + 1, Len(s))
<1>1. i \in 1 .. Len(s) /\ Len(s) \in Nat
  BY LenProperties
<1>2. /\ front \in Seq(S) /\ Len(front) = i - 1
      /\ \A j \in 1 .. i - 1 : front[j] = s[j]
  BY <1>1, SubSeqProperties
<1>3. /\ back \in Seq(S) /\ Len(back) = Len(s) - i
      /\ \A j \in 1 .. Len(s) - i : back[j] = s[i + j]
  BY <1>1, SubSeqProperties
<1> DEFINE joined == front \o back
<1> HIDE DEF front, back
<1>4. /\ joined \in Seq(S)
      /\ Len(joined) = Len(s) - 1
      /\ \A j \in 1 .. Len(s) - 1 :
           joined[j] = IF j <= i - 1 THEN front[j] ELSE back[j - (i - 1)]
  <2>1. /\ joined \in Seq(S)
        /\ Len(joined) = Len(front) + Len(back)
        /\ \A j \in 1 .. Len(front) + Len(back) :
             joined[j] = IF j <= Len(front) THEN front[j] ELSE back[j - Len(front)]
    BY <1>2, <1>3, ConcatProperties
  <2>2. Len(front) + Len(back) = Len(s) - 1
    BY <1>1, <1>2, <1>3
  <2> QED
    BY <1>2, <2>1, <2>2
<1> HIDE DEF joined
<1>5. ASSUME NEW j \in 1 .. Len(s) - 1
      PROVE  joined[j] = IF j < i THEN s[j] ELSE s[j + 1]
  <2>1. i \in Nat /\ j \in Nat
    BY <1>1, <1>5
  <2>2. CASE j < i
    BY <1>1, <1>2, <1>4, <1>5, <2>1, <2>2
  <2>3. CASE j >= i
    <3>1. joined[j] = back[j - (i - 1)]
      <4>1. ~(j <= i - 1)
        BY <2>1, <2>3
      <4> QED
        BY <1>4, <1>5, <4>1
    <3>2. back[j - (i - 1)] = s[i + (j - (i - 1))]
      BY <1>1, <1>3, <1>5, <2>1, <2>3
    <3>3. i + (j - (i - 1)) = j + 1
      BY <2>1
    <3> QED
      BY <2>1, <2>3, <3>1, <3>2, <3>3
  <2> QED
    BY <2>1, <2>2, <2>3
<1> QED
  BY <1>4, <1>5 DEF RemoveAt, joined, front, back


-----------------------------------------------------------------------------
\* Where a worker or a thread stands says whether it holds a job, and what it
\* may still find in the queue.
StagesAgree ==
    /\ stopping <=> destruction # "alive"
    /\ \A w \in Workers :
           running[w] # NoJob <=>
               worker[w] \in {"working", "publishing", "foundFull", "awaitingSpace"}
    /\ \A t \in Threads : offer[t] # NoJob <=> call[t] = "reserved"
    /\ \A w \in Workers : worker[w] = "dozing" => queuedJobs = <<>>
    /\ \A w \in Workers : worker[w] = "done" => stopping /\ queuedJobs = <<>>
    /\ destruction = "joined" => \A w \in Workers : worker[w] = "done"

PoolInv ==
    /\ TypeOK
    /\ StagesAgree
    /\ PendingCountsTheUnfinished
    /\ NoIdleWorkerOwedAJob

\* A real job is told from NoJob and has an id and a priority.
LEMMA JobFacts ==
  /\ NoJob \notin Job
  /\ \A job \in Job : job.id \in JobIds /\ job.priority \in Priorities
  BY PoolAssumption DEF Job, NoJob, JobIds

\* Whatever take_next_job picks is a job.
LEMMA BestIsQueued ==
  ASSUME TypeOK, NEW i \in DOMAIN queuedJobs
  PROVE  queuedJobs[i] \in Job
  BY LenProperties DEF TypeOK

\* The jobs in hand can be counted.
LEMMA BusyIsFinite == IsFiniteSet(Busy) /\ Cardinality(Busy) \in Nat
  BY PoolAssumption, FS_Subset, FS_CardinalityType DEF Busy

\* A step keeps the types; publication needs a pending job to count down.
LEMMA TypeStep ==
  ASSUME PoolInv, [Next]_vars
  PROVE  TypeOK'
<1> USE PoolAssumption DEF PoolInv
<1>1. ASSUME NEW t \in Threads, Reserve(t)
      PROVE  TypeOK'
  BY <1>1 DEF Reserve, TypeOK, counters, JobIds, Job, SuccessorId, CallStages
<1>2. ASSUME NEW t \in Threads, Enqueue(t)
      PROVE  TypeOK'
  <2>1. offer[t] \in Job
    BY <1>2 DEF Enqueue, StagesAgree, TypeOK
  <2>2. Append(queuedJobs, offer[t]) \in Seq(Job)
    BY <2>1, AppendProperties DEF TypeOK
  <2> QED
    BY <1>2, <2>2 DEF Enqueue, TypeOK, CallStages
<1>3. ASSUME NEW t \in Threads, RefuseWhileStopping(t)
      PROVE  TypeOK'
  BY <1>3 DEF RefuseWhileStopping, TypeOK, counters, CallStages
<1>4. ASSUME NEW t \in Threads, NotifyOne(t)
      PROVE  TypeOK'
  BY <1>4 DEF NotifyOne, TypeOK, counters, CallStages, WorkerStages
<1>5. ASSUME NEW t \in Threads, Drain(t)
      PROVE  TypeOK'
  <2>1. drained \o results \in Seq(JobResults) /\ <<>> \in Seq(JobResults)
    BY ConcatProperties, EmptySeq DEF TypeOK
  <2> QED
    BY <1>5, <2>1 DEF Drain, TypeOK, counters, CallStages, Threads
<1>6. ASSUME NEW t \in Threads, NotifySpace(t)
      PROVE  TypeOK'
  BY <1>6 DEF NotifySpace, WakeAll, TypeOK, counters, CallStages, WorkerStages, Threads
<1>7. ASSUME NEW w \in Workers, TakeJob(w)
      PROVE  TypeOK'
  <2>1. PICK i \in DOMAIN queuedJobs :
            /\ running' = [running EXCEPT ![w] = queuedJobs[i]]
            /\ queuedJobs' = RemoveAt(queuedJobs, i)
    BY <1>7 DEF TakeJob
  <2>2. queuedJobs[i] \in Job /\ RemoveAt(queuedJobs, i) \in Seq(Job)
    BY BestIsQueued, RemoveAtProperties DEF TypeOK
  <2> QED
    BY <1>7, <2>1, <2>2 DEF TakeJob, TypeOK, counters, WorkerStages
<1>8. ASSUME NEW w \in Workers, Doze(w) \/ FallAsleep(w) \/ Exit(w) \/ FinishWork(w)
      PROVE  TypeOK'
  BY <1>8 DEF Doze, FallAsleep, Exit, FinishWork, TypeOK, counters, WorkerStages
<1>9. ASSUME NEW w \in Workers, worker[w] = "publishing"
      PROVE  running[w] \in Job /\ running[w].id \in JobIds /\ pending - 1 \in Nat
  <2>1. running[w] \in Job
    BY <1>9 DEF StagesAgree, TypeOK
  <2>2. Cardinality(Busy) # 0
    BY <1>9, FS_EmptySet, BusyIsFinite DEF Busy, StagesAgree
  <2> QED
    BY <2>1, <2>2, JobFacts, BusyIsFinite, LenProperties DEF PendingCountsTheUnfinished, TypeOK
<1>10. ASSUME NEW w \in Workers, Publish(w)
       PROVE  TypeOK'
  <2>1. running[w].id \in JobIds /\ pending - 1 \in Nat
    BY <1>9, <1>10 DEF Publish
  <2>2. Append(results, [job |-> running[w].id, order |-> completed + 1]) \in Seq(JobResults)
    BY <2>1, AppendProperties DEF TypeOK, JobResults
  <2> QED
    BY <1>10, <2>1, <2>2 DEF Publish, TypeOK, WorkerStages
<1>11. ASSUME NEW w \in Workers, Discard(w)
       PROVE  TypeOK'
  BY <1>9, <1>11 DEF Discard, TypeOK, WorkerStages
<1>12. ASSUME NEW w \in Workers, FindFull(w) \/ AwaitSpace(w) \/ WakeSpuriously(w)
       PROVE  TypeOK'
  BY <1>12 DEF FindFull, AwaitSpace, WakeSpuriously, TypeOK, counters, WorkerStages
<1>13. ASSUME DestroyPool
       PROVE  TypeOK'
  BY <1>13 DEF DestroyPool, StoreStopping, NotifyWorkers, NotifyPublishers, Join, WakeAll,
               TypeOK, counters, WorkerStages, DestructionStages
<1>14. CASE UNCHANGED vars
  BY <1>14 DEF vars, counters, TypeOK
<1> QED
  BY <1>1, <1>2, <1>3, <1>4, <1>5, <1>6, <1>7, <1>8, <1>10, <1>11, <1>12, <1>13, <1>14
     DEF Next, Submit, WorkerLoop, PublishResult

\* A step keeps where each thread stands in agreement with what it holds.
LEMMA StagesStep ==
  ASSUME PoolInv, [Next]_vars
  PROVE  StagesAgree'
<1> USE PoolAssumption DEF PoolInv
<1>1. TypeOK'
  BY TypeStep
<1>2. ASSUME NEW t \in Threads, Reserve(t)
      PROVE  StagesAgree'
  <2>1. PICK priority \in Priorities :
            offer' = [offer EXCEPT ![t] = [id |-> nextJobId, priority |-> priority]]
    BY <1>2 DEF Reserve
  <2>2. [id |-> nextJobId, priority |-> priority] # NoJob
    BY <1>2 DEF Reserve, NoJob
  <2> QED
    BY <1>2, <2>1, <2>2 DEF Reserve, TypeOK, counters, StagesAgree
<1>3. ASSUME NEW t \in Threads, Enqueue(t)
      PROVE  StagesAgree'
  <2>1. \A w \in Workers : worker[w] \notin {"dozing", "done"}
    BY <1>3 DEF Enqueue, JobsMutexFree, StagesAgree
  <2> QED
    BY <1>3, <2>1 DEF Enqueue, TypeOK, StagesAgree
<1>4. ASSUME NEW t \in Threads, RefuseWhileStopping(t)
      PROVE  StagesAgree'
  BY <1>4 DEF RefuseWhileStopping, TypeOK, counters, StagesAgree
<1>5. ASSUME NEW t \in Threads, NotifyOne(t)
      PROVE  StagesAgree'
  BY <1>5 DEF NotifyOne, TypeOK, counters, StagesAgree
<1>6. ASSUME NEW t \in Threads, Drain(t)
      PROVE  StagesAgree'
  BY <1>6 DEF Drain, MayCall, TypeOK, counters, StagesAgree
<1>7. ASSUME NEW t \in Threads, NotifySpace(t)
      PROVE  StagesAgree'
  BY <1>7 DEF NotifySpace, WakeAll, TypeOK, counters, StagesAgree, Threads
<1>8. ASSUME NEW w \in Workers, TakeJob(w)
      PROVE  StagesAgree'
  <2>1. PICK i \in DOMAIN queuedJobs : running' = [running EXCEPT ![w] = queuedJobs[i]]
    BY <1>8 DEF TakeJob
  <2>2. queuedJobs[i] # NoJob /\ queuedJobs # <<>>
    BY BestIsQueued, JobFacts
  <2>3. \A v \in Workers : worker[v] \notin {"dozing", "done"}
    BY <1>8, <2>2 DEF TakeJob, JobsMutexFree, StagesAgree
  <2> QED
    BY <1>8, <2>1, <2>2, <2>3 DEF TakeJob, TypeOK, counters, StagesAgree
<1>9. ASSUME NEW w \in Workers, Doze(w) \/ FallAsleep(w) \/ Exit(w) \/ FinishWork(w)
      PROVE  StagesAgree'
  <2>1. CASE Doze(w)
    BY <2>1 DEF Doze, TypeOK, counters, StagesAgree
  <2>2. CASE FallAsleep(w)
    BY <2>2 DEF FallAsleep, TypeOK, counters, StagesAgree
  <2>3. CASE Exit(w)
    BY <2>3 DEF Exit, TypeOK, counters, StagesAgree
  <2>4. CASE FinishWork(w)
    BY <2>4 DEF FinishWork, TypeOK, counters, StagesAgree
  <2> QED
    BY <1>9, <2>1, <2>2, <2>3, <2>4
<1>10. ASSUME NEW w \in Workers, Publish(w) \/ Discard(w)
       PROVE  StagesAgree'
  <2>1. CASE Publish(w)
    BY <2>1 DEF Publish, TypeOK, counters, StagesAgree
  <2>2. CASE Discard(w)
    BY <2>2 DEF Discard, TypeOK, counters, StagesAgree
  <2> QED
    BY <1>10, <2>1, <2>2
<1>11. ASSUME NEW w \in Workers, FindFull(w) \/ AwaitSpace(w) \/ WakeSpuriously(w)
       PROVE  StagesAgree'
  <2>1. CASE FindFull(w)
    BY <2>1 DEF FindFull, TypeOK, counters, StagesAgree
  <2>2. CASE AwaitSpace(w)
    BY <2>2 DEF AwaitSpace, TypeOK, counters, StagesAgree
  <2>3. CASE WakeSpuriously(w)
    BY <2>3 DEF WakeSpuriously, TypeOK, counters, StagesAgree
  <2> QED
    BY <1>11, <2>1, <2>2, <2>3
<1>12. ASSUME StoreStopping \/ Join
       PROVE  StagesAgree'
  BY <1>12 DEF StoreStopping, Join, TypeOK, counters, StagesAgree
<1>13. ASSUME NotifyWorkers \/ NotifyPublishers
       PROVE  StagesAgree'
  BY <1>13 DEF NotifyWorkers, NotifyPublishers, WakeAll, TypeOK, counters, StagesAgree
<1>14. CASE UNCHANGED vars
  BY <1>14 DEF vars, counters, StagesAgree
<1> QED
  BY <1>2, <1>3, <1>4, <1>5, <1>6, <1>7, <1>8, <1>9, <1>10, <1>11, <1>12, <1>13, <1>14
     DEF Next, Submit, WorkerLoop, PublishResult, DestroyPool

\* A step keeps pending_count_ equal to the queue plus the jobs in hand.
LEMMA PendingStep ==
  ASSUME PoolInv, [Next]_vars
  PROVE  PendingCountsTheUnfinished'
<1> USE PoolAssumption DEF PoolInv
<1>1. TypeOK' /\ IsFiniteSet(Busy) /\ Cardinality(Busy) \in Nat /\ Len(queuedJobs) \in Nat
  BY TypeStep, BusyIsFinite, LenProperties DEF TypeOK
<1>2. ASSUME NEW t \in Threads, Enqueue(t)
      PROVE  PendingCountsTheUnfinished'
  <2>1. offer[t] \in Job /\ Len(queuedJobs') = Len(queuedJobs) + 1
    BY <1>2, AppendProperties DEF Enqueue, TypeOK, StagesAgree
  <2>2. Busy' = Busy /\ pending' = pending + 1
    BY <1>2 DEF Enqueue, Busy
  <2> QED
    BY <1>1, <2>1, <2>2, SMTT(30) DEF PendingCountsTheUnfinished, TypeOK
<1>3. ASSUME NEW w \in Workers, TakeJob(w)
      PROVE  PendingCountsTheUnfinished'
  <2>1. PICK i \in DOMAIN queuedJobs :
            /\ running' = [running EXCEPT ![w] = queuedJobs[i]]
            /\ queuedJobs' = RemoveAt(queuedJobs, i)
    BY <1>3 DEF TakeJob
  <2>2. queuedJobs[i] # NoJob /\ w \notin Busy
    BY <1>3, BestIsQueued, JobFacts DEF TakeJob, Busy, StagesAgree
  <2>3. Busy' = Busy \cup {w}
    BY <2>1, <2>2 DEF Busy, TypeOK
  <2>4. Cardinality(Busy') = Cardinality(Busy) + 1
    BY <1>1, <2>2, <2>3, FS_AddElement
  <2>5. Len(queuedJobs') = Len(queuedJobs) - 1
    BY <2>1, RemoveAtProperties DEF TypeOK
  <2>6. pending' = pending
    BY <1>3 DEF TakeJob, counters
  <2> QED
    BY <1>1, <2>4, <2>5, <2>6 DEF PendingCountsTheUnfinished, TypeOK
<1>4. ASSUME NEW w \in Workers, Publish(w) \/ Discard(w)
      PROVE  PendingCountsTheUnfinished'
  <2>1. w \in Busy
    BY <1>4 DEF Publish, Discard, Busy, StagesAgree
  <2>2. Busy' = Busy \ {w}
    BY <1>4 DEF Publish, Discard, Busy, TypeOK
  <2>3. Cardinality(Busy') = Cardinality(Busy) - 1
    BY <1>1, <2>1, <2>2, FS_RemoveElement
  <2>4. queuedJobs' = queuedJobs /\ pending' = pending - 1
    BY <1>4 DEF Publish, Discard
  <2> QED
    BY <1>1, <2>3, <2>4 DEF PendingCountsTheUnfinished, TypeOK
<1>5. CASE UNCHANGED <<queuedJobs, pending, running>>
  BY <1>5 DEF PendingCountsTheUnfinished, Busy
<1> QED
  BY <1>2, <1>3, <1>4, <1>5
     DEF Next, Submit, WorkerLoop, PublishResult, DestroyPool, Reserve, RefuseWhileStopping,
         NotifyOne, Drain, NotifySpace, Doze, FallAsleep, Exit, FinishWork, FindFull,
         AwaitSpace, WakeSpuriously, StoreStopping, NotifyWorkers, NotifyPublishers, Join,
         vars, counters

\* The wakeups under way can be counted.
LEMMA WakeupSetsAreFinite ==
  /\ IsFiniteSet(Ready) /\ Cardinality(Ready) \in Nat
  /\ IsFiniteSet(Notifying) /\ Cardinality(Notifying) \in Nat
<1>1. IsFiniteSet(Workers) /\ IsFiniteSet(Threads)
  BY PoolAssumption, FS_Union DEF Threads
<1> QED
  BY <1>1, FS_Subset, FS_CardinalityType DEF Ready, Notifying

\* A step that adds no job, puts no first worker to sleep and takes no wakeup
\* away keeps the property.
LEMMA WakeupsKept ==
  ASSUME PoolInv, TypeOK',
         queuedJobs' = queuedJobs,
         Idle' # {} => Idle # {},
         Ready \subseteq Ready',
         Notifying \subseteq Notifying'
  PROVE  NoIdleWorkerOwedAJob'
<1>1. /\ IsFiniteSet(Ready') /\ Cardinality(Ready') \in Nat
      /\ IsFiniteSet(Notifying') /\ Cardinality(Notifying') \in Nat
  <2>1. IsFiniteSet(Workers) /\ IsFiniteSet(Threads)
    BY PoolAssumption, FS_Union DEF Threads
  <2> QED
    BY <2>1, FS_Subset, FS_CardinalityType DEF Ready, Notifying
<1>2. Cardinality(Ready) <= Cardinality(Ready') /\ Cardinality(Notifying) <= Cardinality(Notifying')
  BY <1>1, FS_Subset
<1>3. Len(queuedJobs) \in Nat /\ Len(queuedJobs') = Len(queuedJobs)
  BY LenProperties DEF PoolInv, TypeOK
<1> QED
  BY <1>1, <1>2, <1>3, WakeupSetsAreFinite DEF NoIdleWorkerOwedAJob, PoolInv

\* A step keeps every queued job provided with a wakeup.
LEMMA IdleStep ==
  ASSUME PoolInv, [Next]_vars
  PROVE  NoIdleWorkerOwedAJob'
<1> USE PoolAssumption DEF PoolInv
<1>1. TypeOK' /\ Len(queuedJobs) \in Nat /\ Len(queuedJobs') \in Nat
  BY TypeStep, LenProperties DEF TypeOK
<1>2. ASSUME queuedJobs' = <<>>
      PROVE  NoIdleWorkerOwedAJob'
  <2>1. /\ Cardinality(Ready') \in Nat
        /\ Cardinality(Notifying') \in Nat
    <3>1. IsFiniteSet(Workers) /\ IsFiniteSet(Threads)
      BY PoolAssumption, FS_Union DEF Threads
    <3> QED
      BY <3>1, FS_Subset, FS_CardinalityType DEF Ready, Notifying
  <2>2. Len(queuedJobs') = 0
    BY <1>2, EmptySeq
  <2> QED
    BY <2>1, <2>2 DEF NoIdleWorkerOwedAJob
<1>3. ASSUME NEW t \in Threads, Enqueue(t)
      PROVE  NoIdleWorkerOwedAJob'
  <2>1. offer[t] \in Job /\ Len(queuedJobs') = Len(queuedJobs) + 1
    BY <1>3, AppendProperties DEF Enqueue, TypeOK, StagesAgree
  <2>2. Idle' = Idle /\ Ready' = Ready
    BY <1>3 DEF Enqueue, Idle, Ready
  <2>3. t \notin Notifying /\ Notifying' = Notifying \cup {t}
    BY <1>3 DEF Enqueue, Notifying, TypeOK
  <2>4. Cardinality(Notifying') = Cardinality(Notifying) + 1
    BY <2>3, WakeupSetsAreFinite, FS_AddElement
  <2> QED
    BY <1>1, <2>1, <2>2, <2>4, WakeupSetsAreFinite DEF NoIdleWorkerOwedAJob
<1>4. ASSUME NEW t \in Threads, NotifyOne(t)
      PROVE  NoIdleWorkerOwedAJob'
  <2>1. t \in Notifying /\ Notifying' = Notifying \ {t}
    BY <1>4 DEF NotifyOne, Notifying, TypeOK
  <2>2. Cardinality(Notifying') = Cardinality(Notifying) - 1
    BY <2>1, WakeupSetsAreFinite, FS_RemoveElement
  <2>3. queuedJobs' = queuedJobs
    BY <1>4 DEF NotifyOne
  <2>4. CASE \E w \in Workers : /\ worker[w] = "asleep"
                                /\ worker' = [worker EXCEPT ![w] = "ready"]
    <3>1. PICK w \in Workers : /\ worker[w] = "asleep"
                               /\ worker' = [worker EXCEPT ![w] = "ready"]
      BY <2>4
    <3>2. w \notin Ready /\ Ready' = Ready \cup {w} /\ Idle # {}
      BY <3>1 DEF Ready, Idle, TypeOK
    <3>3. Cardinality(Ready') = Cardinality(Ready) + 1
      BY <3>2, WakeupSetsAreFinite, FS_AddElement
    <3> QED
      BY <1>1, <2>2, <2>3, <3>2, <3>3, WakeupSetsAreFinite DEF NoIdleWorkerOwedAJob
  <2>5. CASE /\ \A w \in Workers : worker[w] # "asleep"
             /\ UNCHANGED worker
    <3>1. CASE \E w \in Workers : worker[w] = "dozing"
      BY <1>2, <2>3, <3>1 DEF StagesAgree
    <3>2. CASE \A w \in Workers : worker[w] # "dozing"
      BY <2>5, <3>2 DEF Idle, NoIdleWorkerOwedAJob
    <3> QED
      BY <3>1, <3>2
  <2> QED
    BY <1>4, <2>4, <2>5 DEF NotifyOne
<1>5. ASSUME NEW t \in Threads, NotifySpace(t)
      PROVE  NoIdleWorkerOwedAJob'
  <2>1. Idle' = Idle /\ Ready \subseteq Ready' /\ Notifying \subseteq Notifying'
    BY <1>5 DEF NotifySpace, WakeAll, Idle, Ready, Notifying, TypeOK, Threads
  <2> QED
    BY <1>1, <1>5, <2>1, WakeupsKept DEF NotifySpace
<1>6. ASSUME NEW w \in Workers, TakeJob(w)
      PROVE  NoIdleWorkerOwedAJob'
  <2>1. Len(queuedJobs') = Len(queuedJobs) - 1
    BY <1>6, RemoveAtProperties DEF TakeJob, TypeOK
  <2>2. w \in Ready /\ Ready' = Ready \ {w} /\ Idle' = Idle /\ Notifying' = Notifying
    BY <1>6 DEF TakeJob, Ready, Idle, Notifying, TypeOK
  <2>3. Cardinality(Ready') = Cardinality(Ready) - 1
    BY <2>2, WakeupSetsAreFinite, FS_RemoveElement
  <2> QED
    BY <1>1, <2>1, <2>2, <2>3, WakeupSetsAreFinite DEF NoIdleWorkerOwedAJob
<1>7. ASSUME NEW w \in Workers, Doze(w) \/ Exit(w)
      PROVE  NoIdleWorkerOwedAJob'
  BY <1>2, <1>7 DEF Doze, Exit
<1>8. ASSUME NEW w \in Workers,
             FallAsleep(w) \/ FinishWork(w) \/ Publish(w) \/ Discard(w)
               \/ FindFull(w) \/ AwaitSpace(w) \/ WakeSpuriously(w)
      PROVE  NoIdleWorkerOwedAJob'
  <2>1. /\ queuedJobs' = queuedJobs /\ call' = call
        /\ worker[w] # "ready" /\ (worker'[w] = "asleep" => worker[w] = "dozing")
        /\ worker'[w] # "dozing"
        /\ \A v \in Workers \ {w} : worker'[v] = worker[v]
    BY <1>8 DEF FallAsleep, FinishWork, Publish, Discard, FindFull, AwaitSpace,
               WakeSpuriously, TypeOK
  <2>2. (Idle' # {} => Idle # {}) /\ Ready \subseteq Ready' /\ Notifying \subseteq Notifying'
    BY <2>1 DEF Idle, Ready, Notifying
  <2> QED
    BY <1>1, <2>1, <2>2, WakeupsKept
<1>9. ASSUME NotifyWorkers \/ NotifyPublishers
      PROVE  NoIdleWorkerOwedAJob'
  <2>1. (Idle' # {} => Idle # {}) /\ Ready \subseteq Ready' /\ Notifying \subseteq Notifying'
    BY <1>9 DEF NotifyWorkers, NotifyPublishers, WakeAll, Idle, Ready, Notifying
  <2> QED
    BY <1>1, <1>9, <2>1, WakeupsKept DEF NotifyWorkers, NotifyPublishers
<1>10. ASSUME NEW t \in Threads, Reserve(t) \/ RefuseWhileStopping(t) \/ Drain(t)
       PROVE  NoIdleWorkerOwedAJob'
  <2>1. /\ queuedJobs' = queuedJobs /\ worker' = worker
        /\ call[t] # "queued"
        /\ \A u \in Threads \ {t} : call'[u] = call[u]
    BY <1>10 DEF Reserve, RefuseWhileStopping, Drain, MayCall, TypeOK
  <2>2. Idle' = Idle /\ Ready' = Ready /\ Notifying \subseteq Notifying'
    BY <2>1 DEF Idle, Ready, Notifying
  <2> QED
    BY <1>1, <2>1, <2>2, WakeupsKept
<1>11. CASE UNCHANGED <<queuedJobs, worker, call>>
  BY <1>11 DEF NoIdleWorkerOwedAJob, Idle, Ready, Notifying
<1> QED
  BY <1>3, <1>4, <1>5, <1>6, <1>7, <1>8, <1>9, <1>10, <1>11
     DEF Next, Submit, WorkerLoop, PublishResult, DestroyPool, StoreStopping, Join, vars,
         Threads

-----------------------------------------------------------------------------
\* The constructor establishes the invariant.
LEMMA PoolInit == Init => PoolInv
<1> SUFFICES ASSUME Init
             PROVE  PoolInv
  OBVIOUS
<1> USE PoolAssumption
<1>1. TypeOK
  <2>1. /\ queuedJobs \in Seq(Job)
        /\ results \in Seq(JobResults)
        /\ drained \in Seq(JobResults)
    BY EmptySeq DEF Init
  <2>2. /\ worker \in [Workers -> WorkerStages]
        /\ running \in [Workers -> Job \cup {NoJob}]
        /\ call \in [Threads -> CallStages]
        /\ offer \in [Threads -> Job \cup {NoJob}]
    BY DEF Init, WorkerStages, CallStages
  <2>3. /\ nextJobId \in 0..LastJobId
        /\ submitted \in Nat /\ pending \in Nat /\ completed \in Nat
    BY DEF Init, JobIds
  <2>4. stopping \in BOOLEAN /\ destruction \in DestructionStages /\ discarded \subseteq JobIds
    BY DEF Init, DestructionStages
  <2> QED
    BY <2>1, <2>2, <2>3, <2>4 DEF TypeOK
<1>2. StagesAgree
  BY DEF Init, StagesAgree
<1>3. Busy = {} /\ Len(queuedJobs) = 0 /\ Idle = {} /\ pending = 0
  BY EmptySeq DEF Init, Busy, Idle
<1> QED
  BY <1>1, <1>2, <1>3, FS_EmptySet
     DEF PoolInv, PendingCountsTheUnfinished, NoIdleWorkerOwedAJob

\* Every step keeps it.
LEMMA PoolStep == PoolInv /\ [Next]_vars => PoolInv'
  BY TypeStep, StagesStep, PendingStep, IdleStep DEF PoolInv

\* Hence it always holds.
LEMMA PoolInvariant == Spec => []PoolInv
  BY PoolInit, PoolStep, PTL DEF Spec

\* The types of the pool's state: in particular pending_count_ never wraps
\* below zero.
THEOREM PoolTypeCorrect == Spec => []TypeOK
<1>1. PoolInv => TypeOK
  BY DEF PoolInv
<1> QED
  BY <1>1, PoolInvariant, PTL

\* notify_one suffices: for any number of workers and callers, a queued job
\* never waits on a sleeping worker alone.
THEOREM NoIdleWorker == Spec => []NoIdleWorkerOwedAJob
<1>1. PoolInv => NoIdleWorkerOwedAJob
  BY DEF PoolInv
<1> QED
  BY <1>1, PoolInvariant, PTL

\* pending_count is exact in every reachable state.
THEOREM PendingExact == Spec => []PendingCountsTheUnfinished
<1>1. PoolInv => PendingCountsTheUnfinished
  BY DEF PoolInv
<1> QED
  BY <1>1, PoolInvariant, PTL

-----------------------------------------------------------------------------
(* The pool implements the job service.  What the refinement needs besides the *)
(* invariant above: a job is in one place only, which is why taking it away    *)
(* from there settles it, and the number of a result is the length of the      *)
(* history before it.                                                         *)

QueuedIds == {job.id : job \in ToSet(queuedJobs)}
HeldIds == {running[w].id : w \in Busy}
SpentIds == discarded \cup {result.job : result \in ToSet(drained \o results)}
Offering == {t \in Threads : offer[t] # NoJob}

\* An id next_job_id_ has gone past.
Issued(id) == nextJobId # 0 => id < nextJobId

JobsApart ==
    /\ \A i, j \in DOMAIN queuedJobs : queuedJobs[i].id = queuedJobs[j].id => i = j
    /\ \A v, w \in Busy : running[v].id = running[w].id => v = w
    /\ \A t, u \in Offering : offer[t].id = offer[u].id => t = u
    /\ QueuedIds \cap HeldIds = {}
    /\ (QueuedIds \cup HeldIds) \cap SpentIds = {}
    /\ \A t \in Offering : offer[t].id \notin QueuedIds \cup HeldIds \cup SpentIds
    /\ \A id \in QueuedIds \cup HeldIds \cup SpentIds : Issued(id)
    /\ \A t \in Offering : Issued(offer[t].id)

ResultsAreNumbered == completed = Len(drained) + Len(results)

ServiceInv == PoolInv /\ JobsApart /\ ResultsAreNumbered

\* The ids in the queue, by position.
LEMMA QueuedById ==
  ASSUME TypeOK
  PROVE  /\ QueuedIds = {queuedJobs[i].id : i \in DOMAIN queuedJobs}
         /\ DOMAIN queuedJobs = 1..Len(queuedJobs) /\ Len(queuedJobs) \in Nat
         /\ \A i \in DOMAIN queuedJobs : queuedJobs[i] \in Job
<1>1. DOMAIN queuedJobs = 1..Len(queuedJobs) /\ Len(queuedJobs) \in Nat
  BY LenProperties DEF TypeOK
<1>2. \A i \in DOMAIN queuedJobs : queuedJobs[i] \in Job
  BY BestIsQueued
<1> QED
  BY <1>1, <1>2 DEF QueuedIds, ToSet

\* The results handed out and waiting are those of the two sequences.
LEMMA ConcatElements ==
  ASSUME NEW S, NEW s \in Seq(S), NEW t \in Seq(S)
  PROVE  ToSet(s \o t) = ToSet(s) \cup ToSet(t)
<1>1. /\ s \o t \in Seq(S) /\ Len(s \o t) = Len(s) + Len(t)
      /\ \A i \in 1 .. Len(s) + Len(t) :
           (s \o t)[i] = IF i <= Len(s) THEN s[i] ELSE t[i - Len(s)]
  BY ConcatProperties
<1>2. /\ DOMAIN (s \o t) = 1 .. Len(s) + Len(t)
      /\ DOMAIN s = 1 .. Len(s) /\ DOMAIN t = 1 .. Len(t)
      /\ Len(s) \in Nat /\ Len(t) \in Nat
  BY <1>1, LenProperties
<1> DEFINE both == s \o t
<1>3. /\ \A i \in 1 .. Len(s) : both[i] = s[i] /\ i \in 1 .. Len(s) + Len(t)
      /\ \A i \in 1 .. Len(t) :
            both[i + Len(s)] = t[i] /\ i + Len(s) \in 1 .. Len(s) + Len(t)
      /\ \A i \in 1 .. Len(s) + Len(t) :
            \/ i \in 1 .. Len(s) /\ both[i] = s[i]
            \/ i - Len(s) \in 1 .. Len(t) /\ both[i] = t[i - Len(s)]
  BY <1>1, <1>2
<1> HIDE DEF both
<1>4. DOMAIN both = 1 .. Len(s) + Len(t)
  BY <1>2 DEF both
<1>5. ToSet(both) = ToSet(s) \cup ToSet(t)
  <2>1. \A x \in ToSet(both) : x \in ToSet(s) \cup ToSet(t)
    BY <1>2, <1>3, <1>4 DEF ToSet
  <2>2. \A x \in ToSet(s) \cup ToSet(t) : x \in ToSet(both)
    BY <1>2, <1>3, <1>4 DEF ToSet
  <2> QED
    BY <2>1, <2>2
<1> QED
  BY <1>5 DEF both

\* Appending adds one element.
LEMMA AppendElements ==
  ASSUME NEW S, NEW s \in Seq(S), NEW e \in S
  PROVE  ToSet(Append(s, e)) = ToSet(s) \cup {e}
<1>1. /\ Append(s, e) \in Seq(S) /\ Len(Append(s, e)) = Len(s) + 1
      /\ \A i \in 1 .. Len(s) : Append(s, e)[i] = s[i]
      /\ Append(s, e)[Len(s) + 1] = e
  BY AppendProperties
<1>2. /\ DOMAIN Append(s, e) = 1 .. Len(s) + 1
      /\ DOMAIN s = 1 .. Len(s) /\ Len(s) \in Nat
  BY <1>1, LenProperties
<1>3. \A x \in ToSet(Append(s, e)) : x \in ToSet(s) \cup {e}
  BY <1>1, <1>2 DEF ToSet
<1>4. \A x \in ToSet(s) \cup {e} : x \in ToSet(Append(s, e))
  BY <1>1, <1>2 DEF ToSet
<1> QED
  BY <1>3, <1>4

\* The ids no longer owed, by where their results are.
LEMMA SpentById ==
  ASSUME TypeOK
  PROVE  SpentIds = discarded \cup {result.job : result \in ToSet(drained)}
                              \cup {result.job : result \in ToSet(results)}
<1>1. ToSet(drained \o results) = ToSet(drained) \cup ToSet(results)
  BY ConcatElements DEF TypeOK
<1> QED
  BY <1>1 DEF SpentIds

\* Taking a job out of the queue takes its id out, and no other.
LEMMA TakenFromQueue ==
  ASSUME TypeOK, TypeOK', NEW i \in DOMAIN queuedJobs,
         queuedJobs' = RemoveAt(queuedJobs, i),
         \A j, k \in DOMAIN queuedJobs : queuedJobs[j].id = queuedJobs[k].id => j = k
  PROVE  /\ QueuedIds' = QueuedIds \ {queuedJobs[i].id}
         /\ queuedJobs[i].id \in QueuedIds
         /\ \A j, k \in DOMAIN queuedJobs' :
              queuedJobs'[j].id = queuedJobs'[k].id => j = k
<1> DEFINE n == Len(queuedJobs)
           old == queuedJobs
           new == queuedJobs'
<1>1. /\ n \in Nat /\ DOMAIN old = 1..n /\ i \in 1..n
      /\ QueuedIds = {old[j].id : j \in 1..n}
  BY QueuedById
<1>2. /\ Len(new) = n - 1
      /\ \A j \in 1 .. n - 1 : new[j] = IF j < i THEN old[j] ELSE old[j + 1]
  <2>1. /\ Len(RemoveAt(old, i)) = n - 1
        /\ \A j \in 1 .. n - 1 :
             RemoveAt(old, i)[j] = IF j < i THEN old[j] ELSE old[j + 1]
    <3>1. queuedJobs \in Seq(Job)
      BY DEF TypeOK
    <3> QED
      BY <3>1, RemoveAtProperties, Zenon
  <2>2. new = RemoveAt(old, i)
    OBVIOUS
  <2> HIDE DEF new, old, n
  <2> QED
    BY <2>1, <2>2
<1>3. DOMAIN new = 1 .. n - 1 /\ QueuedIds' = {new[j].id : j \in 1 .. n - 1}
  <2>1. DOMAIN new = 1..Len(new)
    BY LenProperties DEF TypeOK
  <2>2. DOMAIN new = 1 .. n - 1
    BY <1>2, <2>1
  <2>3. QueuedIds' = {new[j].id : j \in DOMAIN new}
    BY DEF QueuedIds, ToSet
  <2> QED
    BY <2>2, <2>3
<1>4. \A j, k \in 1..n : old[j].id = old[k].id => j = k
  BY <1>1
<1> HIDE DEF n, old, new
<1>5. \A id \in QueuedIds' : id \in QueuedIds /\ id # old[i].id
  <2>1. ASSUME NEW j \in 1 .. n - 1
        PROVE  \E k \in 1..n : k # i /\ new[j] = old[k]
    <3>1. CASE j < i
      BY <1>1, <1>2, <3>1
    <3>2. CASE ~(j < i)
      <4>1. j + 1 \in 1..n /\ j + 1 # i /\ new[j] = old[j + 1]
        BY <1>1, <1>2, <3>2
      <4> QED
        BY <4>1
    <3> QED
      BY <3>1, <3>2
  <2> QED
    BY <1>1, <1>3, <1>4, <2>1
<1>6. ASSUME NEW id \in QueuedIds, id # old[i].id
      PROVE  id \in QueuedIds'
  <2>1. PICK k \in 1..n : id = old[k].id /\ k # i
    BY <1>1, <1>6
  <2>2. CASE k < i
    BY <1>1, <1>2, <1>3, <2>1, <2>2
  <2>3. CASE k > i
    <3>1. k - 1 \in 1 .. n - 1 /\ ~(k - 1 < i) /\ (k - 1) + 1 = k
      BY <1>1, <2>1, <2>3
    <3> QED
      BY <1>2, <1>3, <2>1, <3>1
  <2> QED
    BY <1>1, <2>1, <2>2, <2>3
<1>7. \A j, k \in 1 .. n - 1 : new[j].id = new[k].id => j = k
  BY <1>1, <1>2, <1>4
<1> QED
  BY <1>1, <1>3, <1>5, <1>6, <1>7 DEF old, new

\* Where the jobs are is a function of these variables.
LEMMA ApartKept ==
  ASSUME ServiceInv, UNCHANGED <<nextJobId, queuedJobs, running, offer, results,
                                 drained, discarded>>
  PROVE  JobsApart'
<1>1. /\ QueuedIds' = QueuedIds /\ HeldIds' = HeldIds /\ SpentIds' = SpentIds
      /\ Busy' = Busy /\ Offering' = Offering
      /\ nextJobId' = nextJobId /\ queuedJobs' = queuedJobs /\ running' = running
      /\ offer' = offer
  BY DEF QueuedIds, HeldIds, SpentIds, Offering, Busy
<1> QED
  BY <1>1 DEF ServiceInv, JobsApart, Issued

\* A step leaves every job in one place.
LEMMA ApartStep ==
  ASSUME ServiceInv, [Next]_vars
  PROVE  JobsApart'
<1> USE PoolAssumption
<1>1. TypeOK /\ TypeOK' /\ StagesAgree /\ JobsApart
  BY TypeStep DEF ServiceInv, PoolInv
<1>2. ASSUME NEW t \in Threads, Reserve(t)
      PROVE  JobsApart'
  <2>1. PICK priority \in Priorities :
            offer' = [offer EXCEPT ![t] = [id |-> nextJobId, priority |-> priority]]
    BY <1>2 DEF Reserve
  <2>2. /\ QueuedIds' = QueuedIds /\ HeldIds' = HeldIds /\ SpentIds' = SpentIds
        /\ Busy' = Busy
    BY <1>2 DEF Reserve, QueuedIds, HeldIds, SpentIds, Busy
  <2>3. /\ t \notin Offering /\ Offering' = Offering \cup {t}
        /\ offer'[t].id = nextJobId
        /\ \A u \in Offering : offer'[u] = offer[u]
    BY <1>1, <1>2, <2>1 DEF Reserve, MayCall, Offering, StagesAgree, TypeOK, NoJob
  <2>4. nextJobId \in Nat \ {0} /\ (nextJobId' = 0 \/ nextJobId' = nextJobId + 1)
    BY <1>1, <1>2 DEF Reserve, SuccessorId, TypeOK
  <2>5. \A id \in QueuedIds \cup HeldIds \cup SpentIds : id \in Nat
    <3>1. QueuedIds \subseteq Nat
      BY <1>1, QueuedById, JobFacts DEF JobIds
    <3>4. HeldIds \subseteq Nat
      BY <1>1, JobFacts DEF HeldIds, Busy, TypeOK, JobIds
    <3>2. ToSet(drained) \subseteq JobResults /\ ToSet(results) \subseteq JobResults
      BY <1>1, LenProperties DEF TypeOK, ToSet
    <3>3. SpentIds \subseteq Nat
      <4>1. \A r \in JobResults : r.job \in Nat
        BY DEF JobResults, JobIds
      <4>2. discarded \subseteq Nat
        BY <1>1 DEF TypeOK, JobIds
      <4> QED
        <5>1. SpentIds = discarded \cup {r.job : r \in ToSet(drained)}
                                  \cup {r.job : r \in ToSet(results)}
          BY <1>1, SpentById
        <5> HIDE DEF SpentIds, ToSet
        <5> QED
          BY <3>2, <4>1, <4>2, <5>1, Zenon
    <3> QED
      BY <3>1, <3>3, <3>4
  <2>6. \A u \in Offering : offer[u].id \in Nat
    BY <1>1, JobFacts DEF Offering, TypeOK, JobIds
  <2>7. /\ \A id \in QueuedIds \cup HeldIds \cup SpentIds : id < nextJobId
        /\ \A u \in Offering : offer[u].id < nextJobId
    BY <1>1, <2>4 DEF JobsApart, Issued
  <2>8. \A id \in Nat : id < nextJobId => Issued(id)'
    BY <2>4 DEF Issued
  <2>9. nextJobId' # 0 => nextJobId < nextJobId'
    BY <2>4
  <2>10. queuedJobs' = queuedJobs /\ running' = running
    BY <1>2 DEF Reserve
  <2>11. \A u \in Offering : offer'[u].id # nextJobId
    BY <2>3, <2>4, <2>6, <2>7
  <2>12. nextJobId \notin QueuedIds \cup HeldIds \cup SpentIds
    BY <2>4, <2>5, <2>7
  <2> QED
    <3>1. /\ \A id \in (QueuedIds \cup HeldIds \cup SpentIds)' : Issued(id)'
          /\ \A u \in Offering : nextJobId' # 0 => offer[u].id < nextJobId'
      BY <2>2, <2>5, <2>6, <2>7, <2>8 DEF Issued
    <3>2. \A u \in Offering' : nextJobId' # 0 => offer'[u].id < nextJobId'
      BY <2>3, <2>9, <3>1
    <3>3. \A u, v \in Offering' : offer'[u].id = offer'[v].id => u = v
      BY <1>1, <2>3, <2>11 DEF JobsApart
    <3>4. \A u \in Offering' : offer'[u].id \notin QueuedIds \cup HeldIds \cup SpentIds
      BY <1>1, <2>3, <2>12 DEF JobsApart
    <3> QED
      BY <1>1, <2>2, <2>10, <3>1, <3>2, <3>3, <3>4 DEF JobsApart, Issued
<1>3. ASSUME NEW t \in Threads, Enqueue(t)
      PROVE  JobsApart'
  <2>1. t \in Offering /\ offer[t] \in Job
    BY <1>1, <1>3 DEF Enqueue, Offering, StagesAgree, TypeOK
  <2>2. /\ QueuedIds' = QueuedIds \cup {offer[t].id}
        /\ HeldIds' = HeldIds /\ SpentIds' = SpentIds /\ Busy' = Busy
    <3>1. ToSet(queuedJobs') = ToSet(queuedJobs) \cup {offer[t]}
      BY <1>1, <1>3, <2>1, AppendElements DEF Enqueue, TypeOK
    <3> QED
      BY <1>3, <3>1 DEF Enqueue, QueuedIds, HeldIds, SpentIds, Busy
  <2>3. /\ Offering' = Offering \ {t} /\ \A u \in Offering' : offer'[u] = offer[u]
        /\ running' = running
    BY <1>1, <1>3 DEF Enqueue, Offering, TypeOK
  <2>4. \A i, j \in DOMAIN queuedJobs' : queuedJobs'[i].id = queuedJobs'[j].id => i = j
    <3>1. /\ queuedJobs' = Append(queuedJobs, offer[t])
          /\ DOMAIN queuedJobs' = 1 .. Len(queuedJobs) + 1
          /\ DOMAIN queuedJobs = 1 .. Len(queuedJobs) /\ Len(queuedJobs) \in Nat
      BY <1>1, <1>3, <2>1, AppendProperties, LenProperties DEF Enqueue, TypeOK
    <3>2. /\ \A i \in DOMAIN queuedJobs : queuedJobs'[i] = queuedJobs[i]
          /\ queuedJobs'[Len(queuedJobs) + 1] = offer[t]
      BY <1>1, <2>1, <3>1, AppendProperties DEF TypeOK
    <3>3. \A i \in DOMAIN queuedJobs : queuedJobs[i].id # offer[t].id
      BY <1>1, <2>1, QueuedById DEF JobsApart
    <3> QED
      BY <1>1, <3>1, <3>2, <3>3 DEF JobsApart
  <2>5. \A id : Issued(id) => Issued(id)'
    BY <1>3 DEF Enqueue, Issued
  <2> QED
    BY <1>1, <2>1, <2>2, <2>3, <2>4, <2>5 DEF JobsApart
<1>4. ASSUME NEW t \in Threads, RefuseWhileStopping(t)
      PROVE  JobsApart'
  <2>1. /\ Offering' \subseteq Offering /\ \A u \in Offering' : offer'[u] = offer[u]
        /\ QueuedIds' = QueuedIds /\ HeldIds' = HeldIds /\ SpentIds' = SpentIds
        /\ Busy' = Busy /\ queuedJobs' = queuedJobs /\ running' = running
        /\ nextJobId' = nextJobId
    BY <1>1, <1>4 DEF RefuseWhileStopping, QueuedIds, HeldIds, SpentIds, Busy, Offering,
                      TypeOK, counters
  <2> QED
    BY <1>1, <2>1 DEF JobsApart, Issued
<1>5. ASSUME NEW t \in Threads, Drain(t)
      PROVE  JobsApart'
  <2>1. drained \o results \in Seq(JobResults) /\ results' = <<>>
    BY <1>1, <1>5, ConcatProperties DEF Drain, TypeOK
  <2>2. drained' \o results' = drained \o results
    BY <1>5, <2>1, ConcatEmptySeq DEF Drain
  <2>3. /\ QueuedIds' = QueuedIds /\ HeldIds' = HeldIds /\ SpentIds' = SpentIds
        /\ Busy' = Busy /\ Offering' = Offering
        /\ queuedJobs' = queuedJobs /\ running' = running /\ offer' = offer
        /\ nextJobId' = nextJobId
    BY <1>5, <2>2 DEF Drain, QueuedIds, HeldIds, SpentIds, Busy, Offering, counters
  <2> QED
    BY <1>1, <2>3 DEF JobsApart, Issued
<1>6. ASSUME NEW w \in Workers, TakeJob(w)
      PROVE  JobsApart'
  <2>1. PICK i \in DOMAIN queuedJobs :
            /\ running' = [running EXCEPT ![w] = queuedJobs[i]]
            /\ queuedJobs' = RemoveAt(queuedJobs, i)
    BY <1>6 DEF TakeJob
  <2>2. queuedJobs[i] # NoJob /\ w \notin Busy
    BY <1>1, <1>6, BestIsQueued, JobFacts DEF TakeJob, Busy, StagesAgree
  <2>3. /\ Busy' = Busy \cup {w}
        /\ running'[w] = queuedJobs[i] /\ \A v \in Busy : running'[v] = running[v]
    BY <1>1, <2>1, <2>2 DEF Busy, TypeOK
  <2>4. HeldIds' = HeldIds \cup {queuedJobs[i].id}
    BY <2>2, <2>3 DEF HeldIds
  <2>5. /\ QueuedIds' = QueuedIds \ {queuedJobs[i].id}
        /\ queuedJobs[i].id \in QueuedIds
        /\ \A j, k \in DOMAIN queuedJobs' :
              queuedJobs'[j].id = queuedJobs'[k].id => j = k
    BY <1>1, <2>1, TakenFromQueue DEF JobsApart
  <2>6. /\ SpentIds' = SpentIds /\ Offering' = Offering /\ offer' = offer
        /\ nextJobId' = nextJobId
    BY <1>6 DEF TakeJob, SpentIds, Offering, counters
  <2>7. \A v \in Busy : running[v].id # queuedJobs[i].id
    BY <1>1, <2>5 DEF JobsApart, HeldIds
  <2>8. \A u, v \in Busy' : running'[u].id = running'[v].id => u = v
    BY <1>1, <2>3, <2>7 DEF JobsApart
  <2> QED
    BY <1>1, <2>4, <2>5, <2>6, <2>8 DEF JobsApart, Issued
<1>7. ASSUME NEW w \in Workers, Publish(w) \/ Discard(w)
      PROVE  JobsApart'
  <2>1. w \in Busy /\ running[w] \in Job
    BY <1>1, <1>7 DEF Publish, Discard, Busy, StagesAgree, TypeOK
  <2>2. /\ Busy' = Busy \ {w} /\ \A v \in Busy' : running'[v] = running[v]
        /\ QueuedIds' = QueuedIds /\ queuedJobs' = queuedJobs
        /\ Offering' = Offering /\ offer' = offer /\ nextJobId' = nextJobId
    BY <1>1, <1>7 DEF Publish, Discard, Busy, TypeOK, QueuedIds, Offering
  <2>3. HeldIds' = HeldIds \ {running[w].id} /\ running[w].id \in HeldIds
    BY <1>1, <2>1, <2>2 DEF HeldIds, JobsApart
  <2>4. SpentIds' = SpentIds \cup {running[w].id}
    <3>1. CASE Publish(w)
      <4> DEFINE result == [job |-> running[w].id, order |-> completed + 1]
      <4>1. result \in JobResults
        BY <1>1, <2>1, JobFacts DEF JobResults, TypeOK
      <4>2. ToSet(results') = ToSet(results) \cup {result}
        BY <1>1, <3>1, <4>1, AppendElements DEF Publish, TypeOK
      <4>3. drained' = drained /\ discarded' = discarded /\ result.job = running[w].id
        BY <3>1 DEF Publish
      <4>4. SpentIds' = discarded' \cup {r.job : r \in ToSet(drained')}
                                   \cup {r.job : r \in ToSet(results')}
        <5>1. ToSet(drained' \o results') = ToSet(drained') \cup ToSet(results')
          BY <1>1, ConcatElements DEF TypeOK
        <5> QED
          BY <5>1 DEF SpentIds
      <4> HIDE DEF result
      <4> QED
        BY <1>1, <4>2, <4>3, <4>4, SpentById
    <3>2. CASE Discard(w)
      BY <3>2 DEF Discard, SpentIds
    <3> QED
      BY <1>7, <3>1, <3>2
  <2>5. \A id : Issued(id) => Issued(id)'
    BY <2>2 DEF Issued
  <2> QED
    BY <1>1, <2>2, <2>3, <2>4, <2>5 DEF JobsApart
<1>8. ASSUME UNCHANGED <<nextJobId, queuedJobs, running, offer, results, drained, discarded>>
      PROVE  JobsApart'
  BY <1>8, ApartKept
<1> QED
  BY <1>2, <1>3, <1>4, <1>5, <1>6, <1>7, <1>8
     DEF Next, Submit, WorkerLoop, PublishResult, DestroyPool, NotifyOne, NotifySpace,
         Doze, FallAsleep, Exit, FinishWork, FindFull, AwaitSpace, WakeSpuriously,
         StoreStopping, NotifyWorkers, NotifyPublishers, Join, vars

\* A step keeps completed_count_ equal to the number of results published.
LEMMA NumberStep ==
  ASSUME ServiceInv, [Next]_vars
  PROVE  ResultsAreNumbered'
<1>1. /\ TypeOK /\ TypeOK' /\ ResultsAreNumbered
      /\ Len(drained) \in Nat /\ Len(results) \in Nat /\ completed \in Nat
  BY TypeStep, LenProperties DEF ServiceInv, PoolInv, TypeOK
<1>2. ASSUME NEW t \in Threads, Drain(t)
      PROVE  ResultsAreNumbered'
  <2>1. Len(drained') = Len(drained) + Len(results) /\ Len(results') = 0
    BY <1>1, <1>2, ConcatProperties, EmptySeq DEF Drain, TypeOK
  <2>2. completed' = completed
    BY <1>2 DEF Drain, counters
  <2> QED
    BY <1>1, <2>1, <2>2 DEF ResultsAreNumbered
<1>3. ASSUME NEW w \in Workers, Publish(w)
      PROVE  ResultsAreNumbered'
  <2>1. [job |-> running[w].id, order |-> completed + 1] \in JobResults
    <3>1. running[w] \in Job
      BY <1>3 DEF ServiceInv, PoolInv, Publish, StagesAgree, TypeOK
    <3> QED
      BY <1>1, <3>1, JobFacts DEF JobResults
  <2>2. Len(results') = Len(results) + 1
    BY <1>1, <1>3, <2>1, AppendProperties DEF Publish, TypeOK
  <2>3. completed' = completed + 1 /\ drained' = drained
    BY <1>3 DEF Publish
  <2> QED
    BY <1>1, <2>2, <2>3 DEF ResultsAreNumbered
<1>4. ASSUME UNCHANGED <<completed, results, drained>>
      PROVE  ResultsAreNumbered'
  BY <1>1, <1>4 DEF ResultsAreNumbered
<1> QED
  BY <1>2, <1>3, <1>4
     DEF Next, Submit, WorkerLoop, PublishResult, DestroyPool, Reserve, Enqueue,
         RefuseWhileStopping, NotifyOne, NotifySpace, TakeJob, Doze, FallAsleep, Exit,
         FinishWork, Discard, FindFull, AwaitSpace, WakeSpuriously, StoreStopping,
         NotifyWorkers, NotifyPublishers, Join, vars, counters

\* A new pool holds no job and has published nothing.
LEMMA ServiceInit == Init => ServiceInv
<1> SUFFICES ASSUME Init
             PROVE  ServiceInv
  OBVIOUS
<1>1. PoolInv
  BY PoolInit
<1>2. queuedJobs = <<>> /\ drained = <<>> /\ results = <<>> /\ discarded = {} /\ completed = 0
  BY DEF Init
<1>3. QueuedIds = {} /\ DOMAIN queuedJobs = {}
  BY <1>2 DEF QueuedIds, ToSet
<1>4. Busy = {} /\ HeldIds = {} /\ Offering = {}
  BY DEF Init, Busy, HeldIds, Offering
<1>5. SpentIds = {}
  <2>1. ToSet(drained) = {} /\ ToSet(results) = {}
    BY <1>2 DEF ToSet
  <2> QED
    BY <1>1, <1>2, <2>1, SpentById DEF PoolInv
<1>6. Len(drained) = 0 /\ Len(results) = 0
  BY <1>2, EmptySeq
<1> QED
  BY <1>1, <1>2, <1>3, <1>4, <1>5, <1>6 DEF ServiceInv, JobsApart, ResultsAreNumbered

\* Hence the jobs are always apart and the results numbered.
LEMMA ServiceInvariant == Spec => []ServiceInv
<1>1. ServiceInv /\ [Next]_vars => ServiceInv'
  BY PoolStep, ApartStep, NumberStep DEF ServiceInv
<1> QED
  BY <1>1, ServiceInit, PTL DEF Spec

\* The mapped state of the service.
Owed == QueuedIds \cup HeldIds
Phase == CASE destruction = "alive" -> "open"
           [] destruction = "joined" -> "closed"
           [] OTHER -> "closing"

\* Every step of the pool is a step of the service or none.
LEMMA ServiceStep ==
  ASSUME ServiceInv, [Next]_vars
  PROVE  [Service!Next]_(Service!vars)
<1> USE PoolAssumption
<1>1. /\ TypeOK /\ StagesAgree /\ JobsApart /\ ResultsAreNumbered
      /\ Len(drained) \in Nat /\ Len(results) \in Nat
  BY LenProperties DEF ServiceInv, PoolInv, TypeOK
<1>2. Service!vars = <<Owed, results, drained, discarded, Phase>>
  BY DEF Service!vars, Owed, QueuedIds, HeldIds, Phase
<1>3. Service!vars' = <<Owed', results', drained', discarded', Phase'>>
  BY DEF Service!vars, Owed, QueuedIds, HeldIds, Phase
<1>4. /\ destruction = "alive" => Phase = "open"
      /\ destruction = "joined" <=> Phase = "closed"
      /\ stopping /\ destruction # "joined" => Phase = "closing"
  BY <1>1 DEF Phase, StagesAgree, TypeOK, DestructionStages
<1>5. ASSUME NEW t \in Threads, Enqueue(t)
      PROVE  Service!Next
  <2>1. t \in Offering /\ offer[t] \in Job /\ offer[t].id \in JobIds
    BY <1>1, <1>5, JobFacts DEF Enqueue, Offering, StagesAgree, TypeOK
  <2>2. Owed' = Owed \cup {offer[t].id}
    <3>1. ToSet(queuedJobs') = ToSet(queuedJobs) \cup {offer[t]}
      BY <1>1, <1>5, <2>1, AppendElements DEF Enqueue, TypeOK
    <3> QED
      BY <1>5, <3>1 DEF Enqueue, Owed, QueuedIds, HeldIds, Busy
  <2>3. offer[t].id \notin Owed \cup SpentIds
    BY <1>1, <2>1 DEF JobsApart, Owed
  <2>4. Phase = "open" /\ UNCHANGED <<results, drained, discarded, Phase>>
    BY <1>1, <1>4, <1>5 DEF Enqueue, StagesAgree, Phase
  <2>5. PICK id \in JobIds : id = offer[t].id
    BY <2>1
  <2>6. SpentIds = discarded \cup Service!Published
    BY DEF SpentIds, Service!Published, Service!ToSet, ToSet
  <2>7. Service!Accept(id)
    BY <2>2, <2>3, <2>4, <2>5, <2>6 DEF Service!Accept, Owed, QueuedIds, HeldIds, Phase
  <2> QED
    BY <2>7 DEF Service!Next
<1>6. ASSUME NEW t \in Threads, Drain(t)
      PROVE  Service!Next
  <2>1. destruction # "joined"
    BY <1>1, <1>6 DEF Drain, MayCall, StagesAgree
  <2>2. Owed' = Owed /\ Phase' = Phase
    BY <1>6 DEF Drain, Owed, QueuedIds, HeldIds, Busy, Phase
  <2>3. Service!Drain
    BY <1>4, <1>6, <2>1, <2>2 DEF Service!Drain, Drain, Owed, QueuedIds, HeldIds, Phase
  <2> QED
    BY <2>3 DEF Service!Next
<1>7. ASSUME NEW w \in Workers, TakeJob(w)
      PROVE  UNCHANGED Service!vars
  <2>1. PICK i \in DOMAIN queuedJobs :
            /\ running' = [running EXCEPT ![w] = queuedJobs[i]]
            /\ queuedJobs' = RemoveAt(queuedJobs, i)
    BY <1>7 DEF TakeJob
  <2>2. queuedJobs[i] # NoJob /\ w \notin Busy
    BY <1>1, <1>7, BestIsQueued, JobFacts DEF TakeJob, Busy, StagesAgree
  <2>3. /\ Busy' = Busy \cup {w}
        /\ running'[w] = queuedJobs[i] /\ \A v \in Busy : running'[v] = running[v]
    BY <1>1, <2>1, <2>2 DEF Busy, TypeOK
  <2>4. HeldIds' = HeldIds \cup {queuedJobs[i].id}
    BY <2>2, <2>3 DEF HeldIds
  <2>5. QueuedIds' = QueuedIds \ {queuedJobs[i].id} /\ queuedJobs[i].id \in QueuedIds
    BY <1>1, <2>1, TakenFromQueue, TypeStep DEF JobsApart, ServiceInv
  <2>6. Owed' = Owed
    BY <2>4, <2>5 DEF Owed
  <2> QED
    BY <1>2, <1>3, <1>7, <2>6 DEF TakeJob, Phase
<1>8. ASSUME NEW w \in Workers, Publish(w) \/ Discard(w)
      PROVE  Service!Next
  <2>1. w \in Busy /\ running[w] \in Job /\ running[w].id \in JobIds
    BY <1>1, <1>8, JobFacts DEF Publish, Discard, Busy, StagesAgree, TypeOK
  <2>2. /\ Busy' = Busy \ {w} /\ \A v \in Busy' : running'[v] = running[v]
        /\ QueuedIds' = QueuedIds
    BY <1>1, <1>8 DEF Publish, Discard, Busy, TypeOK, QueuedIds
  <2>3. HeldIds' = HeldIds \ {running[w].id} /\ running[w].id \in HeldIds
    BY <1>1, <2>1, <2>2 DEF HeldIds, JobsApart
  <2>4. Owed' = Owed \ {running[w].id} /\ running[w].id \in Owed
    BY <1>1, <2>2, <2>3 DEF Owed, JobsApart
  <2>5. Phase' = Phase /\ Phase # "closed" /\ destruction # "joined"
    BY <1>1, <1>4, <1>8 DEF Publish, Discard, Phase, StagesAgree
  <2>6. CASE Publish(w)
    <3>1. results' = Append(results, [job |-> running[w].id,
                                      order |-> Len(drained) + Len(results) + 1])
      BY <1>1, <2>6 DEF Publish, ResultsAreNumbered
    <3>2. Len(results) < MaxCompleted
      BY <1>1, <2>6 DEF Publish, Full
    <3>3. PICK id \in JobIds : id = running[w].id
      BY <2>1
    <3>4. Service!Publish(id)
      BY <2>4, <2>5, <2>6, <3>1, <3>2, <3>3
         DEF Service!Publish, Publish, Owed, QueuedIds, HeldIds, Phase
    <3> QED
      BY <3>4 DEF Service!Next
  <2>7. CASE Discard(w)
    <3>1. Phase = "closing"
      BY <1>4, <2>5, <2>7 DEF Discard
    <3>2. PICK id \in JobIds : id = running[w].id
      BY <2>1
    <3>3. Service!GiveUp(id)
      BY <2>4, <2>5, <2>7, <3>1, <3>2
         DEF Service!GiveUp, Discard, Full, Owed, QueuedIds, HeldIds, Phase
    <3> QED
      BY <3>3 DEF Service!Next
  <2> QED
    BY <1>8, <2>6, <2>7
<1>9. ASSUME StoreStopping
      PROVE  Service!Next
  <2>1. Phase = "open" /\ Phase' = "closing" /\ Owed' = Owed
    BY <1>9 DEF StoreStopping, Phase, Owed, QueuedIds, HeldIds, Busy
  <2>2. Service!Close
    BY <1>9, <2>1 DEF Service!Close, StoreStopping, Owed, QueuedIds, HeldIds, Phase
  <2> QED
    BY <2>2 DEF Service!Next
<1>10. ASSUME NotifyWorkers \/ NotifyPublishers
       PROVE  UNCHANGED Service!vars
  <2>1. Phase' = Phase /\ Owed' = Owed
    BY <1>10 DEF NotifyWorkers, NotifyPublishers, Phase, Owed, QueuedIds, HeldIds, Busy
  <2> QED
    BY <1>2, <1>3, <1>10, <2>1 DEF NotifyWorkers, NotifyPublishers
<1>11. ASSUME Join
       PROVE  Service!Next
  <2>1. Phase = "closing" /\ Phase' = "closed" /\ Owed' = Owed
    BY <1>11 DEF Join, Phase, Owed, QueuedIds, HeldIds, Busy
  <2>2. queuedJobs = <<>> /\ Busy = {}
    BY <1>1, <1>11 DEF Join, StagesAgree, Busy
  <2>3. Owed = {}
    BY <2>2 DEF Owed, QueuedIds, HeldIds, ToSet
  <2>4. Service!Closed
    BY <1>11, <2>1, <2>3 DEF Service!Closed, Join, Owed, QueuedIds, HeldIds, Phase
  <2> QED
    BY <2>4 DEF Service!Next
<1>12. ASSUME UNCHANGED <<queuedJobs, running, results, drained, discarded, destruction>>
       PROVE  UNCHANGED Service!vars
  <2>1. Phase' = Phase /\ Owed' = Owed
    BY <1>12 DEF Phase, Owed, QueuedIds, HeldIds, Busy
  <2> QED
    BY <1>2, <1>3, <1>12, <2>1
<1> QED
  BY <1>5, <1>6, <1>7, <1>8, <1>9, <1>10, <1>11, <1>12
     DEF Next, Submit, WorkerLoop, PublishResult, DestroyPool, Reserve,
         RefuseWhileStopping, NotifyOne, NotifySpace, Doze, FallAsleep, Exit, FinishWork,
         FindFull, AwaitSpace, WakeSpuriously, vars, counters

\* For every set of threads and every bound the thread pool is a job service:
\* an accepted job gets exactly one numbered result, the mailbox stays within
\* its bound, only a closing pool with a full mailbox gives a result up, and
\* the destructor returns when nothing is owed.
THEOREM PoolImplementsService == Spec => ImplementsJobService
<1>1. Init => Service!Init
  <2> SUFFICES ASSUME Init
               PROVE  Service!Init
    OBVIOUS
  <2>1. ToSet(queuedJobs) = {} /\ Busy = {}
    BY DEF Init, ToSet, Busy
  <2> QED
    BY <2>1 DEF Init, Service!Init
<1>2. ServiceInv /\ [Next]_vars => [Service!Next]_(Service!vars)
  BY ServiceStep
<1> QED
  BY <1>1, <1>2, ServiceInvariant, PTL DEF Spec, ImplementsJobService, Service!Spec

=============================================================================
