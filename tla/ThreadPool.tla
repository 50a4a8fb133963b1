----------------------------- MODULE ThreadPool -----------------------------
(* The worker-thread backend of IJobSystem                                   *)
(* (engine/jobs/thread_pool/thread_pool_backend.cpp).  Callers submit and      *)
(* drain, workers run the queued callbacks and publish their results, and the  *)
(* owner destroys the pool.  A callback may itself submit or drain.            *)
(*                                                                            *)
(* Two mutexes are modelled by the only states in which another thread can     *)
(* observe them held: a worker whose wait predicate was false but which has    *)
(* not yet blocked ("dozing" holds jobs_mutex_, "foundFull" holds              *)
(* completed_mutex_).  Every other critical section is one action, enabled     *)
(* when no worker is in that state.  A wakeup reaches only the threads that    *)
(* have already blocked, and a blocked thread may also wake for no reason.     *)
EXTENDS Naturals, FiniteSets, Sequences, SequencesExt

CONSTANTS Callers,       \* threads that use the pool from outside
          Workers,       \* the pool's threads (desc.worker_count of them)
          Priorities,    \* ranks of JobPriority
          LastJobId,     \* stands for the largest 64-bit id
          MaxCompleted   \* desc.max_completed_results

ASSUME PoolAssumption ==
    /\ IsFiniteSet(Callers) /\ IsFiniteSet(Workers)
    /\ Workers # {}
    /\ Callers \cap Workers = {}
    /\ Priorities \subseteq Nat /\ Priorities # {}
    /\ LastJobId \in Nat \ {0}
    /\ MaxCompleted \in Nat \ {0}

VARIABLES
    nextJobId,   \* next_job_id_, 0 once the range is exhausted
    queuedJobs,  \* queued_jobs_
    submitted,   \* submitted_count_
    pending,     \* pending_count_
    completed,   \* completed_count_
    results,     \* completed_results_, the bounded mailbox
    stopping,    \* stopping_
    worker,      \* where each worker is in worker_loop and publish_result
    running,     \* the job a worker has taken and not yet disposed of
    call,        \* where each thread is in a call of the pool's interface
    offer,       \* the job a thread's submit call is handing in
    destruction, \* where the owner is in the destructor
    drained,     \* every result handed to a caller, in order
    discarded    \* ids of the jobs whose result was thrown away

counters == <<submitted, pending, completed>>
vars == <<nextJobId, queuedJobs, counters, results, stopping, worker, running,
          call, offer, destruction, drained, discarded>>

Threads == Callers \cup Workers
JobIds == 1..LastJobId
Job == [id : JobIds, priority : Priorities]
NoJob == [id |-> 0, priority |-> 0]
JobResults == [job : JobIds, order : Nat \ {0}]

WorkerStages == {"ready", "dozing", "asleep", "working", "publishing",
                 "foundFull", "awaitingSpace", "done"}
CallStages == {"outside", "reserved", "queued", "drained"}
DestructionStages == {"alive", "stopping", "workersNotified", "joining", "joined"}

JobsMutexFree == \A w \in Workers : worker[w] # "dozing"
CompletedMutexFree == \A w \in Workers : worker[w] # "foundFull"
Full == Len(results) >= MaxCompleted

Init ==
    /\ nextJobId \in JobIds
    /\ queuedJobs = <<>>
    /\ submitted = 0
    /\ pending = 0
    /\ completed = 0
    /\ results = <<>>
    /\ stopping = FALSE
    /\ worker = [w \in Workers |-> "ready"]
    /\ running = [w \in Workers |-> NoJob]
    /\ call = [t \in Threads |-> "outside"]
    /\ offer = [t \in Threads |-> NoJob]
    /\ destruction = "alive"
    /\ drained = <<>>
    /\ discarded = {}

-----------------------------------------------------------------------------
(* submit                                                                     *)

\* A caller may use the pool until its owner destroys it, a worker only from
\* inside a callback.
MayCall(t) ==
    /\ call[t] = "outside"
    /\ \/ t \in Callers /\ destruction = "alive"
       \/ t \in Workers /\ worker[t] = "working"

\* Faulty variant: the largest id is not the last.
SuccessorUnchecked(id) == id + 1

SuccessorId(id) == IF id = LastJobId THEN 0 ELSE id + 1

\* The capacity check under completed_mutex_ and the reservation of an id.  A
\* full mailbox or an exhausted range fails the call and changes nothing.
Reserve(t) ==
    /\ MayCall(t)
    /\ CompletedMutexFree
    /\ ~Full
    /\ nextJobId # 0
    /\ \E priority \in Priorities :
           offer' = [offer EXCEPT ![t] = [id |-> nextJobId, priority |-> priority]]
    /\ nextJobId' = SuccessorId(nextJobId)
    /\ call' = [call EXCEPT ![t] = "reserved"]
    /\ UNCHANGED <<queuedJobs, counters, results, stopping, worker, running,
                   destruction, drained, discarded>>

\* Faulty variant: the job is pushed without jobs_mutex_.
EnqueueUnlocked(t) ==
    /\ call[t] = "reserved"
    /\ ~stopping
    /\ queuedJobs' = Append(queuedJobs, offer[t])
    /\ submitted' = submitted + 1
    /\ pending' = pending + 1
    /\ offer' = [offer EXCEPT ![t] = NoJob]
    /\ call' = [call EXCEPT ![t] = "queued"]
    /\ UNCHANGED <<nextJobId, completed, results, stopping, worker, running,
                   destruction, drained, discarded>>

Enqueue(t) ==
    /\ call[t] = "reserved"
    /\ JobsMutexFree
    /\ ~stopping
    /\ queuedJobs' = Append(queuedJobs, offer[t])
    /\ submitted' = submitted + 1
    /\ pending' = pending + 1
    /\ offer' = [offer EXCEPT ![t] = NoJob]
    /\ call' = [call EXCEPT ![t] = "queued"]
    /\ UNCHANGED <<nextJobId, completed, results, stopping, worker, running,
                   destruction, drained, discarded>>

\* jobs.stopping: the reserved id is never used.
RefuseWhileStopping(t) ==
    /\ call[t] = "reserved"
    /\ JobsMutexFree
    /\ stopping
    /\ offer' = [offer EXCEPT ![t] = NoJob]
    /\ call' = [call EXCEPT ![t] = "outside"]
    /\ UNCHANGED <<nextJobId, queuedJobs, counters, results, stopping, worker,
                   running, destruction, drained, discarded>>

\* Faulty variant: a submit that does not notify.
NotifyNobody(t) ==
    /\ call[t] = "queued"
    /\ call' = [call EXCEPT ![t] = "outside"]
    /\ UNCHANGED <<nextJobId, queuedJobs, counters, results, stopping, worker,
                   running, offer, destruction, drained, discarded>>

\* jobs_ready_.notify_one, after jobs_mutex_ is released.
NotifyOne(t) ==
    /\ call[t] = "queued"
    /\ call' = [call EXCEPT ![t] = "outside"]
    /\ \/ \E w \in Workers :
              /\ worker[w] = "asleep"
              /\ worker' = [worker EXCEPT ![w] = "ready"]
       \/ /\ \A w \in Workers : worker[w] # "asleep"
          /\ UNCHANGED worker
    /\ UNCHANGED <<nextJobId, queuedJobs, counters, results, stopping, running,
                   offer, destruction, drained, discarded>>

-----------------------------------------------------------------------------
(* drain_completed                                                            *)

Drain(t) ==
    /\ MayCall(t)
    /\ CompletedMutexFree
    /\ drained' = drained \o results
    /\ results' = <<>>
    /\ call' = [call EXCEPT ![t] = "drained"]
    /\ UNCHANGED <<nextJobId, queuedJobs, counters, stopping, worker, running,
                   offer, destruction, discarded>>

WakeAll(from, to) ==
    worker' = [w \in Workers |-> IF worker[w] = from THEN to ELSE worker[w]]

\* Faulty variant: a drain that does not notify the waiting publishers.
NotifyNoSpace(t) ==
    /\ call[t] = "drained"
    /\ call' = [call EXCEPT ![t] = "outside"]
    /\ UNCHANGED <<nextJobId, queuedJobs, counters, results, stopping, worker,
                   running, offer, destruction, drained, discarded>>

NotifySpace(t) ==
    /\ call[t] = "drained"
    /\ WakeAll("awaitingSpace", "publishing")
    /\ call' = [call EXCEPT ![t] = "outside"]
    /\ UNCHANGED <<nextJobId, queuedJobs, counters, results, stopping, running,
                   offer, destruction, drained, discarded>>

-----------------------------------------------------------------------------
(* worker_loop and take_next_job                                              *)

\* max_element: the first queued job of the highest priority.
Best(i) ==
    /\ i \in DOMAIN queuedJobs
    /\ \A j \in DOMAIN queuedJobs :
           /\ queuedJobs[j].priority <= queuedJobs[i].priority
           /\ j < i => queuedJobs[j].priority < queuedJobs[i].priority

TakeJob(w) ==
    /\ worker[w] = "ready"
    /\ JobsMutexFree
    /\ \E i \in DOMAIN queuedJobs :
           /\ Best(i)
           /\ running' = [running EXCEPT ![w] = queuedJobs[i]]
           /\ queuedJobs' = RemoveAt(queuedJobs, i)
    /\ worker' = [worker EXCEPT ![w] = "working"]
    /\ UNCHANGED <<nextJobId, counters, results, stopping, call, offer,
                   destruction, drained, discarded>>

\* The wait predicate is false; the worker still holds jobs_mutex_.
Doze(w) ==
    /\ worker[w] = "ready"
    /\ JobsMutexFree
    /\ ~stopping
    /\ queuedJobs = <<>>
    /\ worker' = [worker EXCEPT ![w] = "dozing"]
    /\ UNCHANGED <<nextJobId, queuedJobs, counters, results, stopping, running,
                   call, offer, destruction, drained, discarded>>

FallAsleep(w) ==
    /\ worker[w] = "dozing"
    /\ worker' = [worker EXCEPT ![w] = "asleep"]
    /\ UNCHANGED <<nextJobId, queuedJobs, counters, results, stopping, running,
                   call, offer, destruction, drained, discarded>>

\* Faulty variant: a stopping worker leaves without looking at the queue.
ExitWithWorkLeft(w) ==
    /\ worker[w] = "ready"
    /\ JobsMutexFree
    /\ stopping
    /\ worker' = [worker EXCEPT ![w] = "done"]
    /\ UNCHANGED <<nextJobId, queuedJobs, counters, results, stopping, running,
                   call, offer, destruction, drained, discarded>>

Exit(w) ==
    /\ worker[w] = "ready"
    /\ JobsMutexFree
    /\ stopping
    /\ queuedJobs = <<>>
    /\ worker' = [worker EXCEPT ![w] = "done"]
    /\ UNCHANGED <<nextJobId, queuedJobs, counters, results, stopping, running,
                   call, offer, destruction, drained, discarded>>

\* The callback returns, fails or throws: each way a result is published.
FinishWork(w) ==
    /\ worker[w] = "working"
    /\ call[w] = "outside"
    /\ worker' = [worker EXCEPT ![w] = "publishing"]
    /\ UNCHANGED <<nextJobId, queuedJobs, counters, results, stopping, running,
                   call, offer, destruction, drained, discarded>>

-----------------------------------------------------------------------------
(* publish_result                                                             *)

Publish(w) ==
    /\ worker[w] = "publishing"
    /\ CompletedMutexFree
    /\ ~Full
    /\ results' = Append(results, [job |-> running[w].id, order |-> completed + 1])
    /\ pending' = pending - 1
    /\ completed' = completed + 1
    /\ running' = [running EXCEPT ![w] = NoJob]
    /\ worker' = [worker EXCEPT ![w] = "ready"]
    /\ UNCHANGED <<nextJobId, queuedJobs, submitted, stopping, call, offer,
                   destruction, drained, discarded>>

\* Faulty variant: a discarded result stays counted as pending.
DiscardStillPending(w) ==
    /\ worker[w] = "publishing"
    /\ CompletedMutexFree
    /\ stopping
    /\ Full
    /\ discarded' = discarded \cup {running[w].id}
    /\ running' = [running EXCEPT ![w] = NoJob]
    /\ worker' = [worker EXCEPT ![w] = "ready"]
    /\ UNCHANGED <<nextJobId, queuedJobs, counters, results, stopping, call,
                   offer, destruction, drained>>

\* The result is dropped so that destruction can join.
Discard(w) ==
    /\ worker[w] = "publishing"
    /\ CompletedMutexFree
    /\ stopping
    /\ Full
    /\ pending' = pending - 1
    /\ discarded' = discarded \cup {running[w].id}
    /\ running' = [running EXCEPT ![w] = NoJob]
    /\ worker' = [worker EXCEPT ![w] = "ready"]
    /\ UNCHANGED <<nextJobId, queuedJobs, submitted, completed, results,
                   stopping, call, offer, destruction, drained>>

\* The wait predicate is false; the worker still holds completed_mutex_.
FindFull(w) ==
    /\ worker[w] = "publishing"
    /\ CompletedMutexFree
    /\ ~stopping
    /\ Full
    /\ worker' = [worker EXCEPT ![w] = "foundFull"]
    /\ UNCHANGED <<nextJobId, queuedJobs, counters, results, stopping, running,
                   call, offer, destruction, drained, discarded>>

AwaitSpace(w) ==
    /\ worker[w] = "foundFull"
    /\ worker' = [worker EXCEPT ![w] = "awaitingSpace"]
    /\ UNCHANGED <<nextJobId, queuedJobs, counters, results, stopping, running,
                   call, offer, destruction, drained, discarded>>

\* A condition variable may return without a notification.
WakeSpuriously(w) ==
    /\ \/ worker[w] = "asleep" /\ worker' = [worker EXCEPT ![w] = "ready"]
       \/ worker[w] = "awaitingSpace"
          /\ worker' = [worker EXCEPT ![w] = "publishing"]
    /\ UNCHANGED <<nextJobId, queuedJobs, counters, results, stopping, running,
                   call, offer, destruction, drained, discarded>>

-----------------------------------------------------------------------------
(* The destructor.  No caller is inside the pool any more; stopping_ is an     *)
(* atomic stored without either mutex.                                        *)

StoreStopping ==
    /\ destruction = "alive"
    /\ \A c \in Callers : call[c] = "outside"
    /\ stopping' = TRUE
    /\ destruction' = "stopping"
    /\ UNCHANGED <<nextJobId, queuedJobs, counters, results, worker, running,
                   call, offer, drained, discarded>>

NotifyWorkers ==
    /\ destruction = "stopping"
    /\ WakeAll("asleep", "ready")
    /\ destruction' = "workersNotified"
    /\ UNCHANGED <<nextJobId, queuedJobs, counters, results, stopping, running,
                   call, offer, drained, discarded>>

NotifyPublishers ==
    /\ destruction = "workersNotified"
    /\ WakeAll("awaitingSpace", "publishing")
    /\ destruction' = "joining"
    /\ UNCHANGED <<nextJobId, queuedJobs, counters, results, stopping, running,
                   call, offer, drained, discarded>>

Join ==
    /\ destruction = "joining"
    /\ \A w \in Workers : worker[w] = "done"
    /\ destruction' = "joined"
    /\ UNCHANGED <<nextJobId, queuedJobs, counters, results, stopping, worker,
                   running, call, offer, drained, discarded>>

DestroyPool == StoreStopping \/ NotifyWorkers \/ NotifyPublishers \/ Join

Submit(t) == Reserve(t) \/ Enqueue(t) \/ RefuseWhileStopping(t) \/ NotifyOne(t)

WorkerLoop(w) ==
    TakeJob(w) \/ Doze(w) \/ FallAsleep(w) \/ Exit(w) \/ FinishWork(w)

PublishResult(w) == Publish(w) \/ Discard(w) \/ FindFull(w) \/ AwaitSpace(w)

Next ==
    \/ \E t \in Threads : Submit(t) \/ Drain(t) \/ NotifySpace(t)
    \/ \E w \in Workers : WorkerLoop(w) \/ PublishResult(w) \/ WakeSpuriously(w)
    \/ DestroyPool

Spec == Init /\ [][Next]_vars

\* A thread that can run eventually runs and a mutex is eventually granted
\* (strong fairness: another worker may hold it now and then).  Callers need
\* not submit nor the owner destroy, but a call that started goes on, and a
\* caller keeps draining, as docs/architecture/jobs.md asks.  No wakeup is
\* ever assumed to come spuriously.
Fairness ==
    /\ \A w \in Workers : SF_vars(WorkerLoop(w) \/ PublishResult(w))
    /\ \A t \in Threads :
           SF_vars(Enqueue(t) \/ RefuseWhileStopping(t) \/ NotifyOne(t) \/ NotifySpace(t))
    /\ \A c \in Callers : SF_vars(Drain(c))
    /\ WF_vars(NotifyWorkers \/ NotifyPublishers \/ Join)

FairSpec == Spec /\ Fairness

-----------------------------------------------------------------------------
(* Properties                                                                 *)

TypeOK ==
    /\ nextJobId \in 0..LastJobId
    /\ queuedJobs \in Seq(Job)
    /\ submitted \in Nat
    /\ pending \in Nat
    /\ completed \in Nat
    /\ results \in Seq(JobResults)
    /\ stopping \in BOOLEAN
    /\ worker \in [Workers -> WorkerStages]
    /\ running \in [Workers -> Job \cup {NoJob}]
    /\ call \in [Threads -> CallStages]
    /\ offer \in [Threads -> Job \cup {NoJob}]
    /\ destruction \in DestructionStages
    /\ drained \in Seq(JobResults)
    /\ discarded \subseteq JobIds

\* notify_one is enough: as long as some worker sleeps, each queued job has a
\* wakeup of its own, a worker already on its way to the queue or a submitter
\* that has queued the job and not yet notified.
Idle == {w \in Workers : worker[w] \in {"dozing", "asleep"}}
Ready == {w \in Workers : worker[w] = "ready"}
Notifying == {t \in Threads : call[t] = "queued"}

NoIdleWorkerOwedAJob ==
    Idle # {} => Len(queuedJobs) <= Cardinality(Ready) + Cardinality(Notifying)

\* pending_count is the number of jobs accepted and not yet published or
\* discarded, in the queue or in a worker's hands (docs/architecture/jobs.md),
\* and the decrement of publish_result never takes it below zero.
Busy == {w \in Workers : running[w] # NoJob}

PendingCountsTheUnfinished == pending = Len(queuedJobs) + Cardinality(Busy)

\* The service IJobSystem promises: every accepted job gets one result, in a
\* mailbox that never exceeds its bound, and the destructor returns only when
\* nothing is owed.
Service ==
    INSTANCE JobService WITH
        Jobs <- JobIds,
        Capacity <- MaxCompleted,
        owed <- {job.id : job \in ToSet(queuedJobs)}
                  \cup {running[w].id : w \in Busy},
        mailbox <- results,
        delivered <- drained,
        dropped <- discarded,
        phase <- CASE destruction = "alive" -> "open"
                   [] destruction = "joined" -> "closed"
                   [] OTHER -> "closing"

ImplementsJobService == Service!Spec

\* A queued job is taken by a worker, unless the pool is being destroyed: no
\* wakeup is lost between submit and a worker that is just going to sleep.
QueuedJobsAreTaken ==
    \A id \in JobIds :
        (\E i \in DOMAIN queuedJobs : queuedJobs[i].id = id) ~>
            (stopping \/ \A i \in DOMAIN queuedJobs : queuedJobs[i].id # id)

\* A result that found the mailbox full is published once a caller drains.
ResultsGetPublished ==
    \A w \in Workers :
        (worker[w] \in {"publishing", "foundFull", "awaitingSpace"}) ~>
            (stopping \/ worker[w] = "ready")

\* docs/architecture/jobs.md: "discarded so destruction can join rather than
\* deadlock".  Once the destructor has begun it returns.
DestructionJoins == (destruction = "stopping") ~> (destruction = "joined")

=============================================================================
