----------------------------- MODULE ThreadPool -----------------------------
(***************************************************************************)
(* The worker pool of src/import/thpool.c: a job queue guarded by rwmutex, *)
(* a binary semaphore has_jobs built from a mutex and a condition          *)
(* variable, detached worker threads, and the single client thread         *)
(* (CommUnit_routine) that creates the pool, hands it jobs and destroys it.*)
(*                                                                         *)
(* A step is a critical section, or what a thread does between two of      *)
(* them.  The critical section of jobqueue_push, and the branch of         *)
(* jobqueue_pull that posts, are cut in two where they take the semaphore's*)
(* own mutex: a worker may take the token in between.                      *)
(***************************************************************************)
EXTENDS Integers, Sequences, FiniteSets

CONSTANTS
  Workers,            \* the threads thpool_init creates
  Jobs,               \* the jobs the client may hand over, each at most once
  None,               \* "no job"
  CountLockExcludes   \* does thcount_lock exclude?  thpool_init initializes
                      \* it as a mutex and then, with pthread_cond_init, as a
                      \* condition variable: locking it is undefined, and
                      \* both outcomes are modelled

ASSUME PoolAssumption ==
  /\ IsFiniteSet(Workers)
  /\ Workers # {}
  /\ None \notin Jobs
  /\ CountLockExcludes \in BOOLEAN

VARIABLES
  cpc,                \* where the client thread is
  num_threads_alive,  \* polled by thpool_init and thpool_destroy, unlocked
  threads_keepalive,
  jobqueue,           \* front first
  has_jobs,           \* the value v of the binary semaphore
  pc,                 \* where each worker is
  seen,               \* the num_threads_alive a worker has read and not yet
                      \* written back
  job,                \* the job each worker has pulled
  submitted,          \* ghost: jobs passed to thpool_add_work
  done,               \* ghost: jobs whose function returned
  lost                \* ghost: jobs refused by thpool_add_work, or thrown
                      \* away by jobqueue_clear

vars == <<cpc, num_threads_alive, threads_keepalive, jobqueue, has_jobs, pc,
          seen, job, submitted, done, lost>>

clientVars == <<cpc, submitted, lost>>
queueVars  == <<jobqueue, job, done>>
countVars  == <<num_threads_alive, seen>>

Queued  == {jobqueue[i] : i \in DOMAIN jobqueue}
Running == {job[w] : w \in Workers} \ {None}

\* rwmutex is held by a push that has yet to post, or by a pull that has.
RwmutexFree == cpc # "posting" /\ \A w \in Workers : pc[w] # "repost"

TypeOK ==
  /\ cpc \in {"init", "serving", "posting", "draining", "clearing", "freeing",
              "freed", "broken"}
  /\ num_threads_alive \in Int
  /\ threads_keepalive \in BOOLEAN
  /\ jobqueue \in Seq(Jobs)
  /\ has_jobs \in {0, 1}
  /\ pc \in [Workers -> {"boot", "inc", "loop", "wait", "asleep", "check",
                         "pull", "repost", "run", "leave", "dec",
                         "unlock", "gone"}]
  /\ seen \in [Workers -> Int]
  /\ job \in [Workers -> Jobs \cup {None}]
  /\ submitted \subseteq Jobs
  /\ done \subseteq Jobs
  /\ lost \subseteq Jobs

Init ==
  /\ cpc = "init"
  /\ num_threads_alive = 0
  /\ threads_keepalive = TRUE
  /\ jobqueue = <<>>
  /\ has_jobs = 0
  /\ pc = [w \in Workers |-> "boot"]
  /\ seen = [w \in Workers |-> 0]
  /\ job = [w \in Workers |-> None]
  /\ submitted = {}
  /\ done = {}
  /\ lost = {}

-----------------------------------------------------------------------------
(* Wrong variants of definitions below, one plausible bug each; only the   *)
(* mutation tests of the properties use them.                              *)

Mutant_Signal(p) == pc' = p
Mutant_Waking == {}
Mutant_MoreToPull == FALSE
Mutant_Remaining == jobqueue
Mutant_AllExited == num_threads_alive <= 1

-----------------------------------------------------------------------------
(* bsem_post: pthread_cond_signal wakes a sleeper when there is one; p is  *)
(* the workers' program counter once the poster has moved on.              *)
Asleep(p) == {w \in Workers : p[w] = "asleep"}

Signal(p) ==
  IF Asleep(p) = {}
  THEN pc' = p
  ELSE \E w \in Asleep(p) : pc' = [p EXCEPT ![w] = "wait"]

\* The sleepers pthread_cond_broadcast wakes.
Waking == Asleep(pc)

Goto(w, l) == pc' = [pc EXCEPT ![w] = l]

-----------------------------------------------------------------------------
(* The client.                                                             *)

\* thpool_init returns once it has seen every thread counted.
InitReturn ==
  /\ cpc = "init"
  /\ num_threads_alive = Cardinality(Workers)
  /\ cpc' = "serving"
  /\ UNCHANGED <<submitted, lost, threads_keepalive, has_jobs, pc>>
  /\ UNCHANGED <<queueVars, countVars>>

\* thpool_add_work without a free slot for the job: it returns -1.
AddWorkRefused(j) ==
  /\ cpc = "serving"
  /\ j \notin submitted
  /\ submitted' = submitted \cup {j}
  /\ lost' = lost \cup {j}
  /\ UNCHANGED <<cpc, threads_keepalive, has_jobs, pc>>
  /\ UNCHANGED <<queueVars, countVars>>

\* thpool_add_work up to the bsem_post in jobqueue_push.
AddWork(j) ==
  /\ cpc = "serving"
  /\ RwmutexFree
  /\ j \notin submitted
  /\ submitted' = submitted \cup {j}
  /\ jobqueue' = Append(jobqueue, j)
  /\ cpc' = "posting"
  /\ UNCHANGED <<lost, threads_keepalive, has_jobs, pc, job, done>>
  /\ UNCHANGED countVars

PushPost ==
  /\ cpc = "posting"
  /\ has_jobs' = 1
  /\ Signal(pc)
  /\ cpc' = "serving"
  /\ UNCHANGED <<submitted, lost, threads_keepalive>>
  /\ UNCHANGED <<queueVars, countVars>>

\* thpool_destroy up to its polling loops.
Destroy ==
  /\ cpc = "serving"
  /\ threads_keepalive' = FALSE
  /\ cpc' = "draining"
  /\ UNCHANGED <<submitted, lost, has_jobs, pc>>
  /\ UNCHANGED <<queueVars, countVars>>

\* One bsem_post_all of either polling loop.
DrainPost ==
  /\ cpc = "draining"
  /\ num_threads_alive # 0
  /\ has_jobs' = 1
  /\ pc' = [w \in Workers |-> IF w \in Waking THEN "wait" ELSE pc[w]]
  /\ UNCHANGED threads_keepalive
  /\ UNCHANGED <<clientVars, queueVars, countVars>>

AllExited == num_threads_alive = 0

\* The second polling loop ends.
Drained ==
  /\ cpc = "draining"
  /\ AllExited
  /\ cpc' = "clearing"
  /\ UNCHANGED <<submitted, lost, threads_keepalive, has_jobs, pc>>
  /\ UNCHANGED <<queueVars, countVars>>

\* jobqueue_destroy throws the queued jobs away; then the array of threads is
\* freed.
Clear ==
  /\ cpc = "clearing"
  /\ lost' = lost \cup Queued
  /\ jobqueue' = <<>>
  /\ has_jobs' = 0
  /\ cpc' = "freeing"
  /\ UNCHANGED <<submitted, threads_keepalive, pc, job, done>>
  /\ UNCHANGED countVars

\* The memory pool is destroyed, the array of threads is freed a second time
\* and then the thpool_ itself.  A second free is undefined: glibc aborts the
\* process, "broken", when it notices.
Free ==
  /\ cpc = "freeing"
  /\ cpc' \in {"freed", "broken"}
  /\ UNCHANGED <<submitted, lost, threads_keepalive, has_jobs, pc>>
  /\ UNCHANGED <<queueVars, countVars>>

-----------------------------------------------------------------------------
(* A worker, thread_do.                                                    *)

CountLockFree(w) ==
  CountLockExcludes =>
    \A u \in Workers \ {w} : pc[u] \notin {"inc", "dec", "unlock"}

\* Lock thcount_lock and read num_threads_alive, to increment or decrement.
ReadAlive(w, from, to) ==
  /\ pc[w] = from
  /\ CountLockFree(w)
  /\ seen' = [seen EXCEPT ![w] = num_threads_alive]
  /\ Goto(w, to)
  /\ UNCHANGED <<num_threads_alive, threads_keepalive, has_jobs>>
  /\ UNCHANGED <<clientVars, queueVars>>

WriteAlive(w, from, delta, to) ==
  /\ pc[w] = from
  /\ num_threads_alive' = seen[w] + delta
  /\ seen' = [seen EXCEPT ![w] = 0]
  /\ Goto(w, to)
  /\ UNCHANGED <<threads_keepalive, has_jobs>>
  /\ UNCHANGED <<clientVars, queueVars>>

CountIn(w) == ReadAlive(w, "boot", "inc") \/ WriteAlive(w, "inc", 1, "loop")
CountOut(w) == ReadAlive(w, "leave", "dec")
               \/ WriteAlive(w, "dec", -1, "unlock")

\* The last access of a worker to the pool: unlocking thcount_lock.
Unlock(w) ==
  /\ pc[w] = "unlock"
  /\ cpc # "broken"
  /\ Goto(w, "gone")
  /\ UNCHANGED <<threads_keepalive, has_jobs>>
  /\ UNCHANGED <<clientVars, queueVars, countVars>>

\* The tests of threads_keepalive before and after bsem_wait.
TestKeepalive(w) ==
  /\ \/ pc[w] = "loop" /\ Goto(w, IF threads_keepalive THEN "wait" ELSE "leave")
     \/ pc[w] = "check" /\ Goto(w, IF threads_keepalive THEN "pull" ELSE "loop")
  /\ UNCHANGED <<threads_keepalive, has_jobs>>
  /\ UNCHANGED <<clientVars, queueVars, countVars>>

TokenLeft == 0

\* bsem_wait: take the token, or release the mutex and sleep on the condition.
BsemWait(w) ==
  /\ pc[w] = "wait"
  /\ has_jobs' = TokenLeft
  /\ Goto(w, IF has_jobs = 1 THEN "check" ELSE "asleep")
  /\ UNCHANGED threads_keepalive
  /\ UNCHANGED <<clientVars, queueVars, countVars>>

\* pthread_cond_wait may return although nobody posted.
SpuriousWakeup(w) ==
  /\ pc[w] = "asleep"
  /\ Goto(w, "wait")
  /\ UNCHANGED <<threads_keepalive, has_jobs>>
  /\ UNCHANGED <<clientVars, queueVars, countVars>>

Remaining == Tail(jobqueue)
MoreToPull == Len(jobqueue) > 1

\* jobqueue_pull, up to its bsem_post when it leaves jobs behind.
Pull(w) ==
  /\ pc[w] = "pull"
  /\ RwmutexFree
  /\ IF jobqueue = <<>>
     THEN /\ Goto(w, "loop")
          /\ UNCHANGED <<jobqueue, job>>
     ELSE /\ job' = [job EXCEPT ![w] = Head(jobqueue)]
          /\ jobqueue' = Remaining
          /\ Goto(w, IF MoreToPull THEN "repost" ELSE "run")
  /\ UNCHANGED <<threads_keepalive, has_jobs, done>>
  /\ UNCHANGED <<clientVars, countVars>>

Repost(w) ==
  /\ pc[w] = "repost"
  /\ has_jobs' = 1
  /\ Signal([pc EXCEPT ![w] = "run"])
  /\ UNCHANGED threads_keepalive
  /\ UNCHANGED <<clientVars, queueVars, countVars>>

\* The job's function returns and its slot goes back to the memory pool.
Finish(w) ==
  /\ pc[w] = "run"
  /\ done' = done \cup {job[w]}
  /\ job' = [job EXCEPT ![w] = None]
  /\ Goto(w, "loop")
  /\ UNCHANGED <<jobqueue, threads_keepalive, has_jobs>>
  /\ UNCHANGED <<clientVars, countVars>>

-----------------------------------------------------------------------------
\* Everything a worker does by itself: all but the job's function and the
\* wakeups the operating system may invent.
WorkerStep(w) ==
  \/ CountIn(w)
  \/ TestKeepalive(w)
  \/ BsemWait(w)
  \/ Pull(w)
  \/ Repost(w)
  \/ CountOut(w)
  \/ Unlock(w)

\* What the client does without being asked to.
ClientStep == InitReturn \/ PushPost \/ DrainPost \/ Drained \/ Clear \/ Free

Terminated ==
  /\ \/ cpc = "freed" /\ \A w \in Workers : pc[w] = "gone"
     \/ cpc = "broken"
  /\ UNCHANGED vars

Next ==
  \/ ClientStep
  \/ Destroy
  \/ \E j \in Jobs : AddWork(j) \/ AddWorkRefused(j)
  \/ \E w \in Workers : WorkerStep(w) \/ Finish(w) \/ SpuriousWakeup(w)
  \/ Terminated

Spec == Init /\ [][Next]_vars

\* Threads are scheduled: a worker or the client that can keep going does.
\* Nothing makes a job's function return.
FairSpec ==
  /\ Spec
  /\ WF_vars(ClientStep)
  /\ \A w \in Workers : WF_vars(WorkerStep(w))

\* What the users of the pool promise for some of its properties: every
\* job's function returns.
JobsReturn == \A w \in Workers : WF_vars(Finish(w))

-----------------------------------------------------------------------------
(* Properties.                                                             *)

\* While the pool is alive, a queued job is never forgotten: the semaphore
\* holds a token for it, the push has yet to post one, or a worker that took
\* a token is on its way to the queue.
JobHasToken ==
  threads_keepalive /\ jobqueue # <<>> =>
    \/ has_jobs = 1
    \/ cpc = "posting"
    \/ \E w \in Workers : pc[w] \in {"check", "pull", "repost"}

\* A token never lies on the semaphore while workers sleep and none is up to
\* take it: pthread_cond_signal is only issued with v set, and whoever wakes
\* tests v again.
TokenHasTaker ==
  has_jobs = 1 /\ Asleep(pc) # {} => \E w \in Workers : pc[w] = "wait"

\* No lost wakeup, the two together.
NoLostWakeup == JobHasToken /\ TokenHasTaker

\* Every job handed over is, at any time, in exactly one place: once in the
\* queue, with exactly one worker, finished, or lost.
JobsConserved ==
  /\ submitted = Queued \cup Running \cup done \cup lost
  /\ \A i, k \in DOMAIN jobqueue : jobqueue[i] = jobqueue[k] => i = k
  /\ \A u, w \in Workers : job[u] = job[w] /\ job[u] # None => u = w
  /\ Queued \cap (Running \cup done \cup lost) = {}
  /\ Running \cap (done \cup lost) = {}
  /\ done \cap lost = {}

\* thpool_destroy takes the pool apart only when every worker has left its
\* loop, however num_threads_alive was raced upon.
NoTeardownUnderWorker ==
  cpc \in {"clearing", "freeing", "freed", "broken"} =>
    \A w \in Workers : pc[w] \in {"unlock", "gone"}

\* thpool.h: num_threads_alive is "the number of threads currently alive".
AliveIsExact ==
  (\A w \in Workers : pc[w] \notin {"inc", "dec"}) =>
    num_threads_alive
      = Cardinality({w \in Workers : pc[w] \notin {"boot", "unlock", "gone"}})

\* What the liveness properties need of a thcount_lock that may not exclude.
\* Where it excludes it holds.
CountsKept == []AliveIsExact

\* thpool.h: thpool_destroy waits for the active threads before it frees the
\* pool.  The last worker unlocks a mutex of the pool after it was counted out.
NoUseAfterFree == cpc = "freed" => \A w \in Workers : pc[w] # "unlock"

\* An idle worker does not leave a job waiting: a queued job is pulled, unless
\* every worker is busy with a job or the pool is being destroyed.
WorkConserving ==
  \A j \in Jobs :
    j \in Queued ~> \/ j \notin Queued
                    \/ \A w \in Workers : pc[w] = "run"
                    \/ ~threads_keepalive

\* When jobs terminate every accepted job is finished, or was thrown away by
\* thpool_destroy.
JobsSettle ==
  JobsReturn /\ CountsKept =>
    \A j \in Jobs : j \in submitted ~> j \in done \cup lost

\* thpool_destroy, once called, ends its polling and clears the queue when jobs
\* terminate and no decrement of the count was lost.  Whether it returns from
\* its second free is not to be said (FreesOnce).
DestroyProceeds ==
  JobsReturn /\ CountsKept => (cpc = "draining" ~> cpc = "freeing")

\* The pool is taken apart by frees that are defined: a block is freed once.
\* thpool_destroy frees the array of threads twice.
FreesOnce == cpc # "broken"
=============================================================================
