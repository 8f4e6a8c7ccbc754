-------------------------- MODULE ThreadPoolProofs --------------------------
(***************************************************************************)
(* What ThreadPool guarantees for every set of workers and jobs and for    *)
(* both outcomes of the undefined thcount_lock: type correctness, no lost  *)
(* wakeup, no teardown under a running worker, no job lost or run twice.   *)
(* And what CommUnit, which gives the pool its work, guarantees for all    *)
(* buffer lists, nodes, workers and job slots: type correctness, no node   *)
(* of node_mempool is in two places or in none.                            *)
(***************************************************************************)
EXTENDS ThreadPool, CommUnit, FiniteSetTheorems, SequenceTheorems, WellFoundedInduction, TLAPS

-----------------------------------------------------------------------------
(* Sequences and signals.                                                  *)

LEMMA LenZero ==
  ASSUME NEW S, NEW q \in Seq(S)
  PROVE  Len(q) \in Nat /\ (q = <<>> <=> Len(q) = 0)
<1>1. Len(q) \in Nat
  BY LenProperties
<1>2. q = <<>> => Len(q) = 0
  BY EmptySeq
<1>3. q # <<>> => Len(q) \in Nat \ {0}
  BY EmptySeq
<1>4. QED
  BY <1>1, <1>2, <1>3

LEMMA TailOfShort ==
  ASSUME NEW S, NEW q \in Seq(S), q # <<>>, ~(Len(q) > 1)
  PROVE  Tail(q) = <<>>
<1>1. Len(q) \in Nat /\ Len(q) # 0
  BY LenZero
<1>2. Tail(q) \in Seq(S) /\ Len(Tail(q)) = Len(q) - 1
  BY HeadTailProperties
<1>3. Len(Tail(q)) = 0
  BY <1>1, <1>2
<1>4. QED
  BY <1>2, <1>3, LenZero

\* A signal changes at most one worker, from "asleep" to "wait".
LEMMA SignalMoves ==
  ASSUME NEW L, "wait" \in L, NEW p \in [Workers -> L], Signal(p)
  PROVE  /\ pc' \in [Workers -> L]
         /\ \A w \in Workers :
              pc'[w] = p[w] \/ (p[w] = "asleep" /\ pc'[w] = "wait")
         /\ (\A w \in Workers : p[w] # "asleep")
              \/ \E w \in Workers : pc'[w] = "wait"
BY DEF Signal, Asleep

-----------------------------------------------------------------------------
(* Type correctness.                                                       *)

\* A worker holds a job exactly from the pull to the end of the job.
JobHeld == \A w \in Workers : job[w] # None <=> pc[w] \in {"repost", "run"}

\* TypeOK is not inductive alone: Finish records job[w], which must be a job.
TypeInv == TypeOK /\ JobHeld

LEMMA InitType == Init => TypeInv
BY PoolAssumption DEF Init, TypeInv, TypeOK, JobHeld

LEMMA NextType == TypeInv /\ [Next]_vars => TypeInv'
<1> SUFFICES ASSUME TypeOK, JobHeld, [Next]_vars
             PROVE  TypeOK' /\ JobHeld'
  BY DEF TypeInv
<1> USE PoolAssumption DEF TypeOK, JobHeld, clientVars, queueVars, countVars
<1>1. CASE ClientStep
  <2>1. CASE InitReturn
    BY <2>1 DEF InitReturn
  <2>2. CASE PushPost
    BY <2>2, SignalMoves DEF PushPost
  <2>3. CASE DrainPost
    BY <2>3 DEF DrainPost, Waking, Asleep
  <2>4. CASE Drained
    BY <2>4 DEF Drained
  <2>5. CASE Clear
    BY <2>5 DEF Clear, Queued
  <2>6. CASE Free
    BY <2>6 DEF Free
  <2>7. QED
    BY <1>1, <2>1, <2>2, <2>3, <2>4, <2>5, <2>6 DEF ClientStep
<1>2. CASE Destroy
  BY <1>2 DEF Destroy
<1>3. ASSUME NEW j \in Jobs, AddWork(j) \/ AddWorkRefused(j)
      PROVE  TypeOK' /\ JobHeld'
  <2>1. CASE AddWork(j)
    <3>1. Append(jobqueue, j) \in Seq(Jobs)
      BY AppendProperties
    <3>2. QED
      BY <2>1, <3>1 DEF AddWork
  <2>2. CASE AddWorkRefused(j)
    BY <2>2 DEF AddWorkRefused
  <2>3. QED
    BY <1>3, <2>1, <2>2
<1>4. ASSUME NEW w \in Workers, WorkerStep(w)
      PROVE  TypeOK' /\ JobHeld'
  <2>1. CASE CountIn(w)
    <3>1. CASE ReadAlive(w, "boot", "inc")
      BY <3>1 DEF ReadAlive, Goto
    <3>2. CASE WriteAlive(w, "inc", 1, "loop")
      BY <3>2 DEF WriteAlive, Goto
    <3>3. QED
      BY <2>1, <3>1, <3>2 DEF CountIn
  <2>2. CASE TestKeepalive(w)
    BY <2>2 DEF TestKeepalive, Goto
  <2>3. CASE BsemWait(w)
    BY <2>3 DEF BsemWait, TokenLeft, Goto
  <2>4. CASE Pull(w)
    <3>1. CASE jobqueue = <<>>
      BY <2>4, <3>1 DEF Pull, Goto
    <3>2. CASE jobqueue # <<>>
      <4>1. Head(jobqueue) \in Jobs /\ Tail(jobqueue) \in Seq(Jobs)
        BY <3>2, HeadTailProperties
      <4>2. /\ pc[w] = "pull"
            /\ job' = [job EXCEPT ![w] = Head(jobqueue)]
            /\ jobqueue' = Tail(jobqueue)
            /\ \/ pc' = [pc EXCEPT ![w] = "repost"]
               \/ pc' = [pc EXCEPT ![w] = "run"]
        BY <2>4, <3>2 DEF Pull, Goto, Remaining
      <4>3. QED
        BY <2>4, <4>1, <4>2 DEF Pull
    <3>3. QED
      BY <3>1, <3>2
  <2>5. CASE Repost(w)
    <3> DEFINE L == {"boot", "inc", "loop", "wait", "asleep", "check", "pull",
                     "repost", "run", "leave", "dec", "unlock", "gone"}
               p == [pc EXCEPT ![w] = "run"]
    <3>1. p \in [Workers -> L] /\ Signal(p) /\ pc[w] = "repost"
      BY <2>5 DEF Repost
    <3>2. /\ pc' \in [Workers -> L]
          /\ \A u \in Workers :
                pc'[u] = p[u] \/ (p[u] = "asleep" /\ pc'[u] = "wait")
      BY <3>1, SignalMoves
    <3>3. JobHeld'
      BY <2>5, <3>1, <3>2 DEF Repost
    <3>4. UNCHANGED <<clientVars, queueVars, countVars, threads_keepalive>>
      BY <2>5 DEF Repost
    <3>5. has_jobs' = 1
      BY <2>5 DEF Repost
    <3>6. TypeOK'
      BY <3>2, <3>4, <3>5
    <3>7. QED
      BY <3>3, <3>6
  <2>6. CASE CountOut(w)
    <3>1. CASE ReadAlive(w, "leave", "dec")
      BY <3>1 DEF ReadAlive, Goto
    <3>2. CASE WriteAlive(w, "dec", -1, "unlock")
      BY <3>2 DEF WriteAlive, Goto
    <3>3. QED
      BY <2>6, <3>1, <3>2 DEF CountOut
  <2>7. CASE Unlock(w)
    BY <2>7 DEF Unlock, Goto
  <2>8. QED
    BY <1>4, <2>1, <2>2, <2>3, <2>4, <2>5, <2>6, <2>7 DEF WorkerStep
<1>5. ASSUME NEW w \in Workers, Finish(w)
      PROVE  TypeOK' /\ JobHeld'
  BY <1>5 DEF Finish, Goto
<1>6. ASSUME NEW w \in Workers, SpuriousWakeup(w)
      PROVE  TypeOK' /\ JobHeld'
  BY <1>6 DEF SpuriousWakeup, Goto
<1>7. CASE UNCHANGED vars
  BY <1>7 DEF vars
<1>8. QED
  BY <1>1, <1>2, <1>3, <1>4, <1>5, <1>6, <1>7 DEF Next, Terminated

LEMMA TypeInvariant == Spec => []TypeInv
BY InitType, NextType, PTL DEF Spec

\* Every variable keeps its type, whatever the threads do.
THEOREM TypeCorrect == Spec => []TypeOK
<1>1. TypeInv => TypeOK
  BY DEF TypeInv
<1>2. QED
  BY <1>1, TypeInvariant, PTL

-----------------------------------------------------------------------------
(* No lost wakeup.  NoLostWakeup is inductive given the types.             *)

LEMMA NextNoLostWakeup ==
  TypeInv /\ NoLostWakeup /\ [Next]_vars => NoLostWakeup'
<1> SUFFICES ASSUME TypeOK, JobHasToken, TokenHasTaker, [Next]_vars
             PROVE  JobHasToken' /\ TokenHasTaker'
  BY DEF TypeInv, NoLostWakeup
<1> USE DEF JobHasToken, TokenHasTaker, Asleep,
            clientVars, queueVars, countVars
<1> DEFINE L == {"boot", "inc", "loop", "wait", "asleep", "check", "pull",
                 "repost", "run", "leave", "dec", "unlock", "gone"}
<1>0. pc \in [Workers -> L] /\ has_jobs \in {0, 1} /\ jobqueue \in Seq(Jobs)
  BY DEF TypeOK
<1>1. CASE ClientStep
  <2>1. CASE InitReturn
    BY <2>1 DEF InitReturn
  <2>2. CASE PushPost
    <3>1. /\ pc' \in [Workers -> L]
          /\ \A w \in Workers :
               pc'[w] = pc[w] \/ (pc[w] = "asleep" /\ pc'[w] = "wait")
          /\ (\A w \in Workers : pc[w] # "asleep")
             \/ \E w \in Workers : pc'[w] = "wait"
      BY <1>0, <2>2, SignalMoves DEF PushPost
    <3>2. QED
      BY <2>2, <3>1 DEF PushPost
  <2>3. CASE DrainPost
    BY <1>0, <2>3 DEF DrainPost, Waking
  <2>4. CASE Drained
    BY <2>4 DEF Drained
  <2>5. CASE Clear
    BY <2>5 DEF Clear
  <2>6. CASE Free
    BY <2>6 DEF Free
  <2>7. QED
    BY <1>1, <2>1, <2>2, <2>3, <2>4, <2>5, <2>6 DEF ClientStep
<1>2. CASE Destroy
  BY <1>2 DEF Destroy
<1>3. ASSUME NEW j \in Jobs, AddWork(j) \/ AddWorkRefused(j)
      PROVE  JobHasToken' /\ TokenHasTaker'
  BY <1>3 DEF AddWork, AddWorkRefused
<1>4. ASSUME NEW w \in Workers, WorkerStep(w)
      PROVE  JobHasToken' /\ TokenHasTaker'
  <2>1. CASE CountIn(w)
    BY <1>0, <2>1 DEF CountIn, ReadAlive, WriteAlive, Goto
  <2>2. CASE TestKeepalive(w)
    BY <1>0, <2>2 DEF TestKeepalive, Goto
  <2>3. CASE BsemWait(w)
    BY <1>0, <2>3 DEF BsemWait, TokenLeft, Goto
  <2>4. CASE Pull(w)
    <3>1. /\ pc[w] = "pull"
          /\ has_jobs' = has_jobs
          /\ pc' = [pc EXCEPT ![w] = pc'[w]]
          /\ pc'[w] \in {"loop", "repost", "run"}
      BY <1>0, <2>4 DEF Pull, Goto
    <3>2. TokenHasTaker'
      BY <1>0, <3>1
    <3>3. CASE jobqueue = <<>>
      BY <2>4, <3>2, <3>3 DEF Pull
    <3>4. CASE jobqueue # <<>> /\ Len(jobqueue) > 1
      <4>1. pc'[w] = "repost"
        BY <1>0, <2>4, <3>4 DEF Pull, Goto, MoreToPull
      <4>2. \E u \in Workers : pc'[u] \in {"check", "pull", "repost"}
        BY <4>1
      <4>3. QED
        BY <3>2, <4>2
    <3>5. CASE jobqueue # <<>> /\ ~(Len(jobqueue) > 1)
      <4>1. jobqueue' = Tail(jobqueue)
        BY <2>4, <3>5 DEF Pull, Remaining
      <4>2. jobqueue' = <<>>
        BY <1>0, <3>5, <4>1, TailOfShort
      <4>3. QED
        BY <3>2, <4>2
    <3>6. QED
      BY <3>3, <3>4, <3>5
  <2>5. CASE Repost(w)
    <3> DEFINE p == [pc EXCEPT ![w] = "run"]
    <3>1. p \in [Workers -> L] /\ Signal(p) /\ has_jobs' = 1
      BY <1>0, <2>5 DEF Repost
    <3> "wait" \in L
      OBVIOUS
    <3> HIDE DEF L, p
    <3>2. /\ pc' \in [Workers -> L]
          /\ \A u \in Workers :
                pc'[u] = p[u] \/ (p[u] = "asleep" /\ pc'[u] = "wait")
          /\ (\A u \in Workers : p[u] # "asleep")
             \/ \E u \in Workers : pc'[u] = "wait"
      BY <3>1, SignalMoves
    <3>3. JobHasToken'
      BY <3>1
    <3>4. TokenHasTaker'
      BY <3>2
    <3>5. QED
      BY <3>3, <3>4
  <2>6. CASE CountOut(w)
    BY <1>0, <2>6 DEF CountOut, ReadAlive, WriteAlive, Goto
  <2>7. CASE Unlock(w)
    BY <1>0, <2>7 DEF Unlock, Goto
  <2>8. QED
    BY <1>4, <2>1, <2>2, <2>3, <2>4, <2>5, <2>6, <2>7 DEF WorkerStep
<1>5. ASSUME NEW w \in Workers, Finish(w)
      PROVE  JobHasToken' /\ TokenHasTaker'
  BY <1>0, <1>5 DEF Finish, Goto
<1>6. ASSUME NEW w \in Workers, SpuriousWakeup(w)
      PROVE  JobHasToken' /\ TokenHasTaker'
  BY <1>0, <1>6 DEF SpuriousWakeup, Goto
<1>7. CASE UNCHANGED vars
  BY <1>7 DEF vars
<1>8. QED
  BY <1>1, <1>2, <1>3, <1>4, <1>5, <1>6, <1>7 DEF Next, Terminated

\* A queued job is never forgotten, and no token lies unseen while workers
\* sleep: jobqueue_push, jobqueue_pull and bsem_wait lose no wakeup.
THEOREM NoWakeupLost == Spec => []NoLostWakeup
<1>1. Init => NoLostWakeup
  BY DEF Init, NoLostWakeup, JobHasToken, TokenHasTaker
<1>2. QED
  BY <1>1, TypeInvariant, NextNoLostWakeup, PTL DEF Spec

-----------------------------------------------------------------------------
(* No teardown under a running worker.  Increments and decrements of       *)
(* num_threads_alive may be lost, but never invented: while threads start, *)
(* the count is at most the number that started, so thpool_init can only   *)
(* return when all have; once they leave, it is at least the number that   *)
(* have not left, so it can only be 0 when all have.                       *)

Booted == {w \in Workers : pc[w] \notin {"boot", "inc"}}
Left   == {w \in Workers : pc[w] \in {"unlock", "gone"}}

Phases ==
  /\ threads_keepalive <=> cpc \in {"init", "serving", "posting"}
  /\ threads_keepalive =>
       \A w \in Workers : pc[w] \notin {"leave", "dec", "unlock", "gone"}
  /\ cpc # "init" => Booted = Workers
  /\ cpc \in {"clearing", "freeing", "freed", "broken"} => Left = Workers

CountBounds ==
  /\ cpc = "init" =>
       /\ num_threads_alive <= Cardinality(Booted)
       /\ \A w \in Workers : pc[w] = "inc" => seen[w] <= Cardinality(Booted)
  /\ cpc # "init" =>
       /\ num_threads_alive >= Cardinality(Workers) - Cardinality(Left)
       /\ \A w \in Workers : pc[w] = "dec" =>
            seen[w] >= Cardinality(Workers) - Cardinality(Left)

CountInv == Phases /\ CountBounds

LEMMA SetsOfWorkers ==
  /\ IsFiniteSet(Booted) /\ IsFiniteSet(Left)
  /\ Cardinality(Booted) \in Nat /\ Cardinality(Left) \in Nat
  /\ Cardinality(Workers) \in Nat
<1>1. Booted \subseteq Workers /\ Left \subseteq Workers
  BY DEF Booted, Left
<1>2. IsFiniteSet(Booted) /\ IsFiniteSet(Left)
  BY <1>1, PoolAssumption, FS_Subset
<1>3. QED
  BY <1>2, PoolAssumption, FS_CardinalityType

\* A set of workers as large as the set of all of them is that set.
LEMMA AllWorkers ==
  ASSUME NEW S \in SUBSET Workers, Cardinality(S) >= Cardinality(Workers)
  PROVE  S = Workers
<1>1. IsFiniteSet(S) /\ Cardinality(S) <= Cardinality(Workers)
  BY PoolAssumption, FS_Subset
<1>2. Cardinality(S) \in Nat /\ Cardinality(Workers) \in Nat
  BY <1>1, PoolAssumption, FS_CardinalityType
<1>3. Cardinality(S) = Cardinality(Workers)
  BY <1>1, <1>2
<1>4. QED
  BY <1>3, PoolAssumption, FS_Subset

LEMMA InitCount == Init => CountInv
<1> SUFFICES ASSUME Init PROVE CountInv
  OBVIOUS
<1>1. Cardinality(Booted) \in Nat
  BY SetsOfWorkers
<1>2. QED
  BY <1>1 DEF Init, CountInv, Phases, CountBounds

\* A step that leaves the counters and the phase alone, and no worker enters
\* or leaves "boot", "inc", "leave", "dec", "unlock" or "gone".
LEMMA CountStutter ==
  ASSUME CountInv, UNCHANGED <<cpc, threads_keepalive, countVars>>,
         \A w \in Workers :
           \/ pc'[w] = pc[w]
           \/ /\ pc[w] \notin {"boot", "inc", "leave", "dec", "unlock", "gone"}
              /\ pc'[w] \notin {"boot", "inc", "leave", "dec", "unlock", "gone"}
  PROVE  CountInv'
<1>1. Booted' = Booted /\ Left' = Left
  BY DEF Booted, Left
<1>2. \A w \in Workers : /\ pc'[w] = "inc" => pc[w] = "inc"
                         /\ pc'[w] = "dec" => pc[w] = "dec"
  OBVIOUS
<1>3. Phases'
  BY <1>1 DEF CountInv, Phases
<1>4. CountBounds'
  BY <1>1, <1>2 DEF CountInv, CountBounds, countVars
<1>5. QED
  BY <1>3, <1>4 DEF CountInv

LEMMA ClientCount ==
  ASSUME TypeOK, CountInv, ClientStep \/ Destroy
  PROVE  CountInv'
<1> USE DEF clientVars, queueVars, countVars
<1>1. CASE InitReturn
  <2>1. Cardinality(Booted) >= Cardinality(Workers)
    BY <1>1, SetsOfWorkers DEF InitReturn, CountInv, CountBounds
  <2>2. Booted = Workers
    BY <2>1, AllWorkers DEF Booted
  <2>3. Left = {}
    BY <1>1 DEF InitReturn, CountInv, Phases, Left
  <2>4. Cardinality(Left) = 0
    BY <2>3, FS_EmptySet
  <2>5. Booted' = Booted /\ Left' = Left
    BY <1>1 DEF InitReturn, Booted, Left
  <2>6. Phases'
    BY <1>1, <2>2, <2>5 DEF InitReturn, CountInv, Phases
  <2>7. CountBounds'
    <3>1. \A w \in Workers : pc[w] # "dec"
      BY <1>1 DEF InitReturn, CountInv, Phases
    <3>2. QED
      BY <1>1, <2>4, <2>5, <3>1, SetsOfWorkers DEF InitReturn, CountBounds
  <2>8. QED
    BY <2>6, <2>7 DEF CountInv
<1>2. CASE PushPost
  <2>1. \A w \in Workers :
          pc'[w] = pc[w] \/ (pc[w] = "asleep" /\ pc'[w] = "wait")
    BY <1>2, SignalMoves DEF PushPost, TypeOK
  <2>2. Booted' = Booted /\ Left' = Left
    BY <2>1 DEF Booted, Left
  <2>3. Phases'
    BY <1>2, <2>1, <2>2 DEF PushPost, CountInv, Phases
  <2>4. CountBounds'
    BY <1>2, <2>1, <2>2 DEF PushPost, CountInv, CountBounds, Phases
  <2>5. QED
    BY <2>3, <2>4 DEF CountInv
<1>3. CASE DrainPost
  <2>1. \A w \in Workers :
          pc'[w] = pc[w] \/ (pc[w] = "asleep" /\ pc'[w] = "wait")
    BY <1>3 DEF DrainPost, Waking, Asleep, TypeOK
  <2>2. QED
    BY <1>3, <2>1, CountStutter DEF DrainPost
<1>4. CASE Drained
  <2>1. Cardinality(Left) >= Cardinality(Workers)
    BY <1>4, SetsOfWorkers DEF Drained, AllExited, CountInv, CountBounds
  <2>2. Left = Workers
    BY <2>1, AllWorkers DEF Left
  <2>3. Booted' = Booted /\ Left' = Left
    BY <1>4 DEF Drained, Booted, Left
  <2>4. QED
    BY <1>4, <2>2, <2>3 DEF Drained, CountInv, Phases, CountBounds
<1>5. CASE Clear \/ Free
  <2>1. Booted' = Booted /\ Left' = Left
    BY <1>5 DEF Clear, Free, Booted, Left
  <2>2. QED
    BY <1>5, <2>1 DEF Clear, Free, CountInv, Phases, CountBounds
<1>6. CASE Destroy
  <2>1. Booted' = Booted /\ Left' = Left
    BY <1>6 DEF Destroy, Booted, Left
  <2>2. QED
    BY <1>6, <2>1 DEF Destroy, CountInv, Phases, CountBounds
<1>7. QED
  BY <1>1, <1>2, <1>3, <1>4, <1>5, <1>6 DEF ClientStep

LEMMA WorkerCount ==
  ASSUME TypeOK, CountInv, NEW w \in Workers,
         CountIn(w) \/ TestKeepalive(w) \/ CountOut(w) \/ Unlock(w)
  PROVE  CountInv'
<1> USE DEF clientVars, countVars, Goto
<1>0. /\ \A u \in Workers : u # w => pc'[u] = pc[u] /\ seen'[u] = seen[u]
      /\ seen \in [Workers -> Int] /\ num_threads_alive \in Int
      /\ threads_keepalive \in BOOLEAN
      /\ UNCHANGED <<cpc, threads_keepalive>>
  BY DEF CountIn, CountOut, ReadAlive, WriteAlive, TestKeepalive, Unlock, TypeOK
<1>1. CASE ReadAlive(w, "boot", "inc")
  <2>1. pc[w] = "boot" /\ pc'[w] = "inc" /\ seen'[w] = num_threads_alive
        /\ num_threads_alive' = num_threads_alive
    BY <1>1 DEF ReadAlive, TypeOK
  <2>2. cpc = "init"
    BY <2>1 DEF CountInv, Phases, Booted
  <2>3. Booted' = Booted /\ Left' = Left
    BY <1>0, <2>1 DEF Booted, Left
  <2>4. Phases'
    BY <1>0, <2>1, <2>2, <2>3 DEF CountInv, Phases
  <2>5. CountBounds'
    BY <1>0, <2>1, <2>2, <2>3 DEF CountInv, CountBounds
  <2>6. QED
    BY <2>4, <2>5 DEF CountInv
<1>2. CASE WriteAlive(w, "inc", 1, "loop")
  <2>1. pc[w] = "inc" /\ pc'[w] = "loop" /\ num_threads_alive' = seen[w] + 1
    BY <1>2 DEF WriteAlive, TypeOK
  <2>2. cpc = "init"
    BY <2>1 DEF CountInv, Phases, Booted
  <2>3. Booted' = Booted \cup {w} /\ w \notin Booted
    BY <1>0, <2>1 DEF Booted
  <2>4. Cardinality(Booted') = Cardinality(Booted) + 1
    BY <2>3, SetsOfWorkers, FS_AddElement
  <2>5. Left' = Left
    BY <1>0, <2>1 DEF Left
  <2>6. Phases'
    BY <1>0, <2>1, <2>2, <2>5 DEF CountInv, Phases
  <2>7. CountBounds'
    <3>1. seen[w] <= Cardinality(Booted)
      BY <2>1, <2>2 DEF CountInv, CountBounds
    <3>2. \A u \in Workers : pc'[u] = "inc" =>
             seen'[u] <= Cardinality(Booted)
      BY <1>0, <2>1, <2>2 DEF CountInv, CountBounds
    <3>3. num_threads_alive' <= Cardinality(Booted')
      BY <1>0, <2>1, <2>4, <3>1, SetsOfWorkers
    <3>4. \A u \in Workers : pc'[u] = "inc" =>
             seen'[u] <= Cardinality(Booted')
      <4>1. \A u \in Workers : u # w /\ pc[u] = "inc" => seen[u] \in Int
        BY <1>0
      <4>2. QED
        BY <1>0, <2>1, <2>4, <3>2, <4>1, SetsOfWorkers
    <3>5. QED
      BY <1>0, <2>2, <3>3, <3>4 DEF CountBounds
  <2>8. QED
    BY <2>6, <2>7 DEF CountInv
<1>3. CASE TestKeepalive(w)
  <2>1. /\ pc[w] \in {"loop", "check"}
        /\ pc'[w] \in {"wait", "pull", "loop", "leave"}
        /\ threads_keepalive => pc'[w] # "leave"
        /\ UNCHANGED countVars
    BY <1>3 DEF TestKeepalive, TypeOK
  <2>2. Booted' = Booted /\ Left' = Left
    BY <1>0, <2>1 DEF Booted, Left
  <2>3. Phases'
    BY <1>0, <2>1, <2>2 DEF CountInv, Phases
  <2>4. CountBounds'
    BY <1>0, <2>1, <2>2 DEF CountInv, CountBounds
  <2>5. QED
    BY <2>3, <2>4 DEF CountInv
<1>4. CASE ReadAlive(w, "leave", "dec")
  <2>1. pc[w] = "leave" /\ pc'[w] = "dec" /\ seen'[w] = num_threads_alive
        /\ num_threads_alive' = num_threads_alive
    BY <1>4 DEF ReadAlive, TypeOK
  <2>2. cpc # "init" /\ ~threads_keepalive
    BY <2>1 DEF CountInv, Phases
  <2>3. Booted' = Booted /\ Left' = Left
    BY <1>0, <2>1 DEF Booted, Left
  <2>4. Phases'
    BY <1>0, <2>1, <2>2, <2>3 DEF CountInv, Phases
  <2>5. CountBounds'
    BY <1>0, <2>1, <2>2, <2>3 DEF CountInv, CountBounds
  <2>6. QED
    BY <2>4, <2>5 DEF CountInv
<1>5. CASE WriteAlive(w, "dec", -1, "unlock")
  <2>1. pc[w] = "dec" /\ pc'[w] = "unlock" /\ num_threads_alive' = seen[w] - 1
    BY <1>0, <1>5 DEF WriteAlive, TypeOK
  <2>2. cpc # "init" /\ ~threads_keepalive
    BY <2>1 DEF CountInv, Phases
  <2>3. Left' = Left \cup {w} /\ w \notin Left
    BY <1>0, <2>1 DEF Left
  <2>4. Cardinality(Left') = Cardinality(Left) + 1
    BY <2>3, SetsOfWorkers, FS_AddElement
  <2>5. Booted' = Booted
    BY <1>0, <2>1 DEF Booted
  <2>6. Phases'
    BY <1>0, <2>1, <2>2, <2>3, <2>5 DEF CountInv, Phases, Left
  <2>7. CountBounds'
    <3> DEFINE n == Cardinality(Workers)
    <3>1. \A u \in Workers : pc[u] = "dec" => seen[u] >= n - Cardinality(Left)
      BY <2>2 DEF CountInv, CountBounds
    <3>2. num_threads_alive' >= n - Cardinality(Left')
      BY <1>0, <2>1, <2>4, <3>1, SetsOfWorkers
    <3>3. \A u \in Workers : pc'[u] = "dec" =>
             seen'[u] >= n - Cardinality(Left')
      BY <1>0, <2>1, <2>4, <3>1, SetsOfWorkers
    <3>4. QED
      BY <1>0, <2>2, <3>2, <3>3 DEF CountBounds
  <2>8. QED
    BY <2>6, <2>7 DEF CountInv
<1>6. CASE Unlock(w)
  <2>1. pc[w] = "unlock" /\ pc'[w] = "gone" /\ UNCHANGED countVars
    BY <1>6 DEF Unlock, TypeOK
  <2>2. Booted' = Booted /\ Left' = Left
    BY <1>0, <2>1 DEF Booted, Left
  <2>3. Phases'
    BY <1>0, <2>1, <2>2 DEF CountInv, Phases
  <2>4. CountBounds'
    BY <1>0, <2>1, <2>2 DEF CountInv, CountBounds
  <2>5. QED
    BY <2>3, <2>4 DEF CountInv
<1>7. QED
  BY <1>1, <1>2, <1>3, <1>4, <1>5, <1>6 DEF CountIn, CountOut

LEMMA NextCount == TypeInv /\ CountInv /\ [Next]_vars => CountInv'
<1> SUFFICES ASSUME TypeOK, CountInv, [Next]_vars
             PROVE  CountInv'
  BY DEF TypeInv
<1> USE DEF clientVars, queueVars, countVars, Goto
<1>1. CASE ClientStep \/ Destroy
  BY <1>1, ClientCount
<1>2. ASSUME NEW j \in Jobs, AddWork(j)
      PROVE  CountInv'
  <2>1. Booted' = Booted /\ Left' = Left
    BY <1>2 DEF AddWork, Booted, Left
  <2>2. QED
    BY <1>2, <2>1 DEF AddWork, CountInv, Phases, CountBounds
<1>3. ASSUME NEW j \in Jobs, AddWorkRefused(j)
      PROVE  CountInv'
  BY <1>3, CountStutter DEF AddWorkRefused
<1>4. ASSUME NEW w \in Workers, WorkerStep(w)
      PROVE  CountInv'
  <2>1. CASE CountIn(w) \/ TestKeepalive(w) \/ CountOut(w) \/ Unlock(w)
    BY <2>1, WorkerCount
  <2>2. CASE BsemWait(w)
    BY <2>2, CountStutter DEF BsemWait, TypeOK
  <2>3. CASE Pull(w)
    BY <2>3, CountStutter DEF Pull, TypeOK
  <2>4. CASE Repost(w)
    <3> DEFINE p == [pc EXCEPT ![w] = "run"]
               L == {"boot", "inc", "loop", "wait", "asleep", "check", "pull",
                     "repost", "run", "leave", "dec", "unlock", "gone"}
    <3>1. p \in [Workers -> L] /\ Signal(p) /\ pc[w] = "repost"
      BY <2>4 DEF Repost, TypeOK
    <3>2. \A u \in Workers :
             pc'[u] = p[u] \/ (p[u] = "asleep" /\ pc'[u] = "wait")
      <4> "wait" \in L
        OBVIOUS
      <4> HIDE DEF L, p
      <4>1. QED
        BY <3>1, SignalMoves
    <3>3. p[w] = "run" /\ \A u \in Workers : u # w => p[u] = pc[u]
      BY <3>1 DEF TypeOK
    <3> HIDE DEF p, L
    <3>4. QED
      BY <2>4, <3>1, <3>2, <3>3, CountStutter DEF Repost
  <2>5. QED
    BY <1>4, <2>1, <2>2, <2>3, <2>4 DEF WorkerStep
<1>5. ASSUME NEW w \in Workers, Finish(w)
      PROVE  CountInv'
  BY <1>5, CountStutter DEF Finish, TypeOK
<1>6. ASSUME NEW w \in Workers, SpuriousWakeup(w)
      PROVE  CountInv'
  BY <1>6, CountStutter DEF SpuriousWakeup, TypeOK
<1>7. CASE UNCHANGED vars
  BY <1>7, CountStutter DEF vars
<1>8. QED
  BY <1>1, <1>2, <1>3, <1>4, <1>5, <1>6, <1>7 DEF Next, Terminated

\* thpool_destroy frees nothing while a worker can still run a job, although
\* num_threads_alive is updated under a lock that may not exclude.
THEOREM TeardownAfterWorkers == Spec => []NoTeardownUnderWorker
<1>1. CountInv => NoTeardownUnderWorker
  BY DEF CountInv, Phases, NoTeardownUnderWorker, Left
<1>2. Spec => []CountInv
  BY InitCount, TypeInvariant, NextCount, PTL DEF Spec
<1>3. QED
  BY <1>1, <1>2, PTL

-----------------------------------------------------------------------------
(* No job is lost or run twice.  JobsConserved is inductive given the      *)
(* types: only five actions move a job.                                    *)

Elems(q)     == {q[i] : i \in DOMAIN q}
Injective(q) == \A i, k \in DOMAIN q : q[i] = q[k] => i = k

LEMMA ElemsOfAppend ==
  ASSUME NEW S, NEW q \in Seq(S), NEW e \in S
  PROVE  /\ Elems(Append(q, e)) = Elems(q) \cup {e}
         /\ Injective(q) /\ e \notin Elems(q) => Injective(Append(q, e))
<1> DEFINE a == Append(q, e)
<1>1. /\ a \in Seq(S) /\ Len(a) = Len(q) + 1
      /\ \A i \in 1..Len(q) : a[i] = q[i]
      /\ a[Len(q) + 1] = e
  BY AppendProperties
<1>2. /\ Len(q) \in Nat
      /\ DOMAIN q = 1..Len(q)
      /\ DOMAIN a = 1..(Len(q) + 1)
  BY <1>1, LenProperties
<1> HIDE DEF a
<1>3. DOMAIN a = DOMAIN q \cup {Len(q) + 1}
  BY <1>2
<1>4. Elems(a) = Elems(q) \cup {e}
  BY <1>1, <1>2, <1>3 DEF Elems
<1>5. Injective(q) /\ e \notin Elems(q) => Injective(a)
  BY <1>1, <1>2, <1>3 DEF Injective, Elems
<1>6. QED
  BY <1>4, <1>5 DEF a

LEMMA ElemsOfTail ==
  ASSUME NEW S, NEW q \in Seq(S), q # <<>>, Injective(q)
  PROVE  /\ Head(q) \in Elems(q)
         /\ Elems(Tail(q)) = Elems(q) \ {Head(q)}
         /\ Injective(Tail(q))
<1> DEFINE t == Tail(q)
           n == Len(q)
<1>1. n \in Nat /\ n # 0 /\ DOMAIN q = 1..n
  BY LenZero, LenProperties
<1>2. t \in Seq(S) /\ Len(t) = n - 1 /\ \A i \in 1..Len(t) : t[i] = q[i + 1]
  BY HeadTailProperties
<1>3. DOMAIN t = 1..(n - 1)
  BY <1>2, LenProperties
<1>4. Head(q) = q[1]
  OBVIOUS
<1> HIDE DEF t, n
<1>5. \A i \in 1..(n - 1) : t[i] = q[i + 1] /\ i + 1 \in 1..n /\ i + 1 # 1
  BY <1>1, <1>2
<1>6. \A i \in 1..n : i # 1 => i - 1 \in 1..(n - 1) /\ t[i - 1] = q[i]
  BY <1>1, <1>5
<1>7. Head(q) \in Elems(q)
  BY <1>1, <1>4 DEF Elems
<1>8. Elems(t) \subseteq Elems(q) \ {Head(q)}
  BY <1>1, <1>3, <1>4, <1>5 DEF Elems, Injective
<1>9. Elems(q) \ {Head(q)} \subseteq Elems(t)
  BY <1>1, <1>3, <1>4, <1>6 DEF Elems
<1>10. Injective(t)
  <2>1. SUFFICES ASSUME NEW i \in 1..(n - 1), NEW k \in 1..(n - 1), t[i] = t[k]
                 PROVE  i = k
    BY <1>3 DEF Injective
  <2>2. q[i + 1] = q[k + 1] /\ i + 1 \in DOMAIN q /\ k + 1 \in DOMAIN q
    BY <1>1, <1>5, <2>1
  <2>3. i + 1 = k + 1
    BY <2>2 DEF Injective
  <2>4. QED
    BY <1>1, <2>3
<1>11. QED
  BY <1>7, <1>8, <1>9, <1>10 DEF t

LEMMA NextJobsConserved ==
  TypeInv /\ JobsConserved /\ [Next]_vars => JobsConserved'
<1> SUFFICES ASSUME TypeInv, JobsConserved, [Next]_vars
             PROVE  JobsConserved'
  OBVIOUS
<1> DEFINE jobVars == <<submitted, jobqueue, job, done, lost>>
<1>0. /\ jobqueue \in Seq(Jobs)
      /\ job \in [Workers -> Jobs \cup {None}]
      /\ submitted \subseteq Jobs /\ done \subseteq Jobs /\ lost \subseteq Jobs
      /\ Queued = Elems(jobqueue) /\ Queued' = Elems(jobqueue')
      /\ Injective(jobqueue)
  BY DEF TypeInv, TypeOK, JobsConserved, Queued, Elems, Injective
<1>1. CASE UNCHANGED jobVars
  BY <1>1 DEF JobsConserved, Queued, Running
<1>2. ASSUME NEW j \in Jobs, AddWork(j)
      PROVE  JobsConserved'
  <2>1. /\ j \notin submitted /\ submitted' = submitted \cup {j}
        /\ jobqueue' = Append(jobqueue, j)
        /\ UNCHANGED <<job, done, lost>>
    BY <1>2 DEF AddWork
  <2>2. j \notin Queued
    BY <2>1 DEF JobsConserved
  <2>3. Queued' = Queued \cup {j} /\ Injective(jobqueue')
    BY <1>0, <2>1, <2>2, ElemsOfAppend
  <2>4. Running' = Running
    BY <2>1 DEF Running
  <2>5. QED
    BY <2>1, <2>3, <2>4 DEF JobsConserved, Injective
<1>3. ASSUME NEW j \in Jobs, AddWorkRefused(j)
      PROVE  JobsConserved'
  <2>1. /\ j \notin submitted /\ submitted' = submitted \cup {j}
        /\ lost' = lost \cup {j}
        /\ UNCHANGED <<jobqueue, job, done>>
    BY <1>3 DEF AddWorkRefused, queueVars
  <2>2. Running' = Running /\ Queued' = Queued
    BY <2>1 DEF Running, Queued
  <2>3. QED
    BY <2>1, <2>2 DEF JobsConserved
<1>4. CASE Clear
  <2>1. /\ lost' = lost \cup Queued /\ jobqueue' = <<>>
        /\ UNCHANGED <<submitted, job, done>>
    BY <1>4 DEF Clear
  <2>2. Queued' = {} /\ Injective(jobqueue')
    BY <2>1 DEF Queued, Injective
  <2>3. Running' = Running
    BY <2>1 DEF Running
  <2>4. QED
    BY <2>1, <2>2, <2>3 DEF JobsConserved, Injective
<1>5. ASSUME NEW w \in Workers, Pull(w)
      PROVE  JobsConserved'
  <2>1. CASE jobqueue = <<>>
    <3>1. UNCHANGED jobVars
      BY <1>5, <2>1 DEF Pull, clientVars
    <3>2. QED
      BY <1>1, <3>1
  <2>2. CASE jobqueue # <<>>
    <3> DEFINE h == Head(jobqueue)
    <3>1. /\ pc[w] = "pull"
          /\ job' = [job EXCEPT ![w] = h]
          /\ jobqueue' = Tail(jobqueue)
          /\ UNCHANGED <<submitted, done, lost>>
      BY <1>5, <2>2 DEF Pull, Remaining, clientVars
    <3>2. h \in Jobs /\ h # None /\ job[w] = None
      BY <1>0, <2>2, <3>1, HeadTailProperties, PoolAssumption
      DEF TypeInv, JobHeld
    <3>3. h \in Queued /\ Queued' = Queued \ {h} /\ Injective(jobqueue')
      BY <1>0, <2>2, <3>1, ElemsOfTail
    <3> HIDE DEF h
    <3>4. Running' = Running \cup {h} /\ h \notin Running
      BY <1>0, <3>1, <3>2, <3>3 DEF Running, JobsConserved
    <3>5. \A u, v \in Workers : job'[u] = job'[v] /\ job'[u] # None => u = v
      BY <1>0, <3>1, <3>2, <3>4 DEF JobsConserved, Running
    <3>6. QED
      BY <3>1, <3>3, <3>4, <3>5 DEF JobsConserved, Injective
  <2>3. QED
    BY <2>1, <2>2
<1>6. ASSUME NEW w \in Workers, Finish(w)
      PROVE  JobsConserved'
  <2>1. /\ pc[w] = "run" /\ done' = done \cup {job[w]}
        /\ job' = [job EXCEPT ![w] = None]
        /\ UNCHANGED <<submitted, jobqueue, lost>>
    BY <1>6 DEF Finish, clientVars
  <2>2. job[w] # None /\ job[w] \in Running
    BY <2>1 DEF TypeInv, JobHeld, Running
  <2>3. Running' = Running \ {job[w]}
    BY <1>0, <2>1, <2>2 DEF Running, JobsConserved
  <2>4. \A u, v \in Workers : job'[u] = job'[v] /\ job'[u] # None => u = v
    BY <1>0, <2>1 DEF JobsConserved
  <2>5. Queued' = Queued
    BY <2>1 DEF Queued
  <2>6. QED
    BY <2>1, <2>2, <2>3, <2>4, <2>5 DEF JobsConserved
<1>7. CASE Destroy \/ InitReturn \/ PushPost \/ DrainPost \/ Drained \/ Free
  <2>1. UNCHANGED jobVars
    BY <1>7 DEF Destroy, InitReturn, PushPost, DrainPost, Drained, Free,
                clientVars, queueVars
  <2>2. QED
    BY <1>1, <2>1
<1>8. ASSUME NEW w \in Workers,
             CountIn(w) \/ TestKeepalive(w) \/ BsemWait(w) \/ Repost(w)
             \/ CountOut(w) \/ Unlock(w) \/ SpuriousWakeup(w)
      PROVE  JobsConserved'
  <2>1. UNCHANGED jobVars
    BY <1>8 DEF CountIn, TestKeepalive, BsemWait, Repost, CountOut, Unlock,
                SpuriousWakeup, ReadAlive, WriteAlive, clientVars, queueVars
  <2>2. QED
    BY <1>1, <2>1
<1>9. CASE UNCHANGED vars
  BY <1>1, <1>9 DEF vars
<1>10. QED
  BY <1>2, <1>3, <1>4, <1>5, <1>6, <1>7, <1>8, <1>9
  DEF Next, Terminated, ClientStep, WorkerStep

\* Every job handed to thpool_add_work is, at any time, in exactly one place:
\* none is dropped or run twice, up to thpool_destroy.
THEOREM NoJobDroppedOrDuplicated == Spec => []JobsConserved
<1>1. Init => JobsConserved
  BY DEF Init, JobsConserved, Queued, Running
<1>2. QED
  BY <1>1, TypeInvariant, NextJobsConserved, PTL DEF Spec

-----------------------------------------------------------------------------
(***************************************************************************)
(* The thread that feeds the pool: CommUnit, for any buffer lists, nodes,  *)
(* workers and job slots. There the pool is its queue and its limit.       *)
(***************************************************************************)
\* The nodes that queued jobs and running functions have.
QueuedNodes == { jobs[i][2] : i \in 1 .. Len(jobs) }
NodesAtWork == { r[2] : r \in running }

\* Every node is of one of five kinds, ...
KindsPartition ==
  /\ Waiting \cup QueuedNodes \cup NodesAtWork \cup free \cup lost_nodes = Nodes
  /\ Waiting \cap QueuedNodes = {} /\ Waiting \cap NodesAtWork = {}
  /\ Waiting \cap free = {} /\ Waiting \cap lost_nodes = {}
  /\ QueuedNodes \cap NodesAtWork = {} /\ QueuedNodes \cap free = {}
  /\ QueuedNodes \cap lost_nodes = {}
  /\ NodesAtWork \cap free = {} /\ NodesAtWork \cap lost_nodes = {}
  /\ free \cap lost_nodes = {}

\* ... and in one list, job or pair of hands of that kind.
ListedOnce ==
  \A l, k \in Lists : \A i \in 1 .. Len(queue[l]), j \in 1 .. Len(queue[k]) :
    queue[l][i] = queue[k][j] => l = k /\ i = j
JobOnce == \A i, j \in 1 .. Len(jobs) : jobs[i][2] = jobs[j][2] => i = j
HandOnce == \A r, s \in running : r[2] = s[2] => r = s

UnitInv ==
  /\ UnitTypeOK /\ IsFiniteSet(running) /\ pos \in Nat \ {0}
  /\ KindsPartition /\ ListedOnce /\ JobOnce /\ HandOnce

Modes == {"test", "scan", "clock", "critical", "reverse", "destroy", "destroyed"}

-----------------------------------------------------------------------------
(* A set of naturals has a least element.                                  *)
LEMMA Least == ASSUME NEW T \in SUBSET Nat, T # {} PROVE \E m \in T : \A n \in T : m <= n
<1> DEFINE R == OpToRel(<, Nat)
<1>1. IsWellFoundedOn(R, Nat)
  BY NatLessThanWellFounded
<1>2. PICK m \in T : \A n \in T : <<n, m>> \notin R
  <2> HIDE DEF R
  <2> QED BY <1>1, WFMin
<1>3. \A n \in T : ~(n < m)
  BY <1>2 DEF OpToRel
<1> QED BY <1>3

(* So what holds of 0, and of k when it holds of k - 1, holds up to any    *)
(* bound.                                                                  *)
LEMMA UpTo ==
  ASSUME NEW N \in Nat, NEW T, 0 \in T, \A k \in 1 .. N : k - 1 \in T => k \in T
  PROVE  0 .. N \subseteq T
<1> DEFINE B == (0 .. N) \ T
<1> SUFFICES ASSUME B # {} PROVE FALSE
  OBVIOUS
<1>1. PICK m \in B : \A n \in B : m <= n
  <2>1. B \in SUBSET Nat
    OBVIOUS
  <2> HIDE DEF B
  <2> QED BY <2>1, Least
<1>2. m \in 1 .. N /\ m - 1 \in 0 .. N /\ ~(m <= m - 1)
  OBVIOUS
<1> QED BY <1>1, <1>2

-----------------------------------------------------------------------------
(* sort_priority_list: how the lists of a class are collected, and that    *)
(* its recursion has a solution.                                           *)
ClassStep(f, c, n) ==
  IF n = 0 THEN <<>>
  ELSE IF Priority[Registered[n]] = c THEN Append(f[n - 1], Registered[n]) ELSE f[n - 1]

ClassSolvable(c, n) ==
  \E g \in [0 .. n -> Seq(Lists)] : \A k \in 0 .. n : g[k] = ClassStep(g, c, k)

(* The lists of a class.                                                   *)
LEMMA ClassIs ==
  ASSUME NEW c
  PROVE  \E f \in [0 .. Len(Registered) -> Seq(Lists)] :
           /\ \A n \in 0 .. Len(Registered) : f[n] = ClassStep(f, c, n)
           /\ Class(c) = f[Len(Registered)]
<1> DEFINE N == Len(Registered)
           T == { n \in 0 .. N : ClassSolvable(c, n) }
<1>1. N \in Nat /\ \A n \in 1 .. N : Registered[n] \in Lists
  BY CommUnitAssumption DEF Lists
<1>2. 0 \in T
  <2> DEFINE g == [k \in 0 .. 0 |-> <<>>]
  <2>1. g \in [0 .. 0 -> Seq(Lists)] /\ \A k \in 0 .. 0 : g[k] = ClassStep(g, c, k)
    BY EmptySeq DEF ClassStep
  <2> HIDE DEF g
  <2>2. ClassSolvable(c, 0)
    BY <2>1 DEF ClassSolvable
  <2> QED BY <1>1, <2>2
<1>3. ASSUME NEW n \in 1 .. N, n - 1 \in T PROVE n \in T
  <2>1. PICK g \in [0 .. n - 1 -> Seq(Lists)] : \A k \in 0 .. n - 1 : g[k] = ClassStep(g, c, k)
    BY <1>3 DEF ClassSolvable
  <2> DEFINE e == ClassStep(g, c, n)
             h == [k \in 0 .. n |-> IF k = n THEN e ELSE g[k]]
  <2>2. e \in Seq(Lists)
    <3>1. g[n - 1] \in Seq(Lists) /\ Registered[n] \in Lists
      BY <1>1, <2>1
    <3>2. Append(g[n - 1], Registered[n]) \in Seq(Lists)
      BY <3>1, AppendProperties
    <3> QED BY <3>1, <3>2 DEF ClassStep
  <2> HIDE DEF e
  <2>3. h \in [0 .. n -> Seq(Lists)]
    BY <2>1, <2>2
  <2>4. ASSUME NEW k \in 0 .. n PROVE h[k] = ClassStep(h, c, k)
    <3>1. k # 0 => h[k - 1] = g[k - 1]
      OBVIOUS
    <3>2. ClassStep(h, c, k) = ClassStep(g, c, k)
      BY <3>1 DEF ClassStep
    <3>3. CASE k = n
      BY <3>2, <3>3 DEF e
    <3>4. CASE k # n
      <4>1. k \in 0 .. n - 1
        BY <3>4
      <4> QED BY <2>1, <3>2, <3>4, <4>1
    <3> QED BY <3>3, <3>4
  <2> HIDE DEF h
  <2>5. ClassSolvable(c, n)
    BY <2>3, <2>4 DEF ClassSolvable
  <2> QED BY <1>1, <2>5
<1>4. 0 .. N \subseteq T
  <2> HIDE DEF T, N
  <2> QED BY <1>1, <1>2, <1>3, UpTo
<1>5. PICK g \in [0 .. N -> Seq(Lists)] : \A k \in 0 .. N : g[k] = ClassStep(g, c, k)
  <2>1. ClassSolvable(c, N)
    BY <1>1, <1>4
  <2> QED BY <2>1 DEF ClassSolvable
<1> DEFINE f == CHOOSE f : f = [n \in 0 .. N |-> ClassStep(f, c, n)]
<1>6. f = [n \in 0 .. N |-> ClassStep(f, c, n)]
  <2>1. g = [n \in 0 .. N |-> ClassStep(g, c, n)]
    BY <1>5
  <2> QED BY <2>1
<1>7. Class(c) = f[N]
  BY DEF Class, ClassStep
<1> HIDE DEF f
<1> DEFINE U == { n \in 0 .. N : f[n] = g[n] }
<1>8. 0 .. N \subseteq U
  <2>1. 0 \in U
    BY <1>1, <1>5, <1>6 DEF ClassStep
  <2>2. ASSUME NEW n \in 1 .. N, n - 1 \in U PROVE n \in U
    <3>1. n - 1 \in 0 .. N /\ n \in 0 .. N /\ n # 0 /\ f[n - 1] = g[n - 1]
      BY <1>1, <2>2
    <3>2. f[n] = ClassStep(f, c, n) /\ g[n] = ClassStep(g, c, n)
      BY <1>5, <1>6, <3>1
    <3>3. f[n] = g[n]
      BY <3>1, <3>2 DEF ClassStep
    <3> QED BY <3>1, <3>3
  <2> HIDE DEF U, N
  <2> QED BY <1>1, <2>1, <2>2, UpTo
<1>9. f = g
  BY <1>5, <1>6, <1>8
<1> QED BY <1>5, <1>7, <1>9

(* Every registered list has one place in the order.                       *)
LEMMA OrderIs ==
  Order \in Seq(Lists) /\ Len(Order) = Len(Registered)
         /\ Len(Registered) \in Nat \ {0}
<1> DEFINE N == Len(Registered)
<1>1. PICK f \in [0 .. N -> Seq(Lists)] :
        (\A n \in 0 .. N : f[n] = ClassStep(f, "critical", n)) /\ Class("critical") = f[N]
  BY ClassIs
<1>2. PICK g \in [0 .. N -> Seq(Lists)] :
        (\A n \in 0 .. N : g[n] = ClassStep(g, "high", n)) /\ Class("high") = g[N]
  BY ClassIs
<1>3. PICK h \in [0 .. N -> Seq(Lists)] :
        (\A n \in 0 .. N : h[n] = ClassStep(h, "normal", n)) /\ Class("normal") = h[N]
  BY ClassIs
<1>4. PICK k \in [0 .. N -> Seq(Lists)] :
        (\A n \in 0 .. N : k[n] = ClassStep(k, "low", n)) /\ Class("low") = k[N]
  BY ClassIs
<1>5. N \in Nat \ {0} /\ \A n \in 1 .. N : Registered[n] \in Lists
  BY CommUnitAssumption DEF Lists
<1> DEFINE T == { n \in 0 .. N : Len(f[n]) + Len(g[n]) + Len(h[n]) + Len(k[n]) = n }
<1>6. 0 .. N \subseteq T
  <2>1. 0 \in T
    <3>1. f[0] = <<>> /\ g[0] = <<>> /\ h[0] = <<>> /\ k[0] = <<>>
      BY <1>1, <1>2, <1>3, <1>4, <1>5 DEF ClassStep
    <3> QED BY <1>5, <3>1
  <2>2. ASSUME NEW n \in 1 .. N, n - 1 \in T PROVE n \in T
    <3>1. n - 1 \in 0 .. N /\ n \in 0 .. N /\ n # 0
      BY <1>5
    <3> DEFINE p == Priority[Registered[n]]
    <3>2. p \in {"critical", "high", "normal", "low"}
      BY <1>5, CommUnitAssumption
    <3>3. ASSUME NEW s \in Seq(Lists)
          PROVE  Len(Append(s, Registered[n])) = Len(s) + 1 /\ Len(s) \in Nat
      BY <1>5, AppendProperties, LenProperties
    <3>4. /\ f[n - 1] \in Seq(Lists) /\ g[n - 1] \in Seq(Lists)
          /\ h[n - 1] \in Seq(Lists) /\ k[n - 1] \in Seq(Lists)
      BY <3>1
    <3> HIDE DEF p
    <3>5. Len(f[n]) = IF p = "critical" THEN Len(f[n - 1]) + 1 ELSE Len(f[n - 1])
      BY <1>1, <3>1, <3>3, <3>4 DEF ClassStep, p
    <3>6. Len(g[n]) = IF p = "high" THEN Len(g[n - 1]) + 1 ELSE Len(g[n - 1])
      BY <1>2, <3>1, <3>3, <3>4 DEF ClassStep, p
    <3>7. Len(h[n]) = IF p = "normal" THEN Len(h[n - 1]) + 1 ELSE Len(h[n - 1])
      BY <1>3, <3>1, <3>3, <3>4 DEF ClassStep, p
    <3>8. Len(k[n]) = IF p = "low" THEN Len(k[n - 1]) + 1 ELSE Len(k[n - 1])
      BY <1>4, <3>1, <3>3, <3>4 DEF ClassStep, p
    <3>9. Len(f[n - 1]) + Len(g[n - 1]) + Len(h[n - 1]) + Len(k[n - 1]) = n - 1
      BY <2>2
    <3>10. Len(f[n]) + Len(g[n]) + Len(h[n]) + Len(k[n]) = n
      <4>1. Len(f[n - 1]) \in Nat /\ Len(g[n - 1]) \in Nat /\ Len(h[n - 1]) \in Nat
            /\ Len(k[n - 1]) \in Nat
        BY <3>3, <3>4
      <4>2. ASSUME NEW a \in Nat, NEW b \in Nat, NEW d \in Nat, NEW e \in Nat, a + b + d + e = n - 1
            PROVE  /\ a + 1 + b + d + e = n /\ a + (b + 1) + d + e = n
                   /\ a + b + (d + 1) + e = n /\ a + b + d + (e + 1) = n
        BY <1>5, <4>2
      <4>3. CASE p = "critical"
        BY <3>5, <3>6, <3>7, <3>8, <3>9, <4>1, <4>2, <4>3
      <4>4. CASE p = "high"
        BY <3>5, <3>6, <3>7, <3>8, <3>9, <4>1, <4>2, <4>4
      <4>5. CASE p = "normal"
        BY <3>5, <3>6, <3>7, <3>8, <3>9, <4>1, <4>2, <4>5
      <4>6. CASE p = "low"
        BY <3>5, <3>6, <3>7, <3>8, <3>9, <4>1, <4>2, <4>6
      <4> QED BY <3>2, <4>3, <4>4, <4>5, <4>6
    <3> QED BY <3>1, <3>10
  <2> HIDE DEF T, N
  <2> QED BY <1>5, <2>1, <2>2, UpTo
<1>7. ASSUME NEW s \in Seq(Lists), NEW t \in Seq(Lists)
      PROVE  s \o t \in Seq(Lists) /\ Len(s \o t) = Len(s) + Len(t)
  BY ConcatProperties
<1>8. f[N] \in Seq(Lists) /\ g[N] \in Seq(Lists) /\ h[N] \in Seq(Lists)
      /\ k[N] \in Seq(Lists)
  <2>1. N \in 0 .. N
    BY <1>5
  <2> HIDE DEF N
  <2> QED BY <2>1
<1>9. /\ Len(f[N]) + Len(g[N]) + Len(h[N]) + Len(k[N]) = N
      /\ Len(f[N]) \in Nat /\ Len(g[N]) \in Nat /\ Len(h[N]) \in Nat /\ Len(k[N]) \in Nat
  <2>1. N \in T
    <3>1. N \in 0 .. N
      BY <1>5
    <3> HIDE DEF T, N
    <3> QED BY <1>6, <3>1
  <2>2. Len(f[N]) + Len(g[N]) + Len(h[N]) + Len(k[N]) = N
    BY <2>1
  <2> QED BY <1>8, <2>2, LenProperties
<1>10. Order = ((f[N] \o g[N]) \o h[N]) \o k[N]
  BY <1>1, <1>2, <1>3, <1>4 DEF Order
<1>11. (f[N] \o g[N]) \o h[N] \in Seq(Lists) /\ Len((f[N] \o g[N]) \o h[N]) = Len(f[N])
       + Len(g[N]) + Len(h[N])
  BY <1>7, <1>8
<1>12. Order \in Seq(Lists) /\ Len(Order) = Len(f[N]) + Len(g[N]) + Len(h[N])
       + Len(k[N])
  BY <1>7, <1>8, <1>10, <1>11
<1> QED BY <1>5, <1>9, <1>12

(* The list at a position the dispatcher is at.                            *)
LEMMA AtPosition ==
  ASSUME NEW p \in Positions
  PROVE  Order[p] \in Lists
BY OrderIs, ElementOfSeq DEF Positions

-----------------------------------------------------------------------------
(* The nodes in the lists.                                                 *)
LEMMA WaitingIs ==
  /\ \A n : n \in Waiting <=> \E l \in Lists : \E i \in 1 .. Len(queue[l]) :
     queue[l][i] = n
  /\ \A n : n \in Waiting' <=> \E l \in Lists : \E i \in 1 .. Len(queue'[l]) :
     queue'[l][i] = n
<1>1. \A n : n \in Waiting <=> \E l \in Lists : \E i \in 1 .. Len(queue[l]) :
      queue[l][i] = n
  <2>1. ASSUME NEW n \in Waiting
        PROVE  \E l \in Lists : \E i \in 1 .. Len(queue[l]) : queue[l][i] = n
    <3>1. PICK l \in Lists : n \in { queue[l][i] : i \in 1 .. Len(queue[l]) }
      BY DEF Waiting
    <3> QED BY <3>1
  <2>2. ASSUME NEW l \in Lists, NEW i \in 1 .. Len(queue[l]) PROVE queue[l][i] \in Waiting
    BY DEF Waiting
  <2> QED BY <2>1, <2>2
<1>2. \A n : n \in Waiting' <=> \E l \in Lists : \E i \in 1 .. Len(queue'[l]) :
      queue'[l][i] = n
  <2>1. ASSUME NEW n \in Waiting'
        PROVE  \E l \in Lists : \E i \in 1 .. Len(queue'[l]) : queue'[l][i] = n
    <3>1. PICK l \in Lists : n \in { queue'[l][i] : i \in 1 .. Len(queue'[l]) }
      BY DEF Waiting
    <3> QED BY <3>1
  <2>2. ASSUME NEW l \in Lists, NEW i \in 1 .. Len(queue'[l])
        PROVE  queue'[l][i] \in Waiting'
    BY DEF Waiting
  <2> QED BY <2>1, <2>2
<1> QED BY <1>1, <1>2

(* Where a node goes. The head of a list leaves it, ...                    *)
LEMMA PopList ==
  ASSUME queue \in [Lists -> Seq(Nodes)], ListedOnce, NEW l \in Lists, queue[l] # <<>>,
         queue' = [queue EXCEPT ![l] = Tail(@)]
  PROVE  /\ queue' \in [Lists -> Seq(Nodes)] /\ ListedOnce'
         /\ Head(queue[l]) \in Waiting /\ Waiting' = Waiting \ {Head(queue[l])}
<1> DEFINE n == Head(queue[l])
<1>1. \A k \in Lists : Len(queue[k]) \in Nat
  BY LenProperties
<1>2. /\ Tail(queue[l]) \in Seq(Nodes) /\ Len(queue[l]) \in Nat \ {0}
      /\ Len(Tail(queue[l])) = Len(queue[l]) - 1
      /\ \A i \in 1 .. Len(queue[l]) - 1 : Tail(queue[l])[i] = queue[l][i + 1]
      /\ n = queue[l][1]
  BY HeadTailProperties, EmptySeq
<1>3. /\ queue' \in [Lists -> Seq(Nodes)]
      /\ queue'[l] = Tail(queue[l]) /\ \A k \in Lists \ {l} : queue'[k] = queue[k]
  BY <1>2
<1>4. /\ Len(queue'[l]) = Len(queue[l]) - 1
      /\ \A i \in 1 .. Len(queue[l]) - 1 : queue'[l][i] = queue[l][i + 1]
  BY <1>2, <1>3
<1>5. ListedOnce'
  <2> SUFFICES ASSUME NEW k1 \in Lists, NEW k2 \in Lists,
                      NEW i \in 1 .. Len(queue'[k1]), NEW j \in 1 .. Len(queue'[k2]),
                      queue'[k1][i] = queue'[k2][j]
               PROVE  k1 = k2 /\ i = j
    BY DEF ListedOnce
  <2>1. CASE k1 = l /\ k2 = l
    <3>1. i + 1 \in 1 .. Len(queue[l]) /\ j + 1 \in 1 .. Len(queue[l]) /\ i \in Nat /\ j \in Nat
      BY <1>2, <1>4, <2>1
    <3>2. queue[l][i + 1] = queue[l][j + 1]
      BY <1>2, <1>4, <2>1
    <3> QED BY <2>1, <3>1, <3>2 DEF ListedOnce
  <2>2. CASE k1 = l /\ k2 # l
    <3>1. i + 1 \in 1 .. Len(queue[l]) /\ queue[l][i + 1] = queue[k2][j]
          /\ j \in 1 .. Len(queue[k2])
      BY <1>2, <1>3, <1>4, <2>2
    <3> QED BY <2>2, <3>1 DEF ListedOnce
  <2>3. CASE k1 # l /\ k2 = l
    <3>1. j + 1 \in 1 .. Len(queue[l]) /\ queue[l][j + 1] = queue[k1][i]
          /\ i \in 1 .. Len(queue[k1])
      BY <1>2, <1>3, <1>4, <2>3
    <3> QED BY <2>3, <3>1 DEF ListedOnce
  <2>4. CASE k1 # l /\ k2 # l
    <3>1. queue'[k1] = queue[k1] /\ queue'[k2] = queue[k2]
      BY <1>3, <2>4
    <3> QED BY <3>1 DEF ListedOnce
  <2> QED BY <2>1, <2>2, <2>3, <2>4
<1>6. n \in Waiting
  <2>1. 1 \in 1 .. Len(queue[l])
    BY <1>2
  <2> QED BY <1>2, <2>1 DEF Waiting
<1>7. Waiting' \subseteq Waiting \ {n}
  <2> SUFFICES ASSUME NEW k \in Lists, NEW i \in 1 .. Len(queue'[k])
               PROVE  queue'[k][i] \in Waiting \ {n}
    BY DEF Waiting
  <2>1. CASE k = l
    <3>1. /\ i + 1 \in 1 .. Len(queue[l]) /\ queue'[l][i] = queue[l][i + 1]
          /\ 1 \in 1 .. Len(queue[l])
          /\ i + 1 # 1
      BY <1>2, <1>4, <2>1
    <3>2. queue[l][i + 1] \in Waiting
      BY <3>1 DEF Waiting
    <3>3. queue[l][i + 1] # n
      BY <1>2, <3>1 DEF ListedOnce
    <3> QED BY <2>1, <3>1, <3>2, <3>3
  <2>2. CASE k # l
    <3>1. queue'[k] = queue[k] /\ 1 \in 1 .. Len(queue[l])
      BY <1>2, <1>3, <2>2
    <3>2. queue[k][i] \in Waiting
      BY <3>1 DEF Waiting
    <3>3. queue[k][i] # n
      BY <1>2, <2>2, <3>1 DEF ListedOnce
    <3> QED BY <3>1, <3>2, <3>3
  <2> QED BY <2>1, <2>2
<1>8. Waiting \ {n} \subseteq Waiting'
  <2> SUFFICES ASSUME NEW k \in Lists, NEW i \in 1 .. Len(queue[k]), queue[k][i] # n
               PROVE  queue[k][i] \in Waiting'
    <3> HIDE DEF n
    <3> QED BY WaitingIs
  <2>1. CASE k = l
    <3>1. i - 1 \in 1 .. Len(queue[l]) - 1 /\ (i - 1) + 1 = i
      BY <1>2, <2>1
    <3>2. i - 1 \in 1 .. Len(queue'[l]) /\ queue'[l][i - 1] = queue[l][i]
      BY <1>4, <2>1, <3>1
    <3>3. queue'[l][i - 1] \in Waiting'
      BY <3>2, WaitingIs
    <3> QED BY <2>1, <3>2, <3>3
  <2>2. CASE k # l
    <3>1. queue'[k] = queue[k]
      BY <1>3, <2>2
    <3> QED BY <3>1 DEF Waiting
  <2> QED BY <2>1, <2>2
<1> QED BY <1>3, <1>5, <1>6, <1>7, <1>8

(* ... a node comes to the tail of a list, ...                             *)
LEMMA PushList ==
  ASSUME queue \in [Lists -> Seq(Nodes)], ListedOnce, NEW l \in Lists,
         NEW n \in Nodes \ Waiting,
         queue' = [queue EXCEPT ![l] = Append(@, n)]
  PROVE  /\ queue' \in [Lists -> Seq(Nodes)] /\ ListedOnce'
         /\ Waiting' = Waiting \cup {n}
<1> DEFINE last == Len(queue[l]) + 1
<1>1. \A k \in Lists : Len(queue[k]) \in Nat
  BY LenProperties
<1>2. /\ Append(queue[l], n) \in Seq(Nodes) /\ Len(Append(queue[l], n)) = last
      /\ \A i \in 1 .. Len(queue[l]) : Append(queue[l], n)[i] = queue[l][i]
      /\ Append(queue[l], n)[last] = n
  BY AppendProperties
<1>3. /\ queue' \in [Lists -> Seq(Nodes)]
      /\ queue'[l] = Append(queue[l], n) /\ \A k \in Lists \ {l} : queue'[k] = queue[k]
  BY <1>2
<1>4. /\ Len(queue'[l]) = last /\ queue'[l][last] = n
      /\ \A i \in 1 .. Len(queue[l]) : queue'[l][i] = queue[l][i]
  BY <1>2, <1>3
<1>5. \A k \in Lists : \A i \in 1 .. Len(queue'[k]) :
        \/ i \in 1 .. Len(queue[k]) /\ queue'[k][i] = queue[k][i] /\ queue[k][i] \in Waiting
        \/ k = l /\ i = last /\ queue'[k][i] = n
  <2> SUFFICES ASSUME NEW k \in Lists, NEW i \in 1 .. Len(queue'[k])
               PROVE  \/ /\ i \in 1 .. Len(queue[k])
                         /\ queue'[k][i] = queue[k][i] /\ queue[k][i] \in Waiting
                      \/ k = l /\ i = last /\ queue'[k][i] = n
    OBVIOUS
  <2>1. CASE k = l /\ i = last
    BY <1>4, <2>1
  <2>2. CASE ~(k = l /\ i = last)
    <3>1. i \in 1 .. Len(queue[k]) /\ queue'[k][i] = queue[k][i]
      BY <1>1, <1>3, <1>4, <2>2
    <3> QED BY <3>1 DEF Waiting
  <2> QED BY <2>1, <2>2
<1>6. \A k \in Lists : \A i \in 1 .. Len(queue[k]) :
        i \in 1 .. Len(queue'[k]) /\ queue'[k][i] = queue[k][i]
  BY <1>1, <1>3, <1>4
<1>7. last \in 1 .. Len(queue'[l]) /\ queue'[l][last] = n
  BY <1>1, <1>4
<1> HIDE DEF last
<1>8. ListedOnce'
  <2> SUFFICES ASSUME NEW k1 \in Lists, NEW k2 \in Lists,
                      NEW i \in 1 .. Len(queue'[k1]), NEW j \in 1 .. Len(queue'[k2]),
                      queue'[k1][i] = queue'[k2][j]
               PROVE  k1 = k2 /\ i = j
    BY DEF ListedOnce
  <2>1. CASE queue'[k1][i] = n
    BY <1>5, <2>1
  <2>2. CASE queue'[k1][i] # n
    BY <1>5, <2>2 DEF ListedOnce
  <2> QED BY <2>1, <2>2
<1>9. Waiting' \subseteq Waiting \cup {n}
  <2> SUFFICES ASSUME NEW k \in Lists, NEW i \in 1 .. Len(queue'[k])
               PROVE  queue'[k][i] \in Waiting \cup {n}
    BY DEF Waiting
  <2> QED BY <1>5
<1>10. Waiting \cup {n} \subseteq Waiting'
  <2>1. n \in Waiting'
    BY <1>7 DEF Waiting
  <2>2. ASSUME NEW k \in Lists, NEW i \in 1 .. Len(queue[k])
        PROVE  queue[k][i] \in Waiting'
    BY <1>6 DEF Waiting
  <2> QED BY <2>1, <2>2 DEF Waiting
<1> QED BY <1>3, <1>8, <1>9, <1>10

(* ... a job comes to the tail of the pool's queue, ...                    *)
LEMMA PushJob ==
  ASSUME jobs \in Seq(Lists \X Nodes), JobOnce, NEW l \in Lists,
         NEW n \in Nodes \ QueuedNodes,
         jobs' = Append(jobs, <<l, n>>)
  PROVE  /\ jobs' \in Seq(Lists \X Nodes) /\ Len(jobs') = Len(jobs) + 1 /\ JobOnce'
         /\ QueuedNodes' = QueuedNodes \cup {n}
<1> DEFINE last == Len(jobs) + 1
<1>1. /\ jobs' \in Seq(Lists \X Nodes) /\ Len(jobs') = last /\ Len(jobs) \in Nat
      /\ \A i \in 1 .. Len(jobs) : jobs'[i] = jobs[i]
      /\ jobs'[last] = <<l, n>>
  BY AppendProperties, LenProperties
<1>2. \A i \in 1 .. Len(jobs') :
        \/ i \in 1 .. Len(jobs) /\ jobs'[i][2] = jobs[i][2]
        \/ i = last /\ jobs'[i][2] = n
  BY <1>1
<1>3. /\ \A i \in 1 .. Len(jobs) : i \in 1 .. Len(jobs') /\ jobs[i][2] = jobs'[i][2]
      /\ last \in 1 .. Len(jobs') /\ jobs'[last][2] = n
  BY <1>1
<1> HIDE DEF last
<1>4. JobOnce'
  <2> SUFFICES ASSUME NEW i \in 1 .. Len(jobs'), NEW j \in 1 .. Len(jobs'),
                      jobs'[i][2] = jobs'[j][2]
               PROVE  i = j
    BY DEF JobOnce
  <2>1. \A k \in 1 .. Len(jobs) : jobs[k][2] # n
    BY DEF QueuedNodes
  <2> QED BY <1>2, <2>1 DEF JobOnce
<1>5. QueuedNodes' = QueuedNodes \cup {n}
  BY <1>2, <1>3 DEF QueuedNodes
<1> QED BY <1>1, <1>4, <1>5 DEF last

(* ... and the first job leaves it.                                        *)
LEMMA PopJob ==
  ASSUME jobs \in Seq(Lists \X Nodes), JobOnce, jobs # <<>>, jobs' = Tail(jobs)
  PROVE  /\ jobs' \in Seq(Lists \X Nodes) /\ Len(jobs') = Len(jobs) - 1 /\ JobOnce'
         /\ Head(jobs) \in Lists \X Nodes /\ Head(jobs)[2] \in QueuedNodes
         /\ QueuedNodes' = QueuedNodes \ {Head(jobs)[2]}
<1>1. /\ jobs' \in Seq(Lists \X Nodes) /\ Len(jobs) \in Nat \ {0} /\ Len(jobs') = Len(jobs) - 1
      /\ \A i \in 1 .. Len(jobs) - 1 : jobs'[i] = jobs[i + 1]
      /\ Head(jobs) = jobs[1] /\ Head(jobs) \in Lists \X Nodes
  BY HeadTailProperties, EmptySeq
<1>2. \A i \in 1 .. Len(jobs') : i + 1 \in 1 .. Len(jobs) /\ i + 1 # 1
      /\ jobs'[i][2] = jobs[i + 1][2]
  BY <1>1
<1>3. \A i \in 1 .. Len(jobs) : i # 1 => i - 1 \in 1 .. Len(jobs') /\ jobs'[i - 1][2] = jobs[i][2]
  <2> SUFFICES ASSUME NEW i \in 1 .. Len(jobs), i # 1
               PROVE  i - 1 \in 1 .. Len(jobs') /\ jobs'[i - 1][2] = jobs[i][2]
    OBVIOUS
  <2>1. i - 1 \in 1 .. Len(jobs) - 1 /\ (i - 1) + 1 = i
    BY <1>1
  <2>2. jobs'[i - 1] = jobs[i]
    BY <1>1, <2>1
  <2> QED BY <1>1, <2>1, <2>2
<1>4. 1 \in 1 .. Len(jobs)
  BY <1>1
<1>5. JobOnce'
  <2> SUFFICES ASSUME NEW i \in 1 .. Len(jobs'), NEW j \in 1 .. Len(jobs'),
                      jobs'[i][2] = jobs'[j][2]
               PROVE  i = j
    BY DEF JobOnce
  <2>1. i + 1 = j + 1
    BY <1>2 DEF JobOnce
  <2> QED BY <1>1, <2>1
<1>6. Head(jobs)[2] \in QueuedNodes
  BY <1>1, <1>4 DEF QueuedNodes
<1>7. QueuedNodes' \subseteq QueuedNodes \ {Head(jobs)[2]}
  <2> SUFFICES ASSUME NEW i \in 1 .. Len(jobs') PROVE jobs'[i][2] \in QueuedNodes \ {Head(jobs)[2]}
    BY DEF QueuedNodes
  <2>1. jobs[i + 1][2] \in QueuedNodes
    BY <1>2 DEF QueuedNodes
  <2>2. jobs[i + 1][2] # jobs[1][2]
    BY <1>2, <1>4 DEF JobOnce
  <2> QED BY <1>1, <1>2, <2>1, <2>2
<1>8. QueuedNodes \ {Head(jobs)[2]} \subseteq QueuedNodes'
  <2> SUFFICES ASSUME NEW i \in 1 .. Len(jobs), jobs[i][2] # jobs[1][2]
               PROVE  jobs[i][2] \in QueuedNodes'
    BY <1>1 DEF QueuedNodes
  <2> QED BY <1>3 DEF QueuedNodes
<1> QED BY <1>1, <1>5, <1>6, <1>7, <1>8

-----------------------------------------------------------------------------
(* At the start every node is free.                                        *)
LEMMA UnitInitInv ==
  ASSUME UnitInit
  PROVE  UnitInv
<1>1. /\ queue = [l \in Lists |-> <<>>] /\ jobs = <<>> /\ running = {}
      /\ free = Nodes /\ lost_nodes = {} /\ old = {}
      /\ listener = "test" /\ mode = "test" /\ pos = 1 /\ expired = FALSE
      /\ ready_to_work = TRUE /\ behind = {} /\ spent = 0
  BY DEF UnitInit
<1>2. Waiting = {} /\ QueuedNodes = {} /\ NodesAtWork = {}
  BY <1>1 DEF Waiting, QueuedNodes, NodesAtWork
<1>3. IsFiniteSet(running) /\ Cardinality(running) = 0 /\ Len(jobs) = 0
  BY <1>1, FS_EmptySet
<1>4. UnitTypeOK
  <2>1. queue \in [Lists -> Seq(Nodes)] /\ jobs \in Seq(Lists \X Nodes)
    BY <1>1, EmptySeq
  <2>2. Len(jobs) + Cardinality(running) <= JobSlots /\ Cardinality(running) <= NumberOfWorkers
    BY <1>3, CommUnitAssumption
  <2>3. spent \in 0 .. FirstJobSlots
    BY <1>1, CommUnitAssumption
  <2> QED BY <1>1, <2>1, <2>2, <2>3 DEF UnitTypeOK
<1>5. KindsPartition
  BY <1>1, <1>2 DEF KindsPartition
<1>6. ListedOnce /\ JobOnce /\ HandOnce
  BY <1>1 DEF ListedOnce, JobOnce, HandOnce
<1> QED BY <1>1, <1>3, <1>4, <1>5, <1>6 DEF UnitInv

-----------------------------------------------------------------------------
\* The parts of the type invariant.
PlacesOK ==
  /\ queue \in [Lists -> Seq(Nodes)]
  /\ free \subseteq Nodes /\ old \subseteq Nodes /\ lost_nodes \subseteq Nodes
  /\ jobs \in Seq(Lists \X Nodes) /\ running \subseteq Lists \X Nodes
  /\ Len(jobs) + Cardinality(running) <= JobSlots
  /\ Cardinality(running) <= NumberOfWorkers /\ spent \in 0 .. FirstJobSlots
ControlOK ==
  /\ listener \in {"test", "insert"} /\ mode \in Modes
  /\ mode \in {"scan", "reverse"} => pos \in Positions
  /\ expired \in BOOLEAN /\ ready_to_work \in BOOLEAN
  /\ behind \subseteq Lists

(* The type invariant is these two.                                        *)
LEMMA UnitTypesApart ==
  /\ (UnitTypeOK <=> PlacesOK /\ ControlOK)
  /\ (UnitTypeOK' <=> PlacesOK' /\ ControlOK')
BY DEF UnitTypeOK, PlacesOK, ControlOK, Modes

\* What the nodes are in: the part of UnitInv that only their moves touch.
NodesInv ==
  /\ PlacesOK /\ IsFiniteSet(running)
  /\ KindsPartition /\ ListedOnce /\ JobOnce /\ HandOnce

(* So the invariant is where the nodes are, and where the threads are.     *)
LEMMA InvIs ==
  /\ UnitInv <=> NodesInv /\ ControlOK /\ pos \in Nat \ {0}
  /\ UnitInv' <=> NodesInv' /\ ControlOK' /\ pos' \in Nat \ {0}
BY UnitTypesApart DEF UnitInv, NodesInv

(* Steps that move no node.                                                *)
LEMMA NodesRest ==
  ASSUME NodesInv, UNCHANGED <<queue, free, jobs, running, spent, lost_nodes>>,
         old' \subseteq Nodes
  PROVE  NodesInv'
<1>1. Waiting' = Waiting /\ QueuedNodes' = QueuedNodes /\ NodesAtWork' = NodesAtWork
  BY DEF Waiting, QueuedNodes, NodesAtWork
<1>2. PlacesOK'
  BY DEF NodesInv, PlacesOK
<1>3. KindsPartition'
  BY <1>1 DEF NodesInv, KindsPartition
<1>4. ListedOnce' /\ JobOnce' /\ HandOnce'
  BY DEF NodesInv, ListedOnce, JobOnce, HandOnce
<1> QED BY <1>2, <1>3, <1>4 DEF NodesInv

(* thpool_add_work moves a node into a job, or loses it.                   *)
LEMMA DispatchInv ==
  ASSUME NodesInv, NEW l \in Lists, queue[l] # <<>>, Dispatch(l)
  PROVE  NodesInv'
<1> DEFINE n == Head(queue[l])
<1>1. /\ queue \in [Lists -> Seq(Nodes)] /\ jobs \in Seq(Lists \X Nodes)
      /\ KindsPartition /\ ListedOnce /\ JobOnce /\ HandOnce /\ IsFiniteSet(running)
  BY DEF NodesInv, PlacesOK
<1>2. queue' = [queue EXCEPT ![l] = Tail(@)] /\ UNCHANGED <<free, old, running, spent>>
  BY DEF Dispatch
<1>3. /\ queue' \in [Lists -> Seq(Nodes)] /\ ListedOnce'
      /\ n \in Waiting /\ Waiting' = Waiting \ {n}
  BY <1>1, <1>2, PopList
<1>4. /\ n \in Nodes /\ n \notin QueuedNodes /\ n \notin NodesAtWork /\ n \notin free
      /\ n \notin lost_nodes
      /\ NodesAtWork' = NodesAtWork
  BY <1>1, <1>2, <1>3 DEF KindsPartition, NodesAtWork
<1>5. HandOnce' /\ IsFiniteSet(running')
  BY <1>1, <1>2 DEF HandOnce
<1>6. CASE JobSlotFree /\ jobs' = Append(jobs, <<l, n>>) /\ lost_nodes' = lost_nodes
  <2>1. /\ jobs' \in Seq(Lists \X Nodes) /\ Len(jobs') = Len(jobs) + 1 /\ JobOnce'
        /\ QueuedNodes' = QueuedNodes \cup {n}
    <3> HIDE DEF n
    <3> QED BY <1>1, <1>4, <1>6, PushJob
  <2>2. Len(jobs') + Cardinality(running') <= JobSlots
    <3>1. Len(jobs) \in Nat /\ Cardinality(running) \in Nat
      BY <1>1, FS_CardinalityType, LenProperties
    <3>2. Len(jobs) + Cardinality(running) + spent < JobSlots
      BY <1>6 DEF JobSlotFree
    <3>3. JobSlots \in Nat /\ FirstJobSlots \in Nat /\ spent \in 0 .. FirstJobSlots
      BY CommUnitAssumption DEF NodesInv, PlacesOK
    <3> QED BY <1>2, <2>1, <3>1, <3>2, <3>3
  <2>3. PlacesOK'
    BY <1>2, <1>3, <1>6, <2>1, <2>2 DEF NodesInv, PlacesOK
  <2>4. KindsPartition'
    <3> HIDE DEF n
    <3> QED BY <1>1, <1>2, <1>3, <1>4, <1>6, <2>1 DEF KindsPartition
  <2> QED BY <1>3, <1>5, <2>1, <2>3, <2>4 DEF NodesInv
<1>7. CASE ~JobSlotFree /\ jobs' = jobs /\ lost_nodes' = lost_nodes \cup {n}
  <2>1. QueuedNodes' = QueuedNodes /\ JobOnce'
    BY <1>1, <1>7 DEF QueuedNodes, JobOnce
  <2>2. PlacesOK'
    BY <1>2, <1>3, <1>4, <1>7 DEF NodesInv, PlacesOK
  <2>3. KindsPartition'
    <3> HIDE DEF n
    <3> QED BY <1>1, <1>2, <1>3, <1>4, <1>7, <2>1 DEF KindsPartition
  <2> QED BY <1>3, <1>5, <2>1, <2>2, <2>3 DEF NodesInv
<1> QED BY <1>6, <1>7 DEF Dispatch

(* A node that is freed goes back to node_mempool, or is nobody's.         *)
LEMMA FreeNodeIs ==
  ASSUME NEW n, FreeNode(n)
  PROVE  /\ old' = old \ {n}
         /\ \/ free' = free \cup {n} /\ lost_nodes' = lost_nodes
            \/ free' = free /\ lost_nodes' = lost_nodes \cup {n}
<1>1. CASE n \in FirstSlots
  <2>1. {n} \ FirstSlots = {} /\ {n} \cap FirstSlots = {n}
    BY <1>1
  <2> QED BY <2>1 DEF FreeNode
<1>2. CASE n \notin FirstSlots
  <2>1. {n} \ FirstSlots = {n} /\ {n} \cap FirstSlots = {}
    BY <1>2
  <2> QED BY <2>1 DEF FreeNode
<1> QED BY <1>1, <1>2

(* An outdated node leaves its list and is freed.                          *)
LEMMA DropInv ==
  ASSUME NodesInv, NEW l \in Lists, queue[l] # <<>>, DropHead(l), UNCHANGED poolVars
  PROVE  NodesInv'
<1> DEFINE n == Head(queue[l])
<1>1. /\ queue \in [Lists -> Seq(Nodes)]
      /\ KindsPartition /\ ListedOnce /\ JobOnce /\ HandOnce /\ IsFiniteSet(running)
  BY DEF NodesInv, PlacesOK
<1>2. /\ queue' = [queue EXCEPT ![l] = Tail(@)] /\ old' = old \ {n}
      /\ \/ free' = free \cup {n} /\ lost_nodes' = lost_nodes
         \/ free' = free /\ lost_nodes' = lost_nodes \cup {n}
      /\ UNCHANGED <<jobs, running, spent>>
  <2>1. queue' = [queue EXCEPT ![l] = Tail(@)] /\ FreeNode(n)
    BY DEF DropHead
  <2> HIDE DEF n
  <2> QED BY <2>1, FreeNodeIs DEF poolVars
<1>3. /\ queue' \in [Lists -> Seq(Nodes)] /\ ListedOnce'
      /\ n \in Waiting /\ Waiting' = Waiting \ {n}
  BY <1>1, <1>2, PopList
<1> HIDE DEF n
<1>4. n \in Nodes /\ QueuedNodes' = QueuedNodes /\ NodesAtWork' = NodesAtWork
  BY <1>1, <1>2, <1>3 DEF KindsPartition, QueuedNodes, NodesAtWork
<1>5. PlacesOK'
  BY <1>2, <1>3, <1>4 DEF NodesInv, PlacesOK
<1>6. KindsPartition'
  BY <1>1, <1>2, <1>3, <1>4 DEF KindsPartition
<1>7. JobOnce' /\ HandOnce' /\ IsFiniteSet(running')
  BY <1>1, <1>2 DEF JobOnce, HandOnce
<1> QED BY <1>3, <1>5, <1>6, <1>7 DEF NodesInv

(* The listener takes a free node and puts it into a list.                 *)
LEMMA InsertInv ==
  ASSUME NodesInv, NEW l \in Lists, NEW n \in Nodes, ListenerInsert(l, n) PROVE NodesInv'
<1>1. /\ queue \in [Lists -> Seq(Nodes)]
      /\ KindsPartition /\ ListedOnce /\ JobOnce /\ HandOnce /\ IsFiniteSet(running)
  BY DEF NodesInv, PlacesOK
<1>2. /\ queue' = [queue EXCEPT ![l] = Append(@, n)] /\ n \in free /\ free' = free \ {n}
      /\ UNCHANGED <<old, jobs, running, spent, lost_nodes>>
  BY DEF ListenerInsert, poolVars
<1>3. n \in Nodes \ Waiting
  BY <1>1, <1>2 DEF KindsPartition
<1>4. queue' \in [Lists -> Seq(Nodes)] /\ ListedOnce' /\ Waiting' = Waiting \cup {n}
  BY <1>1, <1>2, <1>3, PushList
<1>5. QueuedNodes' = QueuedNodes /\ NodesAtWork' = NodesAtWork
  BY <1>2 DEF QueuedNodes, NodesAtWork
<1>6. PlacesOK'
  BY <1>2, <1>4 DEF NodesInv, PlacesOK
<1>7. KindsPartition'
  BY <1>1, <1>2, <1>4, <1>5 DEF KindsPartition
<1>8. JobOnce' /\ HandOnce' /\ IsFiniteSet(running')
  BY <1>1, <1>2 DEF JobOnce, HandOnce
<1> QED BY <1>4, <1>6, <1>7, <1>8 DEF NodesInv

(* thpool_destroy drops the jobs that are queued.                          *)
LEMMA DestroyInv ==
  ASSUME NodesInv, DestroyPool
  PROVE  NodesInv'
<1>1. /\ jobs \in Seq(Lists \X Nodes) /\ Len(jobs) + Cardinality(running) <= JobSlots
      /\ KindsPartition /\ ListedOnce /\ HandOnce /\ IsFiniteSet(running)
  BY DEF NodesInv, PlacesOK
<1>2. jobs' = <<>> /\ lost_nodes' = lost_nodes \cup QueuedNodes
      /\ UNCHANGED <<queue, free, old, running, spent>>
  BY DEF DestroyPool, QueuedNodes
<1>3. /\ QueuedNodes' = {} /\ Waiting' = Waiting /\ NodesAtWork' = NodesAtWork
      /\ JobOnce' /\ jobs' \in Seq(Lists \X Nodes)
  BY <1>2, EmptySeq DEF QueuedNodes, Waiting, NodesAtWork, JobOnce
<1>4. QueuedNodes \subseteq Nodes
  BY <1>1 DEF KindsPartition
<1>5. Len(jobs') + Cardinality(running') <= JobSlots
  <2>1. Len(jobs) \in Nat /\ Cardinality(running) \in Nat /\ Len(jobs') = 0 /\ JobSlots \in Nat
    BY <1>1, <1>2, FS_CardinalityType, LenProperties, CommUnitAssumption
  <2> QED BY <1>1, <1>2, <2>1
<1>6. PlacesOK'
  BY <1>2, <1>3, <1>4, <1>5 DEF NodesInv, PlacesOK
<1>7. KindsPartition'
  BY <1>1, <1>2, <1>3 DEF KindsPartition
<1>8. ListedOnce' /\ HandOnce' /\ IsFiniteSet(running')
  BY <1>1, <1>2 DEF ListedOnce, HandOnce
<1> QED BY <1>3, <1>6, <1>7, <1>8 DEF NodesInv

(* A worker takes the first job.                                           *)
LEMMA PullInv ==
  ASSUME NodesInv, WorkerPull
  PROVE  NodesInv'
<1> DEFINE r == Head(jobs)
<1>1. /\ jobs \in Seq(Lists \X Nodes) /\ Len(jobs) + Cardinality(running) <= JobSlots
      /\ KindsPartition /\ ListedOnce /\ JobOnce /\ HandOnce /\ IsFiniteSet(running)
  BY DEF NodesInv, PlacesOK
<1>2. /\ jobs # <<>> /\ Cardinality(running) < NumberOfWorkers
      /\ running' = running \cup {r} /\ jobs' = Tail(jobs)
      /\ UNCHANGED <<queue, free, old, spent, lost_nodes>>
  BY DEF WorkerPull
<1>3. /\ jobs' \in Seq(Lists \X Nodes) /\ Len(jobs') = Len(jobs) - 1 /\ JobOnce'
      /\ r \in Lists \X Nodes /\ r[2] \in QueuedNodes /\ QueuedNodes' = QueuedNodes \ {r[2]}
  BY <1>1, <1>2, PopJob
<1> HIDE DEF r
<1>4. /\ Waiting' = Waiting /\ NodesAtWork' = NodesAtWork \cup {r[2]}
      /\ r[2] \notin NodesAtWork /\ r[2] \in Nodes
  BY <1>1, <1>2, <1>3 DEF Waiting, NodesAtWork, KindsPartition
<1>5. /\ IsFiniteSet(running') /\ Cardinality(running) \in Nat
      /\ Cardinality(running') \in Nat /\ Cardinality(running') <= Cardinality(running) + 1
  <2>1. /\ IsFiniteSet(running')
        /\ Cardinality(running') = IF r \in running THEN Cardinality(running)
           ELSE Cardinality(running) + 1
    BY <1>1, <1>2, FS_AddElement
  <2>2. Cardinality(running) \in Nat
    BY <1>1, FS_CardinalityType
  <2> QED BY <2>1, <2>2
<1>6. Len(jobs') + Cardinality(running') <= JobSlots /\ Cardinality(running') <= NumberOfWorkers
  <2>1. Len(jobs) \in Nat /\ JobSlots \in Nat /\ NumberOfWorkers \in Nat
    BY <1>1, LenProperties, CommUnitAssumption
  <2> QED BY <1>1, <1>2, <1>3, <1>5, <2>1
<1>7. PlacesOK'
  BY <1>2, <1>3, <1>6 DEF NodesInv, PlacesOK
<1>8. KindsPartition'
  BY <1>1, <1>2, <1>3, <1>4 DEF KindsPartition
<1>9. HandOnce'
  <2>1. \A s \in running : s[2] # r[2]
    BY <1>4 DEF NodesAtWork
  <2> QED BY <1>1, <1>2, <2>1 DEF HandOnce
<1>10. ListedOnce'
  BY <1>1, <1>2 DEF ListedOnce
<1> QED BY <1>3, <1>5, <1>7, <1>8, <1>9, <1>10 DEF NodesInv

(* The function of a list has freed the node, or put it into a list.       *)
LEMMA DoneInv ==
  ASSUME NodesInv, NEW l \in Lists, NEW n \in Nodes,
         WorkerDone(l, n)
  PROVE  NodesInv'
<1>1. /\ queue \in [Lists -> Seq(Nodes)] /\ Len(jobs) + Cardinality(running) <= JobSlots
      /\ running \subseteq Lists \X Nodes /\ Cardinality(running) <= NumberOfWorkers
      /\ jobs \in Seq(Lists \X Nodes)
      /\ KindsPartition /\ ListedOnce /\ JobOnce /\ HandOnce /\ IsFiniteSet(running)
  BY DEF NodesInv, PlacesOK
<1>2. <<l, n>> \in running /\ running' = running \ {<<l, n>>} /\ jobs' = jobs
  BY DEF WorkerDone
<1>3. n \in NodesAtWork /\ n \notin Waiting /\ QueuedNodes' = QueuedNodes
  BY <1>1, <1>2 DEF NodesAtWork, KindsPartition, QueuedNodes
<1>4. NodesAtWork' = NodesAtWork \ {n}
  <2>1. \A s \in running : s[2] = n => s = <<l, n>>
    BY <1>1, <1>2 DEF HandOnce
  <2> QED BY <1>2, <2>1 DEF NodesAtWork
<1>5. HandOnce' /\ JobOnce'
  BY <1>1, <1>2 DEF HandOnce, JobOnce
<1>6. IsFiniteSet(running') /\ Len(jobs') + Cardinality(running') <= JobSlots
      /\ Cardinality(running') <= NumberOfWorkers
  <2>1. /\ IsFiniteSet(running') /\ Cardinality(running') = Cardinality(running) - 1
        /\ Cardinality(running) \in Nat /\ Len(jobs) \in Nat /\ JobSlots \in Nat
        /\ NumberOfWorkers \in Nat
    BY <1>1, <1>2, FS_RemoveElement, FS_CardinalityType, LenProperties, CommUnitAssumption
  <2> QED BY <1>1, <1>2, <2>1
<1>7. spent' \in 0 .. FirstJobSlots
  <2>1. spent \in 0 .. FirstJobSlots /\ FirstJobSlots \in Nat
    BY CommUnitAssumption DEF NodesInv, PlacesOK
  <2>2. (spent' = spent \/ spent' = spent + 1) /\ spent' <= FirstJobSlots
    BY DEF WorkerDone
  <2> QED BY <2>1, <2>2
<1>8. CASE Successor[l] = "free"
  <2>1. /\ old' = old \ {n} /\ queue' = queue
        /\ \/ free' = free \cup {n} /\ lost_nodes' = lost_nodes
           \/ free' = free /\ lost_nodes' = lost_nodes \cup {n}
    <3>1. FreeNode(n) /\ queue' = queue
      BY <1>8 DEF WorkerDone
    <3> QED BY <3>1, FreeNodeIs
  <2>2. Waiting' = Waiting /\ ListedOnce'
    BY <1>1, <2>1 DEF Waiting, ListedOnce
  <2>3. PlacesOK'
    BY <1>2, <1>6, <1>7, <2>1 DEF NodesInv, PlacesOK
  <2>4. KindsPartition'
    BY <1>1, <1>2, <1>3, <1>4, <2>1, <2>2 DEF KindsPartition
  <2> QED BY <1>5, <1>6, <2>2, <2>3, <2>4 DEF NodesInv
<1>9. CASE Successor[l] # "free"
  <2>1. Successor[l] \in Lists
    BY <1>9, CommUnitAssumption
  <2>2. queue' = [queue EXCEPT ![Successor[l]] = Append(@, n)]
        /\ UNCHANGED <<free, old, lost_nodes>>
    BY <1>9 DEF WorkerDone
  <2>3. queue' \in [Lists -> Seq(Nodes)] /\ ListedOnce'
        /\ Waiting' = Waiting \cup {n}
    BY <1>1, <1>3, <2>1, <2>2, PushList
  <2>4. PlacesOK'
    BY <1>2, <1>6, <1>7, <2>2, <2>3 DEF NodesInv, PlacesOK
  <2>5. KindsPartition'
    BY <1>1, <1>2, <1>3, <1>4, <2>2, <2>3 DEF KindsPartition
  <2> QED BY <1>5, <1>6, <2>3, <2>4, <2>5 DEF NodesInv
<1> QED BY <1>8, <1>9

-----------------------------------------------------------------------------
(* The dispatcher stays within its order.                                  *)
LEMMA NextInScanOK ==
  ASSUME ControlOK, mode = "scan", NextInScan
  PROVE  mode' \in Modes /\ pos' \in Positions
<1>1. pos \in Positions /\ Len(Order) = Len(Registered) /\ Len(Order) \in Nat
  BY OrderIs DEF ControlOK
<1>2. CASE pos = Len(Order)
  BY <1>1, <1>2 DEF NextInScan, Modes
<1>3. CASE pos # Len(Order)
  <2>1. mode' = "scan" /\ pos' = pos + 1
    BY <1>3 DEF NextInScan
  <2>2. pos + 1 \in Positions
    BY <1>1, <1>3 DEF Positions
  <2> QED BY <2>1, <2>2 DEF Modes
<1> QED BY <1>2, <1>3

(* The start of the reverse pass is its last list.                         *)
LEMMA LastPosition ==
  Len(Order) \in Positions
BY OrderIs DEF Positions

(* Every step keeps the nodes where one of the above says.                 *)
LEMMA NextNodes ==
  ASSUME UnitInv, [UnitNext]_unitVars
  PROVE  NodesInv'
<1>1. NodesInv /\ ControlOK /\ pos \in Nat \ {0} /\ old \subseteq Nodes
      /\ Waiting \subseteq Nodes
  BY InvIs DEF NodesInv, PlacesOK, KindsPartition
<1>2. CASE UNCHANGED unitVars
  BY <1>1, <1>2, NodesRest DEF unitVars, poolVars
<1>3. CASE ListenerTest \/ ListenerDrop \/ Test \/ ScanEmpty
           \/ TimerExpires \/ Stop
  <2>1. UNCHANGED <<queue, free, old, jobs, running, spent, lost_nodes>>
    BY <1>3 DEF ListenerTest, ListenerDrop, Test, ScanEmpty,
                TimerExpires, Stop, poolVars
  <2> QED BY <1>1, <2>1, NodesRest
<1>4. ASSUME NEW aged \in SUBSET Waiting, ReadClock(aged) PROVE NodesInv'
  <2>1. UNCHANGED <<queue, free, jobs, running, spent, lost_nodes>> /\ old' = old \cup aged
    BY <1>4 DEF ReadClock, poolVars
  <2> QED BY <1>1, <2>1, NodesRest
<1>5. ASSUME NEW l \in Lists, NEW n \in Nodes, ListenerInsert(l, n)
             \/ WorkerDone(l, n)
      PROVE  NodesInv'
  BY <1>1, <1>5, InsertInv, DoneInv
<1>6. CASE WorkerPull \/ DestroyPool
  BY <1>1, <1>6, PullInv, DestroyInv
<1>7. CASE ScanDrop \/ ScanDispatch
  <2>1. mode = "scan" /\ Order[pos] \in Lists
    BY <1>1, <1>7, AtPosition DEF ControlOK, ScanDrop, ScanDispatch
  <2>2. CASE ScanDrop
    <3>1. queue[Order[pos]] # <<>> /\ DropHead(Order[pos]) /\ UNCHANGED poolVars
      BY <2>2 DEF ScanDrop
    <3> QED BY <1>1, <2>1, <3>1, DropInv
  <2>3. CASE ScanDispatch
    <3>1. queue[Order[pos]] # <<>> /\ Dispatch(Order[pos])
      BY <2>3 DEF ScanDispatch
    <3> QED BY <1>1, <2>1, <3>1, DispatchInv
  <2> QED BY <1>7, <2>2, <2>3
<1>8. CASE CriticalPass
  <2>1. CASE UNCHANGED <<queue, free, old, poolVars, lost_nodes>>
    BY <1>1, <2>1, NodesRest DEF poolVars
  <2>2. CASE /\ ~(pos > Len(Order) \/ Priority[Order[pos]] # "critical")
             /\ queue[Order[pos]] # <<>> /\ Dispatch(Order[pos])
    <3>1. Order[pos] \in Lists
      <4>1. Len(Order) \in Nat /\ Len(Order) = Len(Registered)
        BY OrderIs
      <4>2. pos \in Positions
        BY <1>1, <2>2, <4>1 DEF Positions
      <4> QED BY <4>2, AtPosition
    <3> QED BY <1>1, <2>2, <3>1, DispatchInv
  <2> QED BY <1>8, <2>1, <2>2 DEF CriticalPass
<1>9. CASE ReversePass
  <2>1. Order[pos] \in Lists
    BY <1>1, <1>9, AtPosition DEF ControlOK, ReversePass
  <2>2. CASE UNCHANGED <<queue, free, old, poolVars, lost_nodes>>
    BY <1>1, <2>2, NodesRest DEF poolVars
  <2>3. CASE queue[Order[pos]] # <<>> /\ Dispatch(Order[pos])
    BY <1>1, <2>1, <2>3, DispatchInv
  <2> QED BY <1>9, <2>2, <2>3 DEF ReversePass
<1> QED BY <1>2, <1>3, <1>4, <1>5, <1>6, <1>7, <1>8, <1>9 DEF UnitNext, Dispatcher

(* Every step keeps the threads where they can be.                         *)
LEMMA NextControl ==
  ASSUME UnitInv, [UnitNext]_unitVars
  PROVE  ControlOK' /\ pos' \in Nat \ {0}
<1>1. ControlOK /\ pos \in Nat \ {0} /\ Positions \subseteq Nat \ {0} /\ 1 \in Positions
  BY InvIs, OrderIs DEF Positions
<1>2. CASE UNCHANGED unitVars
  BY <1>1, <1>2 DEF unitVars, cuVars, ControlOK
<1>3. CASE ListenerTest \/ ListenerDrop \/ \E l \in Lists, n \in Nodes :
           ListenerInsert(l, n)
  <2>1. listener' \in {"test", "insert"} /\ UNCHANGED <<cuVars, ready_to_work>>
    BY <1>3 DEF ListenerTest, ListenerDrop, ListenerInsert
  <2> QED BY <1>1, <2>1 DEF cuVars, ControlOK
<1>4. CASE WorkerPull \/ \E l \in Lists, n \in Nodes : WorkerDone(l, n)
  <2>1. UNCHANGED <<listener, cuVars, ready_to_work>>
    BY <1>4 DEF WorkerPull, WorkerDone
  <2> QED BY <1>1, <2>1 DEF cuVars, ControlOK
<1>5. CASE Stop \/ TimerExpires
  <2>1. /\ expired' \in BOOLEAN /\ ready_to_work' \in BOOLEAN
        /\ UNCHANGED <<listener, mode, pos, behind>>
    BY <1>1, <1>5 DEF Stop, TimerExpires, cuVars, ControlOK
  <2> QED BY <1>1, <2>1 DEF ControlOK
<1>6. CASE Test
  <2>1. /\ mode' \in {"scan", "critical"} /\ pos' = 1 /\ behind' = {}
        /\ UNCHANGED <<listener, expired, ready_to_work>>
    BY <1>6 DEF Test
  <2> QED BY <1>1, <2>1 DEF ControlOK, Modes
<1>7. CASE ScanEmpty \/ ScanDrop
  <2>1. mode = "scan" /\ NextInScan /\ UNCHANGED <<listener, expired, ready_to_work>>
    BY <1>7 DEF ScanEmpty, ScanDrop
  <2>2. mode' \in Modes /\ pos' \in Positions
    BY <1>1, <2>1, NextInScanOK
  <2>3. behind' \subseteq Lists
    <3>1. Order[pos] \in Lists /\ behind \subseteq Lists
      BY <1>1, <2>1, AtPosition DEF ControlOK
    <3>2. behind' \in {behind, behind \cup {Order[pos]}}
      BY <1>7 DEF ScanEmpty, ScanDrop
    <3> QED BY <3>1, <3>2
  <2> QED BY <1>1, <2>1, <2>2, <2>3 DEF ControlOK
<1>8. CASE ScanDispatch
  <2>1. mode' = "clock" /\ UNCHANGED <<listener, pos, expired, behind, ready_to_work>>
    BY <1>8 DEF ScanDispatch
  <2> QED BY <1>1, <2>1 DEF ControlOK, Modes
<1>9. ASSUME NEW aged, ReadClock(aged) PROVE ControlOK' /\ pos' \in Nat \ {0}
  <2>1. mode' = "test" /\ UNCHANGED <<listener, pos, expired, behind, ready_to_work>>
    BY <1>9 DEF ReadClock
  <2> QED BY <1>1, <2>1 DEF ControlOK, Modes
<1>10. CASE CriticalPass
  <2>1. UNCHANGED <<listener, expired, behind, ready_to_work>>
    BY <1>10 DEF CriticalPass
  <2>2. \/ mode' = "reverse" /\ pos' = Len(Order)
        \/ mode' = "critical" /\ pos' = pos + 1
    BY <1>10 DEF CriticalPass, ToReverse
  <2>3. /\ mode' \in Modes /\ (mode' \in {"scan", "reverse"} => pos' \in Positions)
        /\ pos' \in Nat \ {0}
    BY <1>1, <2>2, LastPosition DEF Modes
  <2> QED BY <1>1, <2>1, <2>3 DEF ControlOK
<1>11. CASE ReversePass
  <2>1. /\ UNCHANGED <<listener, behind, ready_to_work>> /\ mode = "reverse"
        /\ \/ pos > 1 /\ mode' = mode /\ pos' = pos - 1 /\ expired' = expired
           \/ mode' \in {"test", "destroy"} /\ pos' = pos /\ expired' = FALSE
    BY <1>11 DEF ReversePass
  <2>2. pos \in Positions
    BY <1>1, <2>1 DEF ControlOK
  <2>3. pos > 1 => pos - 1 \in Positions
    BY <2>2, OrderIs DEF Positions
  <2> QED BY <1>1, <2>1, <2>3 DEF ControlOK, Modes
<1>12. CASE DestroyPool
  <2>1. mode' = "destroyed" /\ UNCHANGED <<listener, pos, expired, behind, ready_to_work>>
    BY <1>12 DEF DestroyPool
  <2> QED BY <1>1, <2>1 DEF ControlOK, Modes
<1> QED
  BY <1>2, <1>3, <1>4, <1>5, <1>6, <1>7, <1>8, <1>9, <1>10, <1>11, <1>12 DEF UnitNext,
     Dispatcher

(* So the invariant holds always.                                          *)
LEMMA UnitSpecInv == UnitSpec => []UnitInv
<1>1. UnitInit => UnitInv
  BY UnitInitInv
<1>2. UnitInv /\ [UnitNext]_unitVars => UnitInv'
  BY InvIs, NextNodes, NextControl
<1> QED BY <1>1, <1>2, PTL DEF UnitSpec

-----------------------------------------------------------------------------
(* What the variables hold, always.                                        *)
THEOREM CommUnitTypeCorrect == UnitSpec => []UnitTypeOK
<1>1. UnitInv => UnitTypeOK
  BY DEF UnitInv
<1> QED BY <1>1, UnitSpecInv, PTL

(* The cardinality of a set that has one element at most.                  *)
LEMMA AtMostOne ==
  ASSUME NEW S, \A x, y \in S : x = y
  PROVE  Cardinality(S) = IF S = {} THEN 0 ELSE 1
<1>1. CASE S = {}
  BY <1>1, FS_EmptySet
<1>2. CASE S # {}
  <2>1. PICK x \in S : S = {x}
    BY <1>2
  <2> QED BY <1>2, <2>1, FS_Singleton
<1> QED BY <1>1, <1>2

(* NodesConserved: the listener that fills the buffer lists,               *)
(* CommUnit_routine that empties them and the workers that run their       *)
(* functions leave each node of node_mempool in exactly one list, job or   *)
(* worker, or free, or lost with a job that thpool_add_work or             *)
(* thpool_destroy has dropped.                                             *)
THEOREM NodesStayConserved == UnitSpec => []NodesConserved
<1>1. UnitInv => NodesConserved
  <2> SUFFICES ASSUME UnitInv, NEW n \in Nodes
               PROVE  Cardinality(InLists(n)) + Cardinality(InJobs(n))
                      + Cardinality(InHands(n))
                        + In(n, free) + In(n, lost_nodes) = 1
    BY DEF NodesConserved
  <2>1. KindsPartition /\ ListedOnce /\ JobOnce /\ HandOnce
    BY DEF UnitInv
  <2>2. Cardinality(InLists(n)) = IF n \in Waiting THEN 1 ELSE 0
    <3>1. \A p : p \in InLists(n) <=>
                 \E l \in Lists : \E i \in 1 .. Len(queue[l]) : p = <<l, i>> /\ queue[l][i] = n
      <4>1. ASSUME NEW p \in InLists(n)
            PROVE  \E l \in Lists : \E i \in 1 .. Len(queue[l]) : p = <<l, i>>
                   /\ queue[l][i] = n
        <5>1. PICK l \in Lists :
                   p \in { <<l, i>> : i \in { j \in 1 .. Len(queue[l]) : queue[l][j] = n } }
          BY DEF InLists
        <5> QED BY <5>1
      <4>2. ASSUME NEW l \in Lists, NEW i \in 1 .. Len(queue[l]), queue[l][i] = n
            PROVE  <<l, i>> \in InLists(n)
        BY <4>2 DEF InLists
      <4> QED BY <4>1, <4>2
    <3>2. \A p, q \in InLists(n) : p = q
      BY <2>1, <3>1 DEF ListedOnce
    <3>3. InLists(n) # {} => n \in Waiting
      BY <3>1, WaitingIs
    <3>4. n \in Waiting => InLists(n) # {}
      <4>1. SUFFICES ASSUME NEW l \in Lists, NEW i \in 1 .. Len(queue[l]), queue[l][i] = n
                     PROVE  InLists(n) # {}
        BY WaitingIs
      <4>2. <<l, i>> \in InLists(n)
        BY <3>1, <4>1
      <4> QED BY <4>2
    <3> QED BY <3>2, <3>3, <3>4, AtMostOne
  <2>3. Cardinality(InJobs(n)) = IF n \in QueuedNodes THEN 1 ELSE 0
    <3>1. \A i, j \in InJobs(n) : i = j
      BY <2>1 DEF InJobs, JobOnce
    <3>2. InJobs(n) # {} <=> n \in QueuedNodes
      BY DEF InJobs, QueuedNodes
    <3> QED BY <3>1, <3>2, AtMostOne
  <2>4. Cardinality(InHands(n)) = IF n \in NodesAtWork THEN 1 ELSE 0
    <3>1. \A r, s \in InHands(n) : r = s
      BY <2>1 DEF InHands, HandOnce
    <3>2. InHands(n) # {} <=> n \in NodesAtWork
      BY DEF InHands, NodesAtWork
    <3> QED BY <3>1, <3>2, AtMostOne
  <2>5. CASE n \in Waiting
    BY <2>1, <2>2, <2>3, <2>4, <2>5 DEF KindsPartition, In
  <2>6. CASE n \in QueuedNodes
    BY <2>1, <2>2, <2>3, <2>4, <2>6 DEF KindsPartition, In
  <2>7. CASE n \in NodesAtWork
    BY <2>1, <2>2, <2>3, <2>4, <2>7 DEF KindsPartition, In
  <2>8. CASE n \in free \/ n \in lost_nodes
    BY <2>1, <2>2, <2>3, <2>4, <2>8 DEF KindsPartition, In
  <2> QED BY <2>1, <2>5, <2>6, <2>7, <2>8 DEF KindsPartition
<1> QED BY <1>1, UnitSpecInv, PTL
=============================================================================
