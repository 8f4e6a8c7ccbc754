------------------------------ MODULE CommUnit ------------------------------
(***************************************************************************)
(* The dispatcher of the server (CommUnit_routine of src/import/BeDIS.c):  *)
(* the listener thread puts received packets, in nodes from node_mempool,  *)
(* into prioritised buffer lists; CommUnit_routine moves them to the thread*)
(* pool, in priority order until MAX_STARVATION_TIME has passed and then,  *)
(* once, one from every list; a worker runs the list's function, which     *)
(* frees the node or puts it into another list.                            *)
(*                                                                         *)
(* One step of the dispatcher is its visit of one list. The pop is made    *)
(* under that list's lock, and until the node is in the job queue it is in *)
(* no shared structure, so the pop and thpool_add_work are one step. The   *)
(* thread pool is here its queue and its limit; ThreadPool has its inside. *)
(***************************************************************************)
EXTENDS Naturals, Sequences, FiniteSets

CONSTANTS
  Nodes,            \* the slots of node_mempool
  Registered,       \* the buffer lists, in the order main registers them
  Priority,         \* [lists -> the class of the list's priority_nice]
  Received,         \* the lists the listener fills
  Successor,        \* [lists -> where its function puts the node, or "free"]
  NumberOfWorkers,  \* common_config.number_worker_threads
  JobSlots,         \* the number of jobs the thread pool's own mempool can hold
  FirstSlots,       \* the nodes that mp_free refuses: each the first slot of a
                    \* block of node_mempool
  FirstJobSlots     \* the number of job slots that mp_free refuses

Lists == { Registered[i] : i \in 1 .. Len(Registered) }

ASSUME CommUnitAssumption ==
  /\ Registered \in Seq(Lists) /\ Lists # {}
  /\ Priority \in [Lists -> {"critical", "high", "normal", "low"}]
  /\ Received \subseteq Lists
  /\ Successor \in [Lists -> Lists \cup {"free"}] /\ "free" \notin Lists
  /\ NumberOfWorkers \in Nat \ {0} /\ JobSlots \in Nat \ {0}
  /\ FirstSlots \subseteq Nodes /\ FirstJobSlots \in Nat

VARIABLES
  queue,           \* the nodes in each buffer list
  free,            \* the nodes in node_mempool
  old,             \* nodes older than min_age_out_of_date_packet_in_sec
  listener,        \* Server_process_wifi_receive: at its loop test, or after
  mode, pos,       \* where CommUnit_routine is
  expired,         \* uptime - init_time >= MAX_STARVATION_TIME
  jobs, running,   \* the thread pool: queued, and in the workers' hands
  spent,           \* the job slots that mp_free has refused so far
  ready_to_work,
  behind,          \* ghost: lists this scan went past and left non-empty
  lost_nodes       \* ghost: nodes that nothing refers to any more

poolVars == <<jobs, running, spent>>
cuVars == <<mode, pos, expired, behind>>
unitVars == <<queue, free, old, listener, cuVars, poolVars, ready_to_work, lost_nodes>>

\* sort_priority_list: by class, within a class in the order of registration.
Class(c) ==
  LET upto[n \in 0 .. Len(Registered)] ==
        IF n = 0 THEN <<>>
        ELSE IF Priority[Registered[n]] = c
        THEN Append(upto[n - 1], Registered[n]) ELSE upto[n - 1]
  IN upto[Len(Registered)]
Order == Class("critical") \o Class("high") \o Class("normal") \o Class("low")

Positions == 1 .. Len(Registered)

UnitTypeOK ==
  /\ queue \in [Lists -> Seq(Nodes)]
  /\ free \subseteq Nodes /\ old \subseteq Nodes /\ lost_nodes \subseteq Nodes
  /\ listener \in {"test", "insert"}
  /\ mode \in {"test", "scan", "clock", "critical", "reverse", "destroy", "destroyed"}
  /\ mode \in {"scan", "reverse"} => pos \in Positions
  /\ expired \in BOOLEAN /\ ready_to_work \in BOOLEAN
  /\ jobs \in Seq(Lists \X Nodes) /\ running \subseteq Lists \X Nodes
  /\ Len(jobs) + Cardinality(running) <= JobSlots
  /\ Cardinality(running) <= NumberOfWorkers /\ spent \in 0 .. FirstJobSlots
  /\ behind \subseteq Lists

UnitInit ==
  /\ queue = [l \in Lists |-> <<>>]
  /\ free = Nodes /\ old = {} /\ lost_nodes = {}
  /\ listener = "test"
  /\ mode = "test" /\ pos = 1 /\ expired = FALSE /\ behind = {}
  /\ jobs = <<>> /\ running = {} /\ spent = 0
  /\ ready_to_work = TRUE

-----------------------------------------------------------------------------
(* Wrong variants of definitions below, one plausible bug each; only the   *)
(* mutation tests of the properties use them.                              *)

Mutant_ScanAgain == ready_to_work
Mutant_KeepWorking == TRUE
Mutant_DropHead(l) ==
  /\ free' = free \cup {Head(queue[l])} /\ lost_nodes' = lost_nodes
  /\ old' = old \ {Head(queue[l])}
  /\ queue' = queue

-----------------------------------------------------------------------------
\* mp_free of a node.  Its result is ignored: the first slot of a block is not
\* taken back and nothing refers to it any more.
FreeNode(n) ==
  /\ free' = free \cup ({n} \ FirstSlots)
  /\ lost_nodes' = lost_nodes \cup ({n} \cap FirstSlots)
  /\ old' = old \ {n}

-----------------------------------------------------------------------------
(* Server_process_wifi_receive                                             *)

ListenerTest ==
  /\ listener = "test" /\ ready_to_work
  /\ listener' = "insert"
  /\ UNCHANGED <<queue, free, old, cuVars, poolVars, ready_to_work, lost_nodes>>

\* A well-formed packet goes to the tail of its list ...
ListenerInsert(l, n) ==
  /\ listener = "insert" /\ n \in free /\ l \in Received
  /\ listener' = "test"
  /\ free' = free \ {n}
  /\ queue' = [queue EXCEPT ![l] = Append(@, n)]
  /\ UNCHANGED <<old, cuVars, poolVars, ready_to_work, lost_nodes>>

\* ... any other, and one that finds node_mempool empty, is dropped.
ListenerDrop ==
  /\ listener = "insert"
  /\ listener' = "test"
  /\ UNCHANGED <<queue, free, old, cuVars, poolVars, ready_to_work, lost_nodes>>

-----------------------------------------------------------------------------
(* CommUnit_routine                                                        *)

JobSlotFree == Len(jobs) + Cardinality(running) + spent < JobSlots

\* thpool_add_work for the list's head. Its result is ignored: when no job
\* slot is left the node is in no list, in no job, and not freed.
Dispatch(l) ==
  LET n == Head(queue[l]) IN
  /\ queue' = [queue EXCEPT ![l] = Tail(@)]
  /\ \/ JobSlotFree /\ jobs' = Append(jobs, <<l, n>>) /\ lost_nodes' = lost_nodes
     \/ ~JobSlotFree /\ jobs' = jobs /\ lost_nodes' = lost_nodes \cup {n}
  /\ UNCHANGED <<free, old, running, spent>>

\* The head is out of date: it goes back to node_mempool unprocessed.
DropHead(l) ==
  /\ queue' = [queue EXCEPT ![l] = Tail(@)]
  /\ FreeNode(Head(queue[l]))

ScanAgain == ready_to_work /\ ~expired
KeepWorking == ready_to_work

Test ==
  /\ mode = "test"
  /\ mode' = IF ScanAgain THEN "scan" ELSE "critical"
  /\ pos' = 1
  /\ behind' = {}
  /\ UNCHANGED <<queue, free, old, listener, expired, poolVars, ready_to_work, lost_nodes>>

NextInScan ==
  IF pos = Len(Order) THEN mode' = "clock" /\ pos' = pos
                      ELSE mode' = mode /\ pos' = pos + 1

\* The scan in priority order passes empty lists, ...
ScanEmpty ==
  /\ mode = "scan" /\ queue[Order[pos]] = <<>>
  /\ NextInScan
  /\ UNCHANGED <<queue, free, old, listener, expired, behind, poolVars, ready_to_work, lost_nodes>>

\* ... drops the head of a list when it is out of date and goes on to the
\* next list, ...
ScanDrop ==
  LET l == Order[pos] IN
  /\ mode = "scan" /\ queue[l] # <<>> /\ Head(queue[l]) \in old
  /\ DropHead(l)
  /\ behind' = IF Len(queue[l]) > 1 THEN behind \cup {l} ELSE behind
  /\ NextInScan
  /\ UNCHANGED <<listener, expired, poolVars, ready_to_work>>

\* ... and ends with the first one it dispatches.
ScanDispatch ==
  LET l == Order[pos] IN
  /\ mode = "scan" /\ queue[l] # <<>> /\ Head(queue[l]) \notin old
  /\ Dispatch(l)
  /\ mode' = "clock"
  /\ UNCHANGED <<listener, pos, expired, behind, ready_to_work>>

\* uptime = get_clock_time(): any nodes in the lists may have aged.
ReadClock(aged) ==
  /\ mode = "clock"
  /\ old' = old \cup aged
  /\ mode' = "test"
  /\ UNCHANGED <<queue, free, listener, pos, expired, behind, poolVars, ready_to_work, lost_nodes>>

ToReverse == mode' = "reverse" /\ pos' = Len(Order)

\* The starvation pass: one node of the first non-empty critical list, ...
CriticalPass ==
  /\ mode = "critical"
  /\ IF pos > Len(Order) \/ Priority[Order[pos]] # "critical"
     THEN ToReverse /\ UNCHANGED <<queue, free, old, poolVars, lost_nodes>>
     ELSE IF queue[Order[pos]] = <<>>
     THEN /\ mode' = mode /\ pos' = pos + 1
          /\ UNCHANGED <<queue, free, old, poolVars, lost_nodes>>
     ELSE Dispatch(Order[pos]) /\ ToReverse
  /\ UNCHANGED <<listener, expired, behind, ready_to_work>>

\* ... then, from the lowest priority up, one of every non-empty list.
ReversePass ==
  /\ mode = "reverse"
  /\ IF queue[Order[pos]] = <<>>
     THEN UNCHANGED <<queue, free, old, poolVars, lost_nodes>>
     ELSE Dispatch(Order[pos])
  /\ IF pos > 1
     THEN mode' = mode /\ pos' = pos - 1 /\ expired' = expired
     ELSE /\ mode' = IF KeepWorking THEN "test" ELSE "destroy"
          /\ pos' = pos
          /\ expired' = FALSE
  /\ UNCHANGED <<listener, behind, ready_to_work>>

\* thpool_destroy gets to its frees when no worker is busy any more; the jobs
\* that are still queued are dropped.  (Whether it returns: ThreadPool, Free.)
DestroyPool ==
  /\ mode = "destroy" /\ running = {}
  /\ mode' = "destroyed"
  /\ jobs' = <<>>
  /\ lost_nodes' = lost_nodes \cup { jobs[i][2] : i \in 1 .. Len(jobs) }
  /\ UNCHANGED <<queue, free, old, listener, pos, expired, behind, running, spent,
                 ready_to_work>>

\* MAX_STARVATION_TIME has passed since init_time.
TimerExpires ==
  /\ ~expired
  /\ mode \in {"test", "scan", "clock"}
  /\ expired' = TRUE
  /\ UNCHANGED <<queue, free, old, listener, mode, pos, behind, poolVars, ready_to_work,
                 lost_nodes>>

-----------------------------------------------------------------------------
(* The workers. A worker that tested threads_keepalive before thpool_destroy
   reset it may still pull a job.                                          *)

WorkerPull ==
  /\ jobs # <<>> /\ Cardinality(running) < NumberOfWorkers
  /\ mode # "destroyed"
  /\ running' = running \cup {Head(jobs)}
  /\ jobs' = Tail(jobs)
  /\ UNCHANGED <<queue, free, old, listener, cuVars, spent, ready_to_work, lost_nodes>>

\* The function of the list returns: Server_NSI_routine has put the node
\* into NSI_send, with the time at which it was received, the others have
\* freed it.  Then thread_do frees the job, which mp_free may refuse.
WorkerDone(l, n) ==
  /\ <<l, n>> \in running
  /\ running' = running \ {<<l, n>>}
  /\ IF Successor[l] = "free"
     THEN FreeNode(n) /\ UNCHANGED queue
     ELSE /\ queue' = [queue EXCEPT ![Successor[l]] = Append(@, n)]
          /\ UNCHANGED <<free, old, lost_nodes>>
  /\ spent' \in {spent, spent + 1} /\ spent' <= FirstJobSlots
  /\ UNCHANGED <<listener, cuVars, jobs, ready_to_work>>

\* The user stops the server, or a thread failed.
Stop ==
  /\ ready_to_work
  /\ ready_to_work' = FALSE
  /\ UNCHANGED <<queue, free, old, listener, cuVars, poolVars, lost_nodes>>

-----------------------------------------------------------------------------

Waiting == UNION { { queue[l][i] : i \in 1 .. Len(queue[l]) } : l \in Lists }

Dispatcher ==
  \/ Test \/ ScanEmpty \/ ScanDrop \/ ScanDispatch
  \/ \E aged \in SUBSET Waiting : ReadClock(aged)
  \/ CriticalPass \/ ReversePass \/ DestroyPool

UnitNext ==
  \/ ListenerTest \/ ListenerDrop
  \/ \E l \in Lists, n \in Nodes : ListenerInsert(l, n)
  \/ Dispatcher
  \/ TimerExpires
  \/ WorkerPull
  \/ \E l \in Lists, n \in Nodes : WorkerDone(l, n)
  \/ Stop

UnitSpec == UnitInit /\ [][UnitNext]_unitVars

\* The dispatcher and the workers keep running, the functions return, and
\* time passes. Nothing makes packets arrive, or stop arriving.
UnitFairSpec ==
  /\ UnitSpec
  /\ WF_unitVars(Dispatcher)
  /\ WF_unitVars(TimerExpires)
  /\ WF_unitVars(WorkerPull)
  /\ \A l \in Lists, n \in Nodes : WF_unitVars(WorkerDone(l, n))

-----------------------------------------------------------------------------
(* Properties.                                                             *)

\* Where a node is: in the lists, in queued jobs, in workers' hands.
InLists(n) ==
  UNION { { <<l, i>> : i \in { j \in 1 .. Len(queue[l]) : queue[l][j] = n } } :
          l \in Lists }
InJobs(n) == { i \in 1 .. Len(jobs) : jobs[i][2] = n }
InHands(n) == { j \in running : j[2] = n }
In(n, S) == IF n \in S THEN 1 ELSE 0

\* However the listener, the dispatcher and the workers interleave, each
\* node is in exactly one place: no function runs on a node that has been
\* freed or received anew.  In lost_nodes are those that thpool_add_work had no
\* slot for, those that mp_free refused, and those of the jobs that
\* thpool_destroy threw away.
NodesConserved ==
  \A n \in Nodes :
    Cardinality(InLists(n)) + Cardinality(InJobs(n)) + Cardinality(InHands(n))
      + In(n, free) + In(n, lost_nodes) = 1

\* BeDIS.c: "Have a worker thread execute the function specified by the
\* function pointer to do the work".
DispatchedIsExecuted == ready_to_work => lost_nodes = {}

\* BeDIS.c: "Scan the priority_list to get the buffer list with the highest
\* priority among all lists that are not empty" - here for the lists that
\* the scan itself has seen not to be empty.
ScanTakesHighest == [][ScanDispatch => behind = {}]_unitVars

\* While the server works every received node is eventually processed or
\* dropped as out of date, whatever its list's priority and however many
\* packets keep arriving in the others.
NodeReturns ==
  \A n \in Nodes :
    n \notin free ~> n \in free \/ n \in lost_nodes \/ ~ready_to_work

\* An answer that the server has made is sent: the dispatcher drops as out of
\* date what it was sent, not what it has to send.  An answer keeps the time at
\* which the request was received.
AnswersAreDispatched == [][ScanDrop => Order[pos] \in Received]_unitVars

\* Once stopped, the dispatcher gets out of its loops, and thpool_destroy out of
\* its own, to the frees that take the pool apart.
StopCompletes == ~ready_to_work ~> mode = "destroyed"
=============================================================================
