# TLA+ models of the BOT server

Models of the location server in `src/src` and of the modules it uses in
`src/import`: a C program with a listener, a dispatcher, a pool of worker
threads and some dozen periodic threads, which share packet buffers, memory
pools, hashtables and database connections.  The models cover its core logic:
who holds what, under which lock, in which order, and what happens at a limit
or after a failure.  They are checked with TLC on small instances; the
invariants and action properties of these runs are proved with TLAPS for every
instance.

Line numbers below and in `PROJECT.json` refer to the files under `src/`.

## The system

```
 UDP in -> recv queue -> listener ---> buffer lists ---> CommUnit ---> thread pool
          (pkt_Queue)   (wifi_receive)  by priority    (dispatcher)    (workers)
                            |                                            |
                        node_mempool <------------- free ----------------+
                                                                         |
   +-------------------------+---------------------+---------------------+
   | join, health, commands  | tracked data        | answers
   v                         v                     v
 Gateway_address_map    area_table -> hashtables  send queue -> UDP out
   |                         |      \
 polls of main          geofence    summary threads, history threads
   |                         |              |
   +-------------------------+--------------+--> pool of database connections
```

| Part | State it keeps | Operations | What is hard | Correct when |
|---|---|---|---|---|
| Thread pool, `import/thpool.c` | job queue, binary semaphore `has_jobs`, `threads_keepalive`, counters of threads | `thpool_init`, `thpool_add_work`, `thpool_destroy`, `thread_do` | lost wakeups, tearing down under running workers, a mutex that is initialised as a condition variable | no job is lost or run twice, no job waits while a worker is idle, nothing is freed under a worker |
| Packet queue, `import/pkt_Queue.c`, `UDP_API.c` | ring of 512 packets with `front` and `rear`, `is_free` | `addpkt`, `get_pkt`, `delpkt`, `udp_addpkt`, send and receive threads, `udp_release` | indices that wrap, the full queue, senders that race with shutdown | it is a bounded FIFO that stays closed once freed |
| Memory pool, `import/Mempool.c` | blocks, free list, two counters | `mp_init`, `mp_expand`, `mp_alloc`, `mp_free`, `mp_destroy` | `mp_free` recovers the block of a slot by arithmetic on addresses | each slot is free or held, by one holder |
| Linked list, `import/LinkedList.c` | none | insertion and removal | - | (its lists are sequences in the modules) |
| Listener and dispatcher, `import/BeDIS.c`, `src/Server.c` | prioritised buffer lists, `node_mempool`, starvation clock | `Server_process_wifi_receive`, `CommUnit_routine`, the handlers | priorities and starvation, outdated packets, a pool that refuses a job, stop | a buffer node has one owner; each packet is processed or dropped |
| Gateway address map, `import/BeDIS.c`, `src/Server.c` | 4096 entries with a lock | `Gateway_join_request`, `broadcast_to_gateway`, `Server_process_wifi_send` | concurrent joins, joins in the middle of a broadcast, the full send queue | one entry per gateway, acknowledgements are founded, a broadcast covers the map |
| Array of hashtables, `src/HashTable.c` | `area_table`, its size and fill, `area_table_lock` | `hash_table_of_specific_area_id`, the traversals | a search without the lock, `realloc` under readers | one hashtable per area, the right one is returned |
| Hashtable of an area, `src/HashTable.c` | buckets of nodes, a row per object, `ht_mutex`, a `node_lock` per row | put, summarise and evict, upload | lock order, predecessor pointers read without the lock, eviction under readers | the list is sound, one node per object, readings go to their rows |
| Geofence, `src/GeoFence.c` | settings, monitored objects, violation list, three locks | check of a packet, reload | state kept over the readings of a packet, expiry, reload in between, failing allocation or SQL | an alarm is justified by a recent reading at a perimeter |
| Database access, `src/SqlWrapper.c` | list of connections with `is_used` | create, destroy, get, release; some twenty `SQL_` functions | failures on each path, exhaustion, shutdown under use | no connection is shared or lost, no transaction stays open |
| Row of an object, `src/HashTable.c` | a slot per beacon with a ring of strengths, the closest beacon | put, average, summary | readings that come late or not at all, slots that are used again, strengths that jump | one slot per beacon, the rings are recent, the closest beacon is nearly the strongest |
| Violation events and notifications, `SqlWrapper.c`, `Server.c` | tables of the database, a buffer of records | monitor, collect, send and maintenance threads | an event is marked as processed before it is sent, a buffer that is too short, crashes | each event is recorded once per window, and sent |
| Life of the server, `Server.c` `main` | `ready_to_work`, all pools | initialisation, poll loop, shutdown | detached threads outlive what they use | nothing is destroyed under use |
| Side programs (`modules/.../cmdServerIPC`, `Notify`) | none | one datagram, one HTTP request | - | - |

Parts interact by shared lists under a lock (listener, dispatcher, handlers), by
the job queue (dispatcher, workers), by the packet queue (workers, main, send
thread), by function calls under locks (tracked data into a hashtable and into
the geofence check) and by the database.  No state survives a restart except
the tables of the database.

## Modules

| Module | Models | Run on |
|---|---|---|
| `ThreadPool`, `ThreadPoolProofs` | `thpool.c` | `MCThreadPool` |
| `BoundedFifo` | abstract: a bounded FIFO queue that can be closed | (refined by `PktQueue`) |
| `PktQueue`, `PktQueueProofs` | `pkt_Queue.c`, the sending half of `UDP_API.c` | `MCPktQueue` |
| `Mempool`, `MempoolProofs` | `Mempool.c` | `MCMempool` |
| `CommUnit` (proofs in `ThreadPoolProofs`) | `CommUnit_routine`, the listener, the hand-over of nodes | `MCCommUnit` |
| `GatewayMap`, `GatewayMapProofs` | join, answer and poll, composed with the send queue | `MCGatewayMap` |
| `AreaTable` (proofs in `HashTableProofs`) | `area_table` and its readers | `MCAreaTable` |
| `HashTable`, `HashTableProofs` | one bucket of a hashtable and its three kinds of threads | `MCHashTable` |
| `Rows`, `RowsProofs` | the row of one object: put, average, choice of the closest beacon | `MCRows` |
| `Notification`, `NotificationProofs` | violation events from the stamp to the message | `MCNotification` |
| `GeoFence` (proofs in `MempoolProofs`) | checks of packets, reload | `MCGeoFence` |
| `DbPool`, `DbPoolProofs` | the connection pool and its clients | `MCDbPool` |

In each module a variable has the name of the variable in the code where there is one,
an action that of its function or of the piece of it that runs without another thread
being able to see its effect; a local program counter (`pc`, `at`, `mode`, `spc`) says
where a thread is between two such pieces.  Ghost variables, which only record history
for a property, are marked as such. Three components have their proofs beside those of
what they use, in a module that extends both: `CommUnit`, which gives the thread pool
its jobs, `AreaTable`, which leads to a hashtable, and `GeoFence`, whose records are
in a memory pool.  So that no name means two things there, their specifications are
named after them (`UnitSpec`, `AreaSpec`, `FenceSpec`, with `UnitInit`, `UnitNext` and
so on), as are the index `i` of a lookup (`area_i`) and the ghost `lost_nodes`.
Definitions named `Mutant_...` are deliberately wrong variants of a definition, used
to test that the properties notice; no specification uses them.

**ThreadPool.**  `thpool_add_work` is two steps, because `jobqueue_push` posts the
semaphore after it has queued the job; a worker has a step for the test of
`threads_keepalive`, the wait, the pull, the post it makes when more jobs are left,
the job, and for reading and writing `num_threads_alive`. `pthread_cond_signal` wakes
any one sleeper; sleepers may also wake by themselves.  `thpool_destroy` clears the
queue and then frees: the array of threads twice, after which the process may go on
(`"freed"`) or not (`"broken"`).  `thcount_lock` is initialised twice, the second time
as a condition variable: whether it excludes is the constant `CountLockExcludes`.

**PktQueue.**  The ring with `front` and `rear` as in the code, `-1` for empty,
calls under their mutex as one step, and the send thread that tests `is_null`
without the mutex, then gets and deletes in two calls.  `FreePacketQueue` also
destroys the mutex (`mutex`); a call that locks it after that is noted in the ghost
`misused` and goes on as if nothing had happened.  The property
`ImplementsFifo` is `BoundedFifo!Spec` under the mapping of the ring to the
sequence of its packets.

**Mempool.**  Addresses are numbers and `mp_free` computes with them in `int`s
(`AsInt`, with the width as a constant), since its result depends on it.

**CommUnit.**  The lists are sequences of nodes; the dispatcher's program counter
runs through the priority scan, the reading of the clock and the starvation
pass; time is the nondeterministic expiry of a timer and the ageing of nodes.
`thpool_add_work` succeeds while the pool's own memory pool has a slot.  `mp_free`
refuses the first slot of a block (`Mempool`): which nodes are such slots is the
constant `FirstSlots`, a node of them is lost when it is freed, and of the job slots
up to `FirstJobSlots` are spent in that way.  The thread pool is `"destroyed"` when
`thpool_destroy` gets to its frees; what they do is in `ThreadPool`.

**GatewayMap.**  A join is: lock, search, insert, unlock, answer; the broadcast
of `main` holds the same lock and puts a packet per entry into the bounded send
queue, which the answers use too.  A request and its answer are in one node; the
ghost `fate` says what became of it: open, in the send queue, given up at the full
queue, or dropped by the dispatcher as out of date or without a job slot.

**AreaTable.**  An unlocked access loads the pointer and then reads the element;
`realloc`, doubling the size, storing the pointer and clearing the new elements
are four steps.  A thread that reads freed or uncleared memory finds any id there
and goes on accordingly; if it takes a hashtable from there, or summarises the
NULL that is left when there was no memory for a hashtable, it is `"wild"`: what it
does then is undefined and not modelled further.  A summary thread loads the
pointer anew for the id, for the summary and for the upload.  Its summary may last
for ever, as `HashTable_deadlock` shows it can, so that its end has no fairness.

**HashTable.**  A step is what a thread does up to its next lock or link.
Unlocking `ht_mutex` without holding it releases it, whoever holds it; the ghost
`stolen` records that this has happened to another holder.  A put that has memory
for a node but not for its key or row calls `free()` on the node, which is a slot of
a pool: the C library aborts (`broken`).  `mp_free` refuses first slots of blocks
(`Mempool`), so an evicted node may be lost (`lost_slots`).  The ghost `dropped`
has the nodes that an eviction took out of the list beside the one it evicted.

**Rows.**  A put and a summary hold the `node_lock` of the row from beginning to
end, so each is a step, and the row of one object is the whole state.  Time is in
seconds and readings may be late by a bound for each beacon.  A summary thread reads
the clock when its pass begins (`current_time`) and again when it stamps a row;
between the two any time may pass.  `Chosen` states
what the loops of `hashtable_summarize_location_information` pick as a set
expression: the closest beacon so far if none is stronger by more than the
tolerance, else the first of the strongest.  A slot that is freed keeps its ring,
as in the code; the ghost `written` tells whose strengths are in it.

**Notification.**  The tables are sets of rows.  Each SQL statement is a step that
may fail where the code goes on or gives up after it; between the copy of a
record to the buffer and its mark, and between that and the message, the
maintenance thread may delete the row and the server may crash, which loses the
buffer and keeps the tables.  Notification by SMS is taken as enabled: without it
the code marks the events and sends only the alarm to the gateways.  What a
monitor takes for a violation is a choice of objects.

**GeoFence.**  A check is a step per reading and setting, under the lock of the
settings; the walk of the violation list (expiry, stamp, alarm, removal) is a
function of the list.  A packet is a sequence of readings; the text is not
modelled.  The record of an object goes before the database is asked for the alarm;
the ghost `perimeter` of the object is reset only when the database has taken it.  An
allocation fails when the records and the slots that `mp_free` has refused (`lost`)
fill the pool.  A reload of all areas or of one (`scope`) destroys what it concerns and
then constructs it, each under the lock; main loads in the same way before it starts
the threads.  A load may find a part only: a setting that finds no memory is passed
over, and the dump file is shared by all reloads without a lock, so that it may be
truncated while it is read.  It may also fail as a whole and leave the list empty.

**DbPool.**  An `SQL_` function is: get, perhaps BEGIN, its statements, COMMIT or
ROLLBACK, release.  A statement may fail, and so may BEGIN, END and ROLLBACK, whose
results the code does not look at: an END or ROLLBACK that the database answers ends
the transaction whatever the answer, one that `PQexec` has no memory to send leaves it
open, which the ghost `unsent` remembers.

## What is checked

Passing runs:

| Run | Bounds | What it shows |
|---|---|---|
| `ThreadPool_live` | 2 workers, 3 jobs, spurious wakeups, `thcount_lock` does not exclude | `NoLostWakeup`, `JobsConserved`, `NoTeardownUnderWorker`; `WorkConserving` although jobs may never return; `JobsSettle` and `DestroyProceeds` if they do and no decrement of the count is lost |
| `PktQueue_ring` | 3 slots, 3 packets and one that is too long | `RingConsistent`, `ImplementsFifo`, `FullQueueDrains` |
| `Mempool_slots` | blocks of 3 slots of 4 bytes, up to 2 blocks, 4 addresses | `SlotsPartitioned`, `CountersAgree`, `LosesOnlyFirstSlots` |
| `CommUnit_nodes` | 4 lists (critical, normal, two high, one of them fed by a handler), 2 nodes of which one is lost when freed, 1 worker, 2 job slots of which one is lost when freed | `NodesConserved`, `NodeReturns`, `StopCompletes` |
| `GatewayMap_join` | 2 workers, 3 gateways, 2 entries, send queue of 1, 2 nodes for requests and answers | `OneEntryPerGateway`, `AckIsFounded`, `BroadcastComplete`, `JoinsAnswered` |
| `AreaTable_lookup` | 2 workers, 1 summary thread with a set of 2, 2 areas, an array of 1 that doubles, memory that runs out | `OneTablePerArea`, `LookupIsRight`, `SetIsServed` |
| `HashTable_list` | 2 workers, summary and history thread, 2 objects, 3 nodes of which any may be lost when freed | `ListSound`, `OneNodePerObject`, `ReadingGoesToItsObject`, up to the first unlock that takes `ht_mutex` from its holder |
| `GeoFence_alarms` | 2 fences that share beacons in opposite roles, 2 objects, packets of up to 2 readings, 2 slots for records of which one is lost when freed, 1 worker that reloads, times 0 to 3, validity 2 | `RecordsSound`, `AlarmJustified`, `RecordsKept` |
| `Rows_summary` | 2 beacons with a slot each, rings of 2, 1 summary thread whose passes take up to 1 second, one beacon up to 1 second late, the other jumping, times 0 to 4 | `OneSlotPerBeacon`, `RingIsRecent`, `UploadIsHeard`, `SummaryIsNearBest` |
| `Notification_events` | 2 monitors, 2 objects, 2 records of which both or only one fit the buffer, a window of 2, 1 failure or crash, times 0 to 2 | `OneLocatedRecordPerWindow`, `ProcessedIsLaunched`, `LaunchedOnce`, `EventsSettle` |
| `DbPool_shared` | 3 clients, 2 connections, 2 attempts, statements and allocations that fail, ends of transactions that are not sent, shutdown | `UsedIsHeld`, `NoStrayTransaction`, `CallsReturn` |

Bounds are chosen so that the limit in question is reached with something left
over that meets it: more jobs than workers, more packets than slots, more nodes
in flight than job slots, more gateways than entries, more clients than
connections, more areas than elements, an evicted node that is used again, a slot
that is used again by another beacon, a record that does not fit.  The
interleavings of interest are between two threads of a kind and one of another:
in `ThreadPool` one worker may sleep or be busy while the other takes the token of
a third job, and its invariants are proved for any number.  Symmetry is used only
where no liveness property is checked.

Each module has a type invariant, `TypeOK` or `UnitTypeOK`, `AreaTypeOK`,
`FenceTypeOK`.  All of them are proved.  They are not listed in the
configurations, whose properties are about the hazards; to check one, add it to
the `INVARIANTS` of the run.

`CHECK_DEADLOCK FALSE` is set where a state without a step is meant: a pool that was
destroyed, the dispatcher that has ended, a `DbPool` whose `main` has given up, a
`GeoFence` whose violation list was left locked, an `AreaTable` at its bound of
lookups or with its threads wild, a `HashTable` whose process has aborted, `Rows` and
`Notification` at the end of their time.

One run is expected to fail:

- `HashTable_deadlock`: a put locks a row while it holds `ht_mutex`, the summary
  thread locks `ht_mutex` while it holds a row.  Under strong fairness of every
  lock the put still waits for ever: `PutGetsRow` fails, without an abort.

### Fairness

Weak fairness is assumed of threads that can take a step, as the scheduler of
the operating system runs every thread that is not blocked.  A mutex that is
free again and again is eventually obtained (strong fairness of the lock steps of
`HashTable` and `GatewayMap`).  That is more than POSIX promises: for the deadlock
of `HashTable` it only makes a stronger statement, and in `GatewayMap` main sleeps
between two polls, so that a waiting worker finds the lock free for long.

The environment gets no fairness: packets need not arrive, jobs need not return
(`WorkConserving`), nobody has to stop the server.  Where a job has to return the
property says so as a premise (`JobsReturn`), and so where no decrement of
`num_threads_alive` may be lost (`CountsKept`).  `CommUnit` assumes that handlers
return and that the starvation timer expires; in `DbPool` the database answers.
In `Notification` only the send thread must go on; the monitors, the collection
and the deletion need not, and failures and crashes are finite (`MaxFaults`),
without which no retry could be shown to succeed.

## Deviations met while modelling

Further configurations, beside the runs above, each show a statement of a header
or comment that the code does not keep; TLC reports the property as violated.  TLC
stops at the first violation: a configuration that names several properties shows each
of them when the others are taken out of it.

| Configuration | Property | The code |
|---|---|---|
| `ThreadPool_free_race` | `NoUseAfterFree` | `thpool.c:278`: the last worker unlocks `thcount_lock` after it let `thpool_destroy` go on and free it |
| `ThreadPool_free_race` | `FreesOnce` | `thpool.c:197`: frees the array of threads again, after line 193 |
| `PktQueue_zero` | `NoLockAfterDestroy` | `pkt_Queue.c:91`: the mutex is destroyed, which the send thread or a worker may lock after that (`UDP_API.c:145`) |
| `PktQueue_zero` | `ZeroMeansQueued` | `UDP_API.c:118`: `udp_addpkt` returns 0 for a packet that was dropped |
| `Mempool_deviations` | `FreeReturnsSlot` | `Mempool.c:237`: offset 0 is not considered, so the first slot of a block is refused |
| `Mempool_deviations` | `ClosestBlockIsOwn` | `Mempool.c:235`: the difference of two addresses is kept in an `int` |
| `CommUnit_deviations` | `DispatchedIsExecuted` | `BeDIS.c:394`: the result of `thpool_add_work` is ignored |
| `CommUnit_deviations` | `ScanTakesHighest` | `BeDIS.c:390`: after an outdated packet the scan leaves a list that is not empty |
| `CommUnit_deviations` | `AnswersAreDispatched` | `BeDIS.c:386`: an answer keeps the time at which its request was received, and is dropped as out of date |
| `HashTable_unlock_twice` | `UniqueKeys` | `HashTable.c:680`: second unlock of `ht_mutex` |
| `HashTable_deviations` | `EvictsOneNode` | `HashTable.c:831`: unlinks through a `prev_node` read before the lock |
| `HashTable_deviations` | `OneLiveNode` | `HashTable.c:831`, again: an object whose node was dropped from the list gets a second one |
| `HashTable_deviations` | `UploadReadsLiveNodes` | `HashTable.c:1165`: walks the list without a lock |
| `AreaTable_deviations` | `LookupFindsTable` | `HashTable.c:240`: the id is stored before the hashtable (and a NULL for want of memory is stored for good) |
| `AreaTable_deviations` | `ReadsAreDefined` | `HashTable.c:185`: searches without the lock while the array moves |
| `AreaTable_overlap` | `AreasAreDivided` | `Server.c:450`: with more than one area per thread the sets overlap |
| `AreaTable_overlap` | `EveryAreaIsCovered` | `Server.c:450`: areas beyond the last set are never summarised |
| `GatewayMap_poll` | `BroadcastReachesAll` | `Server.c:1541`: a full send queue drops polls |
| `GatewayMap_poll` | `AnswersFit` | `UDP_API.c:118`: so it does answers, and nobody is told |
| `GeoFence_deviations` | `AlarmBeforeRemoval` | `GeoFence.c:835-848`: the record is freed before the database is asked for the alarm; when that fails there is no alarm, and no record for the next reading |
| `GeoFence_deviations` | `SettingsLoadedOnce` | `GeoFence.c:496`: destroys and constructs under a lock each, so two reloads may destroy first and then both add all settings |
| `GeoFence_deviations` | `PerimeterRecorded` | `GeoFence.c:880`: `is_found_mac_address` is kept from one reading to the next |
| `GeoFence_deviations` | `AlarmNearFence` | `GeoFence.c:633`: the threshold of the perimeters is used for fences |
| `GeoFence_stuck` | `CheckEnds` | `GeoFence.c:893`: leaves the violation list locked |
| `Rows_ring` | `RingIsOwn` | `HashTable.c:636`: a slot that is used again keeps the strengths of its former beacon in the cells that are not yet overwritten, and they are averaged |
| `Rows_ring` | `ComparesAdjacent` | `HashTable.c:732`: the oldest cell of a full ring is compared with the newest, not with the second before it |
| `Notification_losses` | `OneRecordPerWindow` | `SqlWrapper.c:1386`: `uuid = uuid` is not true of NULL, so a violation without a uuid is inserted again in every round |
| `Notification_losses` | `OwnViolationRecorded` | `SqlWrapper.c:1385`: `mac_address = mac_address` compares a column of `notification_table` with itself, so a record of any object suppresses those of all others of its monitor |
| `Notification_losses` | `NoBlankMessage` | `Server.c:1148`: a message is launched for each row that was selected, with the template as it is for those that did not fit the buffer |
| `DbPool_six` | `PoolIsComplete` | `SqlWrapper.c:128`: `retry_times` is not reset, so from the sixth connection on (`server.conf` asks for 32) the node of the previous one is cleared and inserted again |
| `DbPool_shutdown` | `NoUseOfFinished` | `Server.c:593`: finishes connections that are in use |
| `DbPool_shutdown` | `NoOpenTransactionInPool` | `SqlWrapper.c:84-110`: whether END or ROLLBACK was sent is ignored, and the connection goes back with its transaction open |

Seen in the code and in the models, without a configuration: with
`thcount_lock` not excluding an increment of `num_threads_alive` may be lost and
`thpool_init` then waits for ever (`thpool.c:110`), or a decrement, and
`thpool_destroy` does; `mp_destroy` frees nothing,
because it clears the pointers first (`Mempool.c:150`); the first reading of an
object makes its row and is dropped (`HashTable.c:473`); area id 0 marks an
unused element, so packets of an area 0 each make a hashtable
(`HashTable.c:186`); a gateway that joins again keeps the data of its first join
(`Server.c:1480`) and entries are never released.

## What is proved

By TLAPS, for every value of the constants that the `ASSUME`s allow:

- `ThreadPoolProofs`: `TypeCorrect`, `NoWakeupLost`, `TeardownAfterWorkers`,
  `NoJobDroppedOrDuplicated`, for any finite set of workers, any jobs, and
  either behaviour of `thcount_lock`.  `TypeOK` is made inductive by `JobHeld`:
  a worker has a job exactly from the pull to the end of it.
  With that `NoLostWakeup` and `JobsConserved` are inductive.
  `NoTeardownUnderWorker` rests on `CountInv`: an increment or a decrement of
  `num_threads_alive` may be lost, but none is ever invented.  So while threads
  start the count is at most the number that has started, and `thpool_init` only
  returns when all have; once they leave it is at least the number that has not
  left, and is 0 only when all have.  A lost increment makes `thpool_init` wait
  for ever, but does not let `thpool_destroy` go on too early.
- `PktQueueProofs`: `TypeCorrect`, `RingStaysConsistent`, and
  `RingImplementsFifo`, that is `Spec => ImplementsFifo` for every queue length.
  The invariant is `RingConsistent` with the types: the occupied slots are those
  from `front` around to `rear`.  The lemmas say what the sequence of packets is
  after an addition and after a removal, by cases on whether the index wraps.
- `DbPoolProofs`: `TypeCorrect`, `ConnectionsAreExclusive`,
  `TransactionsHaveOwners`, whatever fails and whenever main leaves.  The
  invariant has, beside the types: at which steps of a call a client has a
  connection (`ClientInv`); that walks and statements are left where one is about
  to be made (`CountInv`); that nothing is in use before the pool is complete and
  nothing is listed once main leaves (`PhaseInv`); that a connection has one
  client and, while the server runs, is marked as used exactly when it has one
  (`HoldInv`); and that the client of an open transaction is still to commit it or
  to roll it back, unless the END or ROLLBACK could not be sent (`TransactionInv`).

- `MempoolProofs`: `TypeCorrect`, `SlotsStayPartitioned`, `CountersStayTrue`, for
  slots of any size, blocks of any number of slots and any addresses.  The slots
  are partitioned because the free list has no repetitions (`SlotsInv`), and a new
  block shares no slot with it because malloc keeps it apart from all the blocks of
  the heap, those of the pool among them (`BlocksInv`).  `FirstSlotsAreLost` states
  `LosesOnlyFirstSlots` under a hypothesis, `NoWrap`: no difference of two
  addresses of the pool is too large for an `int`.  Then the closest block that
  `mp_free` finds is the slot's own; without it the pool may lose any slot
  (`Mempool_deviations` has an `int` too narrow).
- `GatewayMapProofs`: `TypeCorrect`, `Entries`, `Acknowledged`, `Polled`, for any
  gateways, workers, table and queue.  Beside the three properties the invariant
  says who holds the lock of the map (`LockInv`); what a worker knows under it:
  before an insertion, that its gateway is not listed, and with a `JOIN_ACK` to
  give, that it is (`JoinInv`); that every acknowledgement in the list of answers
  or in the send queue is for a listed gateway (`AckInv`); and that the gateways
  a broadcast has reached or missed are those of the entries before `index`, in
  a map that does not change meanwhile (`PollInv`).
- `NotificationProofs`: `TypeCorrect`, `WindowHolds`, `ProcessedEvents`,
  `MessagesOnce`, for any monitors, objects, sizes and windows, with failures and
  crashes at any place.  The ids of the table are not used twice (`TableInv`).
  What the send thread has still to look at it looks at once, and has not copied,
  but for the row it is about to mark; if a message was launched for it before,
  marking it had failed or the server had crashed (`TodoInv`).  The buffer and what
  is still to be copied are together no more than the messages to come (`BufferInv`).
  And a row that was copied is processed, or could not be marked, or is deleted
  (`CopiedInv`).
- `HashTableProofs`: `TypeCorrect`, `ListStaysSound`, `KeysStayUnique`,
  `ReadingsFindTheirRow`, for any workers, objects and nodes.  As long as
  `ht_mutex` is not taken from its holder there are a length and a sequence of
  nodes such that the links lead along the sequence to NULL through allocated
  nodes (`ListIs`), with different keys (`KeysDiffer`), and every allocated node is
  in the sequence, is being freed, or was dropped by an eviction (`AllListed`,
  for which `DroppedListed` compares the list before and after the eviction); a
  searching worker has passed only other keys (`SearchInv`); the summary thread,
  which walks without the lock, is at a node of the sequence with the one before it
  as predecessor, or has no predecessor (`WalkInv`) - in the last case it may drop
  nodes that were put in front meanwhile (the deviations `EvictsOneNode` and
  `OneLiveNode`), but not break the list; and the node it frees is out of the list
  (`ReleaseInv`) and of every worker's hands, because it is locked (`HolderInv`,
  `UpdateInv`).
- `RowsProofs`: `TypeCorrect`, `SlotsAreDistinct`, `RingsAreRecent`,
  `UploadsAreHeard` and the action property `SummariesAreNear`, for any beacons,
  strengths, sizes, thresholds and delays.  `RingInv`: a cell that is k steps
  behind `write_index` was written at most k seconds before the last reading, or
  after it; an addition goes no further than around to the oldest cell it leaves
  (`GoesBack`).  `HeardInv`: the slot of a beacon is no younger than what was
  heard of it, and the pass that stamped the row began at most R seconds after it.
  So a place is uploaded at most 2 R seconds after its beacon heard the object, and
  the time of that pass.  `SummariesAreNear` needs
  that averages are integers (`SumIsInt`, about the fold that sums them) and that
  a finite set of them has a greatest (`GreatestValue`).

- `HashTableProofs` also has `AreaTypeCorrect`, `OneHashtablePerArea` and
  `LookupsAreRight`, about `AreaTable`, for any workers, summary threads, areas and
  sizes, whether a `realloc` moves the array or not, and whatever is read where it
  was.  `ArrayLockInv` says where the holder of `area_table_lock` is, `SizeInv` that
  the array has the length of its size, or twice that while it grows, and room for the
  element about to be written.  The elements below `next_index_area_table` have
  different ids and each its own hashtable, or none for want of memory (`UsedInv`);
  those from there on have no hashtable, and no id but for memory not yet cleared and
  the element that is being filled (`UnusedInv`); and whoever creates a hashtable has
  found none for its area under the lock (`NewInv`), whatever the search before it,
  without the lock, has read. The two properties need that 0 is no area: 0 marks an
  unused element, and the code makes a hashtable for each packet of such an area.
- `ThreadPoolProofs` also has `CommUnitTypeCorrect` and `NodesStayConserved`,
  about `CommUnit`, for any registered lists with any priorities and successors, any
  nodes, workers and job slots.  A node is of one of five kinds, in a buffer list,
  in a queued job, with a worker, free or lost (`KindsPartition`), and it occurs
  once in its kind (`ListedOnce`, `JobOnce`, `HandOnce`); there is a lemma for each
  way a node can go.  `OrderIs` says of `sort_priority_list` that its result has as
  many places as there are registered lists, and only registered lists in them, so
  that the dispatcher is always at one.
- `MempoolProofs` also has `GeoFenceTypeCorrect`, `RecordsStaySound` and the
  action properties `AlarmsAreJustified` and `RecordsAreKept`, about `GeoFence`, for
  any objects, beacons, settings, capacity of the list and packets, with statements
  that fail and reloads at any time.  The invariant is that the records are of
  different objects and that each has the time of the last reading of its object at
  a perimeter (`FenceInv`).  `UnexpiredIs` says what the walk keeps of a list,
  `WalkIs` what it does around the record of the object that is examined, and
  `ExamineIs` what an examination leaves: from it all three properties follow.
  `PartsAre` and `LoadsAre` say that a load, whatever it finds, gives each area a
  sequence of its settings.

The hypotheses are the `ASSUME`s of the modules, `NoWrap`, and for `AreaTable` that
0 is no area.  Some assumptions were made explicit for the proofs: sets of beacons,
objects, nodes and workers are finite where something is counted or minimal, the
markers for "nobody" are no members of the sets they mark the absence from, there
is a monitor and a beacon, and the settings and the registered lists are sequences.
What the code computes in a loop over a list is written as a recursive function
where a proof needs it (`Class`, `Examinations`, `Unexpired`): that the recursion
has a solution follows by induction on the length (`Least`, `UpTo`).  The
bounds that only keep TLC's state space finite (`MaxTime`, `MaxFaults`, ...) are
arbitrary numbers in the proofs.

Every invariant was checked with TLC before it was proved.  Only model-checked
are:

- liveness under fairness, which is beyond the prover: `WorkConserving`,
  `JobsSettle`, `DestroyProceeds`, `FullQueueDrains`, `NodeReturns`,
  `StopCompletes`, `JoinsAnswered`, `SetIsServed`, `EventsSettle`, `CallsReturn`,
  and the violation of `PutGetsRow`;
- the deviations above, each of which a counterexample shows.

## What is not modelled

- More than one summary thread for an area: `server.conf` gives each thread one area
  (`AreaTable_overlap` shows that more would overlap); `HashTable` has one, `Rows` any
  number.
- What a second `free` of a block does (`FreesOnce`) and what locking a destroyed mutex
  does (`NoLockAfterDestroy`): they are shown to happen.
- A line of a dump file that is cut short by another reload and read as another
  setting or object.
- `free()` on a slot of a memory pool other than as the abort of the C library, and
  the index that `hashtable_maintain_key_part` does not return then
  (`HashTable.c:439`).
- Text: the format of packets, settings and SQL; a message is a record of what
  the properties tell apart.
- The coordinates of the point of an object and their weights
  (`get_rssi_weight`, the drift): floating-point arithmetic that decides nothing
  else.  A threshold of -100 or less, for which a beacon with an average may weigh
  nothing, is left out with them.
- What the SQL of a monitor takes for a violation; the tables other than
  `object_summary_table` and `notification_table`; the ownership of a summary by an
  area (`updated_by_area`); the alarm datagram to the gateways, a packet of
  `PktQueue`.
- The receiving half of `UDP_API.c`, a second queue of the same kind, and the
  sockets.
- Initialisation, which is sequential, and the shutdown across components, beyond
  what `DbPool` and `PktQueue` have of it.
- `thpool_wait`, `thpool_pause`, `thpool_resume`, `release_not_used_entry` and
  `update_report_timestamp_in_Address_Map`, which nobody calls.
- `src/3rd_party`, `src/installation`, the side programs.  Of the 225,000 lines
  under `src/` all but some 13,000 are headers of PostgreSQL, OpenSSL and pthreads;
  of those 13,000 a good part is SQL text, the reading of configuration files and
  logging.

## Plan

Present: the modules above, with proofs of all the invariants and action properties
their runs check.  Next, in order of importance:

1. `Server`: main with the threads it starts, and the shutdown of the pools and the
   lists under them.
2. The receive queue, and the ownership of a summary when two areas upload the same
   object.

Abstract specifications worth stating: the bounded FIFO (done); a pool as a map
from resources to owners, which `Mempool` and `DbPool` implement up to the slots
they lose; a set of joined gateways, which `GatewayMap` implements.
