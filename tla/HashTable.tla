----------------------------- MODULE HashTable -----------------------------
(***************************************************************************)
(* The hash table of one covered area (src/src/HashTable.c): one bucket, a *)
(* linked list of nodes with a row each. Worker threads put readings into  *)
(* it (hashtable_put_new_tracking_data), the summary thread of the area    *)
(* walks it, updates rows and evicts those nobody has seen for long        *)
(* (hashtable_summarize_location_information), and the history thread      *)
(* walks it to write a file (hashtable_upload_location_to_database). With  *)
(* number_areas_per_summary_thread = 1, as in server.conf, an area has one *)
(* summary thread (AreaTable_overlap has more areas to a thread).          *)
(*                                                                         *)
(* ht_mutex guards the list, node_lock a row. A step is what a thread does *)
(* up to its next lock, or its read or write of one link of the list.      *)
(* Unlocking a mutex that another thread holds is undefined; the mutexes of*)
(* this build do not record their owner, so it releases the mutex.         *)
(***************************************************************************)
EXTENDS Naturals, FiniteSets

CONSTANTS
  Putters,      \* worker threads that store readings of this area
  Keys,         \* mac addresses, all of one bucket
  Nodes,        \* the slots of the memory pools
  NoNode,       \* NULL
  Nobody,       \* the holder of a free mutex
  Summarizer,   \* the summary thread, as a holder
  NewBeacons,   \* may a reading come from a beacon its row does not hold?
  Ageing        \* may a row go unsummarised for the 300 s that evict it?

ASSUME HashTableAssumption ==
  /\ IsFiniteSet(Nodes) /\ NoNode \notin Nodes
  /\ {Nobody, Summarizer} \cap Putters = {} /\ Nobody # Summarizer
  /\ NewBeacons \in BOOLEAN /\ Ageing \in BOOLEAN

Threads == Putters \cup {Summarizer}
Links == Nodes \cup {NoNode}

VARIABLES
  table,        \* the head of the list, table[index]
  next, key,    \* of each node
  live,         \* the nodes that are allocated
  stale,        \* rows last reported more than 300 s before current_time
  ht_mutex, node_lock,   \* their holders
  lost_slots,   \* slots that mp_free has refused
  put,          \* each worker: where it is, its key, its curr or prev_head
  spc, curr, prev_node, node_to_release,   \* the summary thread
  upload,       \* the history thread's curr, NoNode between two rounds
  broken,       \* free() was called on a slot of a pool: the process aborts
  stolen,       \* ghost: ht_mutex was unlocked by a thread that did not hold
                \* it while another one did
  dropped       \* ghost: nodes that an eviction took out of the list beside
                \* the one it evicted

listVars == <<table, next, key, live, lost_slots, dropped>>
sumVars == <<spc, curr, prev_node, node_to_release, stale>>
vars == <<listVars, ht_mutex, node_lock, put, sumVars, upload, broken, stolen>>

TypeOK ==
  /\ table \in Links /\ next \in [Nodes -> Links] /\ key \in [Nodes -> Keys]
  /\ live \subseteq Nodes /\ stale \subseteq live
  /\ lost_slots \subseteq Nodes /\ dropped \subseteq Nodes
  /\ ht_mutex \in Threads \cup {Nobody}
  /\ node_lock \in [Nodes -> Threads \cup {Nobody}]
  /\ put \in [Putters -> [pc : {"idle", "lock", "search", "link", "unlock",
                                "node", "update", "unlock again"},
                          key : Keys, node : Links]]
  /\ spc \in {"idle", "visit", "summarize", "evict", "unlink", "free"}
  /\ {curr, prev_node, node_to_release, upload} \subseteq Links
  /\ spc \in {"summarize", "evict", "unlink"} => curr # NoNode
  /\ spc = "free" => node_to_release # NoNode
  /\ broken \in BOOLEAN /\ stolen \in BOOLEAN

Init ==
  /\ table = NoNode
  /\ next = [n \in Nodes |-> NoNode]
  /\ key \in [Nodes -> Keys] /\ \A m, n \in Nodes : key[m] = key[n]
  /\ live = {} /\ stale = {} /\ lost_slots = {} /\ dropped = {}
  /\ ht_mutex = Nobody /\ node_lock = [n \in Nodes |-> Nobody]
  /\ put \in [Putters -> [pc : {"idle"}, key : { key[n] : n \in Nodes }, node : {NoNode}]]
  /\ spc = "idle" /\ curr = NoNode /\ prev_node = NoNode
  /\ node_to_release = NoNode /\ upload = NoNode
  /\ broken = FALSE /\ stolen = FALSE

-----------------------------------------------------------------------------
(* Wrong variants of definitions below, one plausible bug each; only the   *)
(* mutation tests of the properties use them.                              *)

Mutant_PutLock(p) ==
  /\ put[p].pc = "lock"
  /\ put' = [put EXCEPT ![p].pc = "search", ![p].node = table]
  /\ UNCHANGED <<listVars, ht_mutex, node_lock, sumVars, upload, broken, stolen>>
Mutant_Matches(n, k) == TRUE
Mutant_Available == Nodes

-----------------------------------------------------------------------------
Unlocked(holder) == holder = Nobody
Matches(n, k) == key[n] = k

\* What mp_alloc may return, when it does not return NULL.
Available == Nodes \ (live \cup lost_slots)

At(p, l) == put[p].pc = l
Goto(p, l) == put' = [put EXCEPT ![p].pc = l]
GotoWith(p, l, n) == put' = [put EXCEPT ![p].pc = l, ![p].node = n]

\* The k-th node of the list, from 0; NoNode from its end on.
NodeAt[k \in 0 .. Cardinality(Nodes)] ==
  IF k = 0 THEN table
  ELSE IF NodeAt[k - 1] = NoNode THEN NoNode ELSE next[NodeAt[k - 1]]

InList == { NodeAt[k] : k \in 0 .. Cardinality(Nodes) } \ {NoNode}

-----------------------------------------------------------------------------
(* hashtable_put_new_tracking_data and hashtable_maintain_key_part         *)

PutStart(p, k) ==
  /\ At(p, "idle")
  /\ put' = [put EXCEPT ![p] = [pc |-> "lock", key |-> k, node |-> NoNode]]
  /\ UNCHANGED <<listVars, ht_mutex, node_lock, sumVars, upload, broken, stolen>>

PutLock(p) ==
  /\ At(p, "lock") /\ Unlocked(ht_mutex)
  /\ ht_mutex' = p
  /\ GotoWith(p, "search", table)
  /\ UNCHANGED <<listVars, node_lock, sumVars, upload, broken, stolen>>

\* The walk to the key's node; without one, read prev_head. (The caller
\* repeats the walk to get the node: here it is the same walk.)
PutSearch(p) ==
  LET n == put[p].node IN
  /\ At(p, "search")
  /\ \/ n = NoNode /\ GotoWith(p, "link", table)
     \/ n # NoNode /\ Matches(n, put[p].key) /\ Goto(p, "node")
     \/ n # NoNode /\ ~Matches(n, put[p].key) /\ GotoWith(p, "search", next[n])
  /\ UNCHANGED <<listVars, ht_mutex, node_lock, sumVars, upload, broken, stolen>>

\* A new node becomes the head. The index returned is still -1, so that the
\* caller takes the key for a failure and drops the reading.
PutLink(p, n) ==
  /\ At(p, "link")
  /\ live' = live \cup {n}
  /\ key' = [key EXCEPT ![n] = put[p].key]
  /\ next' = [next EXCEPT ![n] = put[p].node]
  /\ table' = n
  /\ Goto(p, "unlock")
  /\ UNCHANGED <<lost_slots, dropped, ht_mutex, node_lock, sumVars, upload, broken, stolen>>

\* No memory for the node: the reading is dropped.
PutNoNode(p) ==
  /\ At(p, "link")
  /\ Goto(p, "unlock")
  /\ UNCHANGED <<listVars, ht_mutex, node_lock, sumVars, upload, broken, stolen>>

\* Memory for the node but not for its key, or not for its row: the code calls
\* free() on the node, a slot in the middle of a block that malloc returned.
\* The C library aborts; what it does after a free() that passes (a first slot
\* gives the block away), or with the index that is not returned then, is not
\* modelled.
PutFreesSlot(p) ==
  /\ At(p, "link") /\ Available # {}
  /\ broken' = TRUE
  /\ UNCHANGED <<listVars, ht_mutex, node_lock, put, sumVars, upload, stolen>>

PutUnlock(p) ==
  /\ At(p, "unlock") \/ At(p, "unlock again")
  /\ ht_mutex' = Nobody
  /\ stolen' = (stolen \/ ht_mutex \notin {p, Nobody})
  /\ Goto(p, "idle")
  /\ UNCHANGED <<listVars, node_lock, sumVars, upload, broken>>

\* Lock the row, then release ht_mutex.
PutLockRow(p) ==
  LET n == put[p].node IN
  /\ At(p, "node") /\ Unlocked(node_lock[n])
  /\ node_lock' = [node_lock EXCEPT ![n] = p]
  /\ ht_mutex' = Nobody
  /\ Goto(p, "update")
  /\ UNCHANGED <<listVars, sumVars, upload, broken, stolen>>

\* Store the reading. When its beacon is new to the row the code then breaks
\* out of its loop and unlocks ht_mutex, which it does not hold any more.
PutUpdate(p) ==
  LET n == put[p].node IN
  /\ At(p, "update")
  /\ node_lock' = [node_lock EXCEPT ![n] = Nobody]
  /\ Goto(p, "idle") \/ (NewBeacons /\ Goto(p, "unlock again"))
  /\ UNCHANGED <<listVars, ht_mutex, sumVars, upload, broken, stolen>>

-----------------------------------------------------------------------------
(* hashtable_summarize_location_information                                *)

\* current_time is read once, at the start; a row that is younger then is
\* not evicted in this round.
SumStart(aged) ==
  /\ spc = "idle"
  /\ stale' = stale \cup aged
  /\ curr' = table /\ prev_node' = NoNode
  /\ spc' = "visit"
  /\ UNCHANGED <<listVars, ht_mutex, node_lock, put, node_to_release, upload, broken, stolen>>

SumLockRow ==
  /\ spc = "visit" /\ curr # NoNode /\ Unlocked(node_lock[curr])
  /\ node_lock' = [node_lock EXCEPT ![curr] = Summarizer]
  /\ spc' = IF curr \in stale THEN "evict" ELSE "summarize"
  /\ UNCHANGED <<listVars, ht_mutex, put, curr, prev_node, node_to_release, stale, upload, broken, stolen>>

SumEnd ==
  /\ spc = "visit" /\ curr = NoNode
  /\ spc' = "idle"
  /\ UNCHANGED <<listVars, ht_mutex, node_lock, put, curr, prev_node, node_to_release, stale, upload, broken, stolen>>

SumSummarize ==
  /\ spc = "summarize"
  /\ node_lock' = [node_lock EXCEPT ![curr] = Nobody]
  /\ prev_node' = curr /\ curr' = next[curr]
  /\ spc' = "visit"
  /\ UNCHANGED <<listVars, ht_mutex, put, node_to_release, stale, upload, broken, stolen>>

\* Lock hashtable, holding the row's lock.
SumLockTable ==
  /\ spc = "evict" /\ Unlocked(ht_mutex)
  /\ ht_mutex' = Summarizer
  /\ spc' = "unlink"
  /\ UNCHANGED <<listVars, node_lock, put, curr, prev_node, node_to_release, stale, upload, broken, stolen>>

\* Unlink curr, as the list was when the walk passed prev_node.
SumUnlink ==
  /\ spc = "unlink"
  /\ IF prev_node = NoNode
     THEN table' = next[curr] /\ next' = [next EXCEPT ![curr] = NoNode]
     ELSE /\ table' = table
          /\ next' = [next EXCEPT ![prev_node] = next[curr], ![curr] = NoNode]
  /\ dropped' = dropped \cup ((live \cap InList) \ (InList' \cup {curr}))
  /\ node_to_release' = curr /\ curr' = next[curr]
  /\ ht_mutex' = Nobody
  /\ spc' = "free"
  /\ UNCHANGED <<key, live, lost_slots, node_lock, put, prev_node, stale, upload, broken, stolen>>

\* Destroy the row with its lock, and free the node. mp_free refuses the first
\* slot of a block: any slot may be one.
SumFree ==
  LET n == node_to_release IN
  /\ spc = "free"
  /\ live' = live \ {n} /\ stale' = stale \ {n}
  /\ lost_slots' \in {lost_slots, lost_slots \cup {n}}
  /\ node_lock' = [node_lock EXCEPT ![n] = Nobody]
  /\ spc' = "visit"
  /\ UNCHANGED <<table, next, key, dropped, ht_mutex, put, curr, prev_node, node_to_release,
                 upload, broken, stolen>>

-----------------------------------------------------------------------------
(* hashtable_upload_location_to_database takes no lock.                    *)

UploadStart ==
  /\ upload = NoNode /\ upload' = table
  /\ UNCHANGED <<listVars, ht_mutex, node_lock, put, sumVars, broken, stolen>>

UploadStep ==
  /\ upload # NoNode /\ upload' = next[upload]
  /\ UNCHANGED <<listVars, ht_mutex, node_lock, put, sumVars, broken, stolen>>

-----------------------------------------------------------------------------
PutStep(p) ==
  \/ PutLock(p) \/ PutSearch(p) \/ PutLockRow(p) \/ PutUpdate(p)
  \/ (\E n \in Available : PutLink(p, n)) \/ PutNoNode(p) \/ PutFreesSlot(p)
  \/ PutUnlock(p)

SumStep ==
  SumLockRow \/ SumEnd \/ SumSummarize \/ SumLockTable \/ SumUnlink \/ SumFree

Next ==
  /\ ~broken
  /\ \/ \E p \in Putters : (\E k \in Keys : PutStart(p, k)) \/ PutStep(p)
     \/ \E aged \in SUBSET (IF Ageing THEN live ELSE {}) : SumStart(aged)
     \/ SumStep
     \/ UploadStart \/ UploadStep

Spec == Init /\ [][Next]_vars

\* Every thread is scheduled, as long as the process runs, and a thread that
\* waits for a mutex that is free again and again gets it.
FairSpec ==
  /\ Spec
  /\ WF_vars(~broken /\ SumStep)
  /\ SF_vars(~broken /\ SumLockRow) /\ SF_vars(~broken /\ SumLockTable)
  /\ \A p \in Putters :
       /\ WF_vars(~broken /\ PutStep(p))
       /\ SF_vars(~broken /\ PutLock(p)) /\ SF_vars(~broken /\ PutLockRow(p))

-----------------------------------------------------------------------------
(* Properties.                                                             *)

\* The second unlock of a put can take ht_mutex from its holder (PutUnlock).
\* The properties up to the first time it does:

\* The list ends, and leads to no node that has been freed.
ListSound ==
  ~stolen => NodeAt[Cardinality(Nodes)] = NoNode /\ InList \subseteq live

\* HashTable.h: ht_mutex is "the lock to protect all information within this
\* specific covered area_id": of the nodes that are allocated, in the list or
\* not, no two are of one object. But for the node that is being released, and
\* for those an eviction drops beside its own (EvictsOneNode): an object whose
\* node was dropped gets a second one, and only such an object does.
Released == IF spc = "free" THEN {node_to_release} ELSE {}

OneNodePerObject ==
  ~stolen => \A m, n \in live \ (dropped \cup Released) : key[m] = key[n] => m = n

\* The same without the exceptions, of the list and of the allocated nodes.
UniqueKeys == \A m, n \in InList : key[m] = key[n] => m = n
OneLiveNode == \A m, n \in live \ Released : key[m] = key[n] => m = n

\* A reading is stored in the row of its own object, whatever is evicted and
\* reused meanwhile.
ReadingGoesToItsObject ==
  ~stolen => \A p \in Putters :
    At(p, "update") => put[p].node \in live /\ key[put[p].node] = put[p].key

\* HashTable.c: "re-link the HNode to remove HNode from hashtable", that node
\* and no other.
EvictsOneNode == [][SumUnlink => InList \ {curr} \subseteq InList']_vars

\* HashTable.c: "lock node of mac_address and release whole hashtable lock". A
\* worker gets the row it waits for, unless the process aborts meanwhile.
PutGetsRow == \A p \in Putters : At(p, "node") ~> ~At(p, "node") \/ broken

\* HashTable.h, again: "The lock to protect all information": who reads the
\* list does not read freed memory.
UploadReadsLiveNodes == upload # NoNode => upload \in live
=============================================================================
