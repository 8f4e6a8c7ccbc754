------------------------------ MODULE AreaTable -----------------------------
(***************************************************************************)
(* The array of the hashtables of all covered areas (src/src/HashTable.c). *)
(* Workers look up the hashtable of the area of a packet, without a lock   *)
(* first and then, before they create one, under area_table_lock; a full   *)
(* array is reallocated. Summary threads visit the areas of their AreaSet, *)
(* without the lock.                                                       *)
(*                                                                         *)
(* An unlocked access loads the global pointer area_table, and then reads  *)
(* the element: two steps, between which the array may move. A read of     *)
(* freed or of not yet cleared memory finds any area_id. A thread that     *)
(* takes a hashtable from there, or that summarises the NULL of an area    *)
(* without a hashtable, is "wild": it crashes, or does what is modelled no *)
(* further.                                                                *)
(*                                                                         *)
(* A summary may wait for ever (HashTable_deadlock): its end is a step     *)
(* without fairness. A hashtable that lacks its table or its mutex         *)
(* (HashTable.c:35, 44 do not look) is taken for a hashtable here.         *)
(***************************************************************************)
EXTENDS Integers, Sequences

CONSTANTS
  Workers, Summarizers,
  Areas,                         \* the area_ids in the packets
  INITIAL_AREA_TABLE_MAX_SIZE,
  number_areas_per_summary_thread,
  StartIndex,                    \* [Summarizers -> start_area_index]
  MaxTables                      \* bound: hashtables when a lookup begins

ASSUME AreaTableAssumption ==
  /\ Workers \cap Summarizers = {} /\ "nobody" \notin Workers
  /\ Areas \subseteq Nat
  /\ INITIAL_AREA_TABLE_MAX_SIZE \in Nat \ {0}
  /\ number_areas_per_summary_thread \in Nat
  /\ StartIndex \in [Summarizers -> Nat]
  /\ MaxTables \in Nat

VARIABLES
  block,                  \* the memory area_table points to
  freed,                  \* memory that realloc has freed
  slots,                  \* the elements of the array
  area_table_max_size, next_index_area_table,
  area_table_lock,        \* its holder, or NoWorker
  at, area, area_i, base, \* of each thread: where, for which area, at which
                          \* index i, with which value of area_table loaded
  h_table,                \* of each worker: the hashtable it found, or NULL
  left,                   \* of each summary thread: number_areas
  served                  \* ghost: the area each summary thread is serving

arrayVars == <<block, freed, slots, area_table_max_size, next_index_area_table>>
summaryVars == <<left, served>>
areaVars == <<arrayVars, area_table_lock, at, area, area_i, base, h_table, summaryVars>>

AreaThreads == Workers \cup Summarizers
NoWorker == "nobody"
NULL == 0
NoArea == -1
Empty == [id |-> 0, hash |-> NULL]
Garbage == [id |-> NoArea, hash |-> NULL]

\* Elements are numbered from 0.
Slot(n) == slots[n + 1]

AreaTypeOK ==
  /\ block \in Nat /\ freed \subseteq 0 .. block
  /\ slots \in Seq([id : Areas \cup {0, NoArea}, hash : Nat])
  /\ area_table_max_size \in Nat \ {0} /\ next_index_area_table \in 0 .. area_table_max_size
  /\ Len(slots) \in {area_table_max_size, 2 * area_table_max_size}
  /\ area_table_lock \in Workers \cup {NoWorker}
  /\ at \in [AreaThreads -> {"idle", "scan", "read", "lock", "search", "double", "repoint",
                         "clear", "publish", "fill", "unlock", "load", "summary", "busy",
                         "upload", "wild"}]
  /\ area \in [Workers -> Areas \cup {NoArea}]
  /\ area_i \in [AreaThreads -> Nat] /\ base \in [AreaThreads -> 0 .. block]
  /\ h_table \in [Workers -> Nat]
  /\ left \in [Summarizers -> 0 .. number_areas_per_summary_thread]
  /\ served \in [Summarizers -> Areas \cup {0, NoArea}]

AreaInit ==
  /\ block = 0 /\ freed = {}
  /\ slots = [n \in 1 .. INITIAL_AREA_TABLE_MAX_SIZE |-> Empty]
  /\ area_table_max_size = INITIAL_AREA_TABLE_MAX_SIZE
  /\ next_index_area_table = 0
  /\ area_table_lock = NoWorker
  /\ at = [t \in AreaThreads |-> "idle"]
  /\ area = [w \in Workers |-> NoArea]
  /\ area_i = [t \in AreaThreads |-> 0] /\ base = [t \in AreaThreads |-> 0]
  /\ h_table = [w \in Workers |-> NULL]
  /\ left = [t \in Summarizers |-> 0]
  /\ served = [t \in Summarizers |-> NoArea]

GoTo(t, label) == at' = [at EXCEPT ![t] = label]

-----------------------------------------------------------------------------
(* Wrong variants of definitions below, one plausible bug each; only the   *)
(* mutation tests of the properties use them.                              *)

Mutant_Known(a) == {}
Mutant_Mine(t) == Slot(area_i[t]).id >= area[t]
Mutant_NextIndex(t) == area_i[t]

-----------------------------------------------------------------------------
(* hash_table_of_specific_area_id: the search without the lock             *)

Lookup(w, a) ==
  /\ at[w] = "idle"
  /\ next_index_area_table < MaxTables
  /\ area' = [area EXCEPT ![w] = a]
  /\ area_i' = [area_i EXCEPT ![w] = 0]
  /\ h_table' = [h_table EXCEPT ![w] = NULL]
  /\ GoTo(w, "scan")
  /\ UNCHANGED <<arrayVars, area_table_lock, base, summaryVars>>

\* The loop test, and the load of area_table.
Scan(w) ==
  /\ at[w] = "scan"
  /\ IF area_i[w] < area_table_max_size
     THEN GoTo(w, "read") /\ base' = [base EXCEPT ![w] = block]
     ELSE GoTo(w, "lock") /\ UNCHANGED base
  /\ UNCHANGED <<arrayVars, area_table_lock, area, area_i, h_table, summaryVars>>

Undefined(t) ==
  \/ base[t] \in freed \/ area_i[t] >= Len(slots)
  \/ Slot(area_i[t]) = Garbage
  \/ at[t] \in {"summary", "upload"} /\ Slot(area_i[t]).hash = NULL

Mine(w) == Slot(area_i[w]).id = area[w]

Read(w) ==
  /\ at[w] = "read" /\ ~Undefined(w)
  /\ \/ Slot(area_i[w]).id = 0 /\ GoTo(w, "lock") /\ UNCHANGED <<area_i, h_table>>
     \/ /\ Slot(area_i[w]).id # 0 /\ Mine(w)
        /\ h_table' = [h_table EXCEPT ![w] = Slot(area_i[w]).hash]
        /\ GoTo(w, "idle")
        /\ UNCHANGED area_i
     \/ /\ Slot(area_i[w]).id # 0 /\ ~Mine(w)
        /\ area_i' = [area_i EXCEPT ![w] = @ + 1]
        /\ GoTo(w, "scan")
        /\ UNCHANGED h_table
  /\ UNCHANGED <<arrayVars, area_table_lock, area, base, summaryVars>>

\* The area_id found is 0, or another, or (of a worker) its own.
ReadUndefined(t) ==
  /\ at[t] \in {"read", "summary", "upload"} /\ Undefined(t)
  /\ \/ GoTo(t, "wild") /\ UNCHANGED area_i
     \/ /\ at[t] = "read"
        /\ GoTo(t, IF t \in Workers THEN "lock" ELSE "scan")
        /\ UNCHANGED area_i
     \/ /\ at[t] = "read" /\ t \in Workers
        /\ area_i' = [area_i EXCEPT ![t] = @ + 1]
        /\ GoTo(t, "scan")
     \/ /\ at[t] = "read" /\ t \in Summarizers
        /\ GoTo(t, "load")
        /\ UNCHANGED area_i
  /\ UNCHANGED <<arrayVars, area_table_lock, area, base, h_table, summaryVars>>

-----------------------------------------------------------------------------
(* The search and the creation under the lock                              *)

Lock(w) ==
  /\ at[w] = "lock" /\ area_table_lock = NoWorker
  /\ area_table_lock' = w
  /\ GoTo(w, "search")
  /\ UNCHANGED <<arrayVars, area, area_i, base, h_table, summaryVars>>

\* The hashtable of area a in the array up to the first element with id 0.
Known(a) ==
  { Slot(n).hash : n \in { m \in 0 .. area_table_max_size - 1 :
      Slot(m).id = a /\ \A k \in 0 .. m : Slot(k).id # 0 } }

Full == next_index_area_table >= area_table_max_size

Search(w) ==
  /\ at[w] = "search"
  /\ \/ /\ Known(area[w]) # {}
        /\ \E h \in Known(area[w]) : h_table' = [h_table EXCEPT ![w] = h]
        /\ GoTo(w, "unlock")
        /\ UNCHANGED arrayVars
     \/ /\ Known(area[w]) = {} /\ ~Full
        /\ GoTo(w, "publish")
        /\ UNCHANGED <<arrayVars, h_table>>
     \/ \* realloc: the memory may be moved, and is not cleared
        /\ Known(area[w]) = {} /\ Full
        /\ freed' = freed \cup {block}
        /\ slots' = slots \o [n \in 1 .. area_table_max_size |-> Garbage]
        /\ GoTo(w, "double")
        /\ UNCHANGED <<block, area_table_max_size, next_index_area_table, h_table>>
     \/ \* realloc: in place
        /\ Known(area[w]) = {} /\ Full
        /\ slots' = slots \o [n \in 1 .. area_table_max_size |-> Garbage]
        /\ GoTo(w, "double")
        /\ UNCHANGED <<block, freed, area_table_max_size, next_index_area_table, h_table>>
     \/ \* realloc fails
        /\ Known(area[w]) = {} /\ Full
        /\ GoTo(w, "unlock")
        /\ UNCHANGED <<arrayVars, h_table>>
  /\ UNCHANGED <<area_table_lock, area, area_i, base, summaryVars>>

Double(w) ==
  /\ at[w] = "double"
  /\ area_table_max_size' = 2 * area_table_max_size
  /\ GoTo(w, "repoint")
  /\ UNCHANGED <<block, freed, slots, next_index_area_table, area_table_lock>>
  /\ UNCHANGED <<area, area_i, base, h_table, summaryVars>>

Repoint(w) ==
  /\ at[w] = "repoint"
  /\ block' = IF block \in freed THEN block + 1 ELSE block
  /\ GoTo(w, "clear")
  /\ UNCHANGED <<freed, slots, area_table_max_size, next_index_area_table>>
  /\ UNCHANGED <<area_table_lock, area, area_i, base, h_table, summaryVars>>

Clear(w) ==
  /\ at[w] = "clear"
  /\ slots' = [n \in 1 .. area_table_max_size |->
                 IF n > next_index_area_table THEN Empty ELSE slots[n]]
  /\ GoTo(w, "publish")
  /\ UNCHANGED <<block, freed, area_table_max_size, next_index_area_table>>
  /\ UNCHANGED <<area_table_lock, area, area_i, base, h_table, summaryVars>>

\* The area_id is written before the hashtable.
Publish(w) ==
  /\ at[w] = "publish"
  /\ slots' = [slots EXCEPT ![next_index_area_table + 1].id = area[w]]
  /\ GoTo(w, "fill")
  /\ UNCHANGED <<block, freed, area_table_max_size, next_index_area_table>>
  /\ UNCHANGED <<area_table_lock, area, area_i, base, h_table, summaryVars>>

\* Without memory for the hashtable NULL is stored, and found by every later
\* lookup of the area.
Fill(w) ==
  /\ at[w] = "fill"
  /\ \E h \in {NULL, next_index_area_table + 1} :
       /\ slots' = [slots EXCEPT ![next_index_area_table + 1].hash = h]
       /\ h_table' = [h_table EXCEPT ![w] = h]
  /\ next_index_area_table' = next_index_area_table + 1
  /\ GoTo(w, "unlock")
  /\ UNCHANGED <<block, freed, area_table_max_size>>
  /\ UNCHANGED <<area_table_lock, area, area_i, base, summaryVars>>

Unlock(w) ==
  /\ at[w] = "unlock"
  /\ area_table_lock' = NoWorker
  /\ GoTo(w, "idle")
  /\ UNCHANGED <<arrayVars, area, area_i, base, h_table, summaryVars>>

WorkerStep(w) ==
  \/ Scan(w) \/ Read(w) \/ Lock(w) \/ Search(w) \/ Double(w) \/ Repoint(w)
  \/ Clear(w) \/ Publish(w) \/ Fill(w) \/ Unlock(w)

-----------------------------------------------------------------------------
(* hashtable_traverse_areas_to_upload_latest_location, again and again     *)

Traverse(t) ==
  /\ at[t] = "idle"
  /\ area_i' = [area_i EXCEPT ![t] = StartIndex[t]]
  /\ left' = [left EXCEPT ![t] = number_areas_per_summary_thread]
  /\ GoTo(t, "scan")
  /\ UNCHANGED <<arrayVars, area_table_lock, area, base, h_table, served>>

\* An index beyond the array, or an element in no use, is tried again until
\* number_areas is used up.
Visit(t) ==
  /\ at[t] = "scan"
  /\ IF left[t] = 0 THEN GoTo(t, "idle") /\ UNCHANGED <<left, base>>
     ELSE /\ left' = [left EXCEPT ![t] = @ - 1]
          /\ IF area_i[t] < area_table_max_size
             THEN GoTo(t, "read") /\ base' = [base EXCEPT ![t] = block]
             ELSE UNCHANGED <<at, base>>
  /\ UNCHANGED <<arrayVars, area_table_lock, area, area_i, h_table, served>>

VisitSlot(t) ==
  /\ at[t] = "read" /\ ~Undefined(t)
  /\ GoTo(t, IF Slot(area_i[t]).id = 0 THEN "scan" ELSE "load")
  /\ UNCHANGED <<arrayVars, area_table_lock, area, area_i, base, h_table, summaryVars>>

\* area_table is loaded again for each of the two calls.
LoadAgain(t) ==
  /\ \/ at[t] = "load" /\ GoTo(t, "summary") /\ UNCHANGED served
     \/ at[t] = "busy" /\ GoTo(t, "upload") /\ served' = [served EXCEPT ![t] = NoArea]
  /\ base' = [base EXCEPT ![t] = block]
  /\ UNCHANGED <<arrayVars, area_table_lock, area, area_i, h_table, left>>

\* hashtable_summarize_location_information begins; LoadAgain is its end.
Summary(t) ==
  /\ at[t] = "summary" /\ ~Undefined(t)
  /\ served' = [served EXCEPT ![t] = Slot(area_i[t]).id]
  /\ GoTo(t, "busy")
  /\ UNCHANGED <<arrayVars, area_table_lock, area, area_i, base, h_table, left>>

NextIndex(t) == area_i[t] + 1

\* hashtable_upload_location_to_database takes no lock.
Upload(t) ==
  /\ at[t] = "upload" /\ ~Undefined(t)
  /\ area_i' = [area_i EXCEPT ![t] = NextIndex(t)]
  /\ GoTo(t, "scan")
  /\ UNCHANGED <<arrayVars, area_table_lock, area, base, h_table, summaryVars>>

SummarizerStep(t) ==
  Traverse(t) \/ Visit(t) \/ VisitSlot(t) \/ LoadAgain(t) \/ Summary(t) \/ Upload(t)

-----------------------------------------------------------------------------
AreaNext ==
  \/ \E w \in Workers :
       WorkerStep(w) \/ ReadUndefined(w) \/ \E a \in Areas : Lookup(w, a)
  \/ \E t \in Summarizers : SummarizerStep(t) \/ ReadUndefined(t)

AreaSpec == AreaInit /\ [][AreaNext]_areaVars

\* Threads in a lookup and the summary threads keep running, but for a summary
\* that does not end.
AreaFairSpec ==
  /\ AreaSpec
  /\ \A w \in Workers : WF_areaVars(WorkerStep(w) \/ ReadUndefined(w))
  /\ \A t \in Summarizers : 
       WF_areaVars((at[t] # "busy" /\ SummarizerStep(t)) \/ ReadUndefined(t))

-----------------------------------------------------------------------------
(* Properties.                                                             *)

\* HashTable.h: a hashtable is created for an area_id "if the hashtable does
\* not exist": not twice, by workers that miss it at the same time.
OneTablePerArea ==
  \A m, n \in 0 .. Len(slots) - 1 :
    Slot(m).id = Slot(n).id /\ Slot(m).id \in Areas /\ Slot(m).hash # NULL => m = n

\* A lookup returns the hashtable of its area or none, but never another's.
LookupIsRight ==
  \A w \in Workers :
    h_table[w] # NULL =>
      \E n \in 0 .. next_index_area_table - 1 :
        Slot(n) = [id |-> area[w], hash |-> h_table[w]]

\* HashTable.h: the lookup is "to find out and return the corresponding
\* hashtable". One that is not out of memory returns a hashtable.
LookupFindsTable ==
  [][\A w \in Workers : Read(w) /\ at'[w] = "idle" => h_table'[w] # NULL]_areaVars

\* HashTable.h: area_table_lock is "The lock used to protect the array".
\* Nobody reads memory that realloc has freed, or not yet cleared.
ReadsAreDefined == \A t \in AreaThreads : at[t] # "wild"

\* Server.h: number_areas_per_summary_thread is "the number of areas covered
\* per summary thread". A thread whose summaries end, and that does not crash,
\* comes to each index of its set again and again once there is an area: in
\* vain before, when the index costs it a turn and is not left.
SetIsServed ==
  \A t \in Summarizers : \A k \in 0 .. number_areas_per_summary_thread - 1 :
    []<>(at[t] # "busy") /\ [](at[t] # "wild") =>
      [](StartIndex[t] + k < next_index_area_table =>
           <>(at[t] = "busy" /\ area_i[t] = StartIndex[t] + k))

\* Server.h, again: "covered". Every area is in the set of some thread.
EveryAreaIsCovered ==
  \A n \in 0 .. next_index_area_table - 1 : \E t \in Summarizers :
    n \in StartIndex[t] .. StartIndex[t] + number_areas_per_summary_thread - 1

\* Server.h: each summary thread is responsible for its number of areas. No
\* two of them summarise, and upload, the same area at the same time.
AreasAreDivided ==
  \A s, t \in Summarizers : served[s] = served[t] /\ served[s] # NoArea => s = t
=============================================================================
