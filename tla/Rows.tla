--------------------------------- MODULE Rows ---------------------------------
(***************************************************************************)
(* The row of one object in the hashtable of an area (src/src/HashTable.c):*)
(* a slot for each beacon that hears it, with a ring of the strengths of   *)
(* the last seconds, and the summary of them, the closest beacon and its   *)
(* average strength. A put and a summary hold the node_lock of the row     *)
(* from beginning to end: each is one step. A pass over the hashtable reads*)
(* current_time before its first row, and the clock again to stamp a row:  *)
(* with locks and rows between, time may pass. What becomes of the row in  *)
(* the list is in HashTable.                                               *)
(*                                                                         *)
(* A slot that is not in use keeps its ring and its index, as in the code; *)
(* of a slot without a beacon nothing else is ever read. Left out are the  *)
(* coordinates of the pin, which choose nothing, and the average that is   *)
(* stored with the closest beacon, the one that beacon was chosen by.      *)
(***************************************************************************)
EXTENDS Integers, FiniteSets, FiniteSetsExt, Functions

CONSTANTS
  Beacons,                                 \* those of the area
  NoBeacon,                                \* the empty uuid
  Strengths,                               \* [beacon -> rssi of its readings]
  number_of_lbeacons_under_tracked,
  number_of_rssi_signals_under_tracked,
  rssi_threashold,                         \* ..._for_summarize_location_pin
  unreasonable_rssi_change,
  accuracy_tolerance,                      \* rssi_difference_of_location_...
  SummaryThreads,          \* those with the area in their set
  MaxDelay,                \* bound: [beacon -> how late its readings come]
  MaxPass,                 \* bound: the seconds from a pass's start to the row
  MaxTime                  \* bound

INITIAL_AVERAGE_RSSI == -100

ASSUME RowsAssumption ==
  /\ IsFiniteSet(Beacons) /\ Beacons # {} /\ NoBeacon \notin Beacons
  /\ number_of_lbeacons_under_tracked \in Nat \ {0}
  /\ number_of_rssi_signals_under_tracked \in Nat \ {0}
  /\ DOMAIN Strengths = Beacons
  /\ \A b \in Beacons : Strengths[b] \subseteq {v \in Int : v < 0}
  /\ MaxDelay \in [Beacons -> Nat]
  /\ rssi_threashold \in Int /\ rssi_threashold > INITIAL_AVERAGE_RSSI
  /\ {unreasonable_rssi_change, accuracy_tolerance, MaxPass, MaxTime} \subseteq Nat

R == number_of_rssi_signals_under_tracked
Slots == 1 .. number_of_lbeacons_under_tracked
Cells == 0 .. R - 1
AllStrengths == UNION Range(Strengths)
Latest == Max(Range(MaxDelay))
Times == -Latest .. MaxTime
Idle == -1               \* for current_time: the thread is in no pass

VARIABLES
  now,
  uuid,           \* [slot -> its beacon, or NoBeacon if it is not in use]
  rssi_array,     \* [slot -> [cell -> a strength, or 0]]
  write_index,    \* [slot -> the cell of its last reading]
  final_timestamp,         \* [slot -> when the beacon made its last reading]
  last_reported_timestamp, \* [slot -> when the server stored that]
  summary,        \* summary_uuid and last_reported_timestamp of the row
  current_time,   \* [summary thread -> when its pass began, or Idle]
  began,          \* ghost: when the pass that stored the summary began
  written,        \* ghost: [slot -> [cell -> when its reading was made; Before
                  \* if it is of the beacon that had the slot before]]
  heard           \* ghost: [beacon -> when a reading of it was last stored]

slotVars == <<uuid, rssi_array, write_index, final_timestamp, last_reported_timestamp, written>>
vars == <<now, slotVars, summary, current_time, began, heard>>

Before == -Latest - 1

TypeOK ==
  /\ now \in 0 .. MaxTime
  /\ uuid \in [Slots -> Beacons \cup {NoBeacon}]
  /\ rssi_array \in [Slots -> [Cells -> AllStrengths \cup {0}]]
  /\ write_index \in [Slots -> Cells]
  /\ final_timestamp \in [Slots -> Times]
  /\ last_reported_timestamp \in [Slots -> Times]
  /\ summary \in [uuid : Beacons \cup {NoBeacon}, reported : Times]
  /\ current_time \in [SummaryThreads -> 0 .. MaxTime \cup {Idle}]
  /\ began \in 0 .. MaxTime
  /\ written \in [Slots -> [Cells -> Times \cup {Before}]]
  /\ heard \in [Beacons -> Times]

Init ==
  /\ now = 0
  /\ uuid = [s \in Slots |-> NoBeacon]
  /\ rssi_array = [s \in Slots |-> [c \in Cells |-> 0]]
  /\ write_index = [s \in Slots |-> 0]
  /\ final_timestamp = [s \in Slots |-> 0]
  /\ last_reported_timestamp = [s \in Slots |-> 0]
  /\ summary = [uuid |-> NoBeacon, reported |-> 0]
  /\ current_time = [w \in SummaryThreads |-> Idle]
  /\ began = 0
  /\ written = [s \in Slots |-> [c \in Cells |-> 0]]
  /\ heard = [b \in Beacons |-> 0]

-----------------------------------------------------------------------------
(* hashtable_put_new_tracking_data, with the row locked                    *)

Free == {s \in Slots : uuid[s] = NoBeacon}

\* Wrong variants: the search ends at the first slot that is not in use; the
\* seconds without a reading are not filled.
Mutant_SlotsOf(b) == {s \in Slots : uuid[s] = b /\ \A f \in Free : s < f}
Mutant_Skipped(gap) == 0

SlotsOf(b) == {s \in Slots : uuid[s] = b}

\* Cells of the seconds in which the beacon did not hear the object.
Skipped(gap) == IF gap >= 2 THEN gap - 1 ELSE 0

\* The cells that are n or fewer steps after the last one written.
After(s, n) == {(write_index[s] + i) % R : i \in 1 .. n}

PutKnown(b, time, rssi) ==
  /\ SlotsOf(b) # {}
  /\ LET s == Min(SlotsOf(b))
         skipped == Skipped(time - final_timestamp[s])
         cell == (write_index[s] + skipped + 1) % R
     IN /\ rssi_array' = [rssi_array EXCEPT ![s] = [c \in Cells |->
              IF c = cell THEN rssi ELSE IF c \in After(s, skipped) THEN 0 ELSE @[c]]]
        /\ written' = [written EXCEPT ![s][cell] = time]
        /\ write_index' = [write_index EXCEPT ![s] = cell]
        /\ final_timestamp' = [final_timestamp EXCEPT ![s] = time]
        /\ last_reported_timestamp' = [last_reported_timestamp EXCEPT ![s] = now]
  /\ heard' = [heard EXCEPT ![b] = now]
  /\ UNCHANGED <<now, uuid, summary, current_time, began>>

\* Only the first cell is written. The others keep what they had.
PutNew(b, time, rssi) ==
  /\ SlotsOf(b) = {} /\ Free # {}
  /\ LET s == Min(Free) IN
     /\ uuid' = [uuid EXCEPT ![s] = b]
     /\ rssi_array' = [rssi_array EXCEPT ![s][0] = rssi]
     /\ written' = [written EXCEPT ![s] = [c \in Cells |-> IF c = 0 THEN time ELSE Before]]
     /\ write_index' = [write_index EXCEPT ![s] = 0]
     /\ final_timestamp' = [final_timestamp EXCEPT ![s] = time]
     /\ last_reported_timestamp' = [last_reported_timestamp EXCEPT ![s] = now]
  /\ heard' = [heard EXCEPT ![b] = now]
  /\ UNCHANGED <<now, summary, current_time, began>>

\* "need more uuid record table": with all slots in use the reading is dropped.

-----------------------------------------------------------------------------
(* get_average_rssi: division in C rounds towards zero.                    *)

Previous(c) == (c - 1 + R) % R
Distance(x, y) == IF x < y THEN y - x ELSE x - y

Abnormal(ring, c) ==
  ring[Previous(c)] # 0 /\ Distance(ring[c], ring[Previous(c)]) > unreasonable_rssi_change

Valid(ring) ==
  {c \in Cells : ring[c] # 0 /\ ring[c] >= rssi_threashold /\ ~Abnormal(ring, c)}

average(ring) ==
  LET valid == Valid(ring) IN
  IF valid = {} THEN 0
  ELSE -((-FoldFunctionOnSet(+, 0, ring, valid)) \div Cardinality(valid))

-----------------------------------------------------------------------------
(* hashtable_summarize_location_information, for one row, by thread w      *)

BeginPass(w) ==
  /\ current_time[w] = Idle
  /\ current_time' = [current_time EXCEPT ![w] = now]
  /\ UNCHANGED <<now, slotVars, summary, began, heard>>

\* (A wrong variant: silent beacons are kept.)
Mutant_Live(s, time) == uuid[s] # NoBeacon

Live(s, time) == uuid[s] # NoBeacon /\ last_reported_timestamp[s] >= time - R

Averages(time) == [s \in Slots |-> IF Live(s, time) THEN average(rssi_array[s]) ELSE 0]

\* Slots whose beacon has an average: the others choose nothing.
Candidates(avg) == {s \in Slots : avg[s] # 0}

\* The slot of the closest beacon so far. There is at most one.
Summary(avg) == {s \in Candidates(avg) : uuid[s] = summary.uuid}

\* The first of the strongest beacons, beside that one.
Strongest(avg) ==
  LET others == Candidates(avg) \ Summary(avg) IN
  Min({s \in others : \A t \in others : avg[t] <= avg[s]})

\* (A wrong variant: the difference is taken the other way round.)
Mutant_Keeps(avg, s, t) == avg[s] - avg[t] <= accuracy_tolerance

\* The closest beacon stays while no other is stronger by more than the tolerance.
Keeps(avg, s, t) == avg[t] - avg[s] <= accuracy_tolerance

Chosen(avg) ==
  LET kept == {s \in Summary(avg) : \A t \in Candidates(avg) \ {s} : Keeps(avg, s, t)}
  IN IF kept # {} THEN Min(kept) ELSE Strongest(avg)

Summarize(w) ==
  /\ current_time[w] # Idle
  /\ uuid' = [s \in Slots |-> IF Live(s, current_time[w]) THEN uuid[s] ELSE NoBeacon]
  /\ LET avg == Averages(current_time[w]) IN
     IF Candidates(avg) = {} THEN UNCHANGED <<summary, began>>
     ELSE /\ summary' = [uuid |-> uuid[Chosen(avg)], reported |-> now]
          /\ began' = current_time[w]
  /\ current_time' = [current_time EXCEPT ![w] = Idle]
  /\ UNCHANGED <<now, rssi_array, write_index, final_timestamp,
                 last_reported_timestamp, written, heard>>

Tick ==
  /\ now < MaxTime
  /\ \A w \in SummaryThreads : current_time[w] # Idle => now - current_time[w] < MaxPass
  /\ now' = now + 1
  /\ UNCHANGED <<slotVars, summary, current_time, began, heard>>

-----------------------------------------------------------------------------
Put(b, time, rssi) == PutKnown(b, time, rssi) \/ PutNew(b, time, rssi)

Next ==
  \/ \E b \in Beacons : \E delay \in 0 .. MaxDelay[b], rssi \in Strengths[b] :
       Put(b, now - delay, rssi)
  \/ \E w \in SummaryThreads : BeginPass(w) \/ Summarize(w)
  \/ Tick

Spec == Init /\ [][Next]_vars

-----------------------------------------------------------------------------
(* Properties.                                                             *)

\* A beacon has one slot, wherever slots became free while it was heard: with
\* two, its readings would go to one and the summary would use both.
OneSlotPerBeacon ==
  \A s, t \in Slots : uuid[s] = uuid[t] /\ s # t => uuid[s] = NoBeacon

\* Server.h: number_of_rssi_signals_under_tracked signals are kept, one a
\* second. What a beacon wrote into its ring is at most that many seconds
\* older than its last reading, in whatever order its readings come.
RingIsRecent ==
  \A s \in Slots, c \in Cells :
    uuid[s] # NoBeacon /\ rssi_array[s][c] # 0 /\ written[s][c] # Before =>
      final_timestamp[s] - written[s][c] < R

\* Server.h: rssi_difference_of_location_accuracy_tolerance is the "difference
\* in which the tag is still treated as scanned by the strongest and nearest
\* lbeacon". After a summary no beacon that the pass finds still heard is
\* stronger than the closest one by more than that.
Ends(w) == current_time[w] # Idle /\ current_time'[w] = Idle

SummaryIsNearBest ==
  [][summary' # summary =>
       \E w \in SummaryThreads : Ends(w) /\
         LET avg == Averages(current_time[w]) IN
         \E s \in Slots : /\ uuid[s] = summary'.uuid /\ avg[s] # 0
                          /\ \A t \in Candidates(avg) : avg[t] - avg[s] <= accuracy_tolerance]_vars

\* hashtable_upload_location_to_database too reads the time when it begins, and
\* the row at any time after that.
Uploaded(time) == time - summary.reported < R /\ summary.uuid # NoBeacon

\* What is uploaded as the latest location of an object names a beacon that
\* has heard it in the last 2 R seconds before the upload, R for the slot and R
\* for the row, and the time that the pass took to come to the row: nothing
\* else, no beacon that was closest before and no other thread's pass, makes
\* it older.
UploadIsHeard ==
  \A time \in 0 .. now : Uploaded(time) =>
    time - heard[summary.uuid] < 2 * R + (summary.reported - began)

\* Server.h: rssi signals "to be kept to calculate location": those of the beacon.
RingIsOwn ==
  \A s \in Slots, c \in Cells :
    uuid[s] # NoBeacon /\ rssi_array[s][c] # 0 => written[s][c] # Before

\* HashTable.h: unreasonable_rssi_change is about "adjacent seconds".
ComparesAdjacent ==
  \A s \in Slots, c \in Cells :
    uuid[s] # NoBeacon /\ {rssi_array[s][c], rssi_array[s][Previous(c)]} \cap {0} = {} =>
      written[s][Previous(c)] <= written[s][c]
=============================================================================
