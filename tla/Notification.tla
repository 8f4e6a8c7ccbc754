----------------------------- MODULE Notification -----------------------------
(***************************************************************************)
(* Violation events on their way to a message: the monitors stamp a        *)
(* violation in object_summary_table, the collect thread copies recent     *)
(* stamps to notification_table, the send thread selects the rows that are *)
(* not processed, copies what fits to its buffer, marks it and launches a  *)
(* message for each, and the maintenance thread deletes old rows           *)
(* (src/src/Server.c and src/src/SqlWrapper.c).                            *)
(*                                                                         *)
(* Each statement is executed by the database on its own: between two of   *)
(* them the other threads run, a statement may fail, and the server may    *)
(* crash. The tables survive that, what the threads were at does not.      *)
(*                                                                         *)
(* The alarm that goes to the gateways before the messages is a packet in  *)
(* the send queue (PktQueue): it says nothing of the events.               *)
(***************************************************************************)
EXTENDS Integers, Sequences, SequencesExt, FiniteSets

CONSTANTS
  Objects,
  monitor_types,     \* the monitors, in the order they are collected
  monitor_type,      \* [object -> the monitors it is under]
  ByPacket,          \* those that stamp on a packet, before the first upload
  time_interval_in_sec,
  granularity_for_continuous_violations_in_sec,
  database_keep_hours,
  buf_len,           \* what violation_info holds
  record_len,        \* [object -> the length of its record]
  MaxTime, MaxId, MaxFaults              \* bounds

Monitors == Range(monitor_types)
Times == 0 .. MaxTime
Never == -1

ASSUME NotificationAssumption ==
  /\ IsFiniteSet(Objects)
  /\ monitor_types \in Seq(Monitors) /\ monitor_types # <<>>
  /\ ByPacket \subseteq Monitors
  /\ monitor_type \in [Objects -> SUBSET Monitors]
  /\ {time_interval_in_sec, granularity_for_continuous_violations_in_sec,
      database_keep_hours, buf_len, MaxTime, MaxId, MaxFaults} \subseteq Nat
  /\ record_len \in [Objects -> 1 .. buf_len]

VARIABLES
  now,
  violation,         \* [monitor -> [object -> violation timestamp, or Never]]
  located,           \* objects whose uuid is not NULL
  notification_table,
  processed,         \* ids of the rows of it that are processed
  id,                \* the next one
  collecting,        \* index of the monitor that is collected next
  at,                \* what the send thread is at
  todo,              \* rows of its select it has still to look at
  violation_info,    \* the records in the buffer
  rows,              \* messages it has still to launch
  faults,            \* failures left
  launched,          \* ghost: ids of the records that were in a message
  unmarked,          \* ghost: ids that were copied and could not be marked
  lost               \* ghost: ids that were in the buffer at a crash

tables == <<violation, located, notification_table, processed, id>>
sendVars == <<at, todo, violation_info, rows>>
ghosts == <<launched, unmarked, lost>>
vars == <<now, tables, collecting, sendVars, faults, ghosts>>

Row == [id : 1 .. MaxId, type : Monitors, object : Objects, time : Times, located : BOOLEAN]

TypeOK ==
  /\ now \in Times
  /\ violation \in [Monitors -> [Objects -> Times \cup {Never}]]
  /\ located \subseteq Objects
  /\ notification_table \subseteq Row
  /\ processed \subseteq {r.id : r \in notification_table}
  /\ id \in 1 .. MaxId + 1
  /\ collecting \in 1 .. Len(monitor_types)
  /\ at \in {"idle", "fill", "mark"}
  /\ todo \in Seq(Row) /\ violation_info \in Seq(Row)
  /\ rows \in 0 .. MaxId /\ faults \in 0 .. MaxFaults
  /\ launched \cup unmarked \cup lost \subseteq 1 .. MaxId

Init ==
  /\ now = 0
  /\ violation = [m \in Monitors |-> [o \in Objects |-> Never]]
  /\ located = {} /\ notification_table = {} /\ processed = {} /\ id = 1
  /\ collecting = 1
  /\ at = "idle" /\ todo = <<>> /\ violation_info = <<>> /\ rows = 0
  /\ faults = MaxFaults
  /\ launched = {} /\ unmarked = {} /\ lost = {}

-----------------------------------------------------------------------------
(* Wrong variants of definitions below, one plausible bug each; only the   *)
(* mutation tests of the properties use them.                              *)

Mutant_InWindow(time, r) == time = r.time
Mutant_IsSelected(r) == r.located
Mutant_Marked(r) == {}

-----------------------------------------------------------------------------
(* What stamps the objects                                                 *)

\* An upload of the summary gives an object the uuid of its closest beacon.
UploadLocation(o) ==
  /\ o \notin located
  /\ located' = located \cup {o}
  /\ UNCHANGED <<now, violation, notification_table, processed, id, collecting,
                 sendVars, faults, ghosts>>

\* A packet concerns one object. The monitors of the location and of the
\* movement go through the objects whose beacon is known, in one statement or
\* in one for each.
MayStamp(m, objs) ==
  /\ objs # {} /\ \A o \in objs : m \in monitor_type[o]
  /\ IF m \in ByPacket THEN Cardinality(objs) = 1 ELSE objs \subseteq located

SQL_identify(m, objs) ==
  /\ MayStamp(m, objs)
  /\ violation' = [violation EXCEPT ![m] =
                     [o \in Objects |-> IF o \in objs THEN now ELSE @[o]]]
  /\ UNCHANGED <<now, located, notification_table, processed, id, collecting,
                 sendVars, faults, ghosts>>

-----------------------------------------------------------------------------
(* SQL_collect_violation_events                                            *)

\* The subquery compares the mac_address and the uuid of a row with
\* themselves: any object of the monitor will do, as long as the row has them.
\* A stamp that is older than the row is in the window too.
InWindow(time, r) == time - r.time < granularity_for_continuous_violations_in_sec

Represented(m, o) ==
  \E r \in notification_table :
    r.type = m /\ r.located /\ InWindow(violation[m][o], r)

Collected(m) ==
  {o \in Objects :
     /\ violation[m][o] # Never
     /\ violation[m][o] >= now - time_interval_in_sec
     /\ ~Represented(m, o)}

NewRows(m, objs) ==
  {[id |-> id + i - 1, type |-> m, object |-> objs[i],
    time |-> violation[m][objs[i]], located |-> objs[i] \in located] : i \in DOMAIN objs}

\* The database gives the ids in some order.
CollectInsert(objs) ==
  /\ objs \in SetToSeqs(Collected(monitor_types[collecting]))
  /\ id + Len(objs) <= MaxId + 1
  /\ notification_table' =
       notification_table \cup NewRows(monitor_types[collecting], objs)
  /\ id' = id + Len(objs)
  /\ collecting' = IF collecting = Len(monitor_types) THEN 1 ELSE collecting + 1
  /\ UNCHANGED <<now, violation, located, processed, sendVars, faults, ghosts>>

\* The monitors after the one whose statement fails wait for the next round.
CollectFails ==
  /\ faults > 0
  /\ faults' = faults - 1
  /\ collecting' = 1
  /\ UNCHANGED <<now, tables, sendVars, ghosts>>

-----------------------------------------------------------------------------
(* Server_send_notification and SQL_get_and_update_violation_events        *)

\* The row is joined with the beacon of its uuid.
IsSelected(r) == r.located /\ r.id \notin processed

\* Without a row, and without a connection, the loop starts again at once.
Select ==
  /\ at = "idle"
  /\ LET selected == {r \in notification_table : IsSelected(r)} IN
     /\ selected # {}
     /\ todo' \in SetToSeqs(selected)
     /\ \A i, j \in DOMAIN todo' : i < j => todo'[i].id < todo'[j].id
     /\ rows' = Cardinality(selected)
  /\ at' = "fill"
  /\ UNCHANGED <<now, tables, collecting, violation_info, faults, ghosts>>

Ids(records) == {records[i].id : i \in DOMAIN records}

\* The records differ in length: one that fits may come after one that does not.
Used == FoldLeft(LAMBDA n, r : n + record_len[r.object], 0, violation_info)
Fits(r) == Used + record_len[r.object] <= buf_len

\* (A wrong variant, which marks what does not fit.)
Mutant_Fill ==
  /\ at = "fill" /\ todo # <<>>
  /\ violation_info' = IF Fits(Head(todo))
                         THEN Append(violation_info, Head(todo)) ELSE violation_info
  /\ at' = "mark"
  /\ UNCHANGED <<now, tables, collecting, todo, rows, faults, ghosts>>

Fill ==
  /\ at = "fill" /\ todo # <<>>
  /\ IF Fits(Head(todo))
       THEN /\ violation_info' = Append(violation_info, Head(todo))
            /\ at' = "mark" /\ UNCHANGED todo
       ELSE /\ todo' = Tail(todo) /\ UNCHANGED <<at, violation_info>>
  /\ UNCHANGED <<now, tables, collecting, rows, faults, ghosts>>

Marked(r) == IF r \in notification_table THEN {r.id} ELSE {}

\* The result of the update is not looked at. A row that was deleted meanwhile
\* is not updated, and that is no failure.
Mark ==
  /\ at = "mark"
  /\ processed' = processed \cup Marked(Head(todo))
  /\ at' = "fill" /\ todo' = Tail(todo)
  /\ UNCHANGED <<now, violation, located, notification_table, id, collecting,
                 violation_info, rows, faults, ghosts>>

MarkFails ==
  /\ at = "mark" /\ faults > 0
  /\ faults' = faults - 1
  /\ unmarked' = unmarked \cup {Head(todo).id}
  /\ at' = "fill" /\ todo' = Tail(todo)
  /\ UNCHANGED <<now, tables, collecting, violation_info, rows, launched, lost>>

\* There is a message for each row that was selected, be it in the buffer or not.
Launch ==
  /\ at = "fill" /\ todo = <<>>
  /\ IF violation_info # <<>>
       THEN /\ launched' = launched \cup {Head(violation_info).id}
            /\ violation_info' = Tail(violation_info)
       ELSE UNCHANGED <<launched, violation_info>>
  /\ rows' = rows - 1
  /\ at' = IF rows = 1 THEN "idle" ELSE "fill"
  /\ UNCHANGED <<now, tables, collecting, todo, faults, unmarked, lost>>

SendStep == Select \/ Fill \/ Mark \/ Launch

-----------------------------------------------------------------------------
(* The maintenance thread, time, and the server that crashes and restarts  *)

\* Processed or not.
SQL_delete_old_data ==
  LET kept == {r \in notification_table : r.time >= now - database_keep_hours} IN
  /\ kept # notification_table
  /\ notification_table' = kept
  /\ processed' = {r.id : r \in kept} \cap processed
  /\ UNCHANGED <<now, violation, located, id, collecting, sendVars, faults, ghosts>>

\* A stamp that has become too old to be collected is as good as none.
Tick ==
  /\ now < MaxTime
  /\ now' = now + 1
  /\ violation' = [m \in Monitors |-> [o \in Objects |->
                     IF violation[m][o] >= now' - time_interval_in_sec THEN violation[m][o] ELSE Never]]
  /\ UNCHANGED <<located, notification_table, processed, id, collecting,
                 sendVars, faults, ghosts>>

Crash ==
  /\ faults > 0
  /\ faults' = faults - 1
  /\ collecting' = 1
  /\ at' = "idle" /\ todo' = <<>> /\ violation_info' = <<>> /\ rows' = 0
  /\ lost' = lost \cup Ids(violation_info)
  /\ unmarked' = unmarked \cup (Ids(violation_info) \ processed)
  /\ UNCHANGED <<now, tables, launched>>

-----------------------------------------------------------------------------
Collect ==
  \/ CollectFails
  \/ \E objs \in SetToAllKPermutations(Objects) : CollectInsert(objs)

Next ==
  \/ \E o \in Objects : UploadLocation(o)
  \/ \E m \in Monitors, objs \in SUBSET Objects : SQL_identify(m, objs)
  \/ Collect \/ SendStep \/ MarkFails
  \/ SQL_delete_old_data \/ Tick \/ Crash

Spec == Init /\ [][Next]_vars

\* The send thread runs, and the database answers it: it fails MaxFaults times.
FairSpec == Spec /\ WF_vars(SendStep)

-----------------------------------------------------------------------------
(* Properties.                                                             *)

\* Server.h: granularity_for_continuous_violations_in_sec is the "time window
\* in which only one representative record of continuous same violations is
\* inserted". The code keeps that for the violations of objects whose beacon is
\* known, however the rounds, the failures and the restarts fall; for the
\* others see OneRecordPerWindow below.
SameViolation(r, s) == r.type = s.type /\ r.object = s.object
OneLocatedRecordPerWindow ==
  \A r, s \in notification_table :
    r.id < s.id /\ SameViolation(r, s) /\ r.located /\ s.located =>
      s.time - r.time >= granularity_for_continuous_violations_in_sec

\* What is marked as processed was in a message, is in the buffer of the send
\* thread, or was when the server crashed: no other event is given up.
ProcessedIsLaunched == processed \subseteq launched \cup Ids(violation_info) \cup lost

\* A record is copied again only if it could not be marked after the last time.
LaunchedOnce ==
  /\ Ids(violation_info) \cap launched \subseteq unmarked
  /\ \A i, j \in DOMAIN violation_info :
       violation_info[i].id = violation_info[j].id => i = j

\* An event with a known beacon is processed, if it is not deleted before -
\* however short the buffer, whatever fails, and if the server restarts.
Unsettled(i) == \E r \in notification_table : r.id = i /\ IsSelected(r)
EventsSettle == \A i \in 1 .. MaxId : Unsettled(i) ~> ~Unsettled(i)

\* Server.h, as above, of every violation: but uuid = uuid is not true of a row
\* whose uuid is NULL, so a violation whose object has no beacon yet is inserted
\* again in every round, and once more when the beacon is known.
OneRecordPerWindow ==
  \A r, s \in notification_table :
    r.id < s.id /\ SameViolation(r, s) =>
      s.time - r.time >= granularity_for_continuous_violations_in_sec

\* Server.h, as above: the violation of another object is not the same violation.
OwnViolationRecorded ==
  [][\A objs \in SetToAllKPermutations(Objects) :
       CollectInsert(objs) =>
         \A o \in located :
           LET m == monitor_types[collecting] IN
           violation[m][o] # Never /\ violation[m][o] >= now - time_interval_in_sec
           => \E r \in notification_table' :
                r.type = m /\ r.object = o /\ InWindow(violation[m][o], r)]_vars

\* Server.c: "replace the terms in message template with real information".
NoBlankMessage == [][Launch => violation_info # <<>>]_vars
=============================================================================
