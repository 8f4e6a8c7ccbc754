------------------------------ MODULE GeoFence ------------------------------
(***************************************************************************)
(* Geo-fencing (src/src/GeoFence.c). A worker thread examines a packet of  *)
(* readings against the fence settings: a reading near a perimeter beacon  *)
(* is recorded in the violation list, and a reading near a fence beacon    *)
(* within perimeter_valid_duration_in_sec after it raises an alarm. Other  *)
(* workers reload the settings and the list of monitored objects.          *)
(*                                                                         *)
(* check_geo_fence_violations holds the lock of the setting list from its  *)
(* start to its end, so that there is one check at a time. A step of it is *)
(* the examination of one reading, made under the locks of the object list *)
(* and of the violation list. A reload is two sections under a lock, with  *)
(* the query to the database and its dump to a file in between.            *)
(***************************************************************************)
EXTENDS Integers, Sequences, FiniteSets

CONSTANTS
  Objects, NoObject,
  Beacons,
  Rssi,              \* signal strengths, as integers
  AreaOf,            \* [Objects \cup Beacons -> areas]
  Settings,          \* the active fences in the database, for each area a
                     \* sequence of [area, is_global_fence, perimeters, fences,
                     \* rssi_of_perimeters, rssi_of_fences]
  Commands,          \* workers that may run process_commands
  perimeter_valid_duration_in_sec,
  ViolationSlots,    \* the capacity of geofence_violation_mempool
  FirstSlots,        \* how many of its slots are the first of a block
  MaxReadings,       \* bound: readings in a packet
  MaxTime            \* bound: seconds

Areas == DOMAIN Settings
ActiveSettings == UNION { { Settings[a][i] : i \in 1 .. Len(Settings[a]) } : a \in Areas }

ASSUME GeoFenceAssumption ==
  /\ NoObject \notin Objects
  /\ Rssi \subseteq Int
  /\ perimeter_valid_duration_in_sec \in Nat
  /\ ViolationSlots \in Nat /\ FirstSlots \in Nat
  /\ MaxReadings \in Nat /\ MaxTime \in Nat
  /\ Settings \in [Areas -> Seq(ActiveSettings)]
  /\ AreaOf \in [Objects \cup Beacons -> Areas]
  /\ \A s \in ActiveSettings : s.perimeters \cup s.fences \subseteq Beacons

VARIABLES
  settings,      \* geo_fence_list_head: the settings of each area
  monitored,     \* objects_under_geo_fence_list_head
  violations,    \* geo_fence_violation_list_head: [mac, ts], oldest first
  check,         \* the check in progress: its packet, the examinations it has
                 \* yet to finish (none: no check), the readings yet to
                 \* examine, and current_time and is_found_mac_address of the
                 \* running examination
  leaked,        \* the lock of the violation list was left locked
  lost,          \* slots of its mempool that mp_free has refused
  command,       \* what each command has destroyed and not constructed yet ...
  scope,         \* ... and in which areas
  now,
  alarm,         \* the object whose geofence_violation_timestamp the last
                 \* examination has set in the database
  perimeter      \* ghost: when each object was last read at a perimeter since
                 \* its last alarm, or -1

checkVars == <<violations, check, leaked, lost, alarm, perimeter>>
fenceVars == <<settings, monitored, checkVars, command, scope, now>>

Readings == [mac : Objects, rssi : Rssi]
Packets == UNION { [1 .. n -> Readings] : n \in 1 .. MaxReadings }
Kinds == {"perimeter", "fence"}
Scopes == {Areas} \cup { {a} : a \in Areas }     \* AREA_ALL, AREA_ONE
NoCheck == [packet |-> <<>>, work |-> <<>>, todo |-> <<>>, time |-> 0, found |-> FALSE]

FenceTypeOK ==
  /\ settings \in [Areas -> Seq(ActiveSettings)]
  /\ monitored \subseteq Objects
  /\ violations \in Seq([mac : Objects, ts : 0 .. now])
  /\ Len(violations) <= ViolationSlots
  /\ check \in [packet : Seq(Readings), todo : Seq(Readings),
                work : Seq([setting : ActiveSettings, kind : Kinds]),
                time : 0 .. now, found : BOOLEAN]
  /\ leaked \in BOOLEAN
  /\ lost \in 0 .. FirstSlots
  /\ command \in [Commands -> {"idle", "settings", "objects"}]
  /\ scope \in [Commands -> SUBSET Areas]
  /\ now \in 0 .. MaxTime
  /\ alarm \in Objects \cup {NoObject}
  /\ perimeter \in [Objects -> -1 .. now]

\* A list without some of its members.
Parts(s) ==
  LET Increasing(n) ==
        { at \in [1 .. n -> 1 .. Len(s)] : \A i, j \in 1 .. n : i < j => at[i] < at[j] }
  IN UNION { { [i \in 1 .. n |-> s[at[i]]] : at \in Increasing(n) } : n \in 0 .. Len(s) }

\* What a load of settings may find, for each area.
Loads ==
  { found \in [Areas -> UNION { Parts(Settings[a]) : a \in Areas }] :
      \A a \in Areas : found[a] \in Parts(Settings[a]) }

\* main loads both lists if is_enabled_geofence_monitor, in the way of a reload
\* of all areas, and goes on whatever came of it: with all, some or none.
FenceInit ==
  /\ settings \in Loads
  /\ monitored \in SUBSET Objects
  /\ violations = <<>>
  /\ check = NoCheck
  /\ leaked = FALSE
  /\ lost = 0
  /\ command = [c \in Commands |-> "idle"]
  /\ scope = [c \in Commands |-> {}]
  /\ now = 0
  /\ alarm = NoObject
  /\ perimeter = [m \in Objects |-> -1]

-----------------------------------------------------------------------------
(* Wrong variants of definitions below, one plausible bug each; only the   *)
(* mutation tests of the properties use them.                              *)

Mutant_Recent(e) == TRUE
Mutant_Expired(e) == e.ts < check.time
Mutant_Found(m) == check.found

-----------------------------------------------------------------------------
(* check_geo_fence_violations                                              *)

NoCheckRuns == check.work = <<>>

\* For each setting in the area of the beacon the examination as a perimeter
\* beacon and then that as a fence beacon, where it is one.
Examinations(b) ==
  LET local == settings[AreaOf[b]]
      Concerns(x) ==
        b \in IF x.kind = "perimeter" THEN x.setting.perimeters ELSE x.setting.fences
      Of(setting, kind) ==
        LET x == [setting |-> setting, kind |-> kind] IN
        IF Concerns(x) THEN <<x>> ELSE <<>>
      upto[n \in 0 .. Len(local)] ==
        IF n = 0 THEN <<>>
        ELSE upto[n - 1] \o Of(local[n], "perimeter") \o Of(local[n], "fence")
  IN upto[Len(local)]

CheckStart(b, packet) ==
  /\ NoCheckRuns /\ Examinations(b) # <<>>
  /\ check' = [packet |-> packet, work |-> Examinations(b), todo |-> packet,
               time |-> now, found |-> FALSE]
  /\ UNCHANGED <<settings, monitored, violations, leaked, lost, alarm, perimeter, command,
                 scope, now>>

-----------------------------------------------------------------------------
(* examine_object_tracking_data                                            *)

Examination == Head(check.work)
Reading == Head(check.todo)

\* rssi_criteria: rssi_of_perimeters, for a fence beacon too.
Criteria == Examination.setting.rssi_of_perimeters

\* The object is monitored, in the area of the fence or by a global fence,
\* and near the beacon.
Relevant ==
  /\ Reading.mac \in monitored
  /\ \/ Examination.setting.is_global_fence
     \/ AreaOf[Reading.mac] = Examination.setting.area
  /\ Reading.rssi >= Criteria

\* With more readings to examine, go on; else begin the next examination.
Advance(found) ==
  IF Len(check.todo) > 1
  THEN check' = [check EXCEPT !.todo = Tail(@), !.found = found]
  ELSE IF Len(check.work) > 1
  THEN check' = [check EXCEPT !.work = Tail(@), !.todo = check.packet,
                              !.time = now, !.found = FALSE]
  ELSE check' = NoCheck

ExamineIrrelevant ==
  /\ ~NoCheckRuns /\ ~Relevant
  /\ Advance(check.found)
  /\ alarm' = NoObject
  /\ UNCHANGED <<settings, monitored, violations, leaked, lost, perimeter, command, scope, now>>

\* The walk along the violation list removes what has expired, up to the
\* node of the object if it has one.
Recent(e) == perimeter_valid_duration_in_sec > check.time - e.ts
Expired(e) == e.ts < check.time - perimeter_valid_duration_in_sec
Unexpired(s) ==
  LET upto[n \in 0 .. Len(s)] ==
        IF n = 0 THEN <<>>
        ELSE IF Expired(s[n]) THEN upto[n - 1] ELSE Append(upto[n - 1], s[n])
  IN upto[Len(s)]
Stamp == check.time

Listed(m) == \E i \in 1 .. Len(violations) : violations[i].mac = m
Place(m) ==
  CHOOSE i \in 1 .. Len(violations) :
    violations[i].mac = m /\ \A j \in 1 .. i - 1 : violations[j].mac # m
Before(m) == SubSeq(violations, 1, Place(m) - 1)
After(m) == SubSeq(violations, Place(m) + 1, Len(violations))

\* is_found_mac_address keeps its value from one reading to the next.
Found(m) == check.found \/ Listed(m)

\* The node of a fence beacon's object is removed, with an alarm, while the
\* perimeter reading it records is recent.
Raises(kind, m) == kind = "fence" /\ Listed(m) /\ Recent(violations[Place(m)])

AtObject(kind, m) ==
  IF Raises(kind, m) THEN <<>>
  ELSE IF kind = "perimeter" THEN <<[mac |-> m, ts |-> Stamp]>>
  ELSE <<violations[Place(m)]>>

\* After an alarm that the database did not take the walk goes on.
Walk(kind, m, sql_ok) ==
  IF ~Listed(m) THEN Unexpired(violations)
  ELSE Unexpired(Before(m)) \o AtObject(kind, m)
       \o (IF Raises(kind, m) /\ ~sql_ok THEN Unexpired(After(m)) ELSE After(m))

\* mp_free refuses a slot that is the first of its block.
Freed(n) == { k \in 0 .. FirstSlots : lost <= k /\ k <= lost + n }

\* Without a slot for a new node the code goes on with the list still locked.
LeavesLocked(new, full) == new /\ full

\* sql_ok: SQL_identify_geofence_violation succeeds, when it is called. The
\* record is gone before that.
ExamineRelevant(sql_ok) ==
  LET m == Reading.mac
      kind == Examination.kind
      walked == Walk(kind, m, sql_ok)
      new == kind = "perimeter" /\ ~Found(m)
      full == Len(walked) + lost' >= ViolationSlots
      raises == Raises(kind, m)
  IN
  /\ ~NoCheckRuns /\ Relevant
  /\ ~leaked
  /\ lost' \in Freed(Len(violations) - Len(walked))
  /\ violations' =
       IF new /\ ~full THEN Append(walked, [mac |-> m, ts |-> Stamp]) ELSE walked
  /\ leaked' = LeavesLocked(new, full)
  /\ alarm' = IF raises /\ sql_ok THEN m ELSE NoObject
  /\ perimeter' =
       IF raises /\ sql_ok THEN [perimeter EXCEPT ![m] = -1]
       ELSE IF kind = "perimeter" THEN [perimeter EXCEPT ![m] = check.time]
       ELSE perimeter
  /\ Advance(Found(m))
  /\ UNCHANGED <<settings, monitored, command, scope, now>>

CheckStep == ExamineIrrelevant \/ \E sql_ok \in BOOLEAN : ExamineRelevant(sql_ok)

-----------------------------------------------------------------------------
(* reload_geo_fence_settings: GEO_FENCE_LIST, GEO_FENCE_OBJECT, or both one
   after the other, for all areas or for one.                              *)

\* A check that waits for the violation list holds the lock of the objects.
ObjectsUnlocked == ~(leaked /\ ~NoCheckRuns /\ Relevant)

Begin(c, what, areas) ==
  /\ command[c] = "idle"
  /\ command' = [command EXCEPT ![c] = what]
  /\ scope' = [scope EXCEPT ![c] = areas]

End(c, what) ==
  /\ command[c] = what
  /\ command' = [command EXCEPT ![c] = "idle"]
  /\ scope' = [scope EXCEPT ![c] = {}]

DestroySettings(c, areas) ==
  /\ Begin(c, "settings", areas) /\ NoCheckRuns
  /\ settings' = [a \in Areas |-> IF a \in areas THEN <<>> ELSE settings[a]]
  /\ UNCHANGED <<monitored, checkVars, now>>

\* The settings that are added to an area need not be all that the database
\* has. One that finds no memory is passed over, whether for itself or for the
\* node of its area, which the next one of the area then tries to allocate;
\* and the dump file is one for all reloads and is not locked: another reload
\* may have truncated it again before this one has read it. (A line that is cut
\* short is left out.)
ConstructSettings(c) ==
  /\ End(c, "settings") /\ NoCheckRuns
  /\ \E found \in Loads :
       settings' = [a \in Areas |->
                      IF a \in scope[c] THEN settings[a] \o found[a] ELSE settings[a]]
  /\ UNCHANGED <<monitored, checkVars, now>>

DestroyObjects(c, areas) ==
  /\ Begin(c, "objects", areas) /\ ObjectsUnlocked
  /\ monitored' = { m \in monitored : AreaOf[m] \notin areas }
  /\ UNCHANGED <<settings, checkVars, now>>

\* As for the settings, with a dump file of their own.
ConstructObjects(c) ==
  /\ End(c, "objects") /\ ObjectsUnlocked
  /\ \E some \in SUBSET { m \in Objects : AreaOf[m] \in scope[c] } :
       monitored' = monitored \cup some
  /\ UNCHANGED <<settings, checkVars, now>>

\* The database cannot be read, or the file not be opened: the list stays as
\* it is, without a lock.
ConstructFails(c, what) ==
  /\ End(c, what)
  /\ UNCHANGED <<settings, monitored, checkVars, now>>

Reload(c) ==
  \/ \E areas \in Scopes : DestroySettings(c, areas) \/ DestroyObjects(c, areas)
  \/ ConstructSettings(c) \/ ConstructObjects(c)
  \/ \E what \in {"settings", "objects"} : ConstructFails(c, what)

\* get_system_time
Tick ==
  /\ now < MaxTime
  /\ now' = now + 1
  /\ UNCHANGED <<settings, monitored, checkVars, command, scope>>

-----------------------------------------------------------------------------
FenceNext ==
  \/ \E b \in Beacons, packet \in Packets : CheckStart(b, packet)
  \/ CheckStep
  \/ \E c \in Commands : Reload(c)
  \/ Tick

FenceSpec == FenceInit /\ [][FenceNext]_fenceVars

\* A worker in a check keeps running.
FenceFairSpec == FenceSpec /\ WF_fenceVars(CheckStep)

-----------------------------------------------------------------------------
(* Properties.                                                             *)

\* One record per object, of its last reading at a perimeter.
RecordsSound ==
  \A i \in 1 .. Len(violations) :
    /\ violations[i].ts = perimeter[violations[i].mac]
    /\ \A j \in 1 .. i - 1 : violations[j].mac # violations[i].mac

\* An alarm follows a reading of the object at a perimeter, no older than
\* perimeter_valid_duration_in_sec and not already followed by an alarm,
\* whatever is reloaded, or loaded twice, between the two.
AlarmJustified ==
  [][CheckStep /\ alarm' # NoObject =>
       /\ perimeter[alarm'] >= 0
       /\ check.time - perimeter[alarm'] < perimeter_valid_duration_in_sec]_fenceVars

\* A record leaves the list with an alarm of its object, or when it has expired:
\* not because other objects are examined, or packets or fences follow one
\* another in some order. But the code removes the record before it asks the
\* database for the alarm, which may fail (AlarmBeforeRemoval below).
Leaves(m) == Listed(m) /\ ~Listed(m)'
HasExpired(m) == check.time - perimeter[m] >= perimeter_valid_duration_in_sec
AlarmRefused(m) ==
  /\ ExamineRelevant(FALSE)
  /\ m = Reading.mac /\ Raises(Examination.kind, m)
RecordsKept ==
  [][\A m \in Objects : Leaves(m) => alarm' = m \/ HasExpired(m) \/ AlarmRefused(m)]_fenceVars

\* A check ends: it holds the lock of the settings meanwhile. It does as long as
\* the mempool has a slot for the record of each object that mp_free does not
\* refuse.
CheckEnds == check.work # <<>> ~> check.work = <<>>

\* GeoFence.h: the check serves "to examine each detected object against
\* geo-fence". A monitored object near a perimeter beacon is recorded.
PerimeterRecorded ==
  [][\A sql_ok \in BOOLEAN, m \in Objects :
       ExamineRelevant(sql_ok) /\ Examination.kind = "perimeter" /\ m = Reading.mac
         => Listed(m)']_fenceVars

\* GeoFence.h, as above: the record of an object that comes near a fence beacon
\* in time is not removed before the database has taken the alarm.
AlarmBeforeRemoval ==
  [][\A m \in Objects : Leaves(m) => alarm' = m \/ HasExpired(m)]_fenceVars

\* GeoFence.h: reload_geo_fence_settings serves to "reload geo fence settings",
\* not to add them again. Two reloads that destroy first and construct then
\* leave each setting twice in the list.
SettingsLoadedOnce ==
  \A a \in Areas : \A i, j \in 1 .. Len(settings[a]) :
    settings[a][i] = settings[a][j] => i = j

\* GeoFence.h: rssi_criteria is "the rssi strenth to determine if objects are
\* closed to lbeacon", and a setting has one for each kind of beacon.
AlarmNearFence ==
  [][CheckStep /\ alarm' # NoObject =>
       Reading.rssi >= Examination.setting.rssi_of_fences]_fenceVars
=============================================================================
