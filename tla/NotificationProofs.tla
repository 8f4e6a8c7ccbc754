-------------------------- MODULE NotificationProofs --------------------------
(***************************************************************************)
(* Theorems about Notification, for any objects, monitors, windows, buffer *)
(* and record lengths, and any number of faults.                           *)
(***************************************************************************)
EXTENDS Notification, FiniteSetTheorems, SequenceTheorems, TLAPS

\* The ids of the table are in use, each for one row.
TableInv ==
  /\ IsFiniteSet(notification_table)
  /\ \A r \in notification_table : r.id < id
  /\ \A r, s \in notification_table : r.id = s.id => r = s

\* What the send thread has still to look at: rows that the table has, or had,
\* and that are not in the buffer, but for the one it is about to mark.
TodoInv ==
  /\ at = "idle" => todo = <<>>
  /\ \A i \in DOMAIN todo :
       /\ todo[i].id < id
       /\ \A r \in notification_table : r.id = todo[i].id => r = todo[i]
       /\ todo[i].id \in launched => todo[i].id \in unmarked
  /\ \A i, j \in DOMAIN todo : todo[i].id = todo[j].id => i = j
  /\ \A i \in DOMAIN todo, j \in DOMAIN violation_info :
       todo[i].id = violation_info[j].id => at = "mark" /\ i = 1

\* There is a message to come for every record in the buffer.
BufferInv ==
  /\ at = "mark" =>
       /\ todo # <<>> /\ violation_info # <<>>
       /\ violation_info[Len(violation_info)] = Head(todo)
  /\ IF at = "idle" THEN rows = 0 ELSE rows >= 1
  /\ Len(violation_info) + Len(todo) <= rows + (IF at = "mark" THEN 1 ELSE 0)

\* What has been copied is processed, or could not be marked, or is deleted.
Settled(i) ==
  \A r \in notification_table : r.id = i => i \in processed \cup unmarked

CopiedInv ==
  /\ \A i \in launched : i < id /\ Settled(i)
  /\ \A j \in DOMAIN violation_info :
       /\ violation_info[j].id < id
       /\ \/ Settled(violation_info[j].id)
          \/ at = "mark" /\ j = Len(violation_info)

Inv ==
  /\ TypeOK /\ TableInv /\ TodoInv /\ BufferInv /\ CopiedInv
  /\ OneLocatedRecordPerWindow /\ ProcessedIsLaunched /\ LaunchedOnce

Safe == OneLocatedRecordPerWindow /\ ProcessedIsLaunched /\ LaunchedOnce

-----------------------------------------------------------------------------
(* The bounds are numbers, and so are what rows are identified and timed by. *)
LEMMA Numbers ==
  /\ MaxId \in Nat /\ MaxTime \in Nat /\ MaxFaults \in Nat
  /\ granularity_for_continuous_violations_in_sec \in Nat
  /\ Len(monitor_types) \in Nat \ {0}
  /\ \A r \in Row : r.id \in 1 .. MaxId /\ r.id \in Nat /\ r.time \in Nat
<1>1. Len(monitor_types) \in Nat \ {0}
  BY NotificationAssumption, EmptySeq
<1>2. \A x \in {MaxId, MaxTime, MaxFaults, granularity_for_continuous_violations_in_sec} : x \in Nat
  BY NotificationAssumption
<1> QED BY <1>1, <1>2 DEF Row, Times

(* At the start there are no events.                                       *)
LEMMA InitInv == Init => Inv
<1> SUFFICES ASSUME Init PROVE Inv
  OBVIOUS
<1> USE DEF Init
<1>1. TypeOK
  BY Numbers DEF TypeOK, Times, Never
<1>2. TableInv /\ TodoInv /\ BufferInv /\ CopiedInv
  BY FS_EmptySet DEF TableInv, TodoInv, BufferInv, CopiedInv
<1>3. Safe
  BY DEF Safe, OneLocatedRecordPerWindow, ProcessedIsLaunched, LaunchedOnce, Ids
<1> QED BY <1>1, <1>2, <1>3 DEF Inv, Safe

(* Stamps, locations, time and a failed collection leave the rows, the     *)
(* buffer and the ghosts as they are.                                      *)
LEMMA StampInv ==
  ASSUME Inv, \/ \E o \in Objects : UploadLocation(o)
              \/ \E m \in Monitors, objs \in SUBSET Objects : SQL_identify(m, objs)
              \/ CollectFails \/ Tick
  PROVE  Inv'
<1> USE DEF tables, sendVars, ghosts
<1>1. UNCHANGED <<notification_table, processed, id, sendVars, ghosts>>
  BY DEF UploadLocation, SQL_identify, CollectFails, Tick
<1>2. TableInv' /\ TodoInv' /\ BufferInv'
  BY <1>1 DEF Inv, TableInv, TodoInv, BufferInv
<1>3. CopiedInv'
  BY <1>1 DEF Inv, CopiedInv, Settled
<1>4. Safe'
  BY <1>1 DEF Inv, Safe, OneLocatedRecordPerWindow, ProcessedIsLaunched, LaunchedOnce, Ids
<1>5. TypeOK'
  <2>1. CASE \E o \in Objects : UploadLocation(o)
    BY <2>1 DEF Inv, TypeOK, UploadLocation
  <2>2. CASE \E m \in Monitors, objs \in SUBSET Objects : SQL_identify(m, objs)
    BY <2>2 DEF Inv, TypeOK, SQL_identify
  <2>3. CASE CollectFails
    BY <2>3, Numbers DEF Inv, TypeOK, CollectFails
  <2>4. CASE Tick
    BY <2>4, Numbers DEF Inv, TypeOK, Tick, Times
  <2> QED BY <2>1, <2>2, <2>3, <2>4
<1> QED BY <1>2, <1>3, <1>4, <1>5 DEF Inv, Safe

(* The rows that a collection inserts have fresh ids, and each is for      *)
(* another object, whose stamp no row represents.                          *)
LEMMA CollectedRows ==
  ASSUME Inv, NEW objs, CollectInsert(objs), NEW m, m = monitor_types[collecting]
  PROVE  /\ Len(objs) \in Nat /\ IsFiniteSet(NewRows(m, objs))
         /\ NewRows(m, objs) \subseteq Row
         /\ \A r \in NewRows(m, objs) :
              /\ r.id \in id .. id + Len(objs) - 1 /\ r.type = m
              /\ r.object \in Collected(m) /\ r.time = violation[m][r.object]
         /\ \A r, s \in NewRows(m, objs) : r.object = s.object \/ r.id = s.id => r = s
<1>0. id \in 1 .. MaxId + 1 /\ id + Len(objs) <= MaxId + 1 /\ id \in Nat
  BY Numbers DEF CollectInsert, Inv, TypeOK
<1>1. m \in Monitors
  BY NotificationAssumption, ElementOfSeq DEF Inv, TypeOK
<1>2. IsFiniteSet(Collected(m)) /\ Collected(m) \subseteq Objects
  BY NotificationAssumption, FS_Subset DEF Collected
<1>3. Cardinality(Collected(m)) \in Nat
  BY <1>2, FS_CardinalityType
<1>4. /\ objs \in [1 .. Cardinality(Collected(m)) -> Collected(m)]
      /\ \A i, j \in DOMAIN objs : i # j => objs[i] # objs[j]
  BY DEF CollectInsert, SetToSeqs
<1>5. objs \in Seq(Collected(m))
  BY <1>3, <1>4, SeqDef
<1>6. Len(objs) \in Nat /\ DOMAIN objs = 1 .. Len(objs)
  BY <1>5, LenProperties
<1> DEFINE row(i) == [id |-> id + i - 1, type |-> m, object |-> objs[i],
                      time |-> violation[m][objs[i]], located |-> objs[i] \in located]
<1>7. NewRows(m, objs) = {row(i) : i \in 1 .. Len(objs)}
  BY <1>6 DEF NewRows
<1>8. ASSUME NEW i \in 1 .. Len(objs)
      PROVE  /\ row(i) \in Row /\ row(i).id \in id .. id + Len(objs) - 1
             /\ row(i).type = m /\ row(i).object \in Collected(m)
             /\ row(i).time = violation[m][row(i).object]
  <2>1. objs[i] \in Collected(m)
    BY <1>4, <1>6
  <2>2. violation[m][objs[i]] \in Times
    BY <1>1, <1>2, <2>1 DEF Inv, TypeOK, Collected
  <2>3. id + i - 1 \in 1 .. MaxId /\ id + i - 1 \in id .. id + Len(objs) - 1
    BY <1>0, <1>6, Numbers
  <2> QED BY <1>1, <1>2, <2>1, <2>2, <2>3 DEF Row
<1>9. \A i, j \in 1 .. Len(objs) : row(i).object = row(j).object \/ row(i).id = row(j).id => i = j
  BY <1>0, <1>4, <1>6
<1>10. IsFiniteSet(NewRows(m, objs))
  <2> DEFINE f == [i \in 1 .. Len(objs) |-> row(i)]
  <2>1. f \in Surjection(1 .. Len(objs), NewRows(m, objs))
    BY <1>7 DEF Surjection
  <2>2. IsFiniteSet(1 .. Len(objs))
    BY <1>6, FS_Interval
  <2> QED BY <2>1, <2>2, FS_Surjection
<1> HIDE DEF row
<1> QED BY <1>6, <1>7, <1>8, <1>9, <1>10

(* The collection of a monitor.                                            *)
LEMMA CollectInv == ASSUME Inv, NEW objs, CollectInsert(objs) PROVE Inv'
<1> USE DEF sendVars, ghosts
<1> DEFINE m == monitor_types[collecting]
           new == NewRows(m, objs)
<1>1. /\ notification_table' = notification_table \cup new /\ id' = id + Len(objs)
      /\ id + Len(objs) <= MaxId + 1
      /\ UNCHANGED <<now, violation, located, processed, sendVars, faults, ghosts>>
  BY DEF CollectInsert
<1>2. /\ Len(objs) \in Nat /\ IsFiniteSet(new) /\ new \subseteq Row
      /\ \A r \in new : /\ r.id \in id .. id + Len(objs) - 1 /\ r.type = m
                        /\ r.object \in Collected(m) /\ r.time = violation[m][r.object]
      /\ \A r, s \in new : r.object = s.object \/ r.id = s.id => r = s
  BY CollectedRows
<1>3. /\ id \in Nat /\ id' \in Nat /\ id <= id'
      /\ \A r \in Row : r.id \in Nat /\ r.time \in Nat
      /\ notification_table \subseteq Row
      /\ \A k \in DOMAIN todo : todo[k] \in Row
      /\ \A k \in DOMAIN violation_info : violation_info[k] \in Row
  BY <1>1, <1>2, Numbers, ElementOfSeq, LenProperties DEF Inv, TypeOK
<1> HIDE DEF new
<1>4. TypeOK'
  <2>1. collecting' \in 1 .. Len(monitor_types)
    BY Numbers DEF CollectInsert, Inv, TypeOK
  <2>2. id' \in 1 .. MaxId + 1
    BY <1>1, <1>2, Numbers DEF Inv, TypeOK
  <2>3. processed' \subseteq {r.id : r \in notification_table'}
    BY <1>1 DEF Inv, TypeOK
  <2>4. notification_table' \subseteq Row
    <3>1. notification_table' = notification_table \cup new /\ new \subseteq Row
      BY <1>1, <1>2
    <3> QED BY <1>3, <3>1
  <2>5. UNCHANGED <<now, violation, located, at, todo, violation_info, rows, faults,
                    launched, unmarked, lost>>
    BY <1>1
  <2> QED BY <2>1, <2>2, <2>3, <2>4, <2>5 DEF Inv, TypeOK
<1>5. TableInv'
  <2>1. IsFiniteSet(notification_table')
    BY <1>1, <1>2, FS_Union DEF Inv, TableInv
  <2>2. \A r \in notification_table' : r.id < id'
    BY <1>1, <1>2, <1>3 DEF Inv, TableInv
  <2>3. \A r, s \in notification_table' : r.id = s.id => r = s
    BY <1>1, <1>2, <1>3 DEF Inv, TableInv
  <2> QED BY <2>1, <2>2, <2>3 DEF TableInv
<1>6. TodoInv'
  BY <1>1, <1>2, <1>3 DEF Inv, TodoInv
<1>7. BufferInv'
  BY <1>1 DEF Inv, BufferInv
<1>8. CopiedInv'
  <2>1. ASSUME NEW i \in Nat, i < id, Settled(i) PROVE Settled(i)'
    BY <1>1, <1>2, <1>3, <2>1 DEF Settled
  <2>2. \A i \in launched : i \in Nat
    BY Numbers DEF Inv, TypeOK
  <2> QED BY <1>1, <1>3, <2>1, <2>2 DEF Inv, CopiedInv
<1>9. OneLocatedRecordPerWindow'
  <2> SUFFICES ASSUME NEW r \in notification_table', NEW s \in notification_table',
                      r.id < s.id, r.located, s.located, r.type = s.type, r.object = s.object
               PROVE  s.time - r.time >= granularity_for_continuous_violations_in_sec
    BY DEF OneLocatedRecordPerWindow, SameViolation
  <2>1. CASE r \in notification_table /\ s \in notification_table
    BY <2>1 DEF Inv, OneLocatedRecordPerWindow, SameViolation
  <2>2. CASE r \in new /\ s \in new
    BY <1>2, <1>3, <2>2
  <2>3. CASE r \in new /\ s \in notification_table
    BY <1>2, <1>3, <2>3 DEF Inv, TableInv
  <2>4. CASE r \in notification_table /\ s \in new
    <3>1. s.type = m /\ ~Represented(m, s.object) /\ s.time = violation[m][s.object]
      BY <1>2, <2>4 DEF Collected
    <3>2. ~InWindow(s.time, r)
      BY <2>4, <3>1 DEF Represented
    <3>3. s.time \in Nat /\ r.time \in Nat
      BY <1>2, <1>3, <2>4
    <3> QED BY <3>2, <3>3, Numbers DEF InWindow
  <2> QED BY <1>1, <2>1, <2>2, <2>3, <2>4
<1>10. ProcessedIsLaunched' /\ LaunchedOnce'
  BY <1>1 DEF Inv, ProcessedIsLaunched, LaunchedOnce, Ids
<1> QED BY <1>4, <1>5, <1>6, <1>7, <1>8, <1>9, <1>10 DEF Inv

(* The select: the rows that are not processed, each once, into an empty   *)
(* buffer.                                                                 *)
LEMMA SelectInv == Inv /\ Select => Inv'
<1> SUFFICES ASSUME Inv, Select PROVE Inv'
  OBVIOUS
<1> USE DEF tables, ghosts
<1> DEFINE selected == {r \in notification_table : IsSelected(r)}
<1>1. /\ at = "idle" /\ at' = "fill" /\ selected # {}
      /\ todo' \in SetToSeqs(selected) /\ rows' = Cardinality(selected)
      /\ UNCHANGED <<now, violation, located, notification_table, processed, id, collecting,
                     violation_info, faults, launched, unmarked, lost>>
  BY DEF Select
<1>2. IsFiniteSet(selected) /\ selected \subseteq Row
  BY FS_Subset DEF Inv, TypeOK, TableInv
<1>3. Cardinality(selected) \in Nat \ {0}
  BY <1>1, <1>2, FS_CardinalityType, FS_EmptySet
<1>4. Cardinality(selected) <= MaxId
  <2> DEFINE f == [r \in selected |-> r.id]
  <2>1. f \in Injection(selected, 1 .. MaxId)
    BY <1>2, Numbers DEF Injection, IsInjective, Inv, TableInv
  <2>2. IsFiniteSet(1 .. MaxId) /\ Cardinality(1 .. MaxId) = MaxId
    BY Numbers, FS_Interval
  <2> HIDE DEF f, selected
  <2> QED BY <2>1, <2>2, FS_Injection
<1>5. /\ todo' \in [1 .. Cardinality(selected) -> selected]
      /\ \A i, j \in DOMAIN todo' : i # j => todo'[i] # todo'[j]
  BY <1>1 DEF SetToSeqs
<1>6. /\ todo' \in Seq(Row) /\ Len(todo') = Cardinality(selected)
      /\ \A i \in DOMAIN todo' : todo'[i] \in selected
  <2>1. todo' \in Seq(selected)
    BY <1>3, <1>5, SeqDef
  <2>2. DOMAIN todo' = 1 .. Len(todo') /\ Len(todo') \in Nat
    BY <2>1, LenProperties
  <2>3. DOMAIN todo' = 1 .. Cardinality(selected)
    BY <1>5
  <2>4. Len(todo') = Cardinality(selected)
    BY <1>3, <2>2, <2>3
  <2> QED BY <1>2, <1>5, <2>1, <2>4, SeqMonotonic
<1>7. violation_info = <<>>
  <2>1. Len(violation_info) + Len(todo) <= 0
    BY <1>1 DEF Inv, BufferInv
  <2>2. Len(violation_info) \in Nat /\ Len(todo) \in Nat
    BY LenProperties DEF Inv, TypeOK
  <2> QED BY <2>1, <2>2, EmptySeq DEF Inv, TypeOK
<1> HIDE DEF selected
<1>8. TypeOK'
  BY <1>1, <1>3, <1>4, <1>6, Numbers DEF Inv, TypeOK
<1>9. TableInv' /\ BufferInv'
  BY <1>1, <1>3, <1>6, <1>7 DEF Inv, TableInv, BufferInv
<1>10. TodoInv'
  <2>1. \A r \in selected : r \in notification_table /\ r.id \notin processed
    BY DEF selected, IsSelected
  <2> QED BY <1>1, <1>5, <1>6, <1>7, <2>1 DEF Inv, TableInv, TodoInv, CopiedInv, Settled
<1>11. CopiedInv'
  BY <1>1, <1>7 DEF Inv, CopiedInv, Settled
<1>12. Safe'
  BY <1>1 DEF Inv, Safe, OneLocatedRecordPerWindow, ProcessedIsLaunched, LaunchedOnce, Ids
<1> QED BY <1>8, <1>9, <1>10, <1>11, <1>12 DEF Inv, Safe

(* What the send thread does not look at any more is no longer in todo.    *)
LEMMA TailTodo ==
  ASSUME Inv, todo # <<>>
  PROVE  /\ Head(todo) = todo[1] /\ 1 \in DOMAIN todo /\ Head(todo) \in Row
         /\ Tail(todo) \in Seq(Row) /\ Len(Tail(todo)) = Len(todo) - 1
         /\ \A i \in DOMAIN Tail(todo) :
              i + 1 \in DOMAIN todo /\ i \in Nat \ {0} /\ Tail(todo)[i] = todo[i + 1]
  BY HeadTailProperties, LenProperties DEF Inv, TypeOK

(* The copy of a record to the end of the buffer, if it fits.              *)
LEMMA FillInv == Inv /\ Fill => Inv'
<1> SUFFICES ASSUME Inv, Fill PROVE Inv'
  OBVIOUS
<1> USE DEF tables, ghosts
<1> DEFINE r == Head(todo)
<1>1. /\ at = "fill" /\ todo # <<>>
      /\ UNCHANGED <<now, violation, located, notification_table, processed, id, collecting,
                     rows, faults, launched, unmarked, lost>>
  BY DEF Fill
<1>2. TableInv' /\ OneLocatedRecordPerWindow'
  BY <1>1 DEF Inv, TableInv, OneLocatedRecordPerWindow
<1>3. CASE ~Fits(r)
  <2>1. todo' = Tail(todo) /\ at' = at /\ violation_info' = violation_info
    BY <1>3 DEF Fill
  <2>2. TypeOK'
    BY <1>1, <2>1, TailTodo DEF Inv, TypeOK
  <2>3. TodoInv'
    BY <1>1, <2>1, TailTodo DEF Inv, TodoInv
  <2>4. BufferInv'
    <3>1. Len(violation_info) \in Nat /\ Len(todo) \in Nat /\ rows \in Nat
      BY LenProperties, Numbers DEF Inv, TypeOK
    <3> QED BY <1>1, <2>1, <3>1, TailTodo DEF Inv, BufferInv
  <2>5. CopiedInv'
    BY <1>1, <2>1 DEF Inv, CopiedInv, Settled
  <2>6. ProcessedIsLaunched' /\ LaunchedOnce'
    BY <1>1, <2>1 DEF Inv, ProcessedIsLaunched, LaunchedOnce, Ids
  <2> QED BY <1>2, <2>2, <2>3, <2>4, <2>5, <2>6 DEF Inv
<1>4. CASE Fits(r)
  <2>1. at' = "mark" /\ todo' = todo /\ violation_info' = Append(violation_info, r)
    BY <1>4 DEF Fill
  <2>2. /\ violation_info' \in Seq(Row) /\ Len(violation_info') = Len(violation_info) + 1
        /\ DOMAIN violation_info' = DOMAIN violation_info \cup {Len(violation_info) + 1}
        /\ Len(violation_info) + 1 \notin DOMAIN violation_info
        /\ \A j \in DOMAIN violation_info : violation_info'[j] = violation_info[j]
        /\ violation_info'[Len(violation_info) + 1] = r
        /\ Len(violation_info) \in Nat
    <3>1. violation_info \in Seq(Row) /\ r \in Row
      BY <1>1, TailTodo DEF Inv, TypeOK
    <3> QED BY <2>1, <3>1, AppendProperties, LenProperties
  <2>3. r = todo[1] /\ 1 \in DOMAIN todo
    BY <1>1, TailTodo
  <2> HIDE DEF r
  <2>4. TypeOK'
    BY <1>1, <2>1, <2>2 DEF Inv, TypeOK
  <2>5. TodoInv'
    BY <1>1, <2>1, <2>2, <2>3 DEF Inv, TodoInv
  <2>6. BufferInv'
    <3>1. Len(todo) \in Nat /\ rows \in Nat
      BY LenProperties, Numbers DEF Inv, TypeOK
    <3> QED BY <1>1, <2>1, <2>2, <3>1 DEF Inv, BufferInv, r
  <2>7. CopiedInv'
    BY <1>1, <2>1, <2>2, <2>3 DEF Inv, TodoInv, CopiedInv, Settled
  <2>8. Ids(violation_info') = Ids(violation_info) \cup {r.id}
    BY <2>2 DEF Ids
  <2>9. ProcessedIsLaunched'
    BY <1>1, <2>8 DEF Inv, ProcessedIsLaunched
  <2>10. LaunchedOnce'
    <3>1. r.id \in launched => r.id \in unmarked
      BY <2>3 DEF Inv, TodoInv
    <3>2. \A j \in DOMAIN violation_info : violation_info[j].id # r.id
      BY <1>1, <2>3 DEF Inv, TodoInv
    <3> QED BY <1>1, <2>2, <2>8, <3>1, <3>2 DEF Inv, LaunchedOnce
  <2> QED BY <1>2, <2>4, <2>5, <2>6, <2>7, <2>9, <2>10 DEF Inv
<1> QED BY <1>3, <1>4

(* The update of the row of the last record, done or failed.               *)
LEMMA MarkInv == Inv /\ (Mark \/ MarkFails) => Inv'
<1> SUFFICES ASSUME Inv, Mark \/ MarkFails PROVE Inv'
  OBVIOUS
<1> USE DEF tables, ghosts
<1> DEFINE r == Head(todo)
<1>1. /\ at = "mark" /\ at' = "fill" /\ todo' = Tail(todo)
      /\ UNCHANGED <<now, violation, located, notification_table, id, collecting,
                     violation_info, rows, launched, lost>>
  BY DEF Mark, MarkFails
<1>2. /\ todo # <<>> /\ violation_info # <<>>
      /\ violation_info[Len(violation_info)] = r
  BY <1>1 DEF Inv, BufferInv
<1>3. /\ r = todo[1] /\ 1 \in DOMAIN todo /\ r \in Row
      /\ todo' \in Seq(Row) /\ Len(todo') = Len(todo) - 1
      /\ \A i \in DOMAIN todo' :
           i + 1 \in DOMAIN todo /\ i \in Nat \ {0} /\ todo'[i] = todo[i + 1]
  BY <1>1, <1>2, TailTodo
<1>4. Len(violation_info) \in DOMAIN violation_info
  BY <1>2, LenProperties, EmptySeq DEF Inv, TypeOK
<1> HIDE DEF r
<1>5. \/ r \in notification_table /\ processed' = processed \cup {r.id} /\ unmarked' = unmarked
      \/ r \notin notification_table /\ processed' = processed /\ unmarked' = unmarked
      \/ processed' = processed /\ unmarked' = unmarked \cup {r.id}
  BY DEF Mark, MarkFails, Marked, r
<1>6. TypeOK'
  <2>1. processed' \subseteq {s.id : s \in notification_table'}
    BY <1>1, <1>5 DEF Inv, TypeOK
  <2>2. unmarked' \subseteq 1 .. MaxId
    BY <1>3, <1>5, Numbers DEF Inv, TypeOK
  <2>3. faults' \in 0 .. MaxFaults
    BY Numbers DEF Mark, MarkFails, Inv, TypeOK
  <2> QED BY <1>1, <1>3, <2>1, <2>2, <2>3 DEF Inv, TypeOK
<1>7. TableInv' /\ OneLocatedRecordPerWindow'
  BY <1>1 DEF Inv, TableInv, OneLocatedRecordPerWindow
<1>8. TodoInv'
  <2>1. \A i \in DOMAIN todo' : todo'[i].id # r.id
    BY <1>3 DEF Inv, TodoInv
  <2> QED BY <1>1, <1>3, <1>5, <2>1 DEF Inv, TodoInv
<1>9. BufferInv'
  <2>1. Len(violation_info) \in Nat /\ Len(todo) \in Nat /\ rows \in Nat
    BY LenProperties, Numbers DEF Inv, TypeOK
  <2> QED BY <1>1, <1>3, <2>1 DEF Inv, BufferInv
<1>10. CopiedInv'
  <2>1. processed \cup unmarked \subseteq processed' \cup unmarked'
    BY <1>5
  <2>2. \A i : Settled(i) => Settled(i)'
    BY <1>1, <2>1 DEF Settled
  <2>3. \A s \in notification_table' : s.id = r.id => s.id \in processed' \cup unmarked'
    <3>1. \A s \in notification_table : s.id = r.id => s = r
      BY <1>3 DEF Inv, TodoInv
    <3> QED BY <1>1, <1>5, <3>1
  <2>4. \A i \in launched' : i < id' /\ Settled(i)'
    BY <1>1, <2>2 DEF Inv, CopiedInv
  <2>5. ASSUME NEW j \in DOMAIN violation_info
        PROVE  /\ violation_info[j].id < id
               /\ \A s \in notification_table' :
                    s.id = violation_info[j].id => s.id \in processed' \cup unmarked'
    <3>1. violation_info[j].id < id
      BY DEF Inv, CopiedInv
    <3>2. CASE Settled(violation_info[j].id)
      BY <1>1, <2>1, <3>1, <3>2 DEF Settled
    <3>3. CASE j = Len(violation_info)
      BY <1>2, <2>3, <3>1, <3>3
    <3> QED BY <3>1, <3>2, <3>3 DEF Inv, CopiedInv
  <2> QED BY <1>1, <2>4, <2>5 DEF CopiedInv, Settled
<1>11. ProcessedIsLaunched'
  <2>1. r.id \in Ids(violation_info)
    BY <1>2, <1>4 DEF Ids
  <2> QED BY <1>1, <1>5, <2>1 DEF Inv, ProcessedIsLaunched, Ids
<1>12. LaunchedOnce'
  BY <1>1, <1>5 DEF Inv, LaunchedOnce, Ids
<1> QED BY <1>6, <1>7, <1>8, <1>9, <1>10, <1>11, <1>12 DEF Inv

(* A message takes the first record of the buffer with it, if there is one. *)
LEMMA LaunchInv == Inv /\ Launch => Inv'
<1> SUFFICES ASSUME Inv, Launch PROVE Inv'
  OBVIOUS
<1> USE DEF tables
<1>1. /\ at = "fill" /\ todo = <<>> /\ rows' = rows - 1
      /\ at' = IF rows = 1 THEN "idle" ELSE "fill"
      /\ UNCHANGED <<now, violation, located, notification_table, processed, id, collecting,
                     todo, faults, unmarked, lost>>
  BY DEF Launch
<1>2. /\ rows \in Nat /\ rows >= 1 /\ rows <= MaxId
      /\ Len(violation_info) \in Nat /\ Len(violation_info) <= rows
  BY <1>1, LenProperties, EmptySeq, Numbers DEF Inv, TypeOK, BufferInv
<1>3. \/ violation_info' = violation_info /\ violation_info = <<>> /\ launched' = launched
      \/ /\ violation_info # <<>> /\ violation_info' = Tail(violation_info)
         /\ launched' = launched \cup {Head(violation_info).id}
  BY DEF Launch
<1>4. violation_info \in Seq(Row) /\ DOMAIN violation_info = 1 .. Len(violation_info)
  BY LenProperties DEF Inv, TypeOK
<1>5. violation_info # <<>> =>
        /\ Head(violation_info) = violation_info[1] /\ 1 \in DOMAIN violation_info
        /\ Head(violation_info) \in Row
        /\ Tail(violation_info) \in Seq(Row)
        /\ Len(Tail(violation_info)) = Len(violation_info) - 1
        /\ \A i \in DOMAIN Tail(violation_info) :
             /\ i + 1 \in DOMAIN violation_info /\ i \in Nat \ {0}
             /\ Tail(violation_info)[i] = violation_info[i + 1]
  BY <1>4, HeadTailProperties, LenProperties
<1>6. TypeOK'
  <2>1. violation_info' \in Seq(Row)
    BY <1>3, <1>4, <1>5
  <2>2. launched' \subseteq 1 .. MaxId
    BY <1>3, <1>5, Numbers DEF Inv, TypeOK
  <2>3. rows' \in 0 .. MaxId /\ at' \in {"idle", "fill", "mark"}
    BY <1>1, <1>2, Numbers
  <2> QED BY <1>1, <2>1, <2>2, <2>3 DEF Inv, TypeOK
<1>7. TableInv' /\ OneLocatedRecordPerWindow'
  BY <1>1 DEF Inv, TableInv, OneLocatedRecordPerWindow
<1>8. TodoInv'
  BY <1>1 DEF TodoInv
<1>9. BufferInv'
  <2>1. Len(violation_info') + Len(todo') <= rows'
    BY <1>1, <1>2, <1>3, <1>5, EmptySeq
  <2>2. at' # "mark" /\ (at' = "idle" => rows' = 0) /\ (at' # "idle" => rows' >= 1)
    BY <1>1, <1>2
  <2>3. rows' \in Nat /\ Len(violation_info') + Len(todo') <= rows' + 0
    BY <1>1, <1>2, <2>1
  <2> QED BY <2>2, <2>3 DEF BufferInv
<1>10. CopiedInv'
  <2>1. \A j \in DOMAIN violation_info : violation_info[j].id < id /\ Settled(violation_info[j].id)
    BY <1>1 DEF Inv, CopiedInv
  <2>2. \A i : Settled(i)' <=> Settled(i)
    BY <1>1 DEF Settled
  <2> QED BY <1>1, <1>3, <1>5, <2>1, <2>2 DEF Inv, CopiedInv
<1>11. ProcessedIsLaunched' /\ LaunchedOnce'
  <2>1. CASE violation_info = <<>>
    BY <1>1, <1>3, <2>1 DEF Inv, ProcessedIsLaunched, LaunchedOnce, Ids
  <2>2. CASE violation_info # <<>>
    <3> DEFINE i == Head(violation_info).id
    <3>1. /\ launched' = launched \cup {i} /\ violation_info' = Tail(violation_info)
          /\ violation_info[1].id = i
      BY <1>3, <1>5, <2>2
    <3> HIDE DEF i
    <3>2. \A j \in DOMAIN violation_info' :
            /\ j \in Nat \ {0} /\ j + 1 \in DOMAIN violation_info
            /\ violation_info'[j] = violation_info[j + 1]
      BY <1>5, <2>2, <3>1
    <3>3. Ids(violation_info) \subseteq Ids(violation_info') \cup {i}
      <4>1. ASSUME NEW j \in DOMAIN violation_info, j # 1
            PROVE  violation_info[j].id \in Ids(violation_info')
        <5>1. j - 1 \in DOMAIN violation_info'
          BY <1>4, <1>5, <2>2, <3>1, <4>1, LenProperties
        <5>2. j - 1 + 1 = j
          BY <1>2, <1>4
        <5> QED BY <3>2, <5>1, <5>2 DEF Ids
      <4> QED BY <3>1, <4>1 DEF Ids
    <3>4. Ids(violation_info') \subseteq Ids(violation_info)
      BY <3>2 DEF Ids
    <3>5. i \notin Ids(violation_info')
      BY <1>5, <2>2, <3>1, <3>2 DEF Inv, LaunchedOnce, Ids
    <3>6. ProcessedIsLaunched'
      BY <1>1, <3>1, <3>3 DEF Inv, ProcessedIsLaunched
    <3>7. LaunchedOnce'
      BY <1>1, <3>1, <3>2, <3>4, <3>5 DEF Inv, LaunchedOnce
    <3> QED BY <3>6, <3>7
  <2> QED BY <2>1, <2>2
<1> QED BY <1>6, <1>7, <1>8, <1>9, <1>10, <1>11 DEF Inv

(* Old rows are deleted, whatever the send thread is doing with them.      *)
LEMMA DeleteInv == Inv /\ SQL_delete_old_data => Inv'
<1> SUFFICES ASSUME Inv, SQL_delete_old_data PROVE Inv'
  OBVIOUS
<1> USE DEF sendVars, ghosts
<1>1. /\ notification_table' \subseteq notification_table
      /\ processed' = {r.id : r \in notification_table'} \cap processed
      /\ UNCHANGED <<now, violation, located, id, collecting, at, todo, violation_info, rows,
                     faults, launched, unmarked, lost>>
  BY DEF SQL_delete_old_data
<1>2. TypeOK'
  BY <1>1 DEF Inv, TypeOK
<1>3. TableInv'
  BY <1>1, FS_Subset DEF Inv, TableInv
<1>4. TodoInv'
  BY <1>1 DEF Inv, TodoInv
<1>5. BufferInv'
  BY <1>1 DEF Inv, BufferInv
<1>6. CopiedInv'
  <2>1. \A i : Settled(i) => Settled(i)'
    BY <1>1 DEF Settled
  <2> QED BY <1>1, <2>1 DEF Inv, CopiedInv
<1>7. Safe'
  BY <1>1 DEF Inv, Safe, OneLocatedRecordPerWindow, ProcessedIsLaunched, LaunchedOnce, Ids
<1> QED BY <1>2, <1>3, <1>4, <1>5, <1>6, <1>7 DEF Inv, Safe

(* A crash loses what the threads were at, not the tables.                 *)
LEMMA CrashInv == Inv /\ Crash => Inv'
<1> SUFFICES ASSUME Inv, Crash PROVE Inv'
  OBVIOUS
<1> USE DEF tables
<1>1. /\ at' = "idle" /\ todo' = <<>> /\ violation_info' = <<>> /\ rows' = 0
      /\ lost' = lost \cup Ids(violation_info)
      /\ unmarked' = unmarked \cup (Ids(violation_info) \ processed)
      /\ UNCHANGED <<now, violation, located, notification_table, processed, id, launched>>
  BY DEF Crash
<1>2. Ids(violation_info) \subseteq 1 .. MaxId
  BY ElementOfSeq, LenProperties, Numbers DEF Inv, TypeOK, Ids
<1>3. TypeOK'
  <2>1. 1 \in 1 .. Len(monitor_types) /\ 0 \in 0 .. MaxId /\ faults' \in 0 .. MaxFaults
        /\ collecting' = 1
    BY Numbers DEF Crash, Inv, TypeOK
  <2> QED BY <1>1, <1>2, <2>1 DEF Inv, TypeOK
<1>4. TableInv' /\ TodoInv' /\ BufferInv'
  BY <1>1 DEF Inv, TableInv, TodoInv, BufferInv
<1>5. CopiedInv'
  BY <1>1 DEF Inv, CopiedInv, Settled
<1>6. Safe'
  BY <1>1 DEF Inv, Safe, OneLocatedRecordPerWindow, ProcessedIsLaunched, LaunchedOnce, Ids
<1> QED BY <1>3, <1>4, <1>5, <1>6 DEF Inv, Safe

-----------------------------------------------------------------------------
(* Every step of the system keeps the invariant.                           *)
LEMMA NextInv == Inv /\ [Next]_vars => Inv'
<1> SUFFICES ASSUME Inv, [Next]_vars PROVE Inv'
  OBVIOUS
<1>1. CASE \/ \E o \in Objects : UploadLocation(o)
           \/ \E m \in Monitors, objs \in SUBSET Objects : SQL_identify(m, objs)
           \/ CollectFails \/ Tick
  BY <1>1, StampInv
<1>2. CASE \E objs \in SetToAllKPermutations(Objects) : CollectInsert(objs)
  BY <1>2, CollectInv
<1>3. CASE SendStep \/ MarkFails
  BY <1>3, SelectInv, FillInv, MarkInv, LaunchInv DEF SendStep
<1>4. CASE SQL_delete_old_data \/ Crash
  BY <1>4, DeleteInv, CrashInv
<1>5. CASE UNCHANGED vars
  <2>1. UNCHANGED <<now, violation, located, notification_table, processed, id, collecting,
                    at, todo, violation_info, rows, faults, launched, unmarked, lost>>
    BY <1>5 DEF vars, tables, sendVars, ghosts
  <2>2. TypeOK' /\ TableInv' /\ TodoInv' /\ BufferInv'
    BY <2>1 DEF Inv, TypeOK, TableInv, TodoInv, BufferInv
  <2>3. CopiedInv' /\ Safe'
    BY <2>1 DEF Inv, CopiedInv, Settled, Safe, OneLocatedRecordPerWindow, ProcessedIsLaunched,
       LaunchedOnce, Ids
  <2> QED BY <2>2, <2>3 DEF Inv, Safe
<1> QED BY <1>1, <1>2, <1>3, <1>4, <1>5 DEF Next, Collect

(* The invariant holds in every behaviour.                                 *)
LEMMA SpecInv == Spec => []Inv
<1> QED BY InitInv, NextInv, PTL DEF Spec

-----------------------------------------------------------------------------
(* The tables, the buffer and the positions of the threads keep their      *)
(* types; there are never more messages to launch than ids.                *)
THEOREM TypeCorrect == Spec => []TypeOK
<1>1. Inv => TypeOK
  BY DEF Inv
<1> QED BY <1>1, SpecInv, PTL

(* SQL_collect_violation_events keeps the records of one violation that    *)
(* have a uuid the window apart, across failed rounds and restarts; those  *)
(* without one it inserts again and again (OneRecordPerWindow).            *)
THEOREM WindowHolds == Spec => []OneLocatedRecordPerWindow
<1>1. Inv => OneLocatedRecordPerWindow
  BY DEF Inv
<1> QED BY <1>1, SpecInv, PTL

(* SQL_get_and_update_violation_events marks no row that it has not copied *)
(* to the buffer from which Server_send_notification launches messages.    *)
THEOREM ProcessedEvents == Spec => []ProcessedIsLaunched
<1>1. Inv => ProcessedIsLaunched
  BY DEF Inv
<1> QED BY <1>1, SpecInv, PTL

(* A record comes into a second message only if its update had failed, or  *)
(* the server had crashed before it.                                       *)
THEOREM MessagesOnce == Spec => []LaunchedOnce
<1>1. Inv => LaunchedOnce
  BY DEF Inv
<1> QED BY <1>1, SpecInv, PTL
=============================================================================
