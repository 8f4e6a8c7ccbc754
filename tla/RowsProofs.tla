------------------------------ MODULE RowsProofs ------------------------------
(***************************************************************************)
(* Theorems about Rows, for any beacons, strengths, sizes and thresholds.  *)
(***************************************************************************)
EXTENDS Rows, FiniteSetTheorems, WellFoundedInduction, TLAPS

\* How many cells back from the last one written a cell is.
Age(s, c) == IF c <= write_index[s] THEN write_index[s] - c ELSE write_index[s] - c + R

\* A reading is as many seconds older than the last one as its cell is back,
\* or fewer: a reading that comes late goes back in time and takes a cell.
RingInv ==
  \A s \in Slots, c \in Cells :
    uuid[s] # NoBeacon /\ rssi_array[s][c] # 0 /\ written[s][c] # Before =>
      final_timestamp[s] - written[s][c] <= Age(s, c)

\* The slot of a beacon is no younger than what was heard of it; the pass that
\* stored the row began at most R seconds after that.
HeardInv ==
  /\ \A b \in Beacons : heard[b] <= now
  /\ \A s \in Slots :
       uuid[s] # NoBeacon => last_reported_timestamp[s] <= heard[uuid[s]]
  /\ summary.uuid # NoBeacon => began - heard[summary.uuid] <= R

Inv == TypeOK /\ OneSlotPerBeacon /\ RingInv /\ HeardInv

-----------------------------------------------------------------------------
(* Numbers. A set of naturals has a least element, a finite set of integers*)
(* a greatest.                                                             *)
LEMMA Least == ASSUME NEW T \in SUBSET Nat, T # {} PROVE \E m \in T : \A n \in T : m <= n
<1> DEFINE Less == OpToRel(<, Nat)
<1>1. IsWellFoundedOn(Less, Nat)
  BY NatLessThanWellFounded
<1>2. PICK m \in T : \A n \in T : <<n, m>> \notin Less
  <2> HIDE DEF Less
  <2> QED BY <1>1, WFMin
<1>3. \A n \in T : ~(n < m)
  BY <1>2 DEF OpToRel
<1> QED BY <1>3

(* So Min is an element of its set.                                        *)
LEMMA MinIs ==
  ASSUME NEW T \in SUBSET Nat, T # {}
  PROVE  Min(T) \in T
<1>1. \E m \in T : \A n \in T : m <= n
  BY Least
<1> QED BY <1>1 DEF Min

(* (Of the sets without one, take the smallest, and leave out an element.) *)
LEMMA Greatest ==
  ASSUME NEW S \in SUBSET Int, IsFiniteSet(S), S # {}
  PROVE  \E m \in S : \A n \in S : n <= m
<1> DEFINE Bad == { U \in SUBSET S : U # {} /\ \A m \in U : \E n \in U : ~(n <= m) }
           Sizes == { Cardinality(U) : U \in Bad }
<1> SUFFICES ASSUME Bad # {} PROVE FALSE
  OBVIOUS
<1>1. \A U \in SUBSET S : IsFiniteSet(U) /\ Cardinality(U) \in Nat
  BY FS_Subset, FS_CardinalityType
<1>2. PICK U \in Bad : \A V \in Bad : Cardinality(U) <= Cardinality(V)
  <2>1. Sizes \in SUBSET Nat /\ Sizes # {}
    BY <1>1
  <2>2. PICK k \in Sizes : \A l \in Sizes : k <= l
    <3> HIDE DEF Sizes
    <3> QED BY <2>1, Least
  <2> QED BY <2>2
<1>3. PICK x \in U : TRUE
  OBVIOUS
<1>4. U \ {x} \in SUBSET S /\ Cardinality(U \ {x}) < Cardinality(U)
  <2>1. Cardinality(U \ {x}) = Cardinality(U) - 1
    BY <1>1, <1>3, FS_RemoveElement
  <2> QED BY <1>1, <2>1
<1>5. U \ {x} \notin Bad
  <2>1. Cardinality(U) \in Nat /\ Cardinality(U \ {x}) \in Nat
    BY <1>1, <1>4
  <2> HIDE DEF Bad
  <2> QED BY <1>2, <1>4, <2>1
<1>6. CASE U \ {x} = {}
  BY <1>3, <1>6
<1>7. CASE U \ {x} # {}
  <2>1. PICK m \in U \ {x} : \A n \in U \ {x} : n <= m
    BY <1>4, <1>5, <1>7
  <2>2. PICK y \in U : ~(y <= m)
    OBVIOUS
  <2>3. y = x
    BY <2>1, <2>2
  <2>4. PICK z \in U : ~(z <= x)
    BY <1>3
  <2> QED BY <2>1, <2>2, <2>3, <2>4
<1> QED BY <1>6, <1>7

(* What is measured over a finite set has a greatest value.                *)
LEMMA GreatestValue ==
  ASSUME NEW S, IsFiniteSet(S), S # {}, NEW f \in [S -> Int]
  PROVE  \E m \in S : \A n \in S : f[n] <= f[m]
<1>1. f \in Surjection(S, Range(f))
  BY DEF Surjection, Range
<1>2. IsFiniteSet(Range(f))
  BY <1>1, FS_Surjection
<1>3. Range(f) \in SUBSET Int /\ Range(f) # {}
  BY DEF Range
<1>4. PICK v \in Range(f) : \A n \in Range(f) : n <= v
  BY <1>2, <1>3, Greatest
<1> QED BY <1>4 DEF Range

(* The remainders the ring is indexed with.                                *)
LEMMA Remainder ==
  ASSUME NEW n \in Nat \ {0}, NEW x \in Int
  PROVE  x % n \in 0 .. n - 1 /\ (x \in 0 .. 2 * n - 1 => x % n = IF x < n THEN x ELSE x - n)
OBVIOUS

-----------------------------------------------------------------------------
(* The sum of integers over a finite set is an integer: the fold is defined*)
(* by an equation over the subsets that some function fulfils.             *)
Step(f, g, U) ==
  IF U = {} THEN 0 ELSE LET x == CHOOSE x \in U : TRUE IN f[x] + g[U \ {x}]

(* The fold itself.                                                        *)
LEMMA SumIsInt ==
  ASSUME NEW S, IsFiniteSet(S), NEW f, \A x \in S : f[x] \in Int
  PROVE  FoldFunctionOnSet(+, 0, f, S) \in Int
<1> DEFINE Solves(g, n) == \A U \in SUBSET S : Cardinality(U) <= n => g[U] = Step(f, g, U)
           Unsolved == { n \in Nat : \A g \in [SUBSET S -> Int] : ~Solves(g, n) }
<1>1. \A U \in SUBSET S :
        /\ IsFiniteSet(U) /\ Cardinality(U) \in Nat
        /\ U # {} => LET x == CHOOSE x \in U : TRUE IN
                     /\ x \in U /\ U \ {x} \in SUBSET S
                     /\ Cardinality(U \ {x}) = Cardinality(U) - 1
  BY FS_Subset, FS_CardinalityType, FS_RemoveElement
<1>2. ASSUME NEW g \in [SUBSET S -> Int], NEW U \in SUBSET S PROVE Step(f, g, U) \in Int
  BY <1>1 DEF Step
<1>3. Unsolved = {}
  <2> SUFFICES ASSUME Unsolved # {} PROVE FALSE
    OBVIOUS
  <2>1. PICK n \in Unsolved : \A m \in Unsolved : n <= m
    <3>1. Unsolved \in SUBSET Nat
      OBVIOUS
    <3> HIDE DEF Unsolved
    <3> QED BY <3>1, Least
  <2>2. CASE n = 0
    <3> DEFINE g == [U \in SUBSET S |-> 0]
    <3>1. Solves(g, 0)
      BY <1>1, FS_EmptySet DEF Step
    <3>2. g \in [SUBSET S -> Int]
      OBVIOUS
    <3> HIDE DEF g, Solves
    <3> QED BY <2>2, <3>1, <3>2
  <2>3. CASE n # 0
    <3>1. n - 1 \in Nat /\ n - 1 \notin Unsolved
      <4>1. n \in Nat
        OBVIOUS
      <4> HIDE DEF Unsolved
      <4> QED BY <2>1, <2>3, <4>1
    <3>2. PICK g \in [SUBSET S -> Int] : Solves(g, n - 1)
      BY <3>1
    <3> DEFINE h == [U \in SUBSET S |-> Step(f, g, U)]
    <3>3. h \in [SUBSET S -> Int]
      BY <1>2
    <3>4. ASSUME NEW U \in SUBSET S, Cardinality(U) <= n PROVE h[U] = Step(f, h, U)
      <4>1. CASE U = {}
        BY <4>1 DEF Step
      <4>2. CASE U # {}
        <5> DEFINE x == CHOOSE x \in U : TRUE
        <5>1. U \ {x} \in SUBSET S /\ Cardinality(U \ {x}) <= n - 1
          BY <1>1, <3>4, <4>2
        <5>2. g[U \ {x}] = h[U \ {x}]
          BY <3>2, <5>1
        <5> QED BY <4>2, <5>2 DEF Step
      <4> QED BY <4>1, <4>2
    <3>5. Solves(h, n)
      BY <3>4
    <3> HIDE DEF h, Solves
    <3> QED BY <3>3, <3>5
  <2> QED BY <2>2, <2>3
<1> DEFINE n == Cardinality(S)
           iter == CHOOSE g : g = [U \in SUBSET S |-> Step(f, g, U)]
<1>4. iter = [U \in SUBSET S |-> Step(f, iter, U)]
  <2>1. n \in Nat
    BY <1>1
  <2>2. PICK g \in [SUBSET S -> Int] : Solves(g, n)
    BY <1>3, <2>1
  <2>3. \A U \in SUBSET S : Cardinality(U) <= n
    BY FS_Subset
  <2>4. g = [U \in SUBSET S |-> Step(f, g, U)]
    BY <2>2, <2>3
  <2> QED BY <2>4
<1> DEFINE Other == { U \in SUBSET S : iter[U] \notin Int }
           Sizes == { Cardinality(U) : U \in Other }
<1> HIDE DEF iter
<1>5. Other = {}
  <2> SUFFICES ASSUME Other # {} PROVE FALSE
    OBVIOUS
  <2>1. PICK U \in Other : \A V \in Other : Cardinality(U) <= Cardinality(V)
    <3>1. Sizes \in SUBSET Nat /\ Sizes # {}
      <4>1. \A U \in Other : U \in SUBSET S
        OBVIOUS
      <4> HIDE DEF Other
      <4> QED BY <1>1, <4>1
    <3>2. PICK k \in Sizes : \A l \in Sizes : k <= l
      <4> HIDE DEF Sizes
      <4> QED BY <3>1, Least
    <3> QED BY <3>2
  <2> DEFINE x == CHOOSE x \in U : TRUE
  <2>2. iter[U] = Step(f, iter, U)
    BY <1>4
  <2>3. U # {}
    BY <2>2 DEF Step
  <2>4. U \ {x} \notin Other
    BY <1>1, <2>1, <2>3
  <2>5. iter[U \ {x}] \in Int /\ f[x] \in Int
    BY <1>1, <2>3, <2>4
  <2> QED BY <2>2, <2>3, <2>5 DEF Step
<1>6. FoldFunctionOnSet(+, 0, f, S) = iter[S]
  BY DEF FoldFunctionOnSet, MapThenFoldSet, Step, iter
<1> QED BY <1>5, <1>6

-----------------------------------------------------------------------------
(* What the constants are.                                                 *)
LEMMA Numbers ==
  /\ R \in Nat \ {0} /\ Slots \in SUBSET Nat /\ 0 \in Cells /\ Cells \subseteq Int
  /\ IsFiniteSet(Slots) /\ IsFiniteSet(Cells)
  /\ MaxTime \in Nat /\ accuracy_tolerance \in Nat
  /\ Latest \in Nat /\ \A b \in Beacons : MaxDelay[b] \in Nat /\ MaxDelay[b] <= Latest
<1>1. \A k \in {unreasonable_rssi_change, accuracy_tolerance, MaxTime} : k \in Nat
  BY RowsAssumption
<1>2. R \in Nat \ {0} /\ Slots \in SUBSET Nat /\ 0 \in Cells /\ Cells \subseteq Int
  BY RowsAssumption DEF R, Slots, Cells
<1>3. IsFiniteSet(Slots) /\ IsFiniteSet(Cells)
  <2>1. number_of_lbeacons_under_tracked \in Int /\ R - 1 \in Int /\ 0 \in Int /\ 1 \in Int
    BY <1>2, RowsAssumption
  <2> QED BY <2>1, FS_Interval DEF Slots, Cells
<1>4. Latest \in Nat /\ \A b \in Beacons : MaxDelay[b] \in Nat /\ MaxDelay[b] <= Latest
  <2>1. /\ MaxDelay \in [Beacons -> Nat] /\ MaxDelay \in [Beacons -> Int]
        /\ IsFiniteSet(Beacons) /\ Beacons # {}
    BY RowsAssumption
  <2>2. PICK b \in Beacons : \A c \in Beacons : MaxDelay[c] <= MaxDelay[b]
    BY <2>1, GreatestValue
  <2>3. \E m \in Range(MaxDelay) : \A n \in Range(MaxDelay) : m >= n
    BY <2>1, <2>2 DEF Range
  <2>4. Latest \in Range(MaxDelay) /\ \A n \in Range(MaxDelay) : Latest >= n
    BY <2>3 DEF Latest, Max
  <2> QED BY <2>1, <2>4 DEF Range
<1> QED BY <1>1, <1>2, <1>3, <1>4

(* The times of readings are integers, and Before is none of them.         *)
LEMMA TimesAre == 0 \in Times /\ Times \subseteq Int /\ Before \in Int /\ Before \notin Times
BY Numbers DEF Times, Before

(* A reading has a strength and a time of the sets they are taken from.    *)
LEMMA ReadingIs ==
  ASSUME now \in 0 .. MaxTime, NEW b \in Beacons, NEW delay \in 0 .. MaxDelay[b],
         NEW rssi \in Strengths[b]
  PROVE  /\ now - delay \in Times /\ now - delay <= now /\ now \in Times
         /\ rssi \in AllStrengths /\ AllStrengths \subseteq Int
<1>1. rssi \in AllStrengths /\ AllStrengths \subseteq Int
  BY RowsAssumption DEF AllStrengths, Range
<1> QED BY <1>1, Numbers DEF Times

(* The same of the size of the ring.                                       *)
LEMMA RingRemainder ==
  ASSUME NEW x \in Int
  PROVE  x % R \in 0 .. R - 1 /\ (x \in 0 .. 2 * R - 1 => x % R = IF x < R THEN x ELSE x - R)
<1>1. R \in Nat \ {0}
  BY Numbers
<1> QED BY <1>1, Remainder

(* A cell that n + 1 steps from w do not write is that much further back   *)
(* from where they end: they do not go round the ring past it.             *)
LEMMA GoesBack ==
  ASSUME NEW w \in Cells, NEW c \in Cells, NEW n \in Nat,
         c \notin { (w + k) % R : k \in 1 .. n }, c # (w + n + 1) % R
  PROVE  LET age == IF c <= w THEN w - c ELSE w - c + R
             v == (w + n + 1) % R
         IN  age \in Int /\ (IF c <= v THEN v - c ELSE v - c + R) = age + n + 1
<1> DEFINE k == IF c <= w THEN R - (w - c) ELSE c - w
<1>1. /\ R \in Nat \ {0} /\ w \in 0 .. R - 1 /\ c \in 0 .. R - 1
      /\ w \in Int /\ c \in Int /\ R \in Int
  BY Numbers DEF Cells
<1>2. k \in 1 .. R /\ w + k \in 0 .. 2 * R - 1 /\ (w + k = c \/ w + k = c + R)
  BY <1>1
<1> HIDE DEF k
<1>3. (w + k) % R = c
  <2>1. PICK x \in Int : x = w + k
    BY <1>1, <1>2
  <2>2. x \in 0 .. 2 * R - 1
    BY <1>2, <2>1
  <2>3. x % R = IF x < R THEN x ELSE x - R
    BY <2>2, RingRemainder
  <2> QED BY <1>1, <1>2, <2>1, <2>3
<1>4. k > n + 1
  <2>1. k \notin 1 .. n
    BY <1>3
  <2>2. k # n + 1
    BY <1>1, <1>3
  <2> QED BY <1>2, <2>1, <2>2
<1>5. (w + n + 1) % R = IF w + n + 1 < R THEN w + n + 1 ELSE w + n + 1 - R
  <2>1. PICK x \in Int : x = w + n + 1
    BY <1>1
  <2>2. x \in 0 .. 2 * R - 1
    BY <1>1, <1>2, <1>4, <2>1
  <2>3. x % R = IF x < R THEN x ELSE x - R
    BY <2>2, RingRemainder
  <2> QED BY <1>1, <2>1, <2>3
<1> QED BY <1>1, <1>2, <1>4, <1>5 DEF k

-----------------------------------------------------------------------------
(* At the start no slot is in use.                                         *)
LEMMA InitInv == Init => Inv
<1> SUFFICES ASSUME Init PROVE Inv
  OBVIOUS
<1> USE DEF Init
<1>1. TypeOK
  BY Numbers, TimesAre DEF TypeOK
<1>2. OneSlotPerBeacon /\ RingInv
  BY DEF OneSlotPerBeacon, RingInv
<1>3. HeardInv
  BY DEF HeardInv
<1> QED BY <1>1, <1>2, <1>3 DEF Inv

(* A reading of a beacon that has a slot. What is left of the ring has gone*)
(* back by the cells that are filled, without going round.                 *)
LEMMA PutKnownInv ==
  ASSUME Inv, NEW b \in Beacons, NEW delay \in 0 .. MaxDelay[b], NEW rssi \in Strengths[b],
         PutKnown(b, now - delay, rssi)
  PROVE  Inv'
<1>1. PICK s \in Slots : s = Min(SlotsOf(b)) /\ uuid[s] = b
  <2>1. SlotsOf(b) \in SUBSET Nat /\ SlotsOf(b) # {}
    BY Numbers DEF SlotsOf, PutKnown
  <2>2. Min(SlotsOf(b)) \in SlotsOf(b)
    BY <2>1, MinIs
  <2> QED BY <2>2 DEF SlotsOf
<1>2. PICK time \in Times : /\ time = now - delay /\ time <= now
                            /\ now \in Times /\ now \in Int /\ time \in Int
                            /\ rssi \in AllStrengths
  BY ReadingIs, TimesAre DEF Inv, TypeOK
<1>3. PICK skipped \in Nat : /\ skipped = Skipped(time - final_timestamp[s])
                             /\ time - final_timestamp[s] <= skipped + 1
                             /\ final_timestamp[s] \in Int
  <2>1. final_timestamp[s] \in Int
    BY TimesAre DEF Inv, TypeOK
  <2> QED BY <1>2, <2>1 DEF Skipped
<1>4. PICK cell \in Cells : cell = (write_index[s] + skipped + 1) % R
  <2>1. write_index[s] \in Cells /\ write_index[s] \in Int
    BY Numbers DEF Inv, TypeOK
  <2>2. PICK x \in Int : x = write_index[s] + skipped + 1
    BY <2>1
  <2> QED BY <2>2, RingRemainder DEF Cells
<1>5. /\ rssi_array' = [rssi_array EXCEPT ![s] = [c \in Cells |->
           IF c = cell THEN rssi ELSE IF c \in After(s, skipped) THEN 0 ELSE rssi_array[s][c]]]
      /\ written' = [written EXCEPT ![s][cell] = time]
      /\ write_index' = [write_index EXCEPT ![s] = cell]
      /\ final_timestamp' = [final_timestamp EXCEPT ![s] = time]
      /\ last_reported_timestamp' = [last_reported_timestamp EXCEPT ![s] = now]
      /\ heard' = [heard EXCEPT ![b] = now]
      /\ UNCHANGED <<now, uuid, summary, current_time, began>>
  BY <1>1, <1>2, <1>3, <1>4 DEF PutKnown, Inv, TypeOK
<1>6. TypeOK'
  <2>1. rssi_array' \in [Slots -> [Cells -> AllStrengths \cup {0}]]
    BY <1>2, <1>5 DEF Inv, TypeOK
  <2>2. written' \in [Slots -> [Cells -> Times \cup {Before}]]
    BY <1>1, <1>2, <1>5 DEF Inv, TypeOK
  <2> QED BY <1>1, <1>2, <1>5, <1>4, <2>1, <2>2 DEF Inv, TypeOK
<1>7. OneSlotPerBeacon'
  BY <1>5 DEF Inv, OneSlotPerBeacon
<1>8. HeardInv'
  <2>1. /\ heard \in [Beacons -> Int] /\ uuid \in [Slots -> Beacons \cup {NoBeacon}]
        /\ last_reported_timestamp \in [Slots -> Int]
        /\ summary.uuid \in Beacons \cup {NoBeacon} /\ began \in Int
    <3>1. began \in 0 .. MaxTime
      BY DEF Inv, TypeOK
    <3>2. began \in Int
      BY <3>1, Numbers
    <3> QED BY <3>2, TimesAre DEF Inv, TypeOK
  <2>2. \A c \in Beacons : heard[c] <= heard'[c] /\ heard'[c] \in Int /\ heard'[c] <= now'
    BY <1>2, <1>5, <2>1 DEF Inv, HeardInv
  <2>3. ASSUME NEW q \in Slots, uuid'[q] # NoBeacon
        PROVE  last_reported_timestamp'[q] <= heard'[uuid'[q]]
    <3>1. CASE q = s
      BY <1>1, <1>2, <1>5, <2>1, <3>1
    <3>2. CASE q # s
      <4>1. last_reported_timestamp[q] <= heard[uuid[q]] /\ uuid[q] \in Beacons
        BY <1>5, <2>1, <2>3 DEF Inv, HeardInv
      <4> QED BY <1>5, <2>1, <2>2, <3>2, <4>1
    <3> QED BY <3>1, <3>2
  <2>4. summary'.uuid # NoBeacon => began' - heard'[summary'.uuid] <= R
    BY <1>5, <2>1, <2>2, Numbers DEF Inv, HeardInv
  <2> QED BY <2>2, <2>3, <2>4 DEF HeardInv
<1>9. RingInv'
  <2> SUFFICES ASSUME NEW q \in Slots, NEW c \in Cells,
                      uuid'[q] # NoBeacon, rssi_array'[q][c] # 0, written'[q][c] # Before
               PROVE  final_timestamp'[q] - written'[q][c] <= Age(q, c)'
    BY DEF RingInv
  <2>0. /\ rssi_array \in [Slots -> [Cells -> AllStrengths \cup {0}]]
        /\ write_index \in [Slots -> Cells] /\ final_timestamp \in [Slots -> Times]
        /\ written \in [Slots -> [Cells -> Times \cup {Before}]]
    BY DEF Inv, TypeOK
  <2>1. CASE q # s
    <3>1. /\ rssi_array'[q] = rssi_array[q] /\ written'[q] = written[q]
          /\ final_timestamp'[q] = final_timestamp[q] /\ write_index'[q] = write_index[q]
      BY <1>5, <2>0, <2>1
    <3> QED BY <1>5, <3>1 DEF Inv, RingInv, Age
  <2>2. CASE q = s
    <3>1. /\ write_index'[s] = cell /\ final_timestamp'[s] = time
          /\ written'[s][c] = IF c = cell THEN time ELSE written[s][c]
          /\ rssi_array'[s][c] = IF c = cell THEN rssi
                                 ELSE IF c \in After(s, skipped) THEN 0 ELSE rssi_array[s][c]
      BY <1>1, <1>5, <2>0
    <3>2. CASE c = cell
      BY <1>2, <1>4, <2>2, <3>1, <3>2, Numbers DEF Age
    <3>3. CASE c # cell
      <4>1. c \notin After(s, skipped) /\ rssi_array[s][c] # 0 /\ written[s][c] # Before
        BY <2>2, <3>1, <3>3
      <4>2. final_timestamp[s] - written[s][c] <= Age(s, c)
        BY <1>1, <1>5, <2>2, <4>1 DEF Inv, RingInv
      <4>3. Age(s, c)' = Age(s, c) + skipped + 1 /\ Age(s, c) \in Int
        <5>1. c \notin { (write_index[s] + k) % R : k \in 1 .. skipped }
          BY <4>1 DEF After
        <5>3. LET age == IF c <= write_index[s] THEN write_index[s] - c ELSE write_index[s] - c + R
              IN  age \in Int /\ (IF c <= cell THEN cell - c ELSE cell - c + R) = age + skipped + 1
          BY <1>4, <2>0, <3>3, <5>1, GoesBack
        <5> QED BY <3>1, <5>3 DEF Age
      <4>4. written[s][c] \in Int
        BY <1>1, <2>0, TimesAre
      <4>5. final_timestamp'[q] = time /\ written'[q][c] = written[s][c] /\ Age(q, c)' = Age(s, c)'
        BY <2>2, <3>1, <3>3 DEF Age
      <4> QED BY <1>1, <1>2, <1>3, <4>2, <4>3, <4>4, <4>5
    <3> QED BY <3>2, <3>3
  <2> QED BY <2>1, <2>2
<1> QED BY <1>6, <1>7, <1>8, <1>9 DEF Inv

(* The first reading of a beacon: the rest of the ring is not its own.     *)
LEMMA PutNewInv ==
  ASSUME Inv, NEW b \in Beacons, NEW delay \in 0 .. MaxDelay[b], NEW rssi \in Strengths[b],
         PutNew(b, now - delay, rssi)
  PROVE  Inv'
<1>1. PICK s \in Slots : s = Min(Free) /\ uuid[s] = NoBeacon
  <2>1. Free \in SUBSET Nat /\ Free # {}
    BY Numbers DEF Free, PutNew
  <2>2. Min(Free) \in Free
    BY <2>1, MinIs
  <2> QED BY <2>2 DEF Free
<1>2. PICK time \in Times : /\ time = now - delay /\ time <= now
                            /\ now \in Times /\ now \in Int /\ time \in Int
                            /\ rssi \in AllStrengths
  BY ReadingIs, TimesAre DEF Inv, TypeOK
<1>3. /\ rssi_array' = [rssi_array EXCEPT ![s][0] = rssi]
      /\ written' = [written EXCEPT ![s] = [c \in Cells |-> IF c = 0 THEN time ELSE Before]]
      /\ write_index' = [write_index EXCEPT ![s] = 0]
      /\ final_timestamp' = [final_timestamp EXCEPT ![s] = time]
      /\ last_reported_timestamp' = [last_reported_timestamp EXCEPT ![s] = now]
      /\ heard' = [heard EXCEPT ![b] = now]
      /\ uuid' = [uuid EXCEPT ![s] = b]
      /\ UNCHANGED <<now, summary, current_time, began>>
  BY <1>1, <1>2 DEF PutNew
<1>4. \A q \in Slots : uuid[q] # b
  BY DEF PutNew, SlotsOf
<1>5. TypeOK'
  <2>1. rssi_array' \in [Slots -> [Cells -> AllStrengths \cup {0}]]
    BY <1>2, <1>3 DEF Inv, TypeOK
  <2>2. written' \in [Slots -> [Cells -> Times \cup {Before}]]
    BY <1>2, <1>3 DEF Inv, TypeOK
  <2> QED BY <1>2, <1>3, <2>1, <2>2, Numbers DEF Inv, TypeOK
<1>6. /\ heard \in [Beacons -> Int] /\ uuid \in [Slots -> Beacons \cup {NoBeacon}]
      /\ last_reported_timestamp \in [Slots -> Int]
      /\ summary.uuid \in Beacons \cup {NoBeacon} /\ began \in Int
  <2>1. began \in 0 .. MaxTime
    BY DEF Inv, TypeOK
  <2>2. began \in Int
    BY <2>1, Numbers
  <2> QED BY <2>2, TimesAre DEF Inv, TypeOK
<1>7. OneSlotPerBeacon'
  BY <1>3, <1>4, <1>6 DEF Inv, OneSlotPerBeacon
<1>8. HeardInv'
  <2>1. \A c \in Beacons : heard[c] <= heard'[c] /\ heard'[c] \in Int /\ heard'[c] <= now'
    BY <1>2, <1>3, <1>6 DEF Inv, HeardInv
  <2>2. ASSUME NEW q \in Slots, uuid'[q] # NoBeacon
        PROVE  last_reported_timestamp'[q] <= heard'[uuid'[q]]
    <3>1. CASE q = s
      BY <1>2, <1>3, <1>6, <3>1
    <3>2. CASE q # s
      <4>1. uuid'[q] = uuid[q] /\ last_reported_timestamp'[q] = last_reported_timestamp[q]
        BY <1>3, <1>6, <3>2
      <4>2. last_reported_timestamp[q] <= heard[uuid[q]] /\ uuid[q] \in Beacons
        BY <1>6, <2>2, <4>1 DEF Inv, HeardInv
      <4> QED BY <1>6, <2>1, <4>1, <4>2
    <3> QED BY <3>1, <3>2
  <2>3. summary'.uuid # NoBeacon => began' - heard'[summary'.uuid] <= R
    BY <1>3, <1>6, <2>1, Numbers DEF Inv, HeardInv
  <2> QED BY <2>1, <2>2, <2>3 DEF HeardInv
<1>9. RingInv'
  <2> SUFFICES ASSUME NEW q \in Slots, NEW c \in Cells,
                      uuid'[q] # NoBeacon, rssi_array'[q][c] # 0, written'[q][c] # Before
               PROVE  final_timestamp'[q] - written'[q][c] <= Age(q, c)'
    BY DEF RingInv
  <2>0. /\ rssi_array \in [Slots -> [Cells -> AllStrengths \cup {0}]]
        /\ write_index \in [Slots -> Cells] /\ final_timestamp \in [Slots -> Times]
        /\ written \in [Slots -> [Cells -> Times \cup {Before}]]
    BY DEF Inv, TypeOK
  <2>1. CASE q # s
    <3>1. /\ rssi_array'[q] = rssi_array[q] /\ written'[q] = written[q] /\ uuid'[q] = uuid[q]
          /\ final_timestamp'[q] = final_timestamp[q] /\ write_index'[q] = write_index[q]
      BY <1>3, <1>6, <2>0, <2>1
    <3> QED BY <3>1 DEF Inv, RingInv, Age
  <2>2. CASE q = s
    <3>1. /\ written'[q] = [d \in Cells |-> IF d = 0 THEN time ELSE Before]
          /\ final_timestamp'[q] = time /\ write_index'[q] = 0
      BY <1>3, <2>0, <2>2
    <3>2. c = 0 /\ written'[q][c] = time
      BY <3>1
    <3> QED BY <1>2, <3>1, <3>2 DEF Age
  <2> QED BY <2>1, <2>2
<1> QED BY <1>5, <1>7, <1>8, <1>9 DEF Inv

-----------------------------------------------------------------------------
(* The summary. Averages are integers, and the one chosen is of a live     *)
(* slot, weaker than none by more than the tolerance.                      *)
LEMMA AveragesAre ==
  ASSUME TypeOK, NEW time \in Int
  PROVE  /\ Averages(time) \in [Slots -> Int]
         /\ \A s \in Candidates(Averages(time)) :
              uuid[s] # NoBeacon /\ last_reported_timestamp[s] >= time - R
<1>1. ASSUME NEW s \in Slots PROVE average(rssi_array[s]) \in Int
  <2> DEFINE ring == rssi_array[s]
             valid == Valid(ring)
  <2>1. valid \in SUBSET Cells /\ IsFiniteSet(valid) /\ \A c \in valid : ring[c] \in Int
    <3>1. AllStrengths \subseteq Int
      BY RowsAssumption DEF AllStrengths, Range
    <3>2. valid \in SUBSET Cells
      BY DEF Valid
    <3>3. IsFiniteSet(valid)
      <4> HIDE DEF valid
      <4> QED BY <3>2, Numbers, FS_Subset
    <3>4. ring \in [Cells -> AllStrengths \cup {0}]
      BY DEF TypeOK
    <3>5. \A c \in Cells : ring[c] \in Int
      <4>1. \A v \in AllStrengths \cup {0} : v \in Int
        BY <3>1
      <4> HIDE DEF ring
      <4> QED BY <3>4, <4>1
    <3> QED BY <3>2, <3>3, <3>5
  <2>2. FoldFunctionOnSet(+, 0, ring, valid) \in Int
    <3> HIDE DEF ring, valid
    <3> QED BY <2>1, SumIsInt
  <2>3. valid # {} => Cardinality(valid) \in Nat \ {0}
    BY <2>1, FS_CardinalityType, FS_EmptySet
  <2> DEFINE sum == FoldFunctionOnSet(+, 0, ring, valid)
  <2>4. average(ring) = IF valid = {} THEN 0 ELSE -((-sum) \div Cardinality(valid))
    BY DEF average
  <2> HIDE DEF ring, valid, sum
  <2>5. valid # {} => -((-sum) \div Cardinality(valid)) \in Int
    <3> SUFFICES ASSUME valid # {} PROVE -((-sum) \div Cardinality(valid)) \in Int
      OBVIOUS
    <3>1. PICK n \in Nat \ {0} : n = Cardinality(valid)
      BY <2>3
    <3>2. PICK k \in Int : k = sum
      BY <2>2 DEF sum
    <3>3. -((-k) \div n) \in Int
      OBVIOUS
    <3> QED BY <3>1, <3>2, <3>3
  <2> QED BY <2>4, <2>5 DEF ring
<1>2. Averages(time) \in [Slots -> Int]
  BY <1>1 DEF Averages
<1>3. \A s \in Candidates(Averages(time)) : Live(s, time)
  BY DEF Candidates, Averages
<1> QED BY <1>2, <1>3 DEF Live

(* The slot that is chosen has a beacon near the strongest.                *)
LEMMA ChosenIsNear ==
  ASSUME TypeOK, NEW time \in Int, Candidates(Averages(time)) # {}
  PROVE  LET avg == Averages(time) IN
         /\ Chosen(avg) \in Candidates(avg)
         /\ \A t \in Candidates(avg) : avg[t] - avg[Chosen(avg)] <= accuracy_tolerance
<1>0. PICK avg \in [Slots -> Int] : avg = Averages(time)
  BY AveragesAre
<1> DEFINE kept == {s \in Summary(avg) : \A t \in Candidates(avg) \ {s} : Keeps(avg, s, t)}
           others == Candidates(avg) \ Summary(avg)
           best == {s \in others : \A t \in others : avg[t] <= avg[s]}
<1>1. /\ Candidates(avg) \subseteq Slots /\ Summary(avg) \subseteq Candidates(avg)
      /\ Slots \in SUBSET Nat /\ accuracy_tolerance \in Nat
  BY Numbers DEF Candidates, Summary
<1>2. CASE kept # {}
  <2>1. Chosen(avg) \in kept
    <3>1. Chosen(avg) = Min(kept)
      BY <1>2 DEF Chosen
    <3>2. kept \in SUBSET Nat
      BY <1>1
    <3> HIDE DEF kept
    <3> QED BY <1>2, <3>1, <3>2, MinIs
  <2>2. ASSUME NEW t \in Candidates(avg) PROVE avg[t] - avg[Chosen(avg)] <= accuracy_tolerance
    <3>1. Chosen(avg) \in Candidates(avg) /\ avg[Chosen(avg)] \in Int
      BY <1>1, <2>1
    <3>2. CASE t = Chosen(avg)
      BY <1>1, <3>1, <3>2
    <3>3. CASE t # Chosen(avg)
      BY <2>1, <3>3 DEF Keeps
    <3> QED BY <3>2, <3>3
  <2> QED BY <1>0, <1>1, <2>1, <2>2
<1>3. CASE kept = {}
  <2>1. PICK g \in Candidates(avg) : \A t \in Candidates(avg) : avg[t] <= avg[g]
    <3>1. IsFiniteSet(Candidates(avg)) /\ Candidates(avg) # {}
      BY <1>0, <1>1, Numbers, FS_Subset
    <3> DEFINE f == [s \in Candidates(avg) |-> avg[s]]
    <3>2. f \in [Candidates(avg) -> Int]
      BY <1>1
    <3>3. \E g \in Candidates(avg) : \A t \in Candidates(avg) : f[t] <= f[g]
      <4> HIDE DEF f
      <4> QED BY <3>1, <3>2, GreatestValue
    <3> QED BY <3>3
  <2>2. g \notin Summary(avg)
    <3>1. g \in Summary(avg) => \E t \in Candidates(avg) \ {g} :
                                     ~(avg[t] - avg[g] <= accuracy_tolerance)
      BY <1>3 DEF Keeps
    <3>2. ASSUME NEW t \in Candidates(avg) PROVE avg[t] - avg[g] <= accuracy_tolerance
      <4>1. avg[t] \in Int /\ avg[g] \in Int /\ avg[t] <= avg[g]
        BY <1>1, <2>1
      <4> QED BY <1>1, <4>1
    <3> QED BY <3>1, <3>2
  <2>3. g \in best
    BY <2>1, <2>2
  <2>4. Chosen(avg) \in best
    <3>1. Chosen(avg) = Min(best)
      BY <1>3 DEF Chosen, Strongest
    <3>2. best \in SUBSET Nat
      BY <1>1
    <3> HIDE DEF best
    <3> QED BY <2>3, <3>1, <3>2, MinIs
  <2>5. ASSUME NEW t \in Candidates(avg) PROVE avg[t] - avg[Chosen(avg)] <= accuracy_tolerance
    <3>1. avg[t] <= avg[g] /\ avg[g] <= avg[Chosen(avg)] /\ Chosen(avg) \in Candidates(avg)
      BY <2>1, <2>2, <2>4
    <3>2. avg[t] \in Int /\ avg[g] \in Int /\ avg[Chosen(avg)] \in Int
      BY <1>1, <3>1
    <3> QED BY <1>1, <3>1, <3>2
  <2> QED BY <1>0, <1>1, <2>4, <2>5
<1> QED BY <1>2, <1>3

(* Silent beacons lose their slot; the row names a beacon that is heard.   *)
LEMMA SummarizeInv == \A w \in SummaryThreads : Inv /\ Summarize(w) => Inv'
<1> SUFFICES ASSUME Inv, NEW w \in SummaryThreads, Summarize(w) PROVE Inv'
  OBVIOUS
<1>0. PICK time \in 0 .. MaxTime : time = current_time[w]
  BY DEF Summarize, Inv, TypeOK
<1>1. /\ uuid' = [s \in Slots |-> IF Live(s, time) THEN uuid[s] ELSE NoBeacon]
      /\ current_time' = [current_time EXCEPT ![w] = Idle]
      /\ UNCHANGED <<now, rssi_array, write_index, final_timestamp,
                     last_reported_timestamp, written, heard>>
  BY <1>0 DEF Summarize
<1>2. /\ heard \in [Beacons -> Int] /\ uuid \in [Slots -> Beacons \cup {NoBeacon}]
      /\ last_reported_timestamp \in [Slots -> Int] /\ now \in Times /\ time \in Int
      /\ R \in Nat
  <2>1. now \in 0 .. MaxTime
    BY DEF Inv, TypeOK
  <2>2. now \in Times /\ time \in Int
    BY <2>1, Numbers DEF Times
  <2>3. \A q \in Slots : last_reported_timestamp[q] \in Int
    BY TimesAre DEF Inv, TypeOK
  <2> QED BY <2>2, <2>3, TimesAre, Numbers DEF Inv, TypeOK
<1>3. \/ summary' = summary /\ began' = began
      \/ \E s \in Slots : /\ summary' = [uuid |-> uuid[s], reported |-> now] /\ began' = time
                          /\ uuid[s] # NoBeacon /\ last_reported_timestamp[s] >= time - R
  <2>1. CASE Candidates(Averages(time)) = {}
    BY <1>0, <2>1 DEF Summarize
  <2>2. CASE Candidates(Averages(time)) # {}
    <3>1. summary' = [uuid |-> uuid[Chosen(Averages(time))], reported |-> now] /\ began' = time
      BY <1>0, <2>2 DEF Summarize
    <3>2. Chosen(Averages(time)) \in Candidates(Averages(time))
      BY <1>2, <2>2, ChosenIsNear DEF Inv
    <3>3. Chosen(Averages(time)) \in Slots
      BY <3>2 DEF Candidates
    <3> QED BY <1>2, <3>1, <3>2, <3>3, AveragesAre DEF Inv
  <2> QED BY <2>1, <2>2
<1>4. TypeOK'
  BY <1>1, <1>2, <1>3 DEF Inv, TypeOK
<1>5. OneSlotPerBeacon'
  BY <1>1, <1>2 DEF Inv, OneSlotPerBeacon
<1>6. RingInv'
  BY <1>1, <1>2 DEF Inv, RingInv, Age
<1>7. HeardInv'
  <2>1. \A s \in Slots : uuid'[s] # NoBeacon => uuid'[s] = uuid[s]
    BY <1>1, <1>2
  <2>2. summary'.uuid # NoBeacon => began' - heard[summary'.uuid] <= R
    <3>1. CASE summary' = summary /\ began' = began
      BY <3>1 DEF Inv, HeardInv
    <3>2. ASSUME NEW s \in Slots, summary' = [uuid |-> uuid[s], reported |-> now],
                 began' = time, uuid[s] # NoBeacon, last_reported_timestamp[s] >= time - R
          PROVE  began' - heard[summary'.uuid] <= R
      <4>1. last_reported_timestamp[s] <= heard[uuid[s]] /\ heard[uuid[s]] \in Int
        BY <1>2, <3>2 DEF Inv, HeardInv
      <4> QED BY <1>2, <3>2, <4>1
    <3> QED BY <1>3, <3>1, <3>2
  <2> QED BY <1>1, <2>1, <2>2 DEF Inv, HeardInv
<1> QED BY <1>4, <1>5, <1>6, <1>7 DEF Inv

-----------------------------------------------------------------------------
(* Every step of the system keeps the invariant.                           *)
LEMMA NextInv == Inv /\ [Next]_vars => Inv'
<1> SUFFICES ASSUME Inv, [Next]_vars PROVE Inv'
  OBVIOUS
<1>1. CASE \E b \in Beacons : \E delay \in 0 .. MaxDelay[b], rssi \in Strengths[b] :
             Put(b, now - delay, rssi)
  BY <1>1, PutKnownInv, PutNewInv DEF Put
<1>2. ASSUME NEW w \in SummaryThreads, Summarize(w) PROVE Inv'
  BY <1>2, SummarizeInv
<1>5. ASSUME NEW w \in SummaryThreads, BeginPass(w) PROVE Inv'
  <2>1. /\ now \in 0 .. MaxTime /\ current_time' = [current_time EXCEPT ![w] = now]
        /\ UNCHANGED <<now, slotVars, summary, began, heard>>
    BY <1>5 DEF BeginPass, Inv, TypeOK
  <2>2. TypeOK'
    BY <2>1 DEF slotVars, Inv, TypeOK
  <2> QED BY <2>1, <2>2 DEF slotVars, Inv, OneSlotPerBeacon, RingInv, HeardInv, Age
<1>3. CASE Tick
  <2>1. /\ now \in 0 .. MaxTime /\ now < MaxTime /\ now' = now + 1
        /\ UNCHANGED <<slotVars, summary, current_time, began, heard>>
    BY <1>3 DEF Tick, Inv, TypeOK
  <2>2. TypeOK'
    BY <2>1, Numbers DEF slotVars, Inv, TypeOK
  <2>3. heard \in [Beacons -> Int] /\ now \in Int
    <3>1. heard \in [Beacons -> Int]
      BY TimesAre DEF Inv, TypeOK
    <3> QED BY <2>1, <3>1, Numbers
  <2>4. HeardInv'
    BY <2>1, <2>3 DEF slotVars, Inv, HeardInv
  <2>5. OneSlotPerBeacon' /\ RingInv'
    BY <2>1 DEF slotVars, Inv, OneSlotPerBeacon, RingInv, Age
  <2> QED BY <2>2, <2>4, <2>5 DEF Inv
<1>4. CASE UNCHANGED vars
  BY <1>4 DEF vars, slotVars, Inv, TypeOK, OneSlotPerBeacon, RingInv, HeardInv, Age
<1> QED BY <1>1, <1>2, <1>3, <1>4, <1>5 DEF Next

(* The invariant holds in every behaviour.                                 *)
LEMMA SpecInv == Spec => []Inv
<1> QED BY InitInv, NextInv, PTL DEF Spec

-----------------------------------------------------------------------------
(* What the variables hold, always.                                        *)
THEOREM TypeCorrect == Spec => []TypeOK
<1>1. Inv => TypeOK
  BY DEF Inv
<1> QED BY <1>1, SpecInv, PTL

(* OneSlotPerBeacon: no order of readings and of slots becoming free gives *)
(* a beacon a second slot.                                                 *)
THEOREM SlotsAreDistinct == Spec => []OneSlotPerBeacon
<1>1. Inv => OneSlotPerBeacon
  BY DEF Inv
<1> QED BY <1>1, SpecInv, PTL

(* RingIsRecent: what a beacon wrote is less than R seconds older than its *)
(* last reading, though readings come late and out of order.               *)
THEOREM RingsAreRecent == Spec => []RingIsRecent
<1>1. Inv => RingIsRecent
  <2> SUFFICES ASSUME Inv, NEW s \in Slots, NEW c \in Cells, uuid[s] # NoBeacon,
                      rssi_array[s][c] # 0, written[s][c] # Before
               PROVE  final_timestamp[s] - written[s][c] < R
    BY DEF RingIsRecent
  <2>1. final_timestamp[s] - written[s][c] <= Age(s, c)
    BY DEF Inv, RingInv
  <2>2. /\ final_timestamp[s] \in Int /\ written[s][c] \in Int /\ write_index[s] \in Cells
        /\ R \in Nat
    <3>1. /\ final_timestamp[s] \in Times /\ written[s][c] \in Times \cup {Before}
          /\ write_index[s] \in Cells
      BY DEF Inv, TypeOK
    <3> QED BY <3>1, TimesAre, Numbers
  <2>3. Age(s, c) < R /\ Age(s, c) \in Int
    BY <2>2 DEF Age, Cells
  <2> QED BY <2>1, <2>2, <2>3
<1> QED BY <1>1, SpecInv, PTL

(* UploadIsHeard: the closest beacon that is uploaded has heard the object *)
(* in the last 2 R seconds before the upload, and the seconds that the pass*)
(* took to come to the row: however long passes and uploads are, and       *)
(* however many threads make them.                                         *)
THEOREM UploadsAreHeard == Spec => []UploadIsHeard
<1>1. Inv => UploadIsHeard
  <2> SUFFICES ASSUME Inv, NEW time \in 0 .. now, Uploaded(time)
               PROVE  time - heard[summary.uuid] < 2 * R + (summary.reported - began)
    BY DEF UploadIsHeard
  <2>1. summary.uuid \in Beacons /\ time - summary.reported < R
    BY DEF Uploaded, Inv, TypeOK
  <2>2. /\ heard[summary.uuid] \in Int /\ summary.reported \in Int /\ R \in Nat
        /\ time \in Int /\ began \in Int
    <3>1. heard[summary.uuid] \in Times /\ summary.reported \in Times /\ began \in 0 .. MaxTime
      BY <2>1 DEF Inv, TypeOK
    <3>2. began \in Int /\ R \in Nat
      BY <3>1, Numbers
    <3>3. heard[summary.uuid] \in Int /\ summary.reported \in Int
      BY <3>1, TimesAre
    <3> QED BY <3>2, <3>3
  <2>3. began - heard[summary.uuid] <= R
    BY DEF Uploaded, Inv, HeardInv
  <2> QED BY <2>1, <2>2, <2>3
<1> QED BY <1>1, SpecInv, PTL

(* SummaryIsNearBest: whatever the closest beacon was, no live one is      *)
(* stronger than the new one by more than the tolerance.                   *)
THEOREM SummariesAreNear == Spec => SummaryIsNearBest
<1> DEFINE Near == \E w \in SummaryThreads : Ends(w) /\
             LET avg == Averages(current_time[w]) IN
             \E s \in Slots : /\ uuid[s] = summary'.uuid /\ avg[s] # 0
                              /\ \A t \in Candidates(avg) : avg[t] - avg[s] <= accuracy_tolerance
<1>1. Inv /\ [Next]_vars => (summary' # summary => Near)
  <2> SUFFICES ASSUME Inv, [Next]_vars, summary' # summary PROVE Near
    OBVIOUS
  <2>1. PICK w \in SummaryThreads : Summarize(w)
    BY DEF Next, Put, PutKnown, PutNew, Tick, BeginPass, vars
  <2>2. PICK time \in Int : time = current_time[w]
    BY <2>1, Numbers DEF Summarize, Inv, TypeOK
  <2>3. PICK avg \in [Slots -> Int] : avg = Averages(time)
    BY AveragesAre DEF Inv
  <2>4. Candidates(avg) # {} /\ summary' = [uuid |-> uuid[Chosen(avg)], reported |-> now]
    BY <2>1, <2>2, <2>3 DEF Summarize
  <2>5. /\ Chosen(avg) \in Candidates(avg)
        /\ \A t \in Candidates(avg) : avg[t] - avg[Chosen(avg)] <= accuracy_tolerance
    BY <2>3, <2>4, ChosenIsNear DEF Inv
  <2>6. Chosen(avg) \in Slots /\ avg[Chosen(avg)] # 0
    BY <2>5 DEF Candidates
  <2>7. Ends(w)
    BY <2>1 DEF Summarize, Ends, Inv, TypeOK
  <2> QED BY <2>2, <2>3, <2>4, <2>5, <2>6, <2>7
<1>2. (summary' # summary => Near) <=>
        (summary' # summary =>
           \E w \in SummaryThreads : Ends(w) /\
             LET avg == Averages(current_time[w]) IN
             \E s \in Slots : /\ uuid[s] = summary'.uuid /\ avg[s] # 0
                              /\ \A t \in Candidates(avg) : avg[t] - avg[s] <= accuracy_tolerance)
  OBVIOUS
<1> HIDE DEF Near
<1> QED BY <1>1, <1>2, SpecInv, PTL DEF Spec, SummaryIsNearBest
===============================================================================
