--------------------------- MODULE HashTableProofs ---------------------------
(***************************************************************************)
(* Theorems about HashTable, for any workers, objects and nodes: what the  *)
(* list of a bucket is like until ht_mutex is unlocked by a thread that    *)
(* does not hold it. And about AreaTable, the array of the hashtables.     *)
(*                                                                         *)
(* The list is described by its length and its nodes, s[1] .. s[len].      *)
(***************************************************************************)
EXTENDS HashTable, AreaTable, FiniteSetTheorems, SequenceTheorems, WellFoundedInduction, TLAPS

\* The links lead from table along s, through allocated nodes, to NoNode.
ListIs(len, s) ==
  /\ \A i, j \in 1 .. len : s[i] = s[j] => i = j
  /\ table = IF len = 0 THEN NoNode ELSE s[1]
  /\ \A i \in 1 .. len : next[s[i]] = IF i = len THEN NoNode ELSE s[i + 1]
  /\ \A i \in 1 .. len : s[i] \in live

KeysDiffer(len, s) == \A i, j \in 1 .. len : key[s[i]] = key[s[j]] => i = j

\* The search of a worker: the nodes it has passed have other keys.
SearchInv(len, s) ==
  \A p \in Putters :
    /\ At(p, "search") =>
         \/ put[p].node = NoNode /\ \A i \in 1 .. len : key[s[i]] # put[p].key
         \/ \E i \in 1 .. len :
              put[p].node = s[i] /\ \A j \in 1 .. i - 1 : key[s[j]] # put[p].key
    /\ At(p, "link") =>
         put[p].node = table /\ \A i \in 1 .. len : key[s[i]] # put[p].key
    /\ At(p, "node") =>
         \E i \in 1 .. len : put[p].node = s[i] /\ key[s[i]] = put[p].key

\* The walk of the summary thread: only in front of its first node is there
\* anything it has not passed.
WalkInv(len, s) ==
  spc # "idle" =>
    \/ /\ spc \in {"visit", "free"} /\ curr = NoNode
       /\ prev_node = NoNode \/ (len > 0 /\ prev_node = s[len])
    \/ \E i \in 1 .. len :
         curr = s[i] /\ (prev_node = NoNode \/ (i > 1 /\ prev_node = s[i - 1]))

\* A node that is being freed is not in the list any more.
ReleaseInv(len, s) ==
  spc = "free" => node_to_release \in live /\ \A i \in 1 .. len : s[i] # node_to_release

\* Of the nodes that are allocated, the list has all but that one and those
\* that were dropped from it.
AllListed(len, s) ==
  \A n \in live \ dropped :
    (spc = "free" /\ n = node_to_release) \/ \E i \in 1 .. len : n = s[i]

ListInv(len, s) ==
  /\ ListIs(len, s) /\ KeysDiffer(len, s) /\ AllListed(len, s)
  /\ SearchInv(len, s) /\ WalkInv(len, s) /\ ReleaseInv(len, s)

\* The mutexes have the holders that the positions of the threads tell.
HolderInv ==
  /\ \A p \in Putters :
       put[p].pc \in {"search", "link", "node", "unlock"} <=> ht_mutex = p
  /\ spc = "unlink" <=> ht_mutex = Summarizer
  /\ spc \in {"summarize", "evict", "unlink"} => node_lock[curr] = Summarizer
  /\ spc = "free" => node_lock[node_to_release] = Summarizer

\* A row that is being updated is locked, allocated, and that of the object.
UpdateInv ==
  \A p \in Putters :
    At(p, "update") =>
      /\ put[p].node \in live /\ key[put[p].node] = put[p].key
      /\ node_lock[put[p].node] = p

Inv ==
  /\ TypeOK
  /\ ~stolen =>
       /\ HolderInv /\ UpdateInv
       /\ \E len \in Nat : \E s \in [1 .. len -> Nodes] : ListInv(len, s)

Pcs == {"idle", "lock", "search", "link", "unlock", "node", "update", "unlock again"}
PutStates == [Putters -> [pc : Pcs, key : Keys, node : Links]]

-----------------------------------------------------------------------------
(* At the start the list is empty and everything is unlocked.              *)
LEMMA InitInv == Init => Inv
<1> SUFFICES ASSUME Init PROVE Inv
  OBVIOUS
<1> USE HashTableAssumption DEF Init
<1>1. put \in PutStates /\ \A p \in Putters : put[p].pc = "idle"
  <2>1. { key[n] : n \in Nodes } \subseteq Keys
    OBVIOUS
  <2>2. [pc : {"idle"}, key : { key[n] : n \in Nodes }, node : {NoNode}]
          \subseteq [pc : Pcs, key : Keys, node : Links]
    BY <2>1 DEF Pcs, Links
  <2>3. put \in [Putters -> [pc : {"idle"}, key : { key[n] : n \in Nodes }, node : {NoNode}]]
    OBVIOUS
  <2>4. \A p \in Putters : put[p].pc = "idle"
    BY <2>3
  <2>5. put \in PutStates
    BY <2>2, <2>3 DEF PutStates
  <2> QED BY <2>4, <2>5
<1>2. TypeOK
  BY <1>1 DEF TypeOK, PutStates, Pcs, Links, Threads
<1>3. HolderInv /\ UpdateInv
  BY <1>1 DEF HolderInv, UpdateInv, At
<1>4. ListInv(0, <<>>)
  BY <1>1 DEF ListInv, ListIs, KeysDiffer, SearchInv, WalkInv, ReleaseInv, AllListed, At
<1>5. 0 \in Nat /\ <<>> \in [1 .. 0 -> Nodes]
  OBVIOUS
<1> QED BY <1>2, <1>3, <1>4, <1>5 DEF Inv

(* What a step of a worker does to its record, and to no other.            *)
LEMMA GotoWithEffect ==
  ASSUME put \in PutStates, NEW p \in Putters, NEW l \in Pcs, NEW n \in Links, GotoWith(p, l, n)
  PROVE  /\ put' \in PutStates
         /\ put'[p].pc = l /\ put'[p].key = put[p].key /\ put'[p].node = n
         /\ \A q \in Putters \ {p} : put'[q] = put[q]
  BY DEF GotoWith, PutStates

(* The same of a step that keeps the node.                                 *)
LEMMA GotoEffect ==
  ASSUME put \in PutStates, NEW p \in Putters, NEW l \in Pcs, Goto(p, l)
  PROVE  /\ put' \in PutStates
         /\ put'[p].pc = l /\ put'[p].key = put[p].key /\ put'[p].node = put[p].node
         /\ \A q \in Putters \ {p} : put'[q] = put[q]
  BY DEF Goto, PutStates

(* The steps of a worker that leave the list as it is.                     *)
LEMMA PutStartInv == \A p \in Putters, k \in Keys : Inv /\ PutStart(p, k) => Inv'
<1> SUFFICES ASSUME Inv, NEW p \in Putters, NEW k \in Keys, PutStart(p, k) PROVE Inv'
  OBVIOUS
<1> USE HashTableAssumption DEF listVars, sumVars
<1>1. /\ put \in PutStates /\ put[p].pc = "idle"
      /\ UNCHANGED <<table, next, key, live, lost_slots, dropped, broken, spc, curr, prev_node,
                     node_to_release, stale, ht_mutex, node_lock, upload, stolen>>
  BY DEF Inv, TypeOK, PutStates, Pcs, PutStart, At
<1>2. /\ put' \in PutStates /\ put'[p].pc = "lock"
      /\ \A q \in Putters \ {p} : put'[q] = put[q]
  BY <1>1 DEF PutStart, PutStates, Pcs, Links
<1>3. TypeOK'
  BY <1>1, <1>2 DEF Inv, TypeOK, PutStates, Pcs
<1>4. ASSUME ~stolen PROVE HolderInv' /\ UpdateInv'
  BY <1>1, <1>2, <1>4 DEF Inv, HolderInv, UpdateInv, At
<1>5. ASSUME NEW len \in Nat, NEW s \in [1 .. len -> Nodes], ListInv(len, s)
      PROVE  ListInv(len, s)'
  <2>1. SearchInv(len, s)'
    BY <1>1, <1>2, <1>5 DEF ListInv, SearchInv, At
  <2> QED BY <1>1, <1>5, <2>1 DEF ListInv, ListIs, KeysDiffer, WalkInv, ReleaseInv, AllListed
<1> QED BY <1>1, <1>3, <1>4, <1>5 DEF Inv

(* The lock, the search, and a search that ends without memory.            *)
LEMMA PutSearchInv ==
  \A p \in Putters : Inv /\ (PutLock(p) \/ PutSearch(p) \/ PutNoNode(p)) => Inv'
<1> SUFFICES ASSUME Inv, NEW p \in Putters, PutLock(p) \/ PutSearch(p) \/ PutNoNode(p)
             PROVE  Inv'
  OBVIOUS
<1> USE HashTableAssumption DEF listVars, sumVars
<1>1. /\ put \in PutStates
      /\ UNCHANGED <<table, next, key, live, lost_slots, dropped, broken, spc, curr, prev_node,
                     node_to_release, stale, node_lock, upload, stolen>>
  BY DEF Inv, TypeOK, PutStates, Pcs, PutLock, PutSearch, PutNoNode
<1>2. ASSUME NEW len \in Nat, NEW s \in [1 .. len -> Nodes], ListInv(len, s), SearchInv(len, s)'
      PROVE  ListInv(len, s)'
  BY <1>1, <1>2 DEF ListInv, ListIs, KeysDiffer, WalkInv, ReleaseInv, AllListed
<1>3. CASE PutLock(p)
  <2>1. table \in Links /\ put[p].pc = "lock" /\ ht_mutex = Nobody /\ ht_mutex' = p
    BY <1>3 DEF Inv, TypeOK, PutLock, At, Unlocked
  <2>2. /\ put' \in PutStates /\ put'[p].pc = "search" /\ put'[p].node = table
        /\ put'[p].key = put[p].key
        /\ \A q \in Putters \ {p} : put'[q] = put[q]
    BY <1>1, <1>3, <2>1, GotoWithEffect DEF PutLock, Pcs
  <2>3. TypeOK'
    BY <1>1, <2>1, <2>2 DEF Inv, TypeOK, PutStates, Pcs, Threads
  <2>4. ASSUME ~stolen PROVE HolderInv' /\ UpdateInv'
    BY <1>1, <2>1, <2>2, <2>4 DEF Inv, HolderInv, UpdateInv, At
  <2>5. ASSUME NEW len \in Nat, NEW s \in [1 .. len -> Nodes], ListInv(len, s)
        PROVE  SearchInv(len, s)'
    BY <1>1, <2>1, <2>2, <2>5 DEF ListInv, ListIs, SearchInv, At
  <2> QED BY <1>1, <1>2, <2>3, <2>4, <2>5 DEF Inv
<1>4. CASE PutNoNode(p)
  <2>1. put[p].pc = "link" /\ ht_mutex' = ht_mutex
    BY <1>4 DEF PutNoNode, At
  <2>2. /\ put' \in PutStates /\ put'[p].pc = "unlock"
        /\ \A q \in Putters \ {p} : put'[q] = put[q]
    BY <1>1, <1>4, GotoEffect DEF PutNoNode, Pcs
  <2>3. TypeOK'
    BY <1>1, <2>1, <2>2 DEF Inv, TypeOK, PutStates, Pcs
  <2>4. ASSUME ~stolen PROVE HolderInv' /\ UpdateInv'
    BY <1>1, <2>1, <2>2, <2>4 DEF Inv, HolderInv, UpdateInv, At
  <2>5. ASSUME NEW len \in Nat, NEW s \in [1 .. len -> Nodes], ListInv(len, s)
        PROVE  SearchInv(len, s)'
    BY <1>1, <2>1, <2>2, <2>5 DEF ListInv, SearchInv, At
  <2> QED BY <1>1, <1>2, <2>3, <2>4, <2>5 DEF Inv
<1>5. CASE PutSearch(p)
  <2> DEFINE n == put[p].node
  <2>0. put[p].pc = "search" /\ ht_mutex' = ht_mutex /\ n \in Links
    BY <1>1, <1>5 DEF PutSearch, At, PutStates
  <2>1. \/ n = NoNode /\ GotoWith(p, "link", table)
        \/ n # NoNode /\ key[n] = put[p].key /\ Goto(p, "node")
        \/ n # NoNode /\ key[n] # put[p].key /\ GotoWith(p, "search", next[n])
    BY <1>5 DEF PutSearch, Matches
  <2>2. /\ put' \in PutStates /\ put'[p].key = put[p].key
        /\ \A q \in Putters \ {p} : put'[q] = put[q]
        /\ \/ n = NoNode /\ put'[p].pc = "link" /\ put'[p].node = table
           \/ n # NoNode /\ key[n] = put[p].key /\ put'[p].pc = "node" /\ put'[p].node = n
           \/ n # NoNode /\ key[n] # put[p].key /\ put'[p].pc = "search" /\ put'[p].node = next[n]
    <3>1. table \in Links /\ (n # NoNode => next[n] \in Links)
      BY <2>0 DEF Inv, TypeOK, Links
    <3>2. CASE n = NoNode
      BY <1>1, <2>1, <3>1, <3>2, GotoWithEffect DEF Pcs
    <3>3. CASE n # NoNode /\ key[n] = put[p].key
      BY <1>1, <2>1, <3>3, GotoEffect DEF Pcs
    <3>4. CASE n # NoNode /\ key[n] # put[p].key
      BY <1>1, <2>1, <3>1, <3>4, GotoWithEffect DEF Pcs
    <3> QED BY <3>2, <3>3, <3>4
  <2> HIDE DEF n
  <2>3. TypeOK'
    BY <1>1, <2>0, <2>2 DEF Inv, TypeOK, PutStates, Pcs
  <2>4. ASSUME ~stolen PROVE HolderInv' /\ UpdateInv'
    BY <1>1, <2>0, <2>2, <2>4 DEF Inv, HolderInv, UpdateInv, At
  <2>5. ASSUME NEW len \in Nat, NEW s \in [1 .. len -> Nodes], ListInv(len, s)
        PROVE  SearchInv(len, s)'
    <3>1. \A i \in 1 .. len : s[i] # NoNode
      OBVIOUS
    <3>2. \/ n = NoNode /\ \A i \in 1 .. len : key[s[i]] # put[p].key
          \/ \E i \in 1 .. len : n = s[i] /\ \A j \in 1 .. i - 1 : key[s[j]] # put[p].key
      BY <2>0, <2>5 DEF ListInv, SearchInv, At, n
    <3>3. CASE n = NoNode
      BY <1>1, <2>2, <2>5, <3>1, <3>2, <3>3 DEF ListInv, SearchInv, At
    <3>4. CASE n # NoNode
      <4>1. PICK i \in 1 .. len : n = s[i] /\ \A j \in 1 .. i - 1 : key[s[j]] # put[p].key
        BY <3>2, <3>4
      <4>2. CASE key[n] = put[p].key
        BY <1>1, <2>2, <2>5, <3>4, <4>1, <4>2 DEF ListInv, SearchInv, At
      <4>3. CASE key[n] # put[p].key
        <5>1. \A j \in 1 .. i : key[s[j]] # put[p].key
          BY <4>1, <4>3
        <5>2. next[n] = IF i = len THEN NoNode ELSE s[i + 1]
          BY <2>5, <4>1 DEF ListInv, ListIs
        <5>3. i # len => i + 1 \in 1 .. len /\ (i + 1) - 1 = i
          OBVIOUS
        <5> QED BY <1>1, <2>2, <2>5, <3>4, <4>3, <5>1, <5>2, <5>3 DEF ListInv, SearchInv, At
      <4> QED BY <4>2, <4>3
    <3> QED BY <3>3, <3>4
  <2> QED BY <1>1, <1>2, <2>3, <2>4, <2>5 DEF Inv
<1> QED BY <1>3, <1>4, <1>5

(* The process that aborts leaves everything as it is.                     *)
LEMMA PutFreesSlotInv == \A p \in Putters : Inv /\ PutFreesSlot(p) => Inv'
<1> SUFFICES ASSUME Inv, NEW p \in Putters, PutFreesSlot(p) PROVE Inv'
  OBVIOUS
<1>1. /\ broken' = TRUE
      /\ UNCHANGED <<table, next, key, live, lost_slots, dropped, spc, curr, prev_node,
                     node_to_release, stale, ht_mutex, node_lock, put, upload, stolen>>
  BY DEF PutFreesSlot, listVars, sumVars
<1>2. TypeOK' /\ (~stolen => HolderInv' /\ UpdateInv')
  BY <1>1 DEF Inv, TypeOK, HolderInv, UpdateInv, At
<1>3. ASSUME NEW len \in Nat, NEW s \in [1 .. len -> Nodes], ListInv(len, s)
      PROVE  ListInv(len, s)'
  BY <1>1, <1>3 DEF ListInv, ListIs, KeysDiffer, SearchInv, WalkInv, ReleaseInv, AllListed, At
<1> QED BY <1>1, <1>2, <1>3 DEF Inv

(* The steps on the row, and the unlocking of ht_mutex, twice or once.     *)
LEMMA PutRowInv ==
  \A p \in Putters : Inv /\ (PutUnlock(p) \/ PutLockRow(p) \/ PutUpdate(p)) => Inv'
<1> SUFFICES ASSUME Inv, NEW p \in Putters, PutUnlock(p) \/ PutLockRow(p) \/ PutUpdate(p)
             PROVE  Inv'
  OBVIOUS
<1> USE HashTableAssumption DEF listVars, sumVars
<1> DEFINE n == put[p].node
<1>1. /\ put \in PutStates /\ node_lock \in [Nodes -> Threads \cup {Nobody}]
      /\ UNCHANGED <<table, next, key, live, lost_slots, dropped, broken, spc, curr, prev_node,
                     node_to_release, stale, upload>>
  BY DEF Inv, TypeOK, PutStates, Pcs, PutUnlock, PutLockRow, PutUpdate
<1>2. ASSUME NEW len \in Nat, NEW s \in [1 .. len -> Nodes], ListInv(len, s),
             put'[p].pc \notin {"search", "link", "node"},
             \A q \in Putters \ {p} : put'[q] = put[q]
      PROVE  ListInv(len, s)'
  <2>1. SearchInv(len, s)'
    BY <1>1, <1>2 DEF ListInv, SearchInv, At
  <2> QED BY <1>1, <1>2, <2>1 DEF ListInv, ListIs, KeysDiffer, WalkInv, ReleaseInv, AllListed
<1>3. CASE PutUnlock(p)
  <2>1. /\ put[p].pc \in {"unlock", "unlock again"} /\ ht_mutex' = Nobody
        /\ stolen' = (stolen \/ ht_mutex \notin {p, Nobody}) /\ node_lock' = node_lock
    BY <1>3 DEF PutUnlock, At
  <2>2. /\ put' \in PutStates /\ put'[p].pc = "idle"
        /\ \A q \in Putters \ {p} : put'[q] = put[q]
    BY <1>1, <1>3, GotoEffect DEF PutUnlock, Pcs
  <2>3. TypeOK'
    BY <1>1, <2>1, <2>2 DEF Inv, TypeOK, PutStates, Pcs
  <2>4. ASSUME ~stolen' PROVE ~stolen /\ HolderInv' /\ UpdateInv'
    <3>1. ~stolen /\ ht_mutex \in {p, Nobody}
      BY <2>1, <2>4
    <3>2. HolderInv'
      BY <1>1, <2>1, <2>2, <3>1 DEF Inv, HolderInv
    <3>3. ASSUME NEW q \in Putters, put'[q].pc = "update"
          PROVE  put'[q] = put[q] /\ put[q].node \in live /\ key[put[q].node] = put[q].key
                 /\ node_lock[put[q].node] = q
      BY <2>2, <3>1, <3>3 DEF Inv, UpdateInv, At
    <3>4. UpdateInv'
      BY <1>1, <2>1, <3>3 DEF UpdateInv, At
    <3> QED BY <3>1, <3>2, <3>4
  <2> QED BY <1>2, <2>2, <2>3, <2>4 DEF Inv
<1>4. CASE PutLockRow(p)
  <2>1. /\ put[p].pc = "node" /\ node_lock[n] = Nobody /\ ht_mutex' = Nobody
        /\ node_lock' = [node_lock EXCEPT ![n] = p] /\ stolen' = stolen
    BY <1>4 DEF PutLockRow, At, Unlocked
  <2>2. /\ put' \in PutStates /\ put'[p].pc = "update" /\ put'[p].node = n
        /\ put'[p].key = put[p].key
        /\ \A q \in Putters \ {p} : put'[q] = put[q]
    BY <1>1, <1>4, GotoEffect DEF PutLockRow, Pcs
  <2> HIDE DEF n
  <2>3. TypeOK'
    BY <1>1, <2>1, <2>2 DEF Inv, TypeOK, PutStates, Pcs, Threads
  <2>4. ASSUME ~stolen PROVE HolderInv' /\ UpdateInv'
    <3>1. n \in live /\ key[n] = put[p].key /\ n \in Nodes
      BY <2>1, <2>4 DEF Inv, TypeOK, ListInv, ListIs, SearchInv, At, n
    <3>2. node_lock'[n] = p /\ \A m \in Nodes \ {n} : node_lock'[m] = node_lock[m]
      BY <1>1, <2>1, <3>1
    <3>3. \A q \in Putters \ {p} : At(q, "update") => put[q].node \in Nodes \ {n}
      BY <2>1, <2>4 DEF Inv, TypeOK, UpdateInv, At
    <3>4. UpdateInv'
      BY <1>1, <2>2, <2>4, <3>1, <3>2, <3>3 DEF Inv, UpdateInv, At
    <3>5. \A m : node_lock[m] = Summarizer => node_lock'[m] = Summarizer
      BY <1>1, <2>1
    <3>6. HolderInv'
      BY <1>1, <2>1, <2>2, <2>4, <3>5 DEF Inv, HolderInv
    <3> QED BY <3>4, <3>6
  <2> QED BY <1>2, <2>1, <2>2, <2>3, <2>4 DEF Inv
<1>5. CASE PutUpdate(p)
  <2>1. /\ put[p].pc = "update" /\ ht_mutex' = ht_mutex /\ stolen' = stolen
        /\ node_lock' = [node_lock EXCEPT ![n] = Nobody]
    BY <1>5 DEF PutUpdate, At
  <2>2. /\ put' \in PutStates /\ put'[p].pc \in {"idle", "unlock again"}
        /\ \A q \in Putters \ {p} : put'[q] = put[q]
    BY <1>1, <1>5, GotoEffect DEF PutUpdate, Pcs
  <2> HIDE DEF n
  <2>3. TypeOK'
    BY <1>1, <2>1, <2>2 DEF Inv, TypeOK, PutStates, Pcs
  <2>4. ASSUME ~stolen PROVE HolderInv' /\ UpdateInv'
    <3>1. n \in Nodes /\ node_lock[n] = p
      BY <2>1, <2>4 DEF Inv, TypeOK, UpdateInv, At, n
    <3>2. \A m : m # n => node_lock'[m] = node_lock[m]
      BY <1>1, <2>1
    <3>3. \A q \in Putters \ {p} : At(q, "update") => put[q].node # n
      BY <2>4, <3>1 DEF Inv, UpdateInv
    <3>4. UpdateInv'
      <4>1. ASSUME NEW q \in Putters, put'[q].pc = "update"
            PROVE  put'[q] = put[q] /\ put[q].node \in live /\ key[put[q].node] = put[q].key
                   /\ node_lock'[put[q].node] = q
        <5>1. q # p /\ put'[q] = put[q] /\ put[q].pc = "update"
          BY <2>2, <4>1
        <5>2. /\ put[q].node \in live /\ key[put[q].node] = put[q].key
              /\ node_lock[put[q].node] = q
          BY <2>4, <5>1 DEF Inv, UpdateInv, At
        <5>3. put[q].node # n
          BY <3>3, <5>1 DEF At
        <5> QED BY <3>2, <5>1, <5>2, <5>3
      <4> QED BY <1>1, <4>1 DEF UpdateInv, At
    <3>5. \A m : node_lock[m] = Summarizer => node_lock'[m] = Summarizer
      BY <3>1, <3>2
    <3>6. HolderInv'
      BY <1>1, <2>1, <2>2, <2>4, <3>5 DEF Inv, HolderInv
    <3> QED BY <3>4, <3>6
  <2> QED BY <1>2, <2>1, <2>2, <2>3, <2>4 DEF Inv
<1> QED BY <1>3, <1>4, <1>5

(* A new node comes in front of the list: the worker has seen, under       *)
(* ht_mutex, that no node of it has the key.                               *)
LEMMA PutLinkInv == \A p \in Putters, n \in Available : Inv /\ PutLink(p, n) => Inv'
<1> SUFFICES ASSUME Inv, NEW p \in Putters, NEW n \in Available, PutLink(p, n) PROVE Inv'
  OBVIOUS
<1> USE HashTableAssumption DEF listVars, sumVars
<1>1. /\ put \in PutStates /\ put[p].pc = "link" /\ n \in Nodes /\ n \notin live
      /\ next \in [Nodes -> Links] /\ key \in [Nodes -> Keys] /\ live \subseteq Nodes
      /\ live' = live \cup {n} /\ table' = n
      /\ key' = [key EXCEPT ![n] = put[p].key]
      /\ next' = [next EXCEPT ![n] = put[p].node]
      /\ UNCHANGED <<lost_slots, dropped, broken, spc, curr, prev_node, node_to_release, stale,
                     ht_mutex, node_lock, upload, stolen>>
  BY DEF Inv, TypeOK, PutStates, Pcs, PutLink, At, Available
<1>2. /\ put' \in PutStates /\ put'[p].pc = "unlock"
      /\ \A q \in Putters \ {p} : put'[q] = put[q]
  BY <1>1, GotoEffect DEF PutLink, Pcs
<1>3. TypeOK'
  <2>1. put[p].key \in Keys /\ put[p].node \in Links
    BY <1>1 DEF PutStates
  <2>2. key' \in [Nodes -> Keys] /\ next' \in [Nodes -> Links] /\ table' \in Links
    BY <1>1, <2>1 DEF Links
  <2> QED BY <1>1, <1>2, <2>2 DEF Inv, TypeOK, PutStates, Pcs
<1>4. \A m \in live : key'[m] = key[m] /\ next'[m] = next[m]
  BY <1>1
<1>5. ASSUME ~stolen PROVE HolderInv' /\ UpdateInv'
  <2>1. HolderInv'
    BY <1>1, <1>2, <1>5 DEF Inv, HolderInv
  <2>2. ASSUME NEW q \in Putters, put'[q].pc = "update"
        PROVE  put'[q] = put[q] /\ put[q].node \in live /\ key[put[q].node] = put[q].key
               /\ node_lock[put[q].node] = q
    BY <1>2, <1>5, <2>2 DEF Inv, UpdateInv, At
  <2>3. UpdateInv'
    BY <1>1, <1>4, <2>2 DEF UpdateInv, At
  <2> QED BY <2>1, <2>3
<1>6. ASSUME ~stolen, NEW len \in Nat, NEW s \in [1 .. len -> Nodes], ListInv(len, s)
      PROVE  \E len2 \in Nat : \E s2 \in [1 .. len2 -> Nodes] : ListInv(len2, s2)'
  <2> DEFINE s2 == [i \in 1 .. len + 1 |-> IF i = 1 THEN n ELSE s[i - 1]]
  <2>1. /\ len + 1 \in Nat /\ s2 \in [1 .. len + 1 -> Nodes] /\ s2[1] = n
        /\ \A i \in 1 .. len : i + 1 \in 1 .. len + 1 /\ s2[i + 1] = s[i]
        /\ \A i \in 1 .. len + 1 : i # 1 => i - 1 \in 1 .. len /\ s2[i] = s[i - 1]
    BY <1>1
  <2> HIDE DEF s2
  <2>2. \A i \in 1 .. len : s[i] \in live /\ s[i] # n
                          /\ key'[s[i]] = key[s[i]] /\ next'[s[i]] = next[s[i]]
    BY <1>1, <1>4, <1>6 DEF ListInv, ListIs
  <2>3. /\ put[p].node = table /\ key'[n] = put[p].key /\ next'[n] = table
        /\ \A i \in 1 .. len : key[s[i]] # put[p].key
    BY <1>1, <1>6 DEF ListInv, SearchInv, At
  <2>4. ListIs(len + 1, s2)'
    <3>1. \A i, j \in 1 .. len + 1 : s2[i] = s2[j] => i = j
      <4>1. \A i, j \in 1 .. len : s[i] = s[j] => i = j
        BY <1>6 DEF ListInv, ListIs
      <4>2. \A i \in 1 .. len + 1 : i # 1 => s2[i] # n
        BY <2>1, <2>2
      <4>3. SUFFICES ASSUME NEW i \in 1 .. len + 1, NEW j \in 1 .. len + 1, s2[i] = s2[j]
                     PROVE  i = j
        OBVIOUS
      <4>4. i = 1 <=> j = 1
        BY <2>1, <4>2, <4>3
      <4>5. ASSUME i # 1, j # 1 PROVE i = j
        <5>1. /\ i - 1 \in 1 .. len /\ s2[i] = s[i - 1]
              /\ j - 1 \in 1 .. len /\ s2[j] = s[j - 1]
          BY <2>1, <4>5
        <5>2. i - 1 = j - 1
          BY <4>1, <4>3, <5>1
        <5> QED BY <5>2
      <4> QED BY <4>4, <4>5
    <3>2. table' = IF len + 1 = 0 THEN NoNode ELSE s2[1]
      BY <1>1, <2>1
    <3>3. \A i \in 1 .. len + 1 : next'[s2[i]] = IF i = len + 1 THEN NoNode ELSE s2[i + 1]
      <4>1. next'[s2[1]] = IF 1 = len + 1 THEN NoNode ELSE s2[2]
        BY <1>6, <2>1, <2>3 DEF ListInv, ListIs
      <4>2. ASSUME NEW i \in 1 .. len + 1, i # 1
            PROVE  next'[s2[i]] = IF i = len + 1 THEN NoNode ELSE s2[i + 1]
        <5>1. i - 1 \in 1 .. len /\ s2[i] = s[i - 1] /\ (i - 1) + 1 = i
          BY <2>1, <4>2
        <5>2. next'[s2[i]] = IF i - 1 = len THEN NoNode ELSE s[i]
          BY <1>6, <2>2, <5>1 DEF ListInv, ListIs
        <5>3. i # len + 1 => s2[i + 1] = s[i]
          BY <2>1, <4>2
        <5> QED BY <5>2, <5>3
      <4> QED BY <4>1, <4>2
    <3>4. \A i \in 1 .. len + 1 : s2[i] \in live'
      BY <1>1, <2>1, <2>2
    <3> QED BY <3>1, <3>2, <3>3, <3>4 DEF ListIs
  <2>5. KeysDiffer(len + 1, s2)'
    <3>1. \A i, j \in 1 .. len : key[s[i]] = key[s[j]] => i = j
      BY <1>6 DEF ListInv, KeysDiffer
    <3>2. \A i \in 1 .. len + 1 : i # 1 => key'[s2[i]] = key[s[i - 1]]
                                       /\ key'[s2[i]] # key'[n]
      BY <2>1, <2>2, <2>3
    <3>3. SUFFICES ASSUME NEW i \in 1 .. len + 1, NEW j \in 1 .. len + 1,
                          key'[s2[i]] = key'[s2[j]]
                   PROVE  i = j
      BY DEF KeysDiffer
    <3>4. i = 1 <=> j = 1
      BY <2>1, <3>2, <3>3
    <3>5. ASSUME i # 1, j # 1 PROVE i = j
      <4>1. i - 1 \in 1 .. len /\ j - 1 \in 1 .. len
        BY <2>1, <3>5
      <4>2. key[s[i - 1]] = key[s[j - 1]]
        BY <3>2, <3>3, <3>5
      <4>3. i - 1 = j - 1
        BY <3>1, <4>1, <4>2
      <4> QED BY <4>3
    <3> QED BY <3>4, <3>5
  <2>6. SearchInv(len + 1, s2)'
    <3>1. \A q \in Putters : put'[q].pc \notin {"search", "link", "node"}
      BY <1>1, <1>2, <1>6 DEF Inv, HolderInv
    <3> QED BY <3>1 DEF SearchInv, At
  <2>7. WalkInv(len + 1, s2)'
    <3>1. CASE spc = "idle"
      BY <1>1, <3>1 DEF WalkInv
    <3>2. CASE spc \in {"visit", "free"} /\ curr = NoNode
               /\ (prev_node = NoNode \/ (len > 0 /\ prev_node = s[len]))
      BY <1>1, <2>1, <3>2 DEF WalkInv
    <3>3. ASSUME NEW i \in 1 .. len, curr = s[i],
                 prev_node = NoNode \/ (i > 1 /\ prev_node = s[i - 1])
          PROVE  WalkInv(len + 1, s2)'
      <4>1. curr = s2[i + 1] /\ i + 1 \in 1 .. len + 1
        BY <2>1, <3>3
      <4>2. prev_node = NoNode \/ (i + 1 > 1 /\ prev_node = s2[(i + 1) - 1])
        BY <2>1, <3>3
      <4> QED BY <1>1, <4>1, <4>2 DEF WalkInv
    <3> QED BY <1>6, <3>1, <3>2, <3>3 DEF ListInv, WalkInv
  <2>8. ReleaseInv(len + 1, s2)'
    BY <1>1, <1>6, <2>1 DEF ListInv, ReleaseInv
  <2>9. AllListed(len + 1, s2)'
    <3>1. SUFFICES ASSUME NEW m \in live', m \notin dropped', ~(spc' = "free" /\ m = node_to_release')
                   PROVE  \E i \in 1 .. len + 1 : m = s2[i]
      BY DEF AllListed
    <3>2. CASE m = n
      BY <2>1, <3>2
    <3>3. CASE m # n
      <4>1. PICK i \in 1 .. len : m = s[i]
        BY <1>1, <1>6, <3>1, <3>3 DEF ListInv, AllListed
      <4> QED BY <2>1, <4>1
    <3> QED BY <3>2, <3>3
  <2>10. ListInv(len + 1, s2)'
    BY <2>4, <2>5, <2>6, <2>7, <2>8, <2>9 DEF ListInv
  <2> QED BY <2>1, <2>10
<1> QED BY <1>1, <1>3, <1>5, <1>6 DEF Inv

(* The steps of the summary thread that leave the list as it is.           *)
LEMMA SumStartInv == \A aged \in SUBSET live : Inv /\ SumStart(aged) => Inv'
<1> SUFFICES ASSUME Inv, NEW aged \in SUBSET live, SumStart(aged) PROVE Inv'
  OBVIOUS
<1> USE HashTableAssumption DEF listVars
<1>1. /\ spc = "idle" /\ spc' = "visit" /\ curr' = table /\ prev_node' = NoNode
      /\ stale' = stale \cup aged
      /\ UNCHANGED <<table, next, key, live, lost_slots, dropped, broken, ht_mutex, node_lock,
                     put, node_to_release, upload, stolen>>
  BY DEF SumStart
<1>2. TypeOK'
  BY <1>1 DEF Inv, TypeOK, Links
<1>3. ASSUME ~stolen PROVE HolderInv' /\ UpdateInv'
  BY <1>1, <1>3 DEF Inv, HolderInv, UpdateInv, At
<1>4. ASSUME NEW len \in Nat, NEW s \in [1 .. len -> Nodes], ListInv(len, s)
      PROVE  ListInv(len, s)'
  <2>1. WalkInv(len, s)'
    BY <1>1, <1>4 DEF ListInv, ListIs, WalkInv
  <2> QED BY <1>1, <1>4, <2>1 DEF ListInv, ListIs, KeysDiffer, SearchInv, ReleaseInv, AllListed, At
<1> QED BY <1>1, <1>2, <1>3, <1>4 DEF Inv

(* The walk of the summary thread, up to the eviction of a node.           *)
LEMMA SumWalkInv == Inv /\ (SumLockRow \/ SumEnd \/ SumSummarize \/ SumLockTable) => Inv'
<1> SUFFICES ASSUME Inv, SumLockRow \/ SumEnd \/ SumSummarize \/ SumLockTable PROVE Inv'
  OBVIOUS
<1> USE HashTableAssumption DEF listVars
<1>1. /\ UNCHANGED <<table, next, key, live, lost_slots, dropped, broken, put, node_to_release,
                     stale, upload, stolen>>
      /\ spc # "free"
  BY DEF SumLockRow, SumEnd, SumSummarize, SumLockTable
<1>2. node_lock \in [Nodes -> Threads \cup {Nobody}] /\ curr \in Links
  BY DEF Inv, TypeOK
<1>3. ASSUME NEW len \in Nat, NEW s \in [1 .. len -> Nodes], ListInv(len, s),
             WalkInv(len, s)', spc' # "free"
      PROVE  ListInv(len, s)'
  BY <1>1, <1>3 DEF ListInv, ListIs, KeysDiffer, SearchInv, ReleaseInv, AllListed, At
<1>4. ASSUME ~stolen, \A p \in Putters, n \in Nodes : node_lock[n] = p => node_lock'[n] = p
      PROVE  UpdateInv'
  BY <1>1, <1>4 DEF Inv, TypeOK, UpdateInv, At
<1>5. CASE SumLockRow
  <2>1. /\ spc = "visit" /\ curr \in Nodes /\ node_lock[curr] = Nobody
        /\ spc' \in {"evict", "summarize"}
        /\ node_lock' = [node_lock EXCEPT ![curr] = Summarizer]
        /\ UNCHANGED <<ht_mutex, curr, prev_node>>
    BY <1>2, <1>5 DEF SumLockRow, Unlocked, Links
  <2>2. TypeOK'
    BY <1>1, <2>1 DEF Inv, TypeOK, Threads
  <2>3. ASSUME ~stolen PROVE HolderInv' /\ UpdateInv'
    <3>1. HolderInv'
      BY <1>1, <1>2, <2>1, <2>3 DEF Inv, HolderInv
    <3>2. \A p \in Putters, n \in Nodes : node_lock[n] = p => node_lock'[n] = p
      BY <1>2, <2>1
    <3> QED BY <1>4, <2>3, <3>1, <3>2
  <2>4. ASSUME NEW len \in Nat, NEW s \in [1 .. len -> Nodes], ListInv(len, s)
        PROVE  WalkInv(len, s)'
    BY <2>1, <2>4 DEF ListInv, WalkInv
  <2> QED BY <1>1, <1>3, <2>1, <2>2, <2>3, <2>4 DEF Inv
<1>6. CASE SumEnd
  <2>1. spc = "visit" /\ spc' = "idle" /\ UNCHANGED <<ht_mutex, node_lock, curr, prev_node>>
    BY <1>6 DEF SumEnd
  <2>2. TypeOK'
    BY <1>1, <2>1 DEF Inv, TypeOK
  <2>3. ASSUME ~stolen PROVE HolderInv' /\ UpdateInv'
    BY <1>1, <1>4, <2>1, <2>3 DEF Inv, HolderInv
  <2>4. \A len, s : WalkInv(len, s)'
    BY <2>1 DEF WalkInv
  <2> QED BY <1>1, <1>3, <2>1, <2>2, <2>3, <2>4 DEF Inv
<1>7. CASE SumSummarize
  <2>1. /\ spc = "summarize" /\ spc' = "visit" /\ prev_node' = curr /\ curr' = next[curr]
        /\ node_lock' = [node_lock EXCEPT ![curr] = Nobody] /\ ht_mutex' = ht_mutex
    BY <1>7 DEF SumSummarize
  <2>2. ASSUME ~stolen PROVE HolderInv' /\ UpdateInv'
    <3>1. node_lock[curr] = Summarizer
      BY <2>1, <2>2 DEF Inv, HolderInv
    <3>2. HolderInv'
      BY <1>1, <2>1, <2>2 DEF Inv, HolderInv
    <3>3. \A p \in Putters, n \in Nodes : node_lock[n] = p => node_lock'[n] = p
      BY <1>2, <2>1, <3>1
    <3> QED BY <1>4, <2>2, <3>2, <3>3
  <2>3. TypeOK'
    <3>1. curr \in Nodes
      BY <2>1 DEF Inv, TypeOK, Links
    <3> QED BY <1>1, <2>1, <3>1 DEF Inv, TypeOK, Links
  <2>4. ASSUME NEW len \in Nat, NEW s \in [1 .. len -> Nodes], ListInv(len, s)
        PROVE  WalkInv(len, s)'
    <3>1. PICK i \in 1 .. len : curr = s[i]
      BY <2>1, <2>4 DEF ListInv, WalkInv
    <3>2. next[curr] = IF i = len THEN NoNode ELSE s[i + 1]
      BY <2>4, <3>1 DEF ListInv, ListIs
    <3>3. i # len => i + 1 \in 1 .. len /\ i + 1 > 1 /\ (i + 1) - 1 = i
      OBVIOUS
    <3>4. CASE i = len
      BY <2>1, <3>1, <3>2, <3>4 DEF WalkInv
    <3>5. CASE i # len
      BY <2>1, <3>1, <3>2, <3>3, <3>5 DEF WalkInv
    <3> QED BY <3>4, <3>5
  <2> QED BY <1>1, <1>3, <2>1, <2>2, <2>3, <2>4 DEF Inv
<1>8. CASE SumLockTable
  <2>1. /\ spc = "evict" /\ spc' = "unlink" /\ ht_mutex = Nobody /\ ht_mutex' = Summarizer
        /\ UNCHANGED <<node_lock, curr, prev_node>>
    BY <1>8 DEF SumLockTable, Unlocked
  <2>2. TypeOK'
    BY <1>1, <2>1 DEF Inv, TypeOK, Threads
  <2>3. ASSUME ~stolen PROVE HolderInv' /\ UpdateInv'
    BY <1>1, <1>4, <2>1, <2>3 DEF Inv, HolderInv
  <2>4. ASSUME NEW len \in Nat, NEW s \in [1 .. len -> Nodes], ListInv(len, s)
        PROVE  WalkInv(len, s)'
    BY <2>1, <2>4 DEF ListInv, WalkInv
  <2> QED BY <1>1, <1>3, <2>1, <2>2, <2>3, <2>4 DEF Inv
<1> QED BY <1>5, <1>6, <1>7, <1>8

(* Numbers: a set of naturals has a least one; what holds of 0, and of k   *)
(* when it holds of k - 1, holds up to any bound.                          *)
LEMMA Least == ASSUME NEW T \in SUBSET Nat, T # {} PROVE \E m \in T : \A n \in T : m <= n
<1> DEFINE R == OpToRel(<, Nat)
<1>1. IsWellFoundedOn(R, Nat)
  BY NatLessThanWellFounded
<1>2. PICK m \in T : \A n \in T : <<n, m>> \notin R
  <2> HIDE DEF R
  <2> QED BY <1>1, WFMin
<1>3. \A n \in T : ~(n < m)
  BY <1>2 DEF OpToRel
<1> QED BY <1>3

(* What holds of 0, and of k when it holds of k - 1, holds up to N.        *)
LEMMA UpTo ==
  ASSUME NEW N \in Nat, NEW T, 0 \in T, \A k \in 1 .. N : k - 1 \in T => k \in T
  PROVE  0 .. N \subseteq T
<1> DEFINE B == (0 .. N) \ T
<1> SUFFICES ASSUME B # {} PROVE FALSE
  OBVIOUS
<1>1. PICK m \in B : \A n \in B : m <= n
  <2>1. B \in SUBSET Nat
    OBVIOUS
  <2> HIDE DEF B
  <2> QED BY <2>1, Least
<1>2. m \in 1 .. N /\ m - 1 \in 0 .. N /\ ~(m <= m - 1)
  OBVIOUS
<1> QED BY <1>1, <1>2

(* NodeAt is what its definition says, an equation that some function      *)
(* fulfils: it lists s, and then NoNode.                                   *)
LEMMA NodeAtList ==
  ASSUME NEW len \in Nat, NEW s \in [1 .. len -> Nodes], ListIs(len, s)
  PROVE  /\ len <= Cardinality(Nodes) /\ Cardinality(Nodes) \in Nat
         /\ \A k \in 0 .. Cardinality(Nodes) :
              NodeAt[k] = IF k < len THEN s[k + 1] ELSE NoNode
<1> DEFINE N == Cardinality(Nodes)
<1>1. N \in Nat /\ len <= N
  <2>1. IsFiniteSet(1 .. len) /\ Cardinality(1 .. len) = len
    BY FS_Interval
  <2>2. IsFiniteSet(Nodes) /\ N \in Nat
    BY HashTableAssumption, FS_CardinalityType
  <2>3. s \in Injection(1 .. len, Nodes)
    BY DEF ListIs, Injection, IsInjective
  <2> QED BY <2>1, <2>2, <2>3, FS_Injection
<1> HIDE DEF N
<1> DEFINE Val(f, k) == IF k = 0 THEN table
                        ELSE IF f[k - 1] = NoNode THEN NoNode ELSE next[f[k - 1]]
           g == [k \in 0 .. N |-> IF k < len THEN s[k + 1] ELSE NoNode]
<1>2. \A k \in 1 .. len : s[k] # NoNode /\ next[s[k]] = IF k = len THEN NoNode ELSE s[k + 1]
  BY HashTableAssumption DEF ListIs
<1>3. ASSUME NEW k \in 0 .. N PROVE g[k] = Val(g, k)
  <2>1. CASE k = 0
    BY <1>1, <2>1 DEF ListIs
  <2>2. CASE k # 0
    <3>1. k - 1 \in 0 .. N /\ (k - 1) + 1 = k /\ (k - 1 < len => k \in 1 .. len)
      BY <1>1, <2>2
    <3> QED BY <1>2, <2>2, <3>1
  <2> QED BY <2>1, <2>2
<1>4. NodeAt = [k \in 0 .. N |-> Val(NodeAt, k)]
  <2>1. g = [k \in 0 .. N |-> Val(g, k)]
    BY <1>3
  <2> HIDE DEF g
  <2> QED BY <2>1 DEF NodeAt, N
<1> DEFINE T == { k \in 0 .. N : NodeAt[k] = g[k] }
<1>5. 0 .. N \subseteq T
  <2>1. 0 \in T
    <3>1. 0 \in 0 .. N
      BY <1>1
    <3>2. NodeAt[0] = Val(NodeAt, 0) /\ g[0] = Val(g, 0)
      <4> HIDE DEF g, Val
      <4> QED BY <1>3, <1>4, <3>1
    <3>3. NodeAt[0] = g[0]
      <4> HIDE DEF g
      <4> QED BY <3>2
    <3> QED BY <3>1, <3>3
  <2>2. \A k \in 1 .. N : k - 1 \in T => k \in T
    <3> SUFFICES ASSUME NEW k \in 1 .. N, k - 1 \in T PROVE k \in T
      OBVIOUS
    <3>1. NodeAt[k - 1] = g[k - 1] /\ k \in 0 .. N
      OBVIOUS
    <3>2. NodeAt[k] = Val(NodeAt, k) /\ g[k] = Val(g, k)
      <4> HIDE DEF g, Val
      <4> QED BY <1>3, <1>4, <3>1
    <3>3. NodeAt[k] = g[k]
      <4> HIDE DEF g
      <4> QED BY <3>1, <3>2
    <3> QED BY <3>1, <3>3
  <2> HIDE DEF T
  <2> QED BY <1>1, <2>1, <2>2, UpTo
<1>6. \A k \in 0 .. N : NodeAt[k] = IF k < len THEN s[k + 1] ELSE NoNode
  BY <1>5
<1> QED BY <1>1, <1>6 DEF N

(* So the list ends within the number of nodes, and its nodes are those    *)
(* of s.                                                                   *)
LEMMA InListIs ==
  ASSUME NEW len \in Nat, NEW s \in [1 .. len -> Nodes], ListIs(len, s)
  PROVE  /\ NodeAt[Cardinality(Nodes)] = NoNode
         /\ \A n : n \in InList <=> \E i \in 1 .. len : n = s[i]
<1> DEFINE N == Cardinality(Nodes)
<1>1. /\ N \in Nat /\ len <= N
      /\ \A k \in 0 .. N : NodeAt[k] = IF k < len THEN s[k + 1] ELSE NoNode
  BY NodeAtList
<1>2. ASSUME NEW n, n \in InList PROVE \E i \in 1 .. len : n = s[i]
  <2>1. PICK k \in 0 .. N : n = NodeAt[k] /\ n # NoNode
    BY <1>2 DEF InList
  <2>2. k < len /\ n = s[k + 1] /\ k + 1 \in 1 .. len
    BY <1>1, <2>1
  <2> QED BY <2>2
<1>3. ASSUME NEW i \in 1 .. len PROVE s[i] \in InList
  <2>1. i - 1 \in 0 .. N /\ i - 1 < len /\ (i - 1) + 1 = i
    BY <1>1
  <2>2. s[i] = NodeAt[i - 1] /\ s[i] # NoNode
    BY <1>1, <2>1, HashTableAssumption
  <2> QED BY <2>1, <2>2 DEF InList, N
<1>4. NodeAt[N] = NoNode
  BY <1>1
<1> QED BY <1>2, <1>3, <1>4

LEMMA InListOf ==
  \A l \in Nat : \A t \in [1 .. l -> Nodes] : ListIs(l, t) =>
    \A n : n \in InList => \E i \in 1 .. l : n = t[i]
<1> QED BY InListIs

(* An eviction leaves no node behind that is neither in the list nor       *)
(* recorded as dropped.                                                    *)
LEMMA DroppedListed ==
  ASSUME Inv, ~stolen, SumUnlink,
         NEW len \in Nat, NEW s \in [1 .. len -> Nodes], ListIs(len, s)'
  PROVE  AllListed(len, s)'
<1>1. /\ spc = "unlink" /\ spc' = "free" /\ node_to_release' = curr /\ live' = live
      /\ dropped' = dropped \cup ((live \cap InList) \ (InList' \cup {curr}))
  BY DEF SumUnlink
<1>2. live \ dropped \subseteq InList
  <2>1. PICK l \in Nat : \E t \in [1 .. l -> Nodes] : ListInv(l, t)
    BY DEF Inv
  <2>2. PICK t \in [1 .. l -> Nodes] : ListIs(l, t) /\ AllListed(l, t)
    BY <2>1 DEF ListInv
  <2>3. \A n : n \in InList <=> \E i \in 1 .. l : n = t[i]
    BY <2>2, InListIs
  <2> QED BY <1>1, <2>2, <2>3 DEF AllListed
<1>3. \A n : n \in InList' => \E i \in 1 .. len : n = s[i]
  <2>1. (\A l \in Nat : \A t \in [1 .. l -> Nodes] : ListIs(l, t) =>
           \A n : n \in InList => \E i \in 1 .. l : n = t[i])'
    BY InListOf, PTL
  <2> QED BY <2>1
<1> QED BY <1>1, <1>2, <1>3 DEF AllListed

(* The eviction: behind prev_node the node leaves the list alone; without  *)
(* prev_node all the nodes that came in front of it meanwhile leave too.   *)
LEMMA UnlinkList ==
  ASSUME Inv, ~stolen, SumUnlink, NEW len \in Nat, NEW s \in [1 .. len -> Nodes], ListInv(len, s)
  PROVE  \E len2 \in Nat : \E s2 \in [1 .. len2 -> Nodes] : ListInv(len2, s2)'
<1> USE HashTableAssumption
<1>1. /\ spc = "unlink" /\ spc' = "free" /\ node_to_release' = curr /\ curr' = next[curr]
      /\ next \in [Nodes -> Links]
      /\ UNCHANGED <<key, live, put, prev_node>>
  BY DEF SumUnlink, Inv, TypeOK
<1>2. PICK c \in 1 .. len : curr = s[c] /\ (prev_node = NoNode \/ (c > 1 /\ prev_node = s[c - 1]))
  BY <1>1 DEF ListInv, WalkInv
<1>3. /\ \A i, j \in 1 .. len : s[i] = s[j] => i = j
      /\ \A i \in 1 .. len : /\ next[s[i]] = IF i = len THEN NoNode ELSE s[i + 1]
                             /\ s[i] \in live /\ s[i] \in Nodes
      /\ table = IF len = 0 THEN NoNode ELSE s[1]
      /\ \A i, j \in 1 .. len : key[s[i]] = key[s[j]] => i = j
  BY DEF ListInv, ListIs, KeysDiffer
<1>4. \A l, t : SearchInv(l, t)'
  <2>1. \A q \in Putters : put'[q].pc \notin {"search", "link", "node"}
    BY <1>1 DEF Inv, HolderInv
  <2> QED BY <2>1 DEF SearchInv, At
<1>0. ASSUME NEW l \in Nat, NEW t \in [1 .. l -> Nodes], ListIs(l, t)'
      PROVE  AllListed(l, t)'
  BY <1>0, DroppedListed
<1>5. CASE prev_node = NoNode
  <2> DEFINE s2 == [i \in 1 .. len - c |-> s[i + c]]
  <2>1. /\ len - c \in Nat /\ s2 \in [1 .. len - c -> Nodes]
        /\ \A i \in 1 .. len - c : i + c \in 1 .. len /\ i + c # c /\ s2[i] = s[i + c]
    BY <1>2
  <2> HIDE DEF s2
  <2>2. /\ table' = next[curr] /\ next' = [next EXCEPT ![curr] = NoNode]
    BY <1>5 DEF SumUnlink
  <2>3. next[curr] = IF len - c = 0 THEN NoNode ELSE s2[1]
    BY <1>2, <1>3, <2>1
  <2>4. \A i \in 1 .. len - c : s2[i] # curr /\ next'[s2[i]] = next[s2[i]]
    BY <1>1, <1>2, <1>3, <2>1, <2>2
  <2>5. ListIs(len - c, s2)'
    <3>1. \A i, j \in 1 .. len - c : s2[i] = s2[j] => i = j
      BY <1>2, <1>3, <2>1
    <3>2. ASSUME NEW i \in 1 .. len - c
          PROVE  next'[s2[i]] = IF i = len - c THEN NoNode ELSE s2[i + 1]
      <4>1. next'[s2[i]] = IF i + c = len THEN NoNode ELSE s[(i + c) + 1]
        <5>1. i + c \in 1 .. len /\ next'[s2[i]] = next[s[i + c]]
          BY <2>1, <2>4
        <5> QED BY <1>3, <5>1
      <4>2. i # len - c => s2[i + 1] = s[(i + c) + 1]
        <5>1. i # len - c => i + 1 \in 1 .. len - c /\ (i + 1) + c = (i + c) + 1
          BY <2>1
        <5> QED BY <2>1, <5>1
      <4> QED BY <4>1, <4>2, <2>1
    <3>3. \A i \in 1 .. len - c : s2[i] \in live'
      BY <1>1, <1>3, <2>1
    <3> QED BY <2>2, <2>3, <3>1, <3>2, <3>3 DEF ListIs
  <2>6. KeysDiffer(len - c, s2)'
    BY <1>1, <1>2, <1>3, <2>1 DEF KeysDiffer
  <2>7. WalkInv(len - c, s2)'
    <3>1. CASE len - c = 0
      BY <1>1, <1>5, <2>3, <3>1 DEF WalkInv
    <3>2. CASE len - c # 0
      <4>1. 1 \in 1 .. len - c /\ curr' = s2[1]
        BY <1>1, <2>1, <2>3, <3>2
      <4> QED BY <1>1, <1>5, <4>1 DEF WalkInv
    <3> QED BY <3>1, <3>2
  <2>8. ReleaseInv(len - c, s2)'
    BY <1>1, <1>2, <1>3, <2>4 DEF ReleaseInv
  <2>9. ListInv(len - c, s2)'
    BY <1>0, <1>4, <2>1, <2>5, <2>6, <2>7, <2>8 DEF ListInv
  <2> QED BY <2>1, <2>9
<1>6. CASE prev_node # NoNode
  <2>0. c > 1 /\ c - 1 \in 1 .. len /\ prev_node = s[c - 1] /\ (c - 1) + 1 = c
    BY <1>2, <1>6
  <2> DEFINE s2 == [i \in 1 .. len - 1 |-> IF i < c THEN s[i] ELSE s[i + 1]]
  <2>1. /\ len - 1 \in Nat /\ s2 \in [1 .. len - 1 -> Nodes]
        /\ \A i \in 1 .. len - 1 :
             /\ i < c => i \in 1 .. len /\ s2[i] = s[i]
             /\ i >= c => i + 1 \in 1 .. len /\ i + 1 # c /\ s2[i] = s[i + 1]
    BY <1>2
  <2> HIDE DEF s2
  <2>2. /\ table' = table
        /\ next' = [next EXCEPT ![prev_node] = next[curr], ![curr] = NoNode]
    BY <1>6 DEF SumUnlink
  <2>3. /\ prev_node # curr /\ prev_node \in Nodes /\ curr \in Nodes
        /\ next[curr] = IF c = len THEN NoNode ELSE s[c + 1]
    BY <1>2, <1>3, <2>0
  <2>4. /\ next'[prev_node] = next[curr]
        /\ \A n \in Nodes \ {prev_node, curr} : next'[n] = next[n]
    BY <1>1, <2>2, <2>3
  <2>5. \A i \in 1 .. len - 1 : s2[i] # curr
    BY <1>2, <1>3, <2>1
  <2>6. ListIs(len - 1, s2)'
    <3>1. ASSUME NEW i \in 1 .. len - 1, NEW j \in 1 .. len - 1, s2[i] = s2[j]
          PROVE  i = j
      <4>1. CASE i < c /\ j < c
        BY <1>3, <2>1, <3>1, <4>1
      <4>2. CASE i < c /\ j >= c
        <5>1. i \in 1 .. len /\ j + 1 \in 1 .. len /\ s[i] = s[j + 1] /\ i # j + 1
          BY <1>2, <2>1, <3>1, <4>2
        <5> QED BY <1>3, <5>1
      <4>3. CASE i >= c /\ j < c
        <5>1. j \in 1 .. len /\ i + 1 \in 1 .. len /\ s[j] = s[i + 1] /\ j # i + 1
          BY <1>2, <2>1, <3>1, <4>3
        <5> QED BY <1>3, <5>1
      <4>4. CASE i >= c /\ j >= c
        <5>1. i + 1 \in 1 .. len /\ j + 1 \in 1 .. len /\ s[i + 1] = s[j + 1]
          BY <2>1, <3>1, <4>4
        <5>2. i + 1 = j + 1
          BY <1>3, <5>1
        <5> QED BY <5>2
      <4> QED BY <1>2, <4>1, <4>2, <4>3, <4>4
    <3>2. table' = IF len - 1 = 0 THEN NoNode ELSE s2[1]
      <4>1. len - 1 # 0 /\ 1 \in 1 .. len - 1 /\ len # 0
        BY <1>2, <2>0
      <4> QED BY <1>3, <2>0, <2>1, <2>2, <4>1
    <3>3. ASSUME NEW i \in 1 .. len - 1
          PROVE  next'[s2[i]] = IF i = len - 1 THEN NoNode ELSE s2[i + 1]
      <4>1. CASE i < c - 1
        <5>1. i \in 1 .. len /\ i + 1 \in 1 .. len - 1 /\ i + 1 < c /\ i < c /\ i # len
              /\ i # c - 1 /\ i # len - 1
          BY <1>2, <2>0, <4>1
        <5>2. s2[i] = s[i] /\ s2[i + 1] = s[i + 1]
          BY <2>1, <5>1
        <5>3. s[i] \in Nodes \ {prev_node, curr}
          BY <1>2, <1>3, <2>0, <5>1
        <5> QED BY <1>3, <2>4, <5>1, <5>2, <5>3
      <4>2. CASE i = c - 1
        <5>1. i < c /\ s2[i] = prev_node
          BY <2>0, <2>1, <4>2
        <5>2. i # len - 1 => i + 1 \in 1 .. len - 1 /\ i + 1 >= c /\ (i + 1) + 1 = c + 1
          BY <2>0, <4>2
        <5>3. i = len - 1 <=> c = len
          BY <2>0, <4>2
        <5> QED BY <2>1, <2>3, <2>4, <5>1, <5>2, <5>3
      <4>3. CASE i >= c
        <5>1. i + 1 \in 1 .. len /\ i + 1 # c /\ i + 1 # c - 1 /\ s2[i] = s[i + 1]
          BY <2>0, <2>1, <4>3
        <5>2. s[i + 1] \in Nodes \ {prev_node, curr}
          BY <1>2, <1>3, <2>0, <5>1
        <5>3. next'[s2[i]] = IF i + 1 = len THEN NoNode ELSE s[(i + 1) + 1]
          BY <1>3, <2>4, <5>1, <5>2
        <5>4. i # len - 1 => i + 1 \in 1 .. len - 1 /\ i + 1 >= c
          BY <4>3
        <5> QED BY <2>1, <5>3, <5>4
      <4> QED BY <2>0, <4>1, <4>2, <4>3
    <3>4. \A i \in 1 .. len - 1 : s2[i] \in live'
      BY <1>1, <1>2, <1>3, <2>1
    <3> QED BY <3>1, <3>2, <3>3, <3>4 DEF ListIs
  <2>7. KeysDiffer(len - 1, s2)'
    BY <1>1, <1>2, <1>3, <2>1 DEF KeysDiffer
  <2>8. WalkInv(len - 1, s2)'
    <3>1. c - 1 \in 1 .. len - 1 /\ s2[c - 1] = prev_node
      BY <1>2, <2>0, <2>1
    <3>2. CASE c = len
      <4>1. curr' = NoNode /\ prev_node' = s2[len - 1] /\ len - 1 > 0
        BY <1>1, <2>0, <2>3, <3>1, <3>2
      <4> QED BY <1>1, <4>1 DEF WalkInv
    <3>3. CASE c # len
      <4>1. c \in 1 .. len - 1 /\ curr' = s2[c] /\ c > 1 /\ prev_node' = s2[c - 1]
        BY <1>1, <1>2, <2>0, <2>1, <2>3, <3>1, <3>3
      <4> QED BY <4>1 DEF WalkInv
    <3> QED BY <3>2, <3>3
  <2>9. ReleaseInv(len - 1, s2)'
    BY <1>1, <1>2, <1>3, <2>5 DEF ReleaseInv
  <2>10. ListInv(len - 1, s2)'
    BY <1>0, <1>4, <2>1, <2>6, <2>7, <2>8, <2>9 DEF ListInv
  <2> QED BY <2>1, <2>10
<1> QED BY <1>5, <1>6

(* An eviction keeps the rest of the invariant too.                        *)
LEMMA SumUnlinkInv == Inv /\ SumUnlink => Inv'
<1> SUFFICES ASSUME Inv, SumUnlink PROVE Inv'
  OBVIOUS
<1> USE HashTableAssumption
<1>1. /\ spc = "unlink" /\ spc' = "free" /\ node_to_release' = curr /\ curr' = next[curr]
      /\ ht_mutex' = Nobody
      /\ UNCHANGED <<key, live, lost_slots, broken, node_lock, put, prev_node, stale, upload, stolen>>
      /\ dropped' = dropped \cup ((live \cap InList) \ (InList' \cup {curr}))
  BY DEF SumUnlink
<1>2. TypeOK'
  <2>1. curr \in Nodes /\ next \in [Nodes -> Links] /\ next[curr] \in Links
    BY <1>1 DEF Inv, TypeOK, Links
  <2>2. table' \in Links /\ next' \in [Nodes -> Links]
    BY <2>1 DEF SumUnlink, Inv, TypeOK, Links
  <2> QED BY <1>1, <2>1, <2>2 DEF Inv, TypeOK
<1>3. ASSUME ~stolen PROVE HolderInv' /\ UpdateInv'
  BY <1>1, <1>3 DEF Inv, HolderInv, UpdateInv, At
<1> QED BY <1>1, <1>2, <1>3, UnlinkList DEF Inv

(* A row that is freed is locked by the summary thread: no worker updates  *)
(* it. The history thread changes nothing.                                 *)
LEMMA SumFreeInv == Inv /\ SumFree => Inv'
<1> SUFFICES ASSUME Inv, SumFree PROVE Inv'
  OBVIOUS
<1> USE HashTableAssumption
<1> DEFINE n == node_to_release
<1>1. /\ spc = "free" /\ spc' = "visit" /\ live' = live \ {n} /\ stale' = stale \ {n}
      /\ node_lock' = [node_lock EXCEPT ![n] = Nobody]
      /\ lost_slots' \in {lost_slots, lost_slots \cup {n}}
      /\ UNCHANGED <<table, next, key, dropped, broken, ht_mutex, put, curr, prev_node,
                     node_to_release, upload, stolen>>
  BY DEF SumFree
<1>2. TypeOK'
  <2>1. n \in Links /\ Nodes \subseteq Links
    BY DEF Inv, TypeOK, Links
  <2>2. lost_slots' \subseteq Nodes
    BY <1>1, <2>1 DEF Inv, TypeOK, Links
  <2> QED BY <1>1, <2>2 DEF Inv, TypeOK
<1>3. ASSUME ~stolen PROVE HolderInv' /\ UpdateInv'
  <2>1. HolderInv'
    BY <1>1, <1>3 DEF Inv, HolderInv
  <2>2. ASSUME NEW q \in Putters, put[q].pc = "update"
        PROVE  /\ put[q].node \in live' /\ key[put[q].node] = put[q].key
               /\ node_lock'[put[q].node] = q
    <3>1. /\ put[q].node \in live /\ key[put[q].node] = put[q].key
          /\ node_lock[put[q].node] = q
      BY <1>3, <2>2 DEF Inv, UpdateInv, At
    <3>2. put[q].node # n
      BY <1>1, <1>3, <3>1 DEF Inv, HolderInv
    <3> QED BY <1>1, <3>1, <3>2 DEF Inv, TypeOK
  <2>3. UpdateInv'
    BY <1>1, <2>2 DEF UpdateInv, At
  <2> QED BY <2>1, <2>3
<1>4. ASSUME NEW len \in Nat, NEW s \in [1 .. len -> Nodes], ListInv(len, s)
      PROVE  ListInv(len, s)'
  <2>1. ListIs(len, s)'
    BY <1>1, <1>4 DEF ListInv, ListIs, ReleaseInv
  <2>2. WalkInv(len, s)'
    BY <1>1, <1>4 DEF ListInv, WalkInv
  <2>3. AllListed(len, s)'
    BY <1>1, <1>4 DEF ListInv, AllListed
  <2> QED BY <1>1, <1>4, <2>1, <2>2, <2>3 DEF ListInv, KeysDiffer, SearchInv, ReleaseInv, At
<1> QED BY <1>1, <1>2, <1>3, <1>4 DEF Inv

(* The history thread only reads.                                          *)
LEMMA UploadInv == Inv /\ (UploadStart \/ UploadStep \/ UNCHANGED vars) => Inv'
<1> SUFFICES ASSUME Inv, UploadStart \/ UploadStep \/ UNCHANGED vars PROVE Inv'
  OBVIOUS
<1>1. UNCHANGED <<table, next, key, live, lost_slots, dropped, broken, spc, curr, prev_node,
                  node_to_release, stale, ht_mutex, node_lock, put, stolen>>
  BY DEF UploadStart, UploadStep, vars, listVars, sumVars
<1>2. upload' \in Links
  BY DEF UploadStart, UploadStep, vars, Inv, TypeOK, Links
<1>3. TypeOK'
  BY <1>1, <1>2 DEF Inv, TypeOK
<1>4. ASSUME ~stolen PROVE HolderInv' /\ UpdateInv'
  BY <1>1, <1>4 DEF Inv, HolderInv, UpdateInv, At
<1>5. ASSUME NEW len \in Nat, NEW s \in [1 .. len -> Nodes], ListInv(len, s)
      PROVE  ListInv(len, s)'
  BY <1>1, <1>5 DEF ListInv, ListIs, KeysDiffer, SearchInv, WalkInv, ReleaseInv, AllListed, At
<1> QED BY <1>1, <1>3, <1>4, <1>5 DEF Inv

-----------------------------------------------------------------------------
(* Every step of the system keeps the invariant.                           *)
LEMMA NextInv == Inv /\ [Next]_vars => Inv'
<1> SUFFICES ASSUME Inv, [Next]_vars PROVE Inv'
  OBVIOUS
<1>1. CASE \E p \in Putters, k \in Keys : PutStart(p, k)
  BY <1>1, PutStartInv
<1>2. CASE \E p \in Putters : PutStep(p)
  BY <1>2, PutSearchInv, PutRowInv, PutLinkInv, PutFreesSlotInv DEF PutStep
<1>3. CASE \E aged \in SUBSET (IF Ageing THEN live ELSE {}) : SumStart(aged)
  <2>1. PICK aged \in SUBSET live : SumStart(aged)
    BY <1>3
  <2> QED BY <2>1, SumStartInv
<1>4. CASE SumStep
  BY <1>4, SumWalkInv, SumUnlinkInv, SumFreeInv DEF SumStep
<1>5. CASE UploadStart \/ UploadStep \/ UNCHANGED vars
  BY <1>5, UploadInv
<1> QED BY <1>1, <1>2, <1>3, <1>4, <1>5 DEF Next

(* The invariant holds in every behaviour.                                 *)
LEMMA SpecInv == Spec => []Inv
<1> QED BY InitInv, NextInv, PTL DEF Spec

-----------------------------------------------------------------------------
(* What the variables hold, always.                                        *)
THEOREM TypeCorrect == Spec => []TypeOK
<1>1. Inv => TypeOK
  BY DEF Inv
<1> QED BY <1>1, SpecInv, PTL

(* ListSound: evictions, insertions and readings leave a list that ends    *)
(* and has no freed node in it.                                            *)
THEOREM ListStaysSound == Spec => []ListSound
<1>1. Inv => ListSound
  <2> SUFFICES ASSUME Inv, ~stolen
               PROVE  NodeAt[Cardinality(Nodes)] = NoNode /\ InList \subseteq live
    BY DEF ListSound
  <2>1. PICK len \in Nat : \E s \in [1 .. len -> Nodes] : ListInv(len, s)
    BY DEF Inv
  <2>2. PICK s \in [1 .. len -> Nodes] : ListIs(len, s)
    BY <2>1 DEF ListInv
  <2>3. InList \subseteq live
    <3>1. \A n \in InList : \E i \in 1 .. len : n = s[i]
      BY <2>2, InListIs
    <3> QED BY <2>2, <3>1 DEF ListIs
  <2> QED BY <2>2, <2>3, InListIs
<1> QED BY <1>1, SpecInv, PTL

(* OneNodePerObject: of the nodes that are allocated, in the list or not,  *)
(* no two are of one object, whatever the order of the workers and of the  *)
(* evictions; but for a node that is being freed, and for nodes that an    *)
(* eviction has dropped from the list beside its own.                      *)
THEOREM KeysStayUnique == Spec => []OneNodePerObject
<1>1. Inv => OneNodePerObject
  <2> SUFFICES ASSUME Inv, ~stolen,
                      NEW m \in live \ (dropped \cup Released),
                      NEW n \in live \ (dropped \cup Released), key[m] = key[n]
               PROVE  m = n
    BY DEF OneNodePerObject
  <2>1. PICK len \in Nat : \E s \in [1 .. len -> Nodes] : ListInv(len, s)
    BY DEF Inv
  <2>2. PICK s \in [1 .. len -> Nodes] : KeysDiffer(len, s) /\ AllListed(len, s)
    BY <2>1 DEF ListInv
  <2>3. (\E i \in 1 .. len : m = s[i]) /\ (\E i \in 1 .. len : n = s[i])
    BY <2>2 DEF AllListed, Released
  <2> QED BY <2>2, <2>3 DEF KeysDiffer
<1> QED BY <1>1, SpecInv, PTL

(* ReadingGoesToItsObject: the row a worker writes, with ht_mutex released *)
(* already, is still allocated and still that of the object it looked up.  *)
THEOREM ReadingsFindTheirRow == Spec => []ReadingGoesToItsObject
<1>1. Inv => ReadingGoesToItsObject
  BY DEF Inv, UpdateInv, ReadingGoesToItsObject
<1> QED BY <1>1, SpecInv, PTL

-----------------------------------------------------------------------------
(***************************************************************************)
(* The other half of src/src/HashTable.c, the array of the hashtables:     *)
(* AreaTable, for any workers, summary threads and areas, and whether a    *)
(* realloc moves the array or not.                                         *)
(***************************************************************************)
Count == next_index_area_table
Size == area_table_max_size
Creating == {"double", "repoint", "clear", "publish", "fill"}

\* The lock has the holder that the positions of the workers tell; whoever
\* has begun a lookup has an area.
ArrayLockInv ==
  \A w \in Workers :
    /\ at[w] \in {"search", "unlock"} \cup Creating <=> area_table_lock = w
    /\ at[w] # "idle" => area[w] \in Areas

\* The length of the array, and that there is room to write in it.
SizeInv ==
  /\ (\A w \in Workers : at[w] # "double") => Len(slots) = Size
  /\ \A w \in Workers :
       /\ at[w] = "double" => Len(slots) = 2 * Size
       /\ at[w] \in Creating \ {"double"} => Count < Size

\* The elements below Count have different areas, and each its hashtable, or
\* none for want of memory.
UsedInv ==
  /\ \A m \in 0 .. Count - 1 : Slot(m).id \in Areas /\ Slot(m).hash \in {NULL, m + 1}
  /\ \A m, n \in 0 .. Count - 1 : Slot(m).id = Slot(n).id => m = n

\* The others have no hashtable, and no id either, but for memory not yet
\* cleared and the element that is being filled.
UnusedInv ==
  \A m \in Count .. Len(slots) - 1 :
    /\ Slot(m).hash = NULL
    /\ Slot(m).id # 0 =>
         \/ /\ Slot(m) = Garbage
            /\ \E w \in Workers : at[w] \in {"double", "repoint", "clear"}
         \/ m = Count /\ \E w \in Workers : at[w] = "fill" /\ Slot(m).id = area[w]

\* Whoever creates a hashtable has found none for its area.
NewInv ==
  \A w \in Workers : at[w] \in Creating =>
    /\ \A m \in 0 .. Count - 1 : Slot(m).id # area[w]
    /\ at[w] = "fill" => Slot(Count).id = area[w]

TablesInv == UsedInv /\ UnusedInv /\ NewInv /\ LookupIsRight

ArrayInv ==
  /\ AreaTypeOK /\ ArrayLockInv /\ SizeInv
  /\ 0 \notin Areas => TablesInv

ArrayPlaces == {"idle", "scan", "read", "lock", "search", "double", "repoint",
           "clear", "publish", "fill", "unlock", "load", "summary", "busy", "upload", "wild"}
Element == [id : Areas \cup {0, NoArea}, hash : Nat]

-----------------------------------------------------------------------------
(* At the start there are only empty elements.                             *)
LEMMA ArrayInitInv == ASSUME AreaInit PROVE ArrayInv
<1> USE AreaTableAssumption DEF AreaInit
<1> DEFINE M == INITIAL_AREA_TABLE_MAX_SIZE
<1>1. /\ M \in Nat \ {0} /\ slots = [n \in 1 .. M |-> Empty]
      /\ Empty \in Element /\ Empty.id = 0 /\ Empty.hash = 0
  BY DEF Empty, Element, NULL
<1>2. slots \in Seq(Element) /\ Len(slots) = M
  <2>1. slots \in [1 .. M -> Element]
    BY <1>1
  <2> QED BY <1>1, <2>1, SeqDef
<1>3. AreaTypeOK
  BY <1>1, <1>2 DEF AreaTypeOK, Element, NULL
<1>4. ArrayLockInv /\ SizeInv
  BY <1>1, <1>2 DEF ArrayLockInv, SizeInv, Creating, NoWorker, Count, Size, AreaThreads
<1>5. TablesInv
  <2>1. \A m \in 0 .. M - 1 : Slot(m) = Empty
    BY <1>1 DEF Slot
  <2> QED BY <1>1, <1>2, <2>1
       DEF TablesInv, UsedInv, UnusedInv, NewInv, LookupIsRight, Creating, Count,
           NULL, AreaThreads
<1> QED BY <1>3, <1>4, <1>5 DEF ArrayInv

(* The types of the array, and those of the threads, apart.                *)
ArrayOK ==
  /\ block \in Nat /\ freed \subseteq 0 .. block
  /\ slots \in Seq(Element)
  /\ Size \in Nat \ {0} /\ Count \in 0 .. Size
  /\ Len(slots) \in {Size, 2 * Size}

ThreadsOK ==
  /\ area_table_lock \in Workers \cup {NoWorker}
  /\ at \in [AreaThreads -> ArrayPlaces]
  /\ area \in [Workers -> Areas \cup {NoArea}]
  /\ area_i \in [AreaThreads -> Nat] /\ base \in [AreaThreads -> 0 .. block]
  /\ h_table \in [Workers -> Nat]
  /\ left \in [Summarizers -> 0 .. number_areas_per_summary_thread]
  /\ served \in [Summarizers -> Areas \cup {0, NoArea}]

(* The type invariant is these two.                                        *)
LEMMA TypesApart ==
  /\ (AreaTypeOK <=> ArrayOK /\ ThreadsOK)
  /\ (AreaTypeOK' <=> ArrayOK' /\ ThreadsOK')
  BY DEF AreaTypeOK, ArrayOK, ThreadsOK, ArrayPlaces, Element, Size, Count

(* An element that can be read is an element of the array.                 *)
LEMMA ElementAt ==
  ASSUME AreaTypeOK, NEW t \in AreaThreads, ~Undefined(t)
  PROVE  area_i[t] \in Nat /\ area_i[t] < Len(slots) /\ Slot(area_i[t]) \in Element
<1>1. slots \in Seq(Element) /\ Len(slots) \in Nat /\ area_i[t] \in Nat
  BY TypesApart DEF ArrayOK, ThreadsOK
<1>2. area_i[t] < Len(slots)
  BY <1>1 DEF Undefined
<1>3. area_i[t] + 1 \in 1 .. Len(slots)
  BY <1>1, <1>2
<1>4. slots[area_i[t] + 1] \in Element
  BY <1>1, <1>3, ElementOfSeq
<1> QED BY <1>1, <1>2, <1>4 DEF Slot

(* A step that leaves the array as it is, and whoever is creating.         *)
LEMMA ArrayKept ==
  ASSUME ArrayInv, UNCHANGED <<slots, area_table_max_size, next_index_area_table>>,
         \A w \in Workers : at[w] \in Creating \/ at'[w] \in Creating =>
                              at'[w] = at[w] /\ area'[w] = area[w]
  PROVE  SizeInv' /\ (0 \notin Areas => UsedInv' /\ UnusedInv' /\ NewInv')
<1>1. SizeInv'
  BY DEF ArrayInv, SizeInv, Creating, Size, Count
<1>2. ASSUME 0 \notin Areas PROVE UsedInv'
  BY <1>2 DEF ArrayInv, TablesInv, UsedInv, Count, Slot
<1>3. ASSUME 0 \notin Areas PROVE UnusedInv'
  BY <1>3 DEF ArrayInv, TablesInv, UnusedInv, Count, Slot, Creating
<1>4. ASSUME 0 \notin Areas PROVE NewInv'
  BY <1>4 DEF ArrayInv, TablesInv, NewInv, Count, Slot, Creating
<1> QED BY <1>1, <1>2, <1>3, <1>4

(* The steps of a lookup without the lock, and those that take and release *)
(* it.                                                                     *)
LEMMA LookupStepInv ==
  ASSUME ArrayInv, NEW w \in Workers,
         \/ \E a \in Areas : Lookup(w, a)
         \/ Scan(w) \/ Read(w) \/ Lock(w) \/ Unlock(w)
  PROVE  ArrayInv'
<1> USE AreaTableAssumption DEF arrayVars, summaryVars, GoTo, AreaThreads, NoWorker
<1>1. UNCHANGED arrayVars /\ UNCHANGED summaryVars
  BY DEF Lookup, Scan, Read, Lock, Unlock
<1>2. at \in [AreaThreads -> ArrayPlaces] /\ area \in [Workers -> Areas \cup {NoArea}]
  BY DEF ArrayInv, AreaTypeOK, ArrayPlaces
<1>3. \A v \in Workers : at[v] \in Creating \/ at'[v] \in Creating =>
                           at'[v] = at[v] /\ area'[v] = area[v]
  BY <1>2 DEF Lookup, Scan, Read, Lock, Unlock, Creating
<1>a. ArrayOK' /\ ThreadsOK /\ block \in 0 .. block
  BY <1>1, TypesApart DEF ArrayInv, ArrayOK, Size, Count
<1>4. SizeInv' /\ (0 \notin Areas => UsedInv' /\ UnusedInv' /\ NewInv')
  BY <1>1, <1>3, ArrayKept
<1>5. CASE \E a \in Areas : Lookup(w, a)
  <2>1. AreaTypeOK'
    BY <1>1, <1>a, <1>5, TypesApart DEF ThreadsOK, ArrayPlaces, Lookup, NULL
  <2>2. ArrayLockInv'
    BY <1>1, <1>2, <1>5 DEF ArrayInv, ArrayLockInv, Lookup, Creating
  <2>3. ASSUME 0 \notin Areas PROVE LookupIsRight'
    BY <1>1, <1>2, <1>5, <2>3 DEF ArrayInv, AreaTypeOK, TablesInv, LookupIsRight,
       Lookup, Slot
  <2> QED BY <1>4, <2>1, <2>2, <2>3 DEF ArrayInv, TablesInv
<1>6. CASE Scan(w)
  <2>1. AreaTypeOK'
    BY <1>1, <1>a, <1>6, TypesApart DEF ThreadsOK, ArrayPlaces, Scan
  <2>2. ArrayLockInv'
    BY <1>1, <1>2, <1>6 DEF ArrayInv, ArrayLockInv, Scan, Creating
  <2>3. ASSUME 0 \notin Areas PROVE LookupIsRight'
    BY <1>1, <1>6, <2>3 DEF ArrayInv, TablesInv, LookupIsRight, Scan, Slot
  <2> QED BY <1>4, <2>1, <2>2, <2>3 DEF ArrayInv, TablesInv
<1>7. CASE Read(w)
  <2>0. area_i[w] \in Nat /\ area_i[w] < Len(slots) /\ Slot(area_i[w]) \in Element
    BY <1>7, ElementAt DEF ArrayInv, Read
  <2>1. AreaTypeOK'
    <3>1. area_i[w] + 1 \in Nat /\ Slot(area_i[w]).hash \in Nat
      BY <2>0 DEF Element
    <3> QED BY <1>1, <1>a, <1>7, <3>1, TypesApart DEF ThreadsOK, ArrayPlaces, Read
  <2>2. ArrayLockInv'
    BY <1>1, <1>2, <1>7 DEF ArrayInv, ArrayLockInv, Read, Creating
  <2>3. ASSUME 0 \notin Areas PROVE LookupIsRight'
    <3>1. ASSUME NEW v \in Workers, h_table'[v] # NULL
          PROVE  \E n \in 0 .. Count - 1 : Slot(n) = [id |-> area[v], hash |-> h_table'[v]]
      <4>1. CASE h_table'[v] = h_table[v]
        BY <2>3, <3>1, <4>1 DEF ArrayInv, TablesInv, LookupIsRight, Count
      <4>2. CASE h_table'[v] # h_table[v]
        <5>1. v = w /\ h_table'[w] = Slot(area_i[w]).hash
              /\ Slot(area_i[w]).id = area[w]
          BY <1>7, <4>2 DEF ArrayInv, AreaTypeOK, Read, Mine
        <5>2. area_i[w] \in 0 .. Count - 1
          <6>1. UnusedInv /\ Slot(area_i[w]).hash # NULL
            BY <2>3, <3>1, <5>1 DEF ArrayInv, TablesInv
          <6>2. Count \in Nat /\ Len(slots) \in Nat
            BY LenProperties, TypesApart DEF ArrayInv, ArrayOK
          <6>3. ~(Count <= area_i[w])
            BY <2>0, <6>1, <6>2 DEF UnusedInv
          <6> QED BY <2>0, <6>2, <6>3
        <5> QED BY <2>0, <5>1, <5>2 DEF Element
      <4> QED BY <4>1, <4>2
    <3> QED BY <1>1, <1>7, <3>1 DEF LookupIsRight, Read, Count, Slot
  <2> QED BY <1>4, <2>1, <2>2, <2>3 DEF ArrayInv, TablesInv
<1>8. CASE Lock(w) \/ Unlock(w)
  <2>1. AreaTypeOK'
    BY <1>1, <1>a, <1>8, TypesApart DEF ThreadsOK, ArrayPlaces, Lock, Unlock
  <2>2. ArrayLockInv'
    BY <1>1, <1>2, <1>8 DEF ArrayInv, ArrayLockInv, Lock, Unlock, Creating
  <2>3. ASSUME 0 \notin Areas PROVE LookupIsRight'
    BY <1>1, <1>8, <2>3 DEF ArrayInv, TablesInv, LookupIsRight, Lock, Unlock,
                            Slot
  <2> QED BY <1>4, <2>1, <2>2, <2>3 DEF ArrayInv, TablesInv
<1> QED BY <1>5, <1>6, <1>7, <1>8

(* A summary thread only reads, and so does any thread that reads what is  *)
(* not defined.                                                            *)
LEMMA ReaderStepInv ==
  ASSUME ArrayInv, \/ \E t \in AreaThreads : ReadUndefined(t)
              \/ \E t \in Summarizers : SummarizerStep(t)
  PROVE  ArrayInv'
<1> USE AreaTableAssumption DEF arrayVars, summaryVars, GoTo, AreaThreads
<1>1. UNCHANGED <<arrayVars, area_table_lock, area, h_table>>
  BY DEF SummarizerStep, Traverse, Visit, VisitSlot, LoadAgain, Summary, Upload,
         ReadUndefined
<1>2. ArrayOK /\ ArrayOK' /\ ThreadsOK
  BY <1>1, TypesApart DEF ArrayInv, ArrayOK, Size, Count
<1>3. \A v \in Workers :
        at'[v] = at[v] \/ (at[v] \in {"read", "summary", "upload"}
                           /\ at'[v] \in {"wild", "lock", "scan"})
  <2>1. ASSUME NEW t \in AreaThreads, ReadUndefined(t), NEW v \in Workers
        PROVE  at'[v] = at[v] \/ (at[v] \in {"read", "summary", "upload"}
                                  /\ at'[v] \in {"wild", "lock", "scan"})
    <3>1. /\ at[t] \in {"read", "summary", "upload"}
          /\ \/ at' = [at EXCEPT ![t] = "wild"]
             \/ at' = [at EXCEPT ![t] = IF t \in Workers THEN "lock" ELSE "scan"]
             \/ at' = [at EXCEPT ![t] = "scan"]
             \/ t \in Summarizers /\ at' = [at EXCEPT ![t] = "load"]
      BY <2>1 DEF ReadUndefined
    <3>2. at \in [AreaThreads -> ArrayPlaces]
      BY <1>2 DEF ThreadsOK
    <3>3. v = t => t \notin Summarizers
      OBVIOUS
    <3> QED BY <3>1, <3>2, <3>3
  <2>2. ASSUME NEW t \in Summarizers, SummarizerStep(t), NEW v \in Workers
        PROVE  at'[v] = at[v]
    <3>1. \E l \in ArrayPlaces : at' = [at EXCEPT ![t] = l] \/ at' = at
      BY <2>2 DEF ArrayPlaces, SummarizerStep, Traverse, Visit,
                  VisitSlot, LoadAgain, Summary, Upload
    <3>2. at \in [AreaThreads -> ArrayPlaces] /\ v # t
      BY <1>2 DEF ThreadsOK
    <3> QED BY <3>1, <3>2
  <2> QED BY <2>1, <2>2 DEF SummarizerStep
<1>4. SizeInv' /\ (0 \notin Areas => UsedInv' /\ UnusedInv' /\ NewInv')
  <2>1. \A v \in Workers : at[v] \in Creating \/ at'[v] \in Creating =>
                             at'[v] = at[v] /\ area'[v] = area[v]
    BY <1>1, <1>3 DEF Creating
  <2> QED BY <1>1, <2>1, ArrayKept
<1>5. AreaTypeOK'
  <2> SUFFICES ThreadsOK'
    BY <1>2, TypesApart
  <2>1. ASSUME NEW t \in AreaThreads, ReadUndefined(t) PROVE ThreadsOK'
    <3>1. /\ UNCHANGED <<base, summaryVars>>
          /\ \E l \in ArrayPlaces : at' = [at EXCEPT ![t] = l]
          /\ area_i' = area_i \/ area_i' = [area_i EXCEPT ![t] = @ + 1]
      BY <2>1 DEF ReadUndefined, ArrayPlaces
    <3>2. area_i' \in [AreaThreads -> Nat] /\ at' \in [AreaThreads -> ArrayPlaces]
      BY <1>2, <3>1 DEF ThreadsOK
    <3> QED BY <1>1, <1>2, <3>1, <3>2 DEF ThreadsOK
  <2>2. ASSUME NEW t \in Summarizers, Traverse(t) PROVE ThreadsOK'
    <3>1. StartIndex[t] \in Nat
      OBVIOUS
    <3> QED BY <1>1, <1>2, <2>2, <3>1 DEF ThreadsOK, ArrayPlaces, Traverse
  <2>3. ASSUME NEW t \in Summarizers, Visit(t) PROVE ThreadsOK'
    <3>1. left[t] # 0 => left[t] - 1 \in 0 .. number_areas_per_summary_thread
      BY <1>2 DEF ThreadsOK
    <3>2. block \in 0 .. block
      BY <1>2 DEF ArrayOK
    <3> QED BY <1>1, <1>2, <2>3, <3>1, <3>2 DEF ThreadsOK, ArrayPlaces, Visit
  <2>4. ASSUME NEW t \in Summarizers, VisitSlot(t) PROVE ThreadsOK'
    BY <1>1, <1>2, <2>4 DEF ThreadsOK, ArrayPlaces, VisitSlot
  <2>5. ASSUME NEW t \in Summarizers, LoadAgain(t) PROVE ThreadsOK'
    <3>1. block \in 0 .. block
      BY <1>2 DEF ArrayOK
    <3> QED BY <1>1, <1>2, <2>5, <3>1 DEF ThreadsOK, ArrayPlaces, LoadAgain
  <2>6. ASSUME NEW t \in Summarizers, Summary(t) PROVE ThreadsOK'
    <3>1. Slot(area_i[t]) \in Element
      BY <2>6, ElementAt DEF ArrayInv, Summary
    <3>2. Slot(area_i[t]).id \in Areas \cup {0, NoArea}
      BY <3>1 DEF Element
    <3>3. /\ \E l \in ArrayPlaces : at' = [at EXCEPT ![t] = l]
          /\ served' = [served EXCEPT ![t] = Slot(area_i[t]).id]
          /\ UNCHANGED <<area_i, base, left>>
      BY <2>6 DEF ArrayPlaces, Summary
    <3>4. served' \in [Summarizers -> Areas \cup {0, NoArea}]
      BY <1>2, <3>2, <3>3 DEF ThreadsOK
    <3> QED BY <1>1, <1>2, <3>3, <3>4 DEF ThreadsOK
  <2>7. ASSUME NEW t \in Summarizers, Upload(t) PROVE ThreadsOK'
    BY <1>1, <1>2, <2>7 DEF ThreadsOK, ArrayPlaces, Upload, NextIndex
  <2> QED BY <2>1, <2>2, <2>3, <2>4, <2>5, <2>6, <2>7 DEF SummarizerStep
<1>6. ArrayLockInv'
  BY <1>1, <1>3 DEF ArrayInv, ArrayLockInv, Creating
<1>7. ASSUME 0 \notin Areas PROVE LookupIsRight'
  BY <1>1, <1>7 DEF ArrayInv, TablesInv, LookupIsRight, Slot
<1> QED BY <1>4, <1>5, <1>6, <1>7 DEF ArrayInv, TablesInv

(* Under the lock, before anything is created: what is found is one of the *)
(* first Count elements, or else none of them has the area.                *)
LEMMA KnownIs ==
  ASSUME ArrayInv, 0 \notin Areas, NEW a \in Areas, \A v \in Workers : at[v] \notin Creating
  PROVE  /\ \A h \in Known(a) : h \in Nat /\ \E n \in 0 .. Count - 1 :
            Slot(n) = [id |-> a, hash |-> h]
         /\ Known(a) = {} => \A n \in 0 .. Count - 1 : Slot(n).id # a
<1>1. /\ slots \in Seq(Element) /\ Len(slots) = Size
      /\ Size \in Nat \ {0} /\ Count \in 0 .. Size
  BY TypesApart DEF ArrayInv, ArrayOK, SizeInv, Creating
<1>2. \A m \in 0 .. Size - 1 : Slot(m) \in Element
  BY <1>1, ElementOfSeq DEF Slot
<1>3. ASSUME NEW h \in Known(a)
      PROVE  h \in Nat /\ \E n \in 0 .. Count - 1 : Slot(n) = [id |-> a, hash |-> h]
  <2>1. PICK m \in 0 .. Size - 1 : Slot(m).hash = h /\ Slot(m).id = a
    BY DEF Known, Size
  <2>2. m \in 0 .. Count - 1
    BY <1>1, <2>1 DEF ArrayInv, TablesInv, UnusedInv, Creating
  <2> QED BY <1>2, <2>1, <2>2 DEF Element
<1>4. ASSUME NEW n \in 0 .. Count - 1, Slot(n).id = a PROVE Known(a) # {}
  <2>1. n \in 0 .. Size - 1 /\ \A k \in 0 .. n : Slot(k).id # 0
    BY <1>1 DEF ArrayInv, TablesInv, UsedInv
  <2>2. Slot(n).hash \in Known(a)
    BY <1>4, <2>1 DEF Known, Size
  <2> QED BY <2>2
<1> QED BY <1>3, <1>4

HolderStep(w) ==
  Search(w) \/ Double(w) \/ Repoint(w) \/ Clear(w) \/ Publish(w)
  \/ Fill(w)

(* What all the steps of the worker that has the lock have in common.      *)
LEMMA HolderFacts ==
  ASSUME ArrayInv, NEW w \in Workers, HolderStep(w)
  PROVE  /\ ArrayOK /\ ThreadsOK /\ SizeInv
         /\ Size \in Nat \ {0} /\ Count \in 0 .. Size /\ block \in Nat /\ area[w] \in Areas
         /\ slots \in Seq(Element) /\ Len(slots) \in Nat
         /\ \A v \in Workers : v # w => at[v] \notin Creating /\ at'[v] \notin Creating
         /\ at'[w] \in {"unlock"} \cup Creating
         /\ UNCHANGED <<area_table_lock, area>>
         /\ ArrayLockInv'
         /\ h_table' \in [Workers -> Nat] /\ block' \in Nat /\ block <= block' => ThreadsOK'
<1> USE AreaTableAssumption DEF arrayVars, summaryVars, GoTo, AreaThreads, NoWorker
<1>1. ArrayOK /\ ThreadsOK /\ ArrayLockInv /\ SizeInv
  BY TypesApart DEF ArrayInv
<1>2. /\ at \in [AreaThreads -> ArrayPlaces] /\ w \in AreaThreads
      /\ Size \in Nat \ {0} /\ Count \in 0 .. Size /\ block \in Nat
      /\ slots \in Seq(Element) /\ Len(slots) \in Nat
  BY <1>1 DEF ArrayOK, ThreadsOK
<1>3. at[w] \in {"search"} \cup Creating
  BY DEF HolderStep, Creating, Search, Double, Repoint, Clear,
         Publish, Fill
<1>4. /\ area_table_lock = w /\ area[w] \in Areas
      /\ \A v \in Workers \ {w} : at[v] \notin {"search", "unlock"} \cup Creating
  BY <1>1, <1>3 DEF ArrayLockInv, Creating
<1>5. UNCHANGED <<area_table_lock, area, area_i, base, summaryVars>>
  BY DEF HolderStep, Search, Double, Repoint, Clear, Publish,
         Fill
<1>6. PICK l \in {"unlock"} \cup Creating : at' = [at EXCEPT ![w] = l]
  BY DEF HolderStep, Search, Double, Repoint, Clear, Publish,
         Fill, Creating
<1>7. /\ at'[w] = l /\ \A t \in AreaThreads \ {w} : at'[t] = at[t]
      /\ at' \in [AreaThreads -> ArrayPlaces]
  BY <1>2, <1>6 DEF Creating, ArrayPlaces
<1>8. ArrayLockInv'
  BY <1>1, <1>3, <1>4, <1>5, <1>7 DEF ArrayLockInv, Creating
<1>9. ASSUME h_table' \in [Workers -> Nat], block' \in Nat, block <= block' PROVE ThreadsOK'
  <2>1. base \in [AreaThreads -> 0 .. block']
    <3>1. 0 .. block \subseteq 0 .. block'
      BY <1>2, <1>9
    <3>2. base \in [AreaThreads -> 0 .. block]
      BY <1>1 DEF ThreadsOK
    <3> QED BY <3>1, <3>2
  <2> QED BY <1>1, <1>5, <1>7, <1>9, <2>1 DEF ThreadsOK
<1>10. \A v \in Workers : v # w => at[v] \notin Creating /\ at'[v] \notin Creating
  BY <1>4, <1>7
<1> QED BY <1>1, <1>2, <1>4, <1>5, <1>7, <1>8, <1>9, <1>10

(* A realloc puts new elements after the old ones.                         *)
LEMMA Joined ==
  ASSUME NEW S, NEW s \in Seq(S), NEW t \in Seq(S)
  PROVE  s \o t \in Seq(S) /\ Len(s \o t) = Len(s) + Len(t)
<1> QED BY ConcatProperties

(* The search for the area, and the realloc of a full array.               *)
LEMMA SearchStepInv ==
  ASSUME ArrayInv, NEW w \in Workers, Search(w)
  PROVE  ArrayInv'
<1> USE DEF arrayVars, Count, Size
<1>1. at[w] = "search" /\ at \in [AreaThreads -> ArrayPlaces] /\ w \in AreaThreads
      /\ HolderStep(w)
  BY TypesApart DEF ArrayInv, ThreadsOK, Search, HolderStep, AreaThreads
<1>2. /\ ArrayOK /\ ThreadsOK /\ SizeInv
      /\ Size \in Nat \ {0} /\ Count \in 0 .. Size /\ block \in Nat /\ area[w] \in Areas
      /\ slots \in Seq(Element) /\ Len(slots) = Size
      /\ \A v \in Workers : at[v] \notin Creating
      /\ \A v \in Workers : v # w => at'[v] \notin Creating
      /\ ArrayLockInv' /\ UNCHANGED <<area_table_lock, area>>
  BY <1>1, HolderFacts DEF SizeInv, Creating
<1>3. h_table \in [Workers -> Nat]
  BY <1>2 DEF ThreadsOK
<1>4. ASSUME h_table' \in [Workers -> Nat], UNCHANGED block PROVE ThreadsOK'
  BY <1>1, <1>2, <1>4, HolderFacts
<1>5. ASSUME 0 \notin Areas
      PROVE  /\ UsedInv /\ UnusedInv /\ NewInv /\ LookupIsRight
             /\ \A m \in Count .. Size - 1 : Slot(m).id = 0 /\ Slot(m).hash = NULL
             /\ \A h \in Known(area[w]) : h \in Nat /\ \E n \in 0 .. Count - 1 :
                Slot(n) = [id |-> area[w], hash |-> h]
             /\ Known(area[w]) = {} => \A n \in 0 .. Count - 1 : Slot(n).id # area[w]
  <2>1. UsedInv /\ UnusedInv /\ NewInv /\ LookupIsRight
    BY <1>5 DEF ArrayInv, TablesInv
  <2> QED BY <1>2, <1>5, <2>1, KnownIs DEF UnusedInv, Creating
<1>6. Known(area[w]) \subseteq Nat
  <2>1. \A m \in 0 .. Size - 1 : Slot(m) \in Element
    BY <1>2, ElementOfSeq DEF Slot
  <2> QED BY <2>1 DEF Known, Element
<1>7. CASE UNCHANGED arrayVars
  <2>1. ArrayOK'
    BY <1>2, <1>7 DEF ArrayOK
  <2>2. h_table' \in [Workers -> Nat]
    BY <1>3, <1>6 DEF Search
  <2>3. at'[w] \in {"unlock", "publish"}
        /\ (at'[w] = "publish" => Count < Size /\ Known(area[w]) = {})
    BY <1>1, <1>2, <1>7 DEF Search, GoTo, Full
  <2>4. SizeInv'
    BY <1>2, <1>7, <2>3 DEF SizeInv, Creating
  <2>5. ASSUME 0 \notin Areas PROVE TablesInv'
    <3>1. UsedInv' /\ UnusedInv'
      BY <1>2, <1>5, <1>7, <2>5 DEF UsedInv, UnusedInv, Slot
    <3>2. NewInv'
      <4>1. at'[w] = "publish" => \A n \in 0 .. Count - 1 : Slot(n).id # area[w]
        BY <1>5, <2>3, <2>5
      <4> QED BY <1>2, <1>7, <2>3, <4>1 DEF NewInv, Slot, Creating
    <3>3. LookupIsRight'
      <4>1. ASSUME NEW v \in Workers, h_table'[v] # NULL
            PROVE  \E n \in 0 .. Count - 1 : Slot(n) = [id |-> area[v], hash |-> h_table'[v]]
        <5>1. \/ h_table' = h_table
              \/ \E h \in Known(area[w]) : h_table' = [h_table EXCEPT ![w] = h]
          BY DEF Search
        <5>2. CASE h_table'[v] = h_table[v]
          BY <1>5, <2>5, <4>1, <5>2 DEF LookupIsRight
        <5>3. CASE h_table'[v] # h_table[v]
          <6>1. v = w /\ h_table'[w] \in Known(area[w])
            BY <1>3, <5>1, <5>3
          <6> QED BY <1>5, <2>5, <6>1
        <5> QED BY <5>2, <5>3
      <4> QED BY <1>2, <1>7, <4>1 DEF LookupIsRight, Slot
    <3> QED BY <3>1, <3>2, <3>3 DEF TablesInv
  <2> QED BY <1>2, <1>4, <1>7, <2>1, <2>2, <2>4, <2>5, TypesApart DEF ArrayInv
<1>8. CASE /\ Known(area[w]) = {} /\ Full
           /\ slots' = slots \o [n \in 1 .. Size |-> Garbage]
           /\ freed' \in {freed, freed \cup {block}}
           /\ GoTo(w, "double")
           /\ UNCHANGED <<block, area_table_max_size, next_index_area_table, h_table>>
  <2>1. /\ slots' \in Seq(Element) /\ Len(slots') = 2 * Size
        /\ \A m \in 0 .. Size - 1 : Slot(m)' = Slot(m)
        /\ \A m \in Size .. 2 * Size - 1 : Slot(m)' = Garbage
    <3> DEFINE added == [n \in 1 .. Size |-> Garbage]
    <3>1. added \in Seq(Element) /\ Len(added) = Size
      <4>1. added \in [1 .. Size -> Element]
        BY DEF Garbage, Element, NULL
      <4> QED BY <1>2, <4>1, SeqDef
    <3>2. slots' = slots \o added /\ \A n \in 1 .. Size : added[n] = Garbage
      BY <1>8
    <3> HIDE DEF added
    <3>3. /\ slots' \in Seq(Element) /\ Len(slots') = Size + Size
          /\ \A n \in 1 .. Size + Size : slots'[n] = IF n <= Size THEN slots[n] ELSE added[n - Size]
      <4>1. slots \o added \in Seq(Element) /\ Len(slots \o added) = Size + Size
        BY <1>2, <3>1, Joined
      <4>2. \A n \in 1 .. Size + Size : (slots \o added)[n] = IF n <= Size THEN slots[n]
            ELSE added[n - Size]
        BY <1>2, <3>1, ConcatProperties
      <4> QED BY <3>2, <4>1, <4>2
    <3>4. ASSUME NEW m \in 0 .. Size - 1 PROVE Slot(m)' = Slot(m)
      <4>1. m + 1 \in 1 .. Size + Size /\ m + 1 <= Size
        BY <1>2
      <4> QED BY <3>3, <4>1 DEF Slot
    <3>5. ASSUME NEW m \in Size .. 2 * Size - 1 PROVE Slot(m)' = Garbage
      <4>1. PICK n \in 1 .. Size + Size : n = m + 1 /\ ~(n <= Size) /\ n - Size \in 1 .. Size
        BY <1>2
      <4>2. slots'[n] = added[n - Size]
        BY <3>3, <4>1
      <4>3. added[n - Size] = Garbage
        BY <3>2, <4>1
      <4> QED BY <4>1, <4>2, <4>3 DEF Slot
    <3> QED BY <1>2, <3>3, <3>4, <3>5
  <2>2. ArrayOK'
    BY <1>2, <1>8, <2>1 DEF ArrayOK
  <2>3. at'[w] = "double" /\ Count = Size
    BY <1>1, <1>2, <1>8 DEF GoTo, Full
  <2>4. SizeInv'
    BY <1>2, <1>8, <2>1, <2>3 DEF SizeInv, Creating
  <2>5. ASSUME 0 \notin Areas PROVE TablesInv'
    <3>1. UsedInv'
      <4>1. UsedInv
        BY <1>5, <2>5
      <4> QED BY <1>2, <1>8, <2>1, <2>3, <4>1 DEF UsedInv
    <3>2. UnusedInv'
      BY <1>2, <1>8, <2>1, <2>3 DEF UnusedInv, Garbage
    <3>3. NewInv'
      BY <1>2, <1>5, <1>8, <2>1, <2>3, <2>5 DEF NewInv
    <3>4. LookupIsRight'
      BY <1>2, <1>5, <1>8, <2>1, <2>3, <2>5 DEF LookupIsRight
    <3> QED BY <3>1, <3>2, <3>3, <3>4 DEF TablesInv
  <2> QED BY <1>2, <1>3, <1>4, <1>8, <2>2, <2>4, <2>5, TypesApart DEF ArrayInv
<1> QED BY <1>7, <1>8 DEF Search

(* Doubling the size, and the new address of the array.                    *)
LEMMA MoveStepInv ==
  ASSUME ArrayInv, NEW w \in Workers, Double(w) \/ Repoint(w)
  PROVE  ArrayInv'
<1> USE DEF arrayVars, Count, Size
<1>1. at \in [AreaThreads -> ArrayPlaces] /\ w \in AreaThreads /\ HolderStep(w)
  BY TypesApart DEF ArrayInv, ThreadsOK, HolderStep, AreaThreads
<1>2. /\ ArrayOK /\ ThreadsOK /\ SizeInv
      /\ Size \in Nat \ {0} /\ Count \in 0 .. Size /\ block \in Nat /\ Len(slots) \in Nat
      /\ \A v \in Workers : v # w => at[v] \notin Creating /\ at'[v] \notin Creating
      /\ ArrayLockInv' /\ UNCHANGED <<area_table_lock, area>>
  BY <1>1, HolderFacts
<1>3. UNCHANGED <<slots, next_index_area_table, h_table, freed>>
  BY DEF Double, Repoint
<1>4. block' \in Nat /\ block <= block'
  BY <1>2 DEF Double, Repoint
<1>5. ThreadsOK'
  <2>1. h_table' \in [Workers -> Nat]
    BY <1>2, <1>3 DEF ThreadsOK
  <2> QED BY <1>1, <1>4, <2>1, HolderFacts
<1>6. \/ at[w] = "double" /\ at'[w] = "repoint" /\ Size' = 2 * Size
      \/ at[w] = "repoint" /\ at'[w] = "clear" /\ Size' = Size
  BY <1>1 DEF Double, Repoint, GoTo
<1>7. ArrayOK'
  <2>1. freed' \subseteq 0 .. block'
    BY <1>2, <1>3, <1>4 DEF ArrayOK
  <2> QED BY <1>2, <1>3, <1>4, <1>6, <2>1 DEF ArrayOK, SizeInv
<1>8. SizeInv'
  BY <1>2, <1>3, <1>6 DEF SizeInv, Creating
<1>9. ASSUME 0 \notin Areas PROVE TablesInv'
  <2>1. UsedInv /\ UnusedInv /\ NewInv /\ LookupIsRight
    BY <1>9 DEF ArrayInv, TablesInv
  <2>2. UsedInv' /\ LookupIsRight'
    BY <1>2, <1>3, <2>1 DEF UsedInv, LookupIsRight, Slot
  <2>3. UnusedInv'
    <3>1. \A m \in Count .. Len(slots) - 1 :
            Slot(m).hash = NULL
            /\ (Slot(m).id # 0 => Slot(m) = Garbage)
      BY <1>2, <1>6, <2>1 DEF UnusedInv, Creating
    <3>2. at'[w] \in {"double", "repoint", "clear"}
      BY <1>6
    <3> QED BY <1>2, <1>3, <3>1, <3>2 DEF UnusedInv, Slot
  <2>4. NewInv'
    BY <1>2, <1>3, <1>6, <2>1 DEF NewInv, Slot, Creating
  <2> QED BY <2>2, <2>3, <2>4 DEF TablesInv
<1> QED BY <1>2, <1>5, <1>7, <1>8, <1>9, TypesApart DEF ArrayInv

(* The new half of the array is cleared.                                   *)
LEMMA ClearStepInv ==
  ASSUME ArrayInv, NEW w \in Workers, Clear(w)
  PROVE  ArrayInv'
<1> USE DEF arrayVars, Count, Size
<1>1. at \in [AreaThreads -> ArrayPlaces] /\ w \in AreaThreads /\ HolderStep(w)
  BY TypesApart DEF ArrayInv, ThreadsOK, HolderStep, AreaThreads
<1>2. /\ ArrayOK /\ ThreadsOK /\ SizeInv
      /\ Size \in Nat \ {0} /\ Count \in 0 .. Size /\ block \in Nat
      /\ \A v \in Workers : v # w => at[v] \notin Creating /\ at'[v] \notin Creating
      /\ ArrayLockInv' /\ UNCHANGED <<area_table_lock, area>>
  BY <1>1, HolderFacts
<1>3. /\ at[w] = "clear" /\ at'[w] = "publish" /\ Count < Size
      /\ slots \in Seq(Element) /\ Len(slots) = Size
      /\ UNCHANGED <<block, freed, area_table_max_size, next_index_area_table, h_table>>
  BY <1>1, <1>2 DEF Clear, GoTo, SizeInv, ArrayOK, Creating
<1>4. ThreadsOK'
  <2>1. h_table' \in [Workers -> Nat]
    BY <1>2, <1>3 DEF ThreadsOK
  <2> QED BY <1>1, <1>2, <1>3, <2>1, HolderFacts
<1>5. /\ slots' \in Seq(Element) /\ Len(slots') = Size
      /\ \A m \in 0 .. Count - 1 : Slot(m)' = Slot(m)
      /\ \A m \in Count .. Size - 1 : Slot(m)' = Empty
  <2>1. slots' = [n \in 1 .. Size |-> IF n > Count THEN Empty ELSE slots[n]]
    BY DEF Clear
  <2>2. \A n \in 1 .. Size : slots[n] \in Element
    BY <1>3, ElementOfSeq
  <2>3. Empty \in Element
    BY DEF Empty, Element, NULL
  <2>4. slots' \in [1 .. Size -> Element]
    BY <1>2, <2>1, <2>2, <2>3
  <2>5. slots' \in Seq(Element) /\ Len(slots') = Size
    BY <1>2, <2>1, <2>4, SeqDef
  <2> QED BY <1>2, <2>1, <2>5 DEF Slot
<1>6. ArrayOK'
  BY <1>2, <1>3, <1>5 DEF ArrayOK
<1>7. SizeInv'
  BY <1>2, <1>3, <1>5 DEF SizeInv, Creating
<1>8. ASSUME 0 \notin Areas PROVE TablesInv'
  <2>1. UsedInv /\ NewInv /\ LookupIsRight
    BY <1>8 DEF ArrayInv, TablesInv
  <2>2. UsedInv' /\ LookupIsRight'
    BY <1>2, <1>3, <1>5, <2>1 DEF UsedInv, LookupIsRight
  <2>3. UnusedInv'
    BY <1>2, <1>3, <1>5 DEF UnusedInv, Empty, NULL
  <2>4. NewInv'
    BY <1>2, <1>3, <1>5, <2>1 DEF NewInv, Creating
  <2> QED BY <2>2, <2>3, <2>4 DEF TablesInv
<1> QED BY <1>2, <1>4, <1>6, <1>7, <1>8, TypesApart DEF ArrayInv

(* What the array is after a write to its element Count.                   *)
LEMMA WriteElement ==
  ASSUME slots \in Seq(Element), Len(slots) = Size, Size \in Nat, Count \in Nat, Count < Size,
         NEW e \in Element, slots' = [slots EXCEPT ![Count + 1] = e]
  PROVE  /\ slots' \in Seq(Element) /\ Len(slots') = Size
         /\ \A m \in 0 .. Size - 1 : Slot(m)' = IF m = Count THEN e ELSE Slot(m)
<1>1. Count + 1 \in 1 .. Len(slots)
  OBVIOUS
<1>2. /\ slots' \in Seq(Element) /\ Len(slots') = Size
      /\ \A n \in 1 .. Size : slots'[n] = IF n = Count + 1 THEN e ELSE slots[n]
  BY <1>1, ExceptSeq
<1> QED BY <1>2 DEF Slot

(* The new element gets its id, and then its hashtable.                    *)
LEMMA CreateStepInv ==
  ASSUME ArrayInv, NEW w \in Workers, Publish(w) \/ Fill(w)
  PROVE  ArrayInv'
<1> USE DEF arrayVars, Count, Size
<1>1. at \in [AreaThreads -> ArrayPlaces] /\ w \in AreaThreads /\ HolderStep(w)
  BY TypesApart DEF ArrayInv, ThreadsOK, HolderStep, AreaThreads
<1>2. /\ ArrayOK /\ ThreadsOK /\ SizeInv
      /\ Size \in Nat \ {0} /\ Count \in 0 .. Size /\ block \in Nat /\ area[w] \in Areas
      /\ \A v \in Workers : v # w => at[v] \notin Creating /\ at'[v] \notin Creating
      /\ ArrayLockInv' /\ UNCHANGED <<area_table_lock, area>>
  BY <1>1, HolderFacts
<1>3. /\ at[w] \in {"publish", "fill"} /\ Count < Size /\ Count + 1 \in 1 .. Size
      /\ slots \in Seq(Element) /\ Len(slots) = Size
      /\ UNCHANGED <<block, freed, area_table_max_size>>
  BY <1>1, <1>2 DEF Publish, Fill, SizeInv, ArrayOK, Creating
<1>4. slots[Count + 1] \in Element
  BY <1>3, ElementOfSeq
<1>5. CASE Publish(w)
  <2>1. /\ slots' = [slots EXCEPT ![Count + 1] = [slots[Count + 1] EXCEPT !.id = area[w]]]
        /\ at[w] = "publish" /\ at'[w] = "fill" /\ UNCHANGED <<next_index_area_table, h_table>>
    BY <1>1, <1>5 DEF Publish, GoTo
  <2>2. PICK e \in Element : slots' = [slots EXCEPT ![Count + 1] = e] /\ e.id = area[w]
             /\ e.hash = Slot(Count).hash
    <3> DEFINE f == [slots[Count + 1] EXCEPT !.id = area[w]]
    <3>1. f \in Element /\ f.id = area[w] /\ f.hash = Slot(Count).hash
      BY <1>2, <1>4 DEF Element, Slot
    <3>2. slots' = [slots EXCEPT ![Count + 1] = f]
      BY <2>1
    <3> HIDE DEF f
    <3> QED BY <3>1, <3>2
  <2>3. /\ slots' \in Seq(Element) /\ Len(slots') = Size
        /\ \A m \in 0 .. Size - 1 : Slot(m)' = IF m = Count THEN e ELSE Slot(m)
    <3>1. /\ slots \in Seq(Element) /\ Len(slots) = Size /\ Size \in Nat /\ Count \in Nat
          /\ Count < Size
          /\ e \in Element /\ slots' = [slots EXCEPT ![Count + 1] = e]
      BY <1>2, <1>3, <2>2
    <3> QED BY <3>1, WriteElement
  <2>4. ArrayOK' /\ ThreadsOK'
    <3>1. ArrayOK'
      BY <1>2, <1>3, <2>1, <2>3 DEF ArrayOK
    <3>2. h_table' \in [Workers -> Nat]
      BY <1>2, <2>1 DEF ThreadsOK
    <3> QED BY <1>1, <1>2, <1>3, <3>1, <3>2, HolderFacts
  <2>5. SizeInv'
    BY <1>2, <1>3, <2>1, <2>3 DEF SizeInv, Creating
  <2>6. ASSUME 0 \notin Areas PROVE TablesInv'
    <3>1. UsedInv /\ UnusedInv /\ NewInv /\ LookupIsRight
      BY <2>6 DEF ArrayInv, TablesInv
    <3>2. UsedInv' /\ LookupIsRight'
      <4>1. \A m \in 0 .. Count - 1 : Slot(m)' = Slot(m)
        BY <1>2, <1>3, <2>3
      <4> QED BY <1>2, <1>3, <2>1, <3>1, <4>1 DEF UsedInv, LookupIsRight
    <3>3. UnusedInv'
      <4>1. \A m \in Count .. Size - 1 : Slot(m).hash = NULL /\ Slot(m).id = 0
        BY <1>2, <1>3, <2>1, <3>1 DEF UnusedInv, Creating
      <4> QED BY <1>2, <1>3, <2>1, <2>2, <2>3, <4>1 DEF UnusedInv
    <3>4. NewInv'
      BY SMTT(60), <1>2, <1>3, <2>1, <2>2, <2>3, <3>1 DEF NewInv, Creating
    <3> QED BY <3>2, <3>3, <3>4 DEF TablesInv
  <2> QED BY <1>2, <2>4, <2>5, <2>6, TypesApart DEF ArrayInv
<1>6. CASE Fill(w)
  <2>0. PICK h \in {NULL, Count + 1} :
             /\ slots' = [slots EXCEPT ![Count + 1] = [slots[Count + 1] EXCEPT !.hash = h]]
             /\ h_table' = [h_table EXCEPT ![w] = h]
    BY <1>6 DEF Fill
  <2>a. Count' = Count + 1 /\ at[w] = "fill" /\ at'[w] = "unlock"
    BY <1>1, <1>6 DEF Fill, GoTo
  <2>b. Count + 1 \in Nat /\ NULL \in Nat
    BY <1>2 DEF NULL
  <2>1. /\ slots' = [slots EXCEPT ![Count + 1] = [slots[Count + 1] EXCEPT !.hash = h]]
        /\ h_table' = [h_table EXCEPT ![w] = h] /\ Count' = Count + 1
        /\ at[w] = "fill" /\ at'[w] = "unlock" /\ h \in Nat /\ h \in {NULL, Count + 1}
    BY <2>0, <2>a, <2>b
  <2>2. PICK e \in Element : slots' = [slots EXCEPT ![Count + 1] = e]
             /\ e.id = Slot(Count).id /\ e.hash = h
    <3> DEFINE f == [slots[Count + 1] EXCEPT !.hash = h]
    <3>1. f \in Element /\ f.id = Slot(Count).id /\ f.hash = h
      BY <1>2, <1>4, <2>1 DEF Element, Slot
    <3>2. slots' = [slots EXCEPT ![Count + 1] = f]
      BY <2>1
    <3> HIDE DEF f
    <3> QED BY <3>1, <3>2
  <2>3. /\ slots' \in Seq(Element) /\ Len(slots') = Size
        /\ \A m \in 0 .. Size - 1 : Slot(m)' = IF m = Count THEN e ELSE Slot(m)
    <3>1. /\ slots \in Seq(Element) /\ Len(slots) = Size /\ Size \in Nat /\ Count \in Nat
          /\ Count < Size
          /\ e \in Element /\ slots' = [slots EXCEPT ![Count + 1] = e]
      BY <1>2, <1>3, <2>2
    <3> QED BY <3>1, WriteElement
  <2>4. ArrayOK' /\ ThreadsOK'
    <3>1. ArrayOK'
      BY <1>2, <1>3, <2>1, <2>3 DEF ArrayOK
    <3>2. h_table' \in [Workers -> Nat]
      BY <1>2, <2>1 DEF ThreadsOK
    <3> QED BY <1>1, <1>2, <1>3, <3>1, <3>2, HolderFacts
  <2>5. SizeInv'
    BY <1>2, <1>3, <2>1, <2>3 DEF SizeInv, Creating
  <2>6. ASSUME 0 \notin Areas PROVE TablesInv'
    <3>1. UsedInv /\ UnusedInv /\ NewInv /\ LookupIsRight
      BY <2>6 DEF ArrayInv, TablesInv
    <3>2. Slot(Count).id = area[w] /\ \A m \in 0 .. Count - 1 : Slot(m).id # area[w]
      BY <2>1, <3>1 DEF NewInv, Creating
    <3>3. UsedInv'
      <4>1. \A m \in 0 .. Count - 1 : Slot(m)' = Slot(m)
        BY <1>2, <1>3, <2>3
      <4>2. /\ \A m \in 0 .. Count : m = Count => Slot(m)' = e
            /\ e.id = area[w] /\ e.hash \in {NULL, Count + 1}
        BY <2>1, <1>2, <1>3, <2>2, <2>3, <3>2
      <4> QED BY <1>2, <2>1, <3>1, <3>2, <4>1, <4>2 DEF UsedInv
    <3>4. UnusedInv'
      <4>1. \A m \in Count + 1 .. Size - 1 : Slot(m).hash = NULL /\ Slot(m).id = 0
        BY SMTT(60), <1>2, <1>3, <2>1, <3>1 DEF UnusedInv, Creating
      <4> QED BY <1>2, <1>3, <2>1, <2>3, <4>1 DEF UnusedInv
    <3>5. NewInv'
      BY <1>2, <2>1 DEF NewInv, Creating
    <3>6. LookupIsRight'
      <4>1. ASSUME NEW v \in Workers, h_table'[v] # NULL
            PROVE  \E n \in 0 .. Count : Slot(n)' = [id |-> area[v], hash |-> h_table'[v]]
        <5>1. CASE v = w
          <6>1. h_table'[w] = h
            BY <1>2, <2>1 DEF ThreadsOK
          <6>2. e = [id |-> area[w], hash |-> h]
            BY <2>2, <3>2 DEF Element
          <6>3. PICK n \in 0 .. Count : n = Count
            BY <1>2
          <6>4. Slot(n)' = e
            BY <1>2, <1>3, <2>3, <6>3
          <6> QED BY <5>1, <6>1, <6>2, <6>4
        <5>2. CASE v # w
          <6>1. h_table'[v] = h_table[v]
            BY <1>2, <2>1, <5>2 DEF ThreadsOK
          <6>2. PICK n \in 0 .. Count - 1 : Slot(n) = [id |-> area[v], hash |-> h_table[v]]
            BY <3>1, <4>1, <6>1 DEF LookupIsRight
          <6> QED BY <1>2, <1>3, <2>3, <6>1, <6>2
        <5> QED BY <5>1, <5>2
      <4> QED BY <1>2, <2>1, <4>1 DEF LookupIsRight
    <3> QED BY <3>3, <3>4, <3>5, <3>6 DEF TablesInv
  <2> QED BY <1>2, <2>4, <2>5, <2>6, TypesApart DEF ArrayInv
<1> QED BY <1>5, <1>6

(* Every step keeps the invariant.                                         *)
LEMMA ArrayNextInv ==
  ArrayInv /\ [AreaNext]_areaVars => ArrayInv'
<1> SUFFICES ASSUME ArrayInv, [AreaNext]_areaVars PROVE ArrayInv'
  OBVIOUS
<1>1. CASE UNCHANGED areaVars
  <2>1. UNCHANGED <<arrayVars, summaryVars, area_table_lock, at, area, area_i, base, h_table>>
    BY <1>1 DEF areaVars
  <2>2. AreaTypeOK'
    BY <2>1, TypesApart DEF ArrayInv, ArrayOK, ThreadsOK, Count, Size, arrayVars,
                            summaryVars
  <2>3. ArrayLockInv' /\ SizeInv'
    BY <2>1 DEF ArrayInv, ArrayLockInv, SizeInv, Count, Size, arrayVars
  <2>4. TablesInv => TablesInv'
    BY <2>1 DEF TablesInv, UsedInv, UnusedInv, NewInv, LookupIsRight, Count, Slot,
                arrayVars
  <2> QED BY <2>2, <2>3, <2>4 DEF ArrayInv
<1>2. ASSUME NEW w \in Workers, WorkerStep(w) PROVE ArrayInv'
  BY <1>2, LookupStepInv, SearchStepInv, MoveStepInv, ClearStepInv, CreateStepInv
     DEF WorkerStep
<1>3. ASSUME NEW w \in Workers, NEW a \in Areas, Lookup(w, a) PROVE ArrayInv'
  BY <1>3, LookupStepInv
<1>4. CASE \/ \E t \in AreaThreads : ReadUndefined(t)
           \/ \E t \in Summarizers : SummarizerStep(t)
  BY <1>4, ReaderStepInv
<1> QED BY <1>1, <1>2, <1>3, <1>4 DEF AreaNext, AreaThreads

(* So it holds in every behaviour.                                         *)
LEMMA ArraySpecInv == AreaSpec => []ArrayInv
<1>1. AreaInit => ArrayInv
  BY ArrayInitInv
<1> QED BY <1>1, ArrayNextInv, PTL DEF AreaSpec

-----------------------------------------------------------------------------
(* What the variables of the array and its threads hold, always.           *)
THEOREM AreaTypeCorrect == AreaSpec => []AreaTypeOK
<1>1. ArrayInv => AreaTypeOK
  BY DEF ArrayInv
<1> QED BY <1>1, ArraySpecInv, PTL

(* OneTablePerArea: workers that miss an area at the same time create one  *)
(* hashtable for it, also when the array grows. (0 marks an element that   *)
(* is not in use: an area with this id would get a new one each time.)     *)
THEOREM OneHashtablePerArea ==
  ASSUME 0 \notin Areas PROVE AreaSpec => []OneTablePerArea
<1>1. ArrayInv => OneTablePerArea
  <2> SUFFICES ASSUME ArrayInv PROVE OneTablePerArea
    OBVIOUS
  <2>1. UsedInv /\ UnusedInv /\ NewInv /\ Count \in Nat /\ Len(slots) \in Nat
    BY TypesApart DEF ArrayInv, TablesInv, ArrayOK
  <2> SUFFICES ASSUME NEW m \in 0 .. Len(slots) - 1, NEW n \in 0 .. Len(slots) - 1,
                      Slot(m).id = Slot(n).id, Slot(m).id \in Areas,
                      Slot(m).hash # NULL
               PROVE  m = n
    BY DEF OneTablePerArea
  <2>2. m \in 0 .. Count - 1
    BY <2>1 DEF UnusedInv
  <2>3. n \in 0 .. Count - 1
    <3> SUFFICES ASSUME n \in Count .. Len(slots) - 1 PROVE FALSE
      BY <2>1
    <3>1. Slot(n).id \in Areas /\ Slot(n).id # 0 /\ Garbage.id \notin Areas
      BY AreaTableAssumption DEF Garbage, NoArea
    <3>2. PICK w \in Workers : at[w] = "fill" /\ Slot(n).id = area[w]
      BY <2>1, <3>1 DEF UnusedInv
    <3> QED BY <2>1, <2>2, <3>2 DEF NewInv, Creating
  <2> QED BY <2>1, <2>2, <2>3 DEF UsedInv
<1> QED BY <1>1, ArraySpecInv, PTL

(* LookupIsRight: with the lock or without it, a lookup does not return    *)
(* the hashtable of another area.                                          *)
THEOREM LookupsAreRight ==
  ASSUME 0 \notin Areas PROVE AreaSpec => []LookupIsRight
<1>1. ArrayInv => LookupIsRight
  BY DEF ArrayInv, TablesInv
<1> QED BY <1>1, ArraySpecInv, PTL
=============================================================================
