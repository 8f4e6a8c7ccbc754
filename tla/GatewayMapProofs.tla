-------------------------- MODULE GatewayMapProofs --------------------------
(* Theorems about GatewayMap, for any workers and gateways, and any length *)
(* of the map and of the send queue.                                       *)
EXTENDS GatewayMap, TLAPS, SequenceTheorems

\* The lock of the map has the holder that the program counters tell.
LockInv ==
  /\ \A w \in Workers : at[w] \in {"find", "insert", "leave"} <=> list_lock = w
  /\ index # 0 <=> list_lock = Main

\* What a worker has found out under the lock still holds when it inserts,
\* and when it answers.
JoinInv ==
  \A w \in Workers :
    /\ at[w] # "idle" => request[w] \in Gateways /\ node[w] \in Nodes
    /\ at[w] = "insert" => request[w] \notin Listed /\ join_status[w] = "JOIN_ACK"
    /\ at[w] \in {"leave", "answer"} => join_status[w] \in {"JOIN_ACK", "JOIN_DENY"}
    /\ at[w] \in {"leave", "answer"} /\ join_status[w] = "JOIN_ACK" => request[w] \in Listed

IsAck(p) == p \in Answers /\ p.join_status = "JOIN_ACK"

\* The gateway of every acknowledgement on its way is in the map.
AckInv ==
  /\ \A k \in 1 .. Len(NSI_send) :
       IsAck(NSI_send[k].content) => NSI_send[k].content.address \in Listed
  /\ \A k \in 1 .. Len(pkt_Queue) : IsAck(pkt_Queue[k]) => pkt_Queue[k].address \in Listed

Carriers == [node : Nodes, content : Answers]

\* The broadcast has handled the entries before index, of a map that does
\* not change meanwhile.
PollInv ==
  index # 0 =>
    /\ member = Listed
    /\ reached \cup missed = { map[n] : n \in 1 .. index - 1 } \ {Unused}
    /\ reached \cap missed = {}

Inv == TypeOK /\ LockInv /\ JoinInv /\ OneEntryPerGateway /\ AckInv /\ PollInv

(* The map starts empty and unlocked.                                      *)
LEMMA InitInv == Init => Inv
<1> SUFFICES ASSUME Init PROVE Inv
  OBVIOUS
<1> USE GatewayMapAssumption DEF Init
<1>1. TypeOK
  BY EmptySeq DEF TypeOK, Indices, Fates
<1>2. LockInv /\ JoinInv /\ OneEntryPerGateway /\ AckInv /\ PollInv
  BY DEF LockInv, JoinInv, OneEntryPerGateway, AckInv, PollInv, Nobody, Main, Unused
<1> QED BY <1>1, <1>2 DEF Inv

(* A packet that is added goes to the end of the queue, or is dropped; one *)
(* that is taken away leaves the others as they were.                      *)
LEMMA AddPktKeeps ==
  ASSUME TypeOK, NEW p \in Packets, AddPkt(p)
  PROVE  /\ pkt_Queue' \in Seq(Packets) /\ Len(pkt_Queue') <= MAX_QUEUE_LENGTH
         /\ \A k \in 1 .. Len(pkt_Queue') :
              \/ pkt_Queue'[k] = p
              \/ k \in 1 .. Len(pkt_Queue) /\ pkt_Queue'[k] = pkt_Queue[k]
<1>1. pkt_Queue \in Seq(Packets) /\ Len(pkt_Queue) <= MAX_QUEUE_LENGTH
  BY DEF TypeOK
<1>2. CASE Fits
  <2>1. pkt_Queue' = Append(pkt_Queue, p)
    BY <1>2 DEF AddPkt
  <2> QED BY <1>1, <1>2, <2>1, AppendProperties, LenProperties, GatewayMapAssumption DEF Fits
<1>3. CASE ~Fits
  BY <1>1, <1>3 DEF AddPkt
<1> QED BY <1>2, <1>3

(* What is left of a sequence without its head is of the same elements.    *)
LEMMA TailKeeps ==
  ASSUME NEW S, NEW s \in Seq(S), s # <<>>
  PROVE  /\ Head(s) \in S /\ Head(s) = s[1] /\ 1 \in 1 .. Len(s)
         /\ Tail(s) \in Seq(S) /\ Len(Tail(s)) <= Len(s)
         /\ \A k \in 1 .. Len(Tail(s)) : k + 1 \in 1 .. Len(s) /\ Tail(s)[k] = s[k + 1]
  BY HeadTailProperties

(* A join: until the worker has the lock it knows nothing of the map, and   *)
(* while it has the lock nobody else changes the map.                       *)
LEMMA JoinStepInv ==
  \A w \in Workers : Inv /\ (LockMap(w) \/ Join(w) \/ UnlockMap(w)) => Inv'
<1> SUFFICES ASSUME Inv, NEW w \in Workers, LockMap(w) \/ Join(w) \/ UnlockMap(w)
             PROVE  Inv'
  OBVIOUS
<1> USE GatewayMapAssumption DEF pollVars, workerVars, Nobody, Main
<1>0. UNCHANGED <<map, NSI_send, pkt_Queue, request, node, pollVars>>
  BY DEF LockMap, Join, DecideMaximum, UnlockMap
<1>1. OneEntryPerGateway' /\ AckInv' /\ PollInv'
  BY <1>0 DEF Inv, OneEntryPerGateway, AckInv, PollInv, Listed, Indices, IsAck
<1>2. CASE LockMap(w)
  <2>1. TypeOK'
    BY <1>2 DEF Inv, TypeOK, LockMap
  <2>2. LockInv'
    BY <1>2 DEF Inv, TypeOK, LockInv, LockMap, MapFree
  <2>3. JoinInv'
    BY <1>0, <1>2 DEF Inv, TypeOK, JoinInv, LockMap, Listed, Indices
  <2> QED BY <1>1, <2>1, <2>2, <2>3 DEF Inv
<1>3. CASE Join(w)
  <2>1. TypeOK'
    BY <1>3 DEF Inv, TypeOK, Join, DecideMaximum
  <2>2. LockInv'
    BY <1>3 DEF Inv, TypeOK, LockInv, Join, DecideMaximum
  <2>3. JoinInv'
    BY <1>0, <1>3 DEF Inv, TypeOK, JoinInv, Join, DecideMaximum, InMap, Listed, Indices
  <2> QED BY <1>1, <2>1, <2>2, <2>3 DEF Inv
<1>4. CASE UnlockMap(w)
  <2>1. TypeOK'
    BY <1>4 DEF Inv, TypeOK, UnlockMap
  <2>2. LockInv'
    BY <1>4 DEF Inv, TypeOK, LockInv, UnlockMap
  <2>3. JoinInv'
    BY <1>0, <1>4 DEF Inv, TypeOK, JoinInv, UnlockMap, Listed, Indices
  <2> QED BY <1>1, <2>1, <2>2, <2>3 DEF Inv
<1> QED BY <1>2, <1>3, <1>4

(* The insertion takes an entry that is not in use, for a gateway that has *)
(* none; main does not poll, and no other worker is about to insert.       *)
LEMMA InsertInv == \A w \in Workers : Inv /\ Insert(w) => Inv'
<1> SUFFICES ASSUME Inv, NEW w \in Workers, Insert(w) PROVE Inv'
  OBVIOUS
<1> USE GatewayMapAssumption DEF pollVars, workerVars, Nobody, Main
<1>1. PICK n \in Indices : n \in FreeIndices /\ map' = [map EXCEPT ![n] = request[w]]
  BY DEF Insert, FirstUnused
<1>2. map[n] = Unused /\ request[w] \in Gateways /\ request[w] \notin Listed /\ list_lock = w
  BY <1>1 DEF Insert, FreeIndices, Inv, JoinInv, LockInv
<1>3. Listed' = Listed \cup {request[w]}
  BY <1>1, <1>2 DEF Listed, Inv, TypeOK
<1>4. TypeOK'
  BY <1>1, <1>2 DEF Inv, TypeOK, Insert
<1>5. LockInv'
  BY DEF Inv, TypeOK, LockInv, Insert
<1>6. \A u \in Workers \ {w} : at[u] # "insert"
  BY <1>2 DEF Inv, LockInv
<1>7. JoinInv'
  BY <1>2, <1>3, <1>6 DEF Inv, TypeOK, JoinInv, Insert
<1>8. OneEntryPerGateway'
  BY <1>1, <1>2 DEF Inv, TypeOK, OneEntryPerGateway, Listed
<1>9. AckInv' /\ PollInv'
  BY <1>2, <1>3 DEF Inv, LockInv, AckInv, PollInv, IsAck, Insert
<1> QED BY <1>4, <1>5, <1>7, <1>8, <1>9 DEF Inv

(* The request and the answer of a worker.                                 *)
LEMMA RequestInv ==
  \A w \in Workers, g \in Gateways, n \in Nodes : Inv /\ Request(w, g, n) => Inv'
<1> SUFFICES ASSUME Inv, NEW w \in Workers, NEW g \in Gateways, NEW n \in Nodes,
                    Request(w, g, n)
             PROVE  Inv'
  OBVIOUS
<1> USE GatewayMapAssumption DEF pollVars
<1>1. TypeOK'
  BY DEF Inv, TypeOK, Request, Fates
<1>2. LockInv' /\ JoinInv'
  BY DEF Inv, TypeOK, LockInv, JoinInv, Request, Listed, Indices
<1>3. OneEntryPerGateway' /\ AckInv' /\ PollInv'
  BY DEF Inv, Request, OneEntryPerGateway, AckInv, PollInv, Listed, Indices, IsAck
<1> QED BY <1>1, <1>2, <1>3 DEF Inv

(* The answer tells the gateway what the join did.                         *)
LEMMA AnswerInv == \A w \in Workers : Inv /\ Answer(w) => Inv'
<1> SUFFICES ASSUME Inv, NEW w \in Workers, Answer(w) PROVE Inv'
  OBVIOUS
<1> USE GatewayMapAssumption DEF pollVars
<1> DEFINE answer == [address |-> request[w], join_status |-> join_status[w]]
           carrier == [node |-> node[w], content |-> answer]
<1>1. /\ answer \in Answers
      /\ IsAck(answer) => answer.address \in Listed
  BY DEF Answer, Inv, TypeOK, JoinInv, Answers, IsAck
<1>2. node[w] \in Nodes
  BY DEF Answer, Inv, JoinInv
<1>3. NSI_send \in Seq(Carriers) /\ NSI_send' = Append(NSI_send, carrier)
  BY DEF Answer, Inv, TypeOK, Carriers
<1> HIDE DEF answer
<1>4. carrier \in Carriers /\ carrier.content = answer
  BY <1>1, <1>2 DEF Carriers
<1> HIDE DEF carrier
<1>5. /\ NSI_send' \in Seq(Carriers)
      /\ \A k \in 1 .. Len(NSI_send') :
           \/ NSI_send'[k] = carrier
           \/ k \in 1 .. Len(NSI_send) /\ NSI_send'[k] = NSI_send[k]
  BY <1>3, <1>4, AppendProperties
<1>6. /\ UNCHANGED <<map, list_lock, pkt_Queue, index, member, reached, missed, fate>>
      /\ at[w] = "answer" /\ at' = [at EXCEPT ![w] = "idle"]
      /\ request' = [request EXCEPT ![w] = Unused]
      /\ node' = [node EXCEPT ![w] = Unused]
      /\ join_status' = [join_status EXCEPT ![w] = "JOIN_UNKNOWN"]
  BY DEF Answer
<1>7. TypeOK'
  BY <1>5, <1>6 DEF Inv, TypeOK, Carriers
<1>8. LockInv' /\ JoinInv'
  BY <1>6 DEF Inv, TypeOK, LockInv, JoinInv, Listed, Indices
<1>9. AckInv'
  BY <1>1, <1>4, <1>5, <1>6 DEF Inv, AckInv, Listed, Indices
<1>10. OneEntryPerGateway' /\ PollInv'
  BY <1>6 DEF Inv, OneEntryPerGateway, PollInv, Listed, Indices
<1> QED BY <1>7, <1>8, <1>9, <1>10 DEF Inv

(* A worker puts the first answer into the send queue, or drops it, or the *)
(* dispatcher does; the send thread takes the first packet out of it.      *)
LEMMA SendInv ==
  Inv /\ (WifiSend \/ AnswerDropped("outdated") \/ AnswerDropped("refused") \/ SendPkt)
    => Inv'
<1> SUFFICES ASSUME Inv,
                    WifiSend \/ AnswerDropped("outdated") \/ AnswerDropped("refused")
                      \/ SendPkt
             PROVE  Inv'
  OBVIOUS
<1> USE GatewayMapAssumption DEF pollVars, workerVars
<1>1. UNCHANGED <<map, list_lock, at, request, node, join_status, index, member, reached,
                  missed>>
  BY DEF WifiSend, AnswerDropped, Leaves, SendPkt
<1>2. LockInv' /\ JoinInv' /\ OneEntryPerGateway' /\ PollInv' /\ Listed' = Listed
  BY <1>1 DEF Inv, LockInv, JoinInv, OneEntryPerGateway, PollInv, Listed, Indices
<1>3. /\ NSI_send \in Seq(Carriers) /\ fate \in [Nodes -> Fates]
      /\ pkt_Queue \in Seq(Packets) /\ Len(pkt_Queue) <= MAX_QUEUE_LENGTH
  BY DEF Inv, TypeOK, Carriers
<1>4. ASSUME NEW f \in Fates, Leaves(f)
      PROVE  /\ Head(NSI_send) \in Carriers
             /\ NSI_send' \in Seq(Carriers) /\ fate' \in [Nodes -> Fates]
             /\ \A k \in 1 .. Len(NSI_send') :
                  IsAck(NSI_send'[k].content) => NSI_send'[k].content.address \in Listed
             /\ LET p == Head(NSI_send).content IN
                 p \in Packets /\ (IsAck(p) => p.address \in Listed)
  <2>1. /\ Head(NSI_send) \in Carriers /\ Head(NSI_send) = NSI_send[1]
        /\ 1 \in 1 .. Len(NSI_send)
        /\ NSI_send' = Tail(NSI_send) /\ NSI_send' \in Seq(Carriers)
        /\ \A k \in 1 .. Len(NSI_send') :
             k + 1 \in 1 .. Len(NSI_send) /\ NSI_send'[k] = NSI_send[k + 1]
    BY <1>3, <1>4, TailKeeps DEF Leaves
  <2>2. fate' \in [Nodes -> Fates]
    BY <1>3, <1>4 DEF Leaves
  <2>3. Head(NSI_send).content \in Packets
    BY <2>1 DEF Carriers, Packets
  <2> QED BY <2>1, <2>2, <2>3 DEF Inv, AckInv
<1>5. /\ NSI_send' \in Seq(Carriers) /\ fate' \in [Nodes -> Fates]
      /\ pkt_Queue' \in Seq(Packets) /\ Len(pkt_Queue') <= MAX_QUEUE_LENGTH
      /\ AckInv'
  <2>1. CASE WifiSend
    <3> DEFINE f == IF Fits THEN "queued" ELSE "full"
               p == Head(NSI_send).content
    <3>1. f \in Fates /\ Leaves(f) /\ AddPkt(p)
      BY <2>1 DEF WifiSend, Fates
    <3> HIDE DEF f
    <3>2. p \in Packets /\ (IsAck(p) => p.address \in Listed)
      BY <1>4, <3>1
    <3>3. /\ NSI_send' \in Seq(Carriers) /\ fate' \in [Nodes -> Fates]
          /\ \A k \in 1 .. Len(NSI_send') :
               IsAck(NSI_send'[k].content) => NSI_send'[k].content.address \in Listed
      BY <1>4, <3>1
    <3> HIDE DEF p
    <3>4. /\ pkt_Queue' \in Seq(Packets) /\ Len(pkt_Queue') <= MAX_QUEUE_LENGTH
          /\ \A k \in 1 .. Len(pkt_Queue') :
               \/ pkt_Queue'[k] = p
               \/ k \in 1 .. Len(pkt_Queue) /\ pkt_Queue'[k] = pkt_Queue[k]
      BY <3>1, <3>2, AddPktKeeps DEF Inv
    <3>5. AckInv'
      BY <1>2, <3>2, <3>3, <3>4 DEF Inv, AckInv
    <3> QED BY <3>3, <3>4, <3>5
  <2>2. ASSUME NEW f \in {"outdated", "refused"}, AnswerDropped(f)
        PROVE  /\ NSI_send' \in Seq(Carriers) /\ fate' \in [Nodes -> Fates]
               /\ pkt_Queue' = pkt_Queue /\ AckInv'
    <3>1. f \in Fates /\ Leaves(f) /\ pkt_Queue' = pkt_Queue
      BY <2>2 DEF AnswerDropped, Fates
    <3>2. /\ NSI_send' \in Seq(Carriers) /\ fate' \in [Nodes -> Fates]
          /\ \A k \in 1 .. Len(NSI_send') :
               IsAck(NSI_send'[k].content) => NSI_send'[k].content.address \in Listed
      BY <1>4, <3>1
    <3> QED BY <1>2, <3>1, <3>2 DEF Inv, AckInv
  <2>3. CASE SendPkt
    <3>1. /\ pkt_Queue' \in Seq(Packets) /\ Len(pkt_Queue') <= Len(pkt_Queue)
          /\ \A k \in 1 .. Len(pkt_Queue') :
               k + 1 \in 1 .. Len(pkt_Queue) /\ pkt_Queue'[k] = pkt_Queue[k + 1]
      BY <1>3, <2>3, TailKeeps DEF SendPkt
    <3>2. Len(pkt_Queue') <= MAX_QUEUE_LENGTH
      BY <1>3, <3>1, LenProperties
    <3>3. NSI_send' = NSI_send /\ fate' = fate
      BY <2>3 DEF SendPkt
    <3>4. AckInv'
      BY <1>2, <3>1, <3>3 DEF Inv, AckInv
    <3> QED BY <1>3, <3>1, <3>2, <3>3, <3>4
  <2> QED BY <1>3, <2>1, <2>2, <2>3
<1>6. TypeOK'
  BY <1>1, <1>5 DEF Inv, TypeOK, Carriers
<1> QED BY <1>2, <1>5, <1>6 DEF Inv

(* The broadcast of main: it starts and ends with the lock of the map, and *)
(* leaves the map as it is.                                                *)
LEMMA BroadcastEdgeInv == Inv /\ (BroadcastStart \/ BroadcastEnd) => Inv'
<1> SUFFICES ASSUME Inv, BroadcastStart \/ BroadcastEnd PROVE Inv'
  OBVIOUS
<1> USE GatewayMapAssumption DEF workerVars
<1>1. UNCHANGED <<map, at, request, node, join_status, NSI_send, pkt_Queue, fate>>
  BY DEF BroadcastStart, BroadcastEnd
<1>2. JoinInv' /\ OneEntryPerGateway' /\ AckInv'
  BY <1>1 DEF Inv, JoinInv, OneEntryPerGateway, AckInv, Listed, Indices
<1>3. CASE BroadcastStart
  <2>1. Listed \subseteq Gateways
    BY DEF Inv, TypeOK, Listed
  <2>2. TypeOK'
    BY <1>1, <1>3, <2>1 DEF Inv, TypeOK, BroadcastStart
  <2>3. LockInv'
    BY <1>1, <1>3 DEF Inv, LockInv, BroadcastStart, MapFree, Nobody, Main
  <2>4. PollInv'
    BY <1>1, <1>3 DEF PollInv, BroadcastStart, Listed, Indices
  <2> QED BY <1>2, <2>2, <2>3, <2>4 DEF Inv
<1>4. CASE BroadcastEnd
  <2>1. TypeOK'
    BY <1>1, <1>4 DEF Inv, TypeOK, BroadcastEnd, EndPoll
  <2>2. LockInv'
    BY <1>1, <1>4 DEF Inv, TypeOK, LockInv, BroadcastEnd, EndPoll, Nobody, Main
  <2>3. PollInv'
    BY <1>4 DEF PollInv, BroadcastEnd, EndPoll
  <2> QED BY <1>2, <2>1, <2>2, <2>3 DEF Inv
<1> QED BY <1>3, <1>4

(* The broadcast handles one entry of the map: no entry before it has the  *)
(* same gateway.                                                           *)
LEMMA BroadcastNextInv == Inv /\ BroadcastNext => Inv'
<1> SUFFICES ASSUME Inv, BroadcastNext PROVE Inv'
  OBVIOUS
<1> USE GatewayMapAssumption DEF workerVars
<1>1. UNCHANGED <<map, list_lock, at, request, node, join_status, NSI_send, member, fate>>
  BY DEF BroadcastNext
<1>2. index \in Indices /\ index' = index + 1
  BY DEF BroadcastNext
<1>3. LockInv' /\ JoinInv' /\ OneEntryPerGateway'
  BY <1>1, <1>2 DEF Inv, LockInv, JoinInv, OneEntryPerGateway, Listed, Indices
<1> DEFINE Handled == { map[n] : n \in 1 .. index - 1 } \ {Unused}
<1>4. /\ member = Listed
      /\ reached \cup missed = Handled /\ reached \cap missed = {}
  BY <1>2 DEF Inv, PollInv, Indices
<1>5. Handled' = Handled \cup ({map[index]} \ {Unused})
  <2>1. 1 .. index' - 1 = (1 .. index - 1) \cup {index}
    BY <1>2 DEF Indices
  <2> QED BY <1>1, <2>1
<1>6. CASE ~Polls(index)
  <2>1. UNCHANGED <<pkt_Queue, reached, missed>>
    BY <1>6 DEF BroadcastNext
  <2>2. TypeOK'
    BY <1>1, <1>2, <2>1 DEF Inv, TypeOK, Indices
  <2>3. AckInv'
    BY <1>1, <2>1 DEF Inv, AckInv, Listed, Indices
  <2>4. map[index] = Unused
    BY <1>6 DEF Polls
  <2>5. PollInv'
    BY <1>1, <1>4, <1>5, <2>1, <2>4 DEF PollInv, Listed, Indices
  <2> QED BY <1>3, <2>2, <2>3, <2>5 DEF Inv
<1>7. CASE Polls(index)
  <2> DEFINE g == map[index]
             p == [poll |-> g]
  <2>1. g \in Gateways /\ g # Unused
    BY <1>2, <1>7 DEF Inv, TypeOK, Polls
  <2>2. p \in Packets /\ ~IsAck(p)
    BY <2>1 DEF Packets, IsAck, Answers
  <2>3. AddPkt(p)
    BY <1>7 DEF BroadcastNext
  <2>4. \/ reached' = reached \cup {g} /\ missed' = missed
        \/ missed' = missed \cup {g} /\ reached' = reached
    BY <1>7 DEF BroadcastNext
  <2>5. g \notin Handled
    BY <1>2, <2>1 DEF Inv, OneEntryPerGateway, Indices
  <2>6. PollInv'
    <3>1. member' = Listed'
      BY <1>1, <1>4 DEF Listed, Indices
    <3>2. reached' \cup missed' = Handled'
      BY <1>4, <1>5, <2>1, <2>4
    <3>3. reached' \cap missed' = {}
      BY <1>4, <2>4, <2>5
    <3> QED BY <3>1, <3>2, <3>3 DEF PollInv
  <2> HIDE DEF p
  <2>7. /\ pkt_Queue' \in Seq(Packets) /\ Len(pkt_Queue') <= MAX_QUEUE_LENGTH
        /\ \A k \in 1 .. Len(pkt_Queue') :
             \/ pkt_Queue'[k] = p
             \/ k \in 1 .. Len(pkt_Queue) /\ pkt_Queue'[k] = pkt_Queue[k]
    BY <2>2, <2>3, AddPktKeeps DEF Inv
  <2>8. TypeOK'
    BY <1>1, <1>2, <2>1, <2>4, <2>7 DEF Inv, TypeOK, Indices
  <2>9. AckInv'
    BY <1>1, <2>2, <2>7 DEF Inv, AckInv, Listed, Indices
  <2> QED BY <1>3, <2>6, <2>8, <2>9 DEF Inv
<1> QED BY <1>6, <1>7

(* Every step of the system keeps the invariant.                           *)
LEMMA NextInv == Inv /\ [Next]_vars => Inv'
<1> SUFFICES ASSUME Inv, [Next]_vars PROVE Inv'
  OBVIOUS
<1>1. CASE \E w \in Workers : WorkerStep(w)
  BY <1>1, JoinStepInv, InsertInv, AnswerInv DEF WorkerStep
<1>2. CASE \E w \in Workers, g \in Gateways, n \in Nodes : Request(w, g, n)
  BY <1>2, RequestInv
<1>3. CASE WifiSend \/ AnswerDropped("outdated") \/ AnswerDropped("refused") \/ SendPkt
  BY <1>3, SendInv
<1>4. CASE Broadcast
  BY <1>4, BroadcastEdgeInv, BroadcastNextInv DEF Broadcast
<1>5. CASE UNCHANGED vars
  <2>1. UNCHANGED <<map, list_lock, at, request, node, join_status, NSI_send, pkt_Queue,
                    index, member, reached, missed, fate>>
    BY <1>5 DEF vars, workerVars, pollVars
  <2>2. TypeOK' /\ LockInv' /\ JoinInv' /\ OneEntryPerGateway'
    BY <2>1 DEF Inv, TypeOK, LockInv, JoinInv, OneEntryPerGateway, Listed, Indices
  <2>3. AckInv' /\ PollInv'
    BY <2>1 DEF Inv, AckInv, PollInv, Listed, Indices
  <2> QED BY <2>2, <2>3 DEF Inv
<1> QED BY <1>1, <1>2, <1>3, <1>4, <1>5 DEF Next

(* The invariant holds in every behaviour.                                 *)
LEMMA SpecInv == Spec => []Inv
<1> QED BY InitInv, NextInv, PTL DEF Spec

(* The variables keep their types; the send queue, its bound.              *)
THEOREM TypeCorrect == Spec => []TypeOK
<1>1. Inv => TypeOK
  BY DEF Inv
<1> QED BY <1>1, SpecInv, PTL

(* A gateway that asks again, through whichever worker, gets no second     *)
(* entry: is_in_Address_Map and update_entry_in_Address_Map run under one  *)
(* hold of list_lock.                                                      *)
THEOREM Entries == Spec => []OneEntryPerGateway
<1>1. Inv => OneEntryPerGateway
  BY DEF Inv
<1> QED BY <1>1, SpecInv, PTL

(* A gateway is told JOIN_ACK only when it is in the map.                  *)
THEOREM Acknowledged == Spec => []AckIsFounded
<1>1. Inv => AckIsFounded
  <2> SUFFICES ASSUME Inv PROVE AckIsFounded
    OBVIOUS
  <2> DEFINE Acked(s) == { s[k].address : k \in { j \in 1 .. Len(s) :
                "join_status" \in DOMAIN s[j] /\ s[j].join_status = "JOIN_ACK" } }
  <2>1. ASSUME NEW p \in Packets, "join_status" \in DOMAIN p, p.join_status = "JOIN_ACK"
        PROVE  IsAck(p)
    BY <2>1 DEF Packets, IsAck, Answers
  <2> DEFINE contents == [k \in DOMAIN NSI_send |-> NSI_send[k].content]
  <2>2. /\ contents \in Seq(Packets) /\ Len(contents) = Len(NSI_send)
        /\ \A k \in 1 .. Len(contents) :
             contents[k] \in Packets /\ contents[k] = NSI_send[k].content
    <3>1. /\ NSI_send \in Seq(Carriers) /\ Len(NSI_send) \in Nat
          /\ DOMAIN NSI_send = 1 .. Len(NSI_send)
      BY LenProperties DEF Inv, TypeOK, Carriers
    <3>2. \A k \in 1 .. Len(NSI_send) : NSI_send[k].content \in Packets
      <4>1. \A k \in 1 .. Len(NSI_send) : NSI_send[k] \in Carriers
        BY <3>1, ElementOfSeq
      <4> QED BY <4>1 DEF Carriers, Packets
    <3>3. contents \in Seq(Packets) /\ Len(contents) = Len(NSI_send)
      BY <3>1, <3>2, IsASeq, LenProperties
    <3> QED BY <3>1, <3>2, <3>3
  <2>3. \A k \in 1 .. Len(pkt_Queue) : pkt_Queue[k] \in Packets
    BY ElementOfSeq DEF Inv, TypeOK
  <2>4. Acked(contents) \subseteq Listed
    <3> HIDE DEF contents
    <3> QED BY <2>1, <2>2 DEF Inv, AckInv
  <2>5. Acked(pkt_Queue) \subseteq Listed
    BY <2>1, <2>3 DEF Inv, AckInv
  <2> QED BY <2>4, <2>5 DEF AckIsFounded
<1> QED BY <1>1, SpecInv, PTL

(* A broadcast of main queues or drops one packet for each gateway of the  *)
(* map it began with, and for no other.                                    *)
THEOREM Polled == Spec => []BroadcastComplete
<1>1. Inv => BroadcastComplete
  BY GatewayMapAssumption DEF Inv, PollInv, BroadcastComplete, Listed, Indices
<1> QED BY <1>1, SpecInv, PTL
=============================================================================
