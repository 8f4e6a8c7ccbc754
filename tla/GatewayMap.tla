----------------------------- MODULE GatewayMap -----------------------------
(***************************************************************************)
(* Joining of gateways and polling of those that have joined (AddressMap   *)
(* of src/import/BeDIS.c, Server_NSI_routine, Gateway_join_request,        *)
(* broadcast_to_gateway and Server_process_wifi_send of src/src/Server.c). *)
(* Workers execute join requests side by side, main polls the gateways in  *)
(* the map, and both put packets into the bounded packet queue that the    *)
(* send thread of UDP_API empties (PktQueue has its inside).               *)
(***************************************************************************)
EXTENDS Naturals, Sequences

CONSTANTS
  Workers, Gateways,
  MAX_NUMBER_NODES,
  MAX_QUEUE_LENGTH,
  Nodes             \* the buffer nodes that carry requests and then answers

VARIABLES
  map,        \* the entry of each index: the address of a gateway, or Unused
  list_lock,  \* the holder of the lock of the map, or Nobody
  at, request, node, join_status,  \* of each worker: where it is, the gateway
              \* whose request it executes, and the buffer node that has it
  NSI_send,   \* nodes with answers that wait for a worker
  pkt_Queue,  \* packets that wait for the send thread
  index,      \* current_index of main's broadcast; 0: main does not poll
  member,     \* ghost: the gateways in the map when the broadcast began
  reached, missed, \* ghost: the gateways whose packet it queued, or dropped
  fate        \* what became of the last request of each node

workerVars == <<at, request, node, join_status>>
pollVars == <<index, member, reached, missed>>
vars == <<map, list_lock, workerVars, NSI_send, pkt_Queue, pollVars, fate>>

Indices == 1 .. MAX_NUMBER_NODES
Nobody == "nobody"
Main == "main"
Unused == "unused"

ASSUME GatewayMapAssumption ==
  /\ MAX_NUMBER_NODES \in Nat \ {0}
  /\ MAX_QUEUE_LENGTH \in Nat \ {0}
  /\ {Nobody, Main} \cap Workers = {} /\ Unused \notin Gateways \cup Nodes

\* A request is open until its answer is in the send queue, or finds it full, or
\* is dropped by the dispatcher, as out of date or for want of a job slot.
Fates == {"none", "open", "queued", "full", "outdated", "refused"}

Answers == [address : Gateways, join_status : {"JOIN_ACK", "JOIN_DENY"}]
Packets == Answers \cup [poll : Gateways]

Listed == { map[n] : n \in Indices } \ {Unused}

TypeOK ==
  /\ map \in [Indices -> Gateways \cup {Unused}]
  /\ list_lock \in Workers \cup {Nobody, Main}
  /\ at \in [Workers -> {"idle", "join", "find", "insert", "leave", "answer"}]
  /\ request \in [Workers -> Gateways \cup {Unused}]
  /\ join_status \in [Workers -> {"JOIN_UNKNOWN", "JOIN_ACK", "JOIN_DENY"}]
  /\ node \in [Workers -> Nodes \cup {Unused}]
  /\ NSI_send \in Seq([node : Nodes, content : Answers])
  /\ pkt_Queue \in Seq(Packets) /\ Len(pkt_Queue) <= MAX_QUEUE_LENGTH
  /\ index \in 0 .. MAX_NUMBER_NODES + 1
  /\ member \subseteq Gateways
  /\ reached \subseteq Gateways /\ missed \subseteq Gateways
  /\ fate \in [Nodes -> Fates]

Init ==
  /\ map = [n \in Indices |-> Unused]
  /\ list_lock = Nobody
  /\ at = [w \in Workers |-> "idle"]
  /\ request = [w \in Workers |-> Unused]
  /\ node = [w \in Workers |-> Unused]
  /\ join_status = [w \in Workers |-> "JOIN_UNKNOWN"]
  /\ NSI_send = <<>> /\ pkt_Queue = <<>>
  /\ index = 0 /\ member = {} /\ reached = {} /\ missed = {}
  /\ fate = [n \in Nodes |-> "none"]

-----------------------------------------------------------------------------
(* Wrong variants of definitions below, one plausible bug each; only the   *)
(* mutation tests of the properties use them.                              *)

Mutant_InMap(address) == FALSE
Mutant_MapFree == TRUE
Mutant_EndPoll == index' = 1 /\ UNCHANGED list_lock
Mutant_DecideMaximum(w) ==
  /\ join_status' = [join_status EXCEPT ![w] = "JOIN_ACK"]
  /\ at' = [at EXCEPT ![w] = "leave"]

-----------------------------------------------------------------------------
(* Server_NSI_routine and Gateway_join_request                             *)

MapFree == list_lock = Nobody

\* A worker takes up a request, in a node that is in use for no other; the
\* database has been told by "join".
Request(w, g, n) ==
  /\ at[w] = "idle" /\ fate[n] # "open"
  /\ fate' = [fate EXCEPT ![n] = "open"]
  /\ node' = [node EXCEPT ![w] = n]
  /\ request' = [request EXCEPT ![w] = g]
  /\ at' = [at EXCEPT ![w] = "join"]
  /\ UNCHANGED <<map, list_lock, join_status, NSI_send, pkt_Queue, pollVars>>

LockMap(w) ==
  /\ at[w] = "join" /\ MapFree
  /\ list_lock' = w
  /\ at' = [at EXCEPT ![w] = "find"]
  /\ UNCHANGED <<map, request, node, join_status, NSI_send, pkt_Queue, pollVars, fate>>

\* is_in_Address_Map, for a gateway: by the network address.
InMap(address) == address \in Listed

FreeIndices == { n \in Indices : map[n] = Unused }

DecideMaximum(w) ==
  /\ join_status' = [join_status EXCEPT ![w] = "JOIN_DENY"]
  /\ at' = [at EXCEPT ![w] = "leave"]

Join(w) ==
  /\ at[w] = "find"
  /\ \/ /\ InMap(request[w])
        /\ join_status' = [join_status EXCEPT ![w] = "JOIN_ACK"]
        /\ at' = [at EXCEPT ![w] = "leave"]
     \/ /\ ~InMap(request[w]) /\ FreeIndices = {}
        /\ DecideMaximum(w)
     \/ /\ ~InMap(request[w]) /\ FreeIndices # {}
        /\ join_status' = [join_status EXCEPT ![w] = "JOIN_ACK"]
        /\ at' = [at EXCEPT ![w] = "insert"]
  /\ UNCHANGED <<map, list_lock, request, node, NSI_send, pkt_Queue, pollVars, fate>>

\* The first entry that is not in use.
FirstUnused(n) == n \in FreeIndices /\ \A m \in FreeIndices : n <= m

\* update_entry_in_Address_Map
Insert(w) ==
  /\ at[w] = "insert"
  /\ \E n \in Indices : FirstUnused(n) /\ map' = [map EXCEPT ![n] = request[w]]
  /\ at' = [at EXCEPT ![w] = "leave"]
  /\ UNCHANGED <<list_lock, request, node, join_status, NSI_send, pkt_Queue, pollVars, fate>>

UnlockMap(w) ==
  /\ at[w] = "leave"
  /\ list_lock' = IF list_lock = w THEN Nobody ELSE list_lock
  /\ at' = [at EXCEPT ![w] = "answer"]
  /\ UNCHANGED <<map, request, node, join_status, NSI_send, pkt_Queue, pollVars, fate>>

\* The node of the request becomes that of the answer.
Answer(w) ==
  /\ at[w] = "answer"
  /\ NSI_send' = Append(NSI_send,
       [node |-> node[w],
        content |-> [address |-> request[w], join_status |-> join_status[w]]])
  /\ at' = [at EXCEPT ![w] = "idle"]
  /\ request' = [request EXCEPT ![w] = Unused]
  /\ node' = [node EXCEPT ![w] = Unused]
  /\ join_status' = [join_status EXCEPT ![w] = "JOIN_UNKNOWN"]
  /\ UNCHANGED <<map, list_lock, pkt_Queue, pollVars, fate>>

WorkerStep(w) ==
  \/ LockMap(w) \/ Join(w) \/ Insert(w) \/ UnlockMap(w) \/ Answer(w)

-----------------------------------------------------------------------------
(* udp_addpkt: a full queue drops the packet                               *)

Fits == Len(pkt_Queue) < MAX_QUEUE_LENGTH
AddPkt(p) == pkt_Queue' = IF Fits THEN Append(pkt_Queue, p) ELSE pkt_Queue

\* The first answer leaves its list; nobody waits for its node any longer.
Leaves(f) ==
  /\ NSI_send # <<>>
  /\ NSI_send' = Tail(NSI_send)
  /\ fate' = [fate EXCEPT ![Head(NSI_send).node] = f]
  /\ UNCHANGED <<map, list_lock, workerVars, pollVars>>

\* Server_process_wifi_send, executed by some worker
WifiSend ==
  /\ Leaves(IF Fits THEN "queued" ELSE "full")
  /\ AddPkt(Head(NSI_send).content)

\* What CommUnit_routine may do with it instead (CommUnit has its reasons).
AnswerDropped(f) == Leaves(f) /\ UNCHANGED pkt_Queue

\* udp_send_pkt_routine
SendPkt ==
  /\ pkt_Queue # <<>>
  /\ pkt_Queue' = Tail(pkt_Queue)
  /\ UNCHANGED <<map, list_lock, workerVars, NSI_send, pollVars, fate>>

-----------------------------------------------------------------------------
(* broadcast_to_gateway, from the loop of main                             *)

BroadcastStart ==
  /\ index = 0 /\ MapFree
  /\ list_lock' = Main
  /\ index' = 1 /\ member' = Listed /\ reached' = {} /\ missed' = {}
  /\ UNCHANGED <<map, workerVars, NSI_send, pkt_Queue, fate>>

Polls(n) == map[n] # Unused

BroadcastNext ==
  /\ index \in Indices
  /\ index' = index + 1
  /\ IF Polls(index)
     THEN /\ AddPkt([poll |-> map[index]])
          /\ IF Fits
             THEN reached' = reached \cup {map[index]} /\ UNCHANGED missed
             ELSE missed' = missed \cup {map[index]} /\ UNCHANGED reached
     ELSE UNCHANGED <<pkt_Queue, reached, missed>>
  /\ UNCHANGED <<map, list_lock, workerVars, NSI_send, member, fate>>

EndPoll == index' = 0 /\ list_lock' = Nobody

BroadcastEnd ==
  /\ index = MAX_NUMBER_NODES + 1
  /\ EndPoll
  /\ member' = {} /\ reached' = {} /\ missed' = {}
  /\ UNCHANGED <<map, workerVars, NSI_send, pkt_Queue, fate>>

Broadcast == BroadcastStart \/ BroadcastNext \/ BroadcastEnd

-----------------------------------------------------------------------------
Next ==
  \/ \E w \in Workers : WorkerStep(w) \/ \E g \in Gateways, n \in Nodes : Request(w, g, n)
  \/ WifiSend \/ AnswerDropped("outdated") \/ AnswerDropped("refused")
  \/ SendPkt \/ Broadcast

Spec == Init /\ [][Next]_vars

\* A worker that executes a request and a broadcast of main keep running, a
\* mutex that is free again and again is obtained, and an answer that waits for
\* a worker is taken up (CommUnit, NodeReturns).
FairSpec ==
  /\ Spec
  /\ WF_vars(Broadcast)
  /\ WF_vars(WifiSend \/ AnswerDropped("outdated") \/ AnswerDropped("refused"))
  /\ \A w \in Workers : WF_vars(WorkerStep(w)) /\ SF_vars(LockMap(w))

-----------------------------------------------------------------------------
(* Properties.                                                             *)

\* However requests are repeated and interleaved, a gateway has one entry
\* at most: it is polled once by a broadcast.
OneEntryPerGateway ==
  \A m, n \in Indices : map[m] # Unused /\ map[m] = map[n] => m = n

\* A JOIN_ACK is on its way to a gateway only once the gateway is in the map.
AckIsFounded ==
  LET Acked(s) == { s[k].address : k \in { j \in 1 .. Len(s) :
                      "join_status" \in DOMAIN s[j] /\ s[j].join_status = "JOIN_ACK" } }
  IN Acked([k \in DOMAIN NSI_send |-> NSI_send[k].content]) \cup Acked(pkt_Queue)
       \subseteq Listed

\* A broadcast handles each gateway that was in the map when it began, once,
\* and no other: nobody joins, or moves, in the middle of it.
BroadcastComplete ==
  index = MAX_NUMBER_NODES + 1 =>
    reached \cup missed = member /\ reached \cap missed = {}

\* Each join request is decided and its own answer, in its own node, gets to the
\* send queue, however often main polls and however many others join; it is
\* given up only at a full queue, or by the dispatcher as out of date or without
\* a job slot.
JoinsAnswered ==
  \A n \in Nodes :
    fate[n] = "open" ~> fate[n] \in {"queued", "full", "outdated", "refused"}

\* Server.h: Server_process_wifi_send "sends the message pointed to by an input
\* parameter" - an answer that finds the send queue full is not sent.
AnswersFit == \A n \in Nodes : fate[n] # "full"

\* Server.h: the broadcast "sends msg to all gateways registered".
BroadcastReachesAll == index = MAX_NUMBER_NODES + 1 => reached = member
=============================================================================
