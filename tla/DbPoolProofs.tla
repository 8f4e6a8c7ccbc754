---------------------------- MODULE DbPoolProofs ----------------------------
(* Theorems about DbPool, for any number of clients, connections, retries  *)
(* and statements.                                                         *)
EXTENDS DbPool, TLAPS

\* A client between Get and Release has a connection, no other client has;
\* and a transaction has a client that will end it, or could not.
ClientInv ==
  \A c \in Clients : conn[c] = NoConn <=> at[c] \in {"idle", "get", "spin"}

\* Walks, and statements, are left while a client is about to make one.
CountInv ==
  \A c \in Clients :
    /\ at[c] = "get" => tries[c] > 0
    /\ at[c] \in {"get", "begin", "execute", "upload"} => left[c] > 0

PhaseInv ==
  /\ main = "creating" => is_used = {} /\ \A c \in Clients : at[c] = "idle"
  /\ main = "leaving" => listed = {}

HoldInv ==
  /\ \A c, d \in Clients : conn[c] # NoConn /\ conn[c] = conn[d] => c = d
  /\ main = "running" =>
       \A s \in Serials : s \in is_used <=> \E c \in Clients : conn[c] = s

TransactionInv ==
  \A s \in inTransaction \ unsent :
    \E c \in Clients : conn[c] = s /\ at[c] \in {"upload", "commit", "rollback"}

Inv == TypeOK /\ ClientInv /\ CountInv /\ PhaseInv /\ HoldInv /\ TransactionInv

(* The states of the pool and of its clients are typed, whatever fails and *)
(* whenever main leaves.                                                   *)
LEMMA InitInv == Init => Inv
<1> SUFFICES ASSUME Init PROVE Inv
  OBVIOUS
<1>1. TypeOK
  <2>1. /\ retry_times \in -1 .. MEMORY_ALLOCATE_RETRIES /\ opened \in 0 .. max_connection
        /\ tries \in [Clients -> 0 .. SQL_GET_AVAILABLE_CONNECTION_RETRIES]
        /\ left \in [Clients -> 0 .. UploadStatements]
    BY DbPoolAssumption DEF Init
  <2> QED BY <2>1 DEF Init, TypeOK
<1>2. ClientInv /\ CountInv /\ PhaseInv /\ TransactionInv
  BY DEF Init, ClientInv, CountInv, PhaseInv, TransactionInv
<1>3. HoldInv
  BY DEF Init, HoldInv
<1> QED BY <1>1, <1>2, <1>3 DEF Inv

(* The creation of the pool concerns no client.                            *)
LEMMA CreateInv == Inv /\ Create => Inv'
<1> SUFFICES ASSUME Inv, Create PROVE Inv'
  OBVIOUS
<1> USE DbPoolAssumption DEF Inv, TypeOK, clientVars, listVars, transactionVars, Serials, NoConn
<1>1. ASSUME NEW fails \in 0 .. MEMORY_ALLOCATE_RETRIES, AddNode(fails) PROVE Inv'
  <2>1. TypeOK'
    <3>1. retry_times' \in -1 .. MEMORY_ALLOCATE_RETRIES
      BY <1>1 DEF AddNode, Reused
    <3> QED BY <1>1, <3>1 DEF AddNode, Reused
  <2>2. ClientInv' /\ CountInv' /\ PhaseInv' /\ HoldInv' /\ TransactionInv'
    BY <1>1 DEF AddNode, ClientInv, CountInv, PhaseInv, HoldInv, TransactionInv
  <2> QED BY <2>1, <2>2
<1>2. CASE CreateFails
  <2>1. TypeOK'
    BY <1>2 DEF CreateFails, DestroyPool
  <2>2. ClientInv' /\ CountInv' /\ PhaseInv' /\ HoldInv' /\ TransactionInv'
    BY <1>2 DEF CreateFails, DestroyPool, ClientInv, CountInv, PhaseInv, HoldInv, TransactionInv
  <2> QED BY <2>1, <2>2
<1>3. CASE CreateFailsReused
  BY <1>3 DEF CreateFailsReused, ClientInv, CountInv, PhaseInv, HoldInv, TransactionInv
<1>4. CASE Created
  <2>1. TypeOK' /\ ClientInv' /\ CountInv' /\ PhaseInv' /\ TransactionInv'
    BY <1>4 DEF Created, ClientInv, CountInv, PhaseInv, TransactionInv
  <2>2. HoldInv'
    BY <1>4 DEF Created, ClientInv, CountInv, PhaseInv, HoldInv
  <2> QED BY <2>1, <2>2
<1> QED BY <1>1, <1>2, <1>3, <1>4 DEF Create

(* A step of a call keeps the connection it has, takes one that no other   *)
(* call has, or gives its own back with no transaction open on it.         *)
LEMMA ClientStepInv == \A c \in Clients : Inv /\ ClientStep(c) => Inv'
<1> SUFFICES ASSUME Inv, NEW c \in Clients, ClientStep(c) PROVE Inv'
  OBVIOUS
<1> USE DbPoolAssumption DEF Inv, TypeOK, createVars, listVars, clientVars, transactionVars, Serials, NoConn
<1>0. main \in {"running", "leaving"}
  BY DEF ClientStep, Call, Get, GetRetry, Begin, Execute, End, Release, ThreadsRun
<1>1. ASSUME NEW n \in {1, UploadStatements}, Call(c, n) PROVE Inv'
  <2>1. TypeOK'
    BY <1>1 DEF Call
  <2>2. ClientInv' /\ CountInv' /\ PhaseInv'
    BY <1>0, <1>1 DEF Call, ClientInv, CountInv, PhaseInv
  <2>3. HoldInv' /\ TransactionInv'
    BY <1>1 DEF Call, HoldInv, TransactionInv
  <2> QED BY <2>1, <2>2, <2>3
<1>2. ASSUME NEW s \in Serials, NEW transaction \in BOOLEAN, Get(c, s, transaction) PROVE Inv'
  <2>1. TypeOK'
    BY <1>2 DEF Get
  <2>2. ClientInv' /\ CountInv' /\ PhaseInv'
    BY <1>0, <1>2 DEF Get, ClientInv, CountInv, PhaseInv
  <2>3. main = "running" /\ s \notin is_used /\ conn[c] = NoConn
    BY <1>0, <1>2 DEF Get, First, Available, PhaseInv, ClientInv
  <2>4. \A d \in Clients : conn[d] # s
    BY <2>3 DEF HoldInv
  <2>5. HoldInv'
    BY <1>2, <2>3, <2>4 DEF Get, HoldInv
  <2>6. TransactionInv'
    BY <1>2, <2>3 DEF Get, TransactionInv
  <2> QED BY <2>1, <2>2, <2>5, <2>6
<1>3. CASE GetRetry(c)
  <2>1. TypeOK'
    BY <1>3 DEF GetRetry, TriesLeft, CountInv
  <2>2. ClientInv' /\ CountInv' /\ PhaseInv'
    BY <1>0, <1>3 DEF GetRetry, TriesLeft, ClientInv, CountInv, PhaseInv
  <2>3. HoldInv' /\ TransactionInv'
    BY <1>3 DEF GetRetry, HoldInv, TransactionInv
  <2> QED BY <2>1, <2>2, <2>3
<1>4. ASSUME NEW ok \in BOOLEAN, Begin(c, ok) PROVE Inv'
  <2>1. TypeOK' /\ ClientInv' /\ CountInv' /\ PhaseInv' /\ HoldInv'
    BY <1>0, <1>4 DEF Begin, ClientInv, CountInv, PhaseInv, HoldInv
  <2>2. TransactionInv'
    BY <1>4 DEF Begin, TransactionInv
  <2> QED BY <2>1, <2>2
<1>5. ASSUME NEW ok \in BOOLEAN, Execute(c, ok) PROVE Inv'
  <2>1. left' \in [Clients -> 0 .. UploadStatements]
    BY <1>5 DEF Execute, CountInv
  <2>2. TypeOK' /\ ClientInv' /\ CountInv' /\ PhaseInv' /\ HoldInv'
    BY <1>0, <1>5, <2>1 DEF Execute, AfterStatement, ClientInv, CountInv, PhaseInv, HoldInv
  <2>3. TransactionInv'
    BY <1>5 DEF Execute, AfterStatement, TransactionInv
  <2> QED BY <2>2, <2>3
<1>6. ASSUME NEW sent \in BOOLEAN, End(c, sent) PROVE Inv'
  <2>1. TypeOK' /\ ClientInv' /\ CountInv' /\ PhaseInv' /\ HoldInv'
    BY <1>0, <1>6 DEF End, ClientInv, CountInv, PhaseInv, HoldInv
  <2>2. conn' = conn /\ \A d \in Clients : d # c => at'[d] = at[d]
    BY <1>6 DEF End
  <2>3. inTransaction' \ unsent' = (inTransaction \ unsent) \ {conn[c]}
    BY <1>6 DEF End, EndsTransaction
  <2>4. TransactionInv'
    <3> SUFFICES ASSUME NEW s \in inTransaction \ unsent, s # conn[c]
                 PROVE  \E d \in Clients :
                          conn[d] = s /\ at'[d] \in {"upload", "commit", "rollback"}
      BY <2>2, <2>3 DEF TransactionInv
    <3>1. PICK d \in Clients : conn[d] = s /\ at[d] \in {"upload", "commit", "rollback"}
      BY DEF TransactionInv
    <3> QED BY <3>1, <2>2
  <2> QED BY <2>1, <2>4
<1>7. CASE Release(c)
  <2>1. TypeOK'
    <3>1. left' \in [Clients -> 0 .. UploadStatements]
      BY <1>7 DEF Release
    <3>2. conn' \in [Clients -> Serials \cup {NoConn}] /\ is_used' \subseteq Serials
      BY <1>7 DEF Release
    <3>3. at' \in [Clients -> {"idle", "get", "spin", "begin", "execute",
                              "upload", "commit", "rollback", "release"}]
      BY <1>7 DEF Release
    <3> QED BY <1>7, <3>1, <3>2, <3>3 DEF Release
  <2>2. ClientInv' /\ CountInv'
    BY <1>7 DEF Release, ClientInv, CountInv
  <2>3. PhaseInv'
    BY <1>0, <1>7 DEF Release, PhaseInv
  <2>4. HoldInv'
    BY <1>7 DEF Release, ClientInv, HoldInv
  <2>5. TransactionInv'
    BY <1>7 DEF Release, TransactionInv
  <2> QED BY <2>1, <2>2, <2>3, <2>4, <2>5
<1> QED BY <1>1, <1>2, <1>3, <1>4, <1>5, <1>6, <1>7 DEF ClientStep

(* main empties the pool without regard to the clients.                    *)
LEMMA ShutdownInv == Inv /\ Shutdown => Inv'
  BY DEF Inv, Shutdown, DestroyPool, clientVars, transactionVars, TypeOK, ClientInv, CountInv, PhaseInv,
         HoldInv, TransactionInv, Serials, NoConn

(* The cases together.                                                     *)
LEMMA NextInv == Inv /\ [Next]_vars => Inv'
<1> SUFFICES ASSUME Inv, [Next]_vars PROVE Inv'
  OBVIOUS
<1>1. CASE UNCHANGED vars
  BY <1>1 DEF vars, createVars, listVars, clientVars, transactionVars, Inv, TypeOK, ClientInv, CountInv, PhaseInv,
              HoldInv, TransactionInv
<1> QED BY <1>1, CreateInv, ClientStepInv, ShutdownInv DEF Next

(* The strengthening of the theorems below holds in every state.           *)
THEOREM SpecInv == Spec => []Inv
  BY InitInv, NextInv, PTL DEF Spec

(* No connection has two users, and none that is marked as in use is       *)
(* without one: no path of an SQL_ function loses a connection.            *)
THEOREM ConnectionsAreExclusive == Spec => []UsedIsHeld
<1>1. Inv => UsedIsHeld
  BY DEF Inv, ClientInv, HoldInv, UsedIsHeld, Holds, TypeOK, Serials, NoConn
<1> QED BY <1>1, SpecInv, PTL

(* Every open transaction has a call in progress that will try to end it,  *)
(* unless its END or ROLLBACK could not be sent.                           *)
THEOREM TransactionsHaveOwners == Spec => []NoStrayTransaction
<1>1. Inv => NoStrayTransaction
  BY DEF Inv, TransactionInv, NoStrayTransaction, Ends
<1> QED BY <1>1, SpecInv, PTL

(* The types of the pool hold in every state.                              *)
THEOREM TypeCorrect == Spec => []TypeOK
  BY SpecInv, PTL DEF Inv
=============================================================================
