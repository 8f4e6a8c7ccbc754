------------------------------- MODULE DbPool -------------------------------
(***************************************************************************)
(* The pool of database connections (src/src/SqlWrapper.c): main opens the *)
(* connections before it starts a thread that uses them and finishes them  *)
(* on its way out; a client, any thread that calls an SQL_ function, takes *)
(* the first connection that is not in use, executes its statements, and   *)
(* gives the connection back.                                              *)
(*                                                                         *)
(* The list holds its nodes in the order of their serial_id: it is the set *)
(* of the serial_ids in it. A node is inserted a second time when the      *)
(* attempts to allocate are used up: it gets the new serial_id, the        *)
(* connection it had is in no list any more, and its next points to itself *)
(* until another node follows it ("looped").                               *)
(***************************************************************************)
EXTENDS Integers, FiniteSets

CONSTANTS
  Clients,                               \* threads that call SQL_ functions
  max_connection,
  MEMORY_ALLOCATE_RETRIES,
  SQL_GET_AVAILABLE_CONNECTION_RETRIES,
  UploadStatements,                      \* statements of a transaction
  MallocFails                            \* whether malloc may fail

ASSUME DbPoolAssumption ==
  /\ max_connection \in Nat \ {0} /\ MEMORY_ALLOCATE_RETRIES \in Nat \ {0}
  /\ SQL_GET_AVAILABLE_CONNECTION_RETRIES \in Nat \ {0}
  /\ UploadStatements \in Nat \ {0} /\ MallocFails \in BOOLEAN

VARIABLES
  main,          \* what main is at
  opened,        \* connections opened so far
  retry_times,   \* of SQL_create_database_connection_pool; -1: any negative
  listed, looped,
  is_used,       \* the nodes of the list with is_used = 1
  at,            \* what each client is at
  conn,          \* [client -> the serial_id it got, or NoConn]
  tries,         \* [client -> retry_times of SQL_get_database_connection]
  left,          \* [client -> statements it has still to execute]
  inTransaction, \* the database's view: connections with an open transaction
  unsent,        \* those of them whose END or ROLLBACK was never sent
  finished       \* connections on which PQfinish was called

createVars == <<main, opened, retry_times>>
listVars == <<listed, looped>>
clientVars == <<at, conn, tries, left>>
transactionVars == <<inTransaction, unsent>>
vars == <<createVars, listVars, is_used, clientVars, transactionVars, finished>>

Serials == 0 .. max_connection - 1
NoConn == -1

TypeOK ==
  /\ main \in {"creating", "running", "leaving", "crashed"}
  /\ opened \in 0 .. max_connection
  /\ retry_times \in -1 .. MEMORY_ALLOCATE_RETRIES
  /\ listed \subseteq Serials /\ is_used \subseteq Serials
  /\ inTransaction \subseteq Serials /\ unsent \subseteq inTransaction
  /\ finished \subseteq Serials
  /\ looped \in BOOLEAN
  /\ at \in [Clients -> {"idle", "get", "spin", "begin", "execute",
                         "upload", "commit", "rollback", "release"}]
  /\ conn \in [Clients -> Serials \cup {NoConn}]
  /\ tries \in [Clients -> 0 .. SQL_GET_AVAILABLE_CONNECTION_RETRIES]
  /\ left \in [Clients -> 0 .. UploadStatements]

Init ==
  /\ main = "creating" /\ opened = 0 /\ retry_times = MEMORY_ALLOCATE_RETRIES
  /\ listed = {} /\ looped = FALSE /\ is_used = {}
  /\ at = [c \in Clients |-> "idle"]
  /\ conn = [c \in Clients |-> NoConn]
  /\ tries = [c \in Clients |-> 0] /\ left = [c \in Clients |-> 0]
  /\ inTransaction = {} /\ unsent = {} /\ finished = {}

-----------------------------------------------------------------------------
(* Wrong variants of definitions below, one plausible bug each; only the   *)
(* mutation tests of the properties use them.                              *)

Mutant_Unlocked == is_used = {}
Mutant_EndsTransaction == {"commit"}
Mutant_AfterStatement(c, ok) ==
  IF ok /\ left[c] > 1 THEN at[c]
  ELSE IF at[c] = "execute" THEN IF ok THEN "release" ELSE "idle"
  ELSE IF ok THEN "commit" ELSE "rollback"

-----------------------------------------------------------------------------
(* SQL_create_database_connection_pool, called by main                     *)

\* The attempts to allocate are counted over all connections. When they are
\* just used up the loop is not entered and the last node is used again;
\* from then on the count is negative and does not end the loop.
Reused == retry_times = 0

AddNode(fails) ==
  /\ main = "creating" /\ opened < max_connection
  /\ fails = 0 \/ (MallocFails /\ retry_times > 0 /\ fails < retry_times)
  /\ retry_times' = IF retry_times > 0 THEN retry_times - 1 - fails ELSE -1
  /\ listed' = (IF Reused THEN listed \ {opened - 1} ELSE listed) \cup {opened}
  /\ looped' = Reused
  /\ opened' = opened + 1
  /\ UNCHANGED <<main, is_used, clientVars, transactionVars, finished>>

\* The nodes are removed and their connections finished, which ends their
\* transactions. A walk that meets a node that points to itself uses it after
\* it was freed.
DestroyPool ==
  /\ listed' = {} /\ is_used' = {}
  /\ finished' = finished \cup listed
  /\ inTransaction' = inTransaction \ listed /\ unsent' = unsent \ listed
  /\ main' = IF looped THEN "crashed" ELSE "leaving"

\* No memory, or no connection to the database: main gives up.
CreateFails ==
  /\ main = "creating" /\ opened < max_connection
  /\ ~Reused
  /\ DestroyPool
  /\ UNCHANGED <<opened, retry_times, looped, clientVars>>

\* The node in the list has been cleared, and points to itself.
CreateFailsReused ==
  /\ main = "creating" /\ opened < max_connection
  /\ Reused
  /\ main' = "crashed"
  /\ UNCHANGED <<opened, retry_times, listVars, is_used, clientVars, transactionVars, finished>>

Created ==
  /\ main = "creating" /\ opened = max_connection
  /\ main' = "running"
  /\ UNCHANGED <<opened, retry_times, listVars, is_used, clientVars, transactionVars, finished>>

-----------------------------------------------------------------------------
(* The clients                                                             *)

\* list_lock is held for one walk along the list, which may not end.
Unlocked == \A c \in Clients : at[c] # "spin"
\* After a crash there are no threads any more.
ThreadsRun == main \in {"running", "leaving"}

\* An SQL_ function is called. A statement whose failure the function ignores
\* counts as one that succeeds.
Call(c, n) ==
  /\ ThreadsRun /\ at[c] = "idle"
  /\ at' = [at EXCEPT ![c] = "get"]
  /\ tries' = [tries EXCEPT ![c] = SQL_GET_AVAILABLE_CONNECTION_RETRIES]
  /\ left' = [left EXCEPT ![c] = n]
  /\ UNCHANGED <<createVars, listVars, is_used, conn, transactionVars, finished>>

Available == listed \ is_used
First(s) == s \in Available /\ \A t \in Available : s <= t

\* The upload of the summary makes a transaction of its statements.
Get(c, s, transaction) ==
  /\ ThreadsRun /\ at[c] = "get" /\ Unlocked
  /\ transaction => left[c] = UploadStatements
  /\ First(s)
  /\ conn' = [conn EXCEPT ![c] = s]
  /\ is_used' = is_used \cup {s}
  /\ at' = [at EXCEPT ![c] = IF transaction THEN "begin" ELSE "execute"]
  /\ tries' = [tries EXCEPT ![c] = 0]      \* the function has returned
  /\ UNCHANGED <<createVars, listVars, left, transactionVars, finished>>

TriesLeft(c) == tries[c] > 1

GetRetry(c) ==
  /\ ThreadsRun /\ at[c] = "get" /\ Unlocked
  /\ Available = {}
  /\ IF looped THEN at' = [at EXCEPT ![c] = "spin"] /\ UNCHANGED tries
     ELSE /\ at' = IF TriesLeft(c) THEN at ELSE [at EXCEPT ![c] = "idle"]
          /\ tries' = [tries EXCEPT ![c] = @ - 1]
  /\ UNCHANGED <<createVars, listVars, is_used, conn, left, transactionVars, finished>>

\* The result of BEGIN is not looked at.
Begin(c, ok) ==
  /\ ThreadsRun /\ at[c] = "begin"
  /\ inTransaction' = IF ok THEN inTransaction \cup {conn[c]} ELSE inTransaction
  /\ at' = [at EXCEPT ![c] = "upload"]
  /\ UNCHANGED <<createVars, listVars, is_used, conn, tries, left, unsent, finished>>

\* A statement that fails ends the call, after a rollback in the upload, even
\* if BEGIN had failed.
AfterStatement(c, ok) ==
  IF ok /\ left[c] > 1 THEN at[c]
  ELSE IF at[c] = "execute" THEN "release"
  ELSE IF ok THEN "commit" ELSE "rollback"

Execute(c, ok) ==
  /\ ThreadsRun /\ at[c] \in {"execute", "upload"}
  /\ at' = [at EXCEPT ![c] = AfterStatement(c, ok)]
  /\ left' = [left EXCEPT ![c] = @ - 1]
  /\ UNCHANGED <<createVars, listVars, is_used, conn, tries, transactionVars, finished>>

\* Whatever the database answers to END or ROLLBACK, the transaction is over.
EndsTransaction == {"commit", "rollback"}

\* PQexec has no memory for the message and sends nothing, but its result is
\* not looked at: the connection goes back as it is.
End(c, sent) ==
  /\ ThreadsRun /\ at[c] \in {"commit", "rollback"}
  /\ sent \/ MallocFails
  /\ IF sent /\ at[c] \in EndsTransaction
     THEN /\ inTransaction' = inTransaction \ {conn[c]}
          /\ unsent' = unsent \ {conn[c]}
     ELSE /\ unsent' = IF sent THEN unsent
                       ELSE unsent \cup (inTransaction \cap {conn[c]})
          /\ UNCHANGED inTransaction
  /\ at' = [at EXCEPT ![c] = "release"]
  /\ UNCHANGED <<createVars, listVars, is_used, conn, tries, left, finished>>

\* In the empty list of a destroyed pool there is no node to release.
Release(c) ==
  /\ ThreadsRun /\ at[c] = "release" /\ Unlocked
  /\ is_used' = is_used \ {conn[c]}
  /\ at' = [at EXCEPT ![c] = "idle"]
  /\ conn' = [conn EXCEPT ![c] = NoConn]
  /\ left' = [left EXCEPT ![c] = 0]
  /\ UNCHANGED <<createVars, listVars, tries, transactionVars, finished>>

ClientStep(c) ==
  \/ \E n \in {1, UploadStatements} : Call(c, n)
  \/ \E s \in Serials, transaction \in BOOLEAN : Get(c, s, transaction)
  \/ GetRetry(c) \/ Release(c)
  \/ \E ok \in BOOLEAN : Begin(c, ok) \/ Execute(c, ok) \/ End(c, ok)

\* main leaves its loop, without waiting for the threads it has started.
Shutdown ==
  /\ main = "running" /\ Unlocked
  /\ DestroyPool
  /\ UNCHANGED <<opened, retry_times, looped, clientVars>>

-----------------------------------------------------------------------------
Create ==
  \/ \E fails \in 0 .. MEMORY_ALLOCATE_RETRIES : AddNode(fails)
  \/ CreateFails \/ CreateFailsReused \/ Created

Next == Create \/ (\E c \in Clients : ClientStep(c)) \/ Shutdown

Spec == Init /\ [][Next]_vars

\* A call in progress goes on, and the database answers.
CallStep(c) == at[c] # "idle" /\ ClientStep(c)
FairSpec == Spec /\ \A c \in Clients : WF_vars(CallStep(c))

-----------------------------------------------------------------------------
(* Properties.                                                             *)

Holds(c, s) == at[c] # "idle" /\ conn[c] = s

\* No two clients use one connection, and a connection that is marked as in
\* use has a client that will give it back: whatever fails, none is lost.
UsedIsHeld ==
  /\ \A c, d \in Clients, s \in Serials : Holds(c, s) /\ Holds(d, s) => c = d
  /\ main = "running" =>
       \A s \in Serials : s \in is_used <=> \E c \in Clients : Holds(c, s)

Ends(c, s) == conn[c] = s /\ at[c] \in {"upload", "commit", "rollback"}

\* Every open transaction has a call that will try to end it, on each path of
\* the upload: a connection is in the pool with a transaction open on it, in
\* which the next client's statements are caught, only when END or ROLLBACK
\* could not be sent - until an upload on that connection ends it.
NoStrayTransaction ==
  \A s \in inTransaction \ unsent : \E c \in Clients : Ends(c, s)

\* SqlWrapper.c ends every path of the upload with END or ROLLBACK: nothing
\* is left open, whatever becomes of them.
NoOpenTransactionInPool ==
  \A s \in inTransaction : \E c \in Clients : Holds(c, s)

\* A call returns, with or without a connection - unless the last node of the
\* list points to itself, and the walk along the list does not end.
CallsReturn ==
  \A c \in Clients :
    at[c] # "idle" ~> at[c] = "idle" \/ looped \/ main # "running"

\* Server.h: number_of_database_connection is "The number of database
\* connection in the connection pool".
PoolIsComplete == main = "running" => Cardinality(listed) = max_connection

\* BeDIS.h: ready_to_work is set to false "to stop all threads". The pool is
\* destroyed after that: nothing executes on a finished connection.
NoUseOfFinished ==
  \A c \in Clients : at[c] \in {"begin", "execute", "upload", "commit", "rollback"} =>
    conn[c] \notin finished
=============================================================================
