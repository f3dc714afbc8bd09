-------------------------------- MODULE NCNode -------------------------------
(***************************************************************************)
(* The node processes (nc_node.rs): each runs start(), which registers,    *)
(* then its main loop, which asks for work, computes and returns results,  *)
(* and its heartbeat thread.  The two threads share the server's address   *)
(* and count their failures apart from each other.                         *)
(***************************************************************************)
EXTENDS NCConnection

CONSTANTS
  Nodes,            \* the node processes
  Home,             \* node -> the server it is configured with
  RetryCounter      \* NCConfiguration.retry_counter

ASSUME NCNodeAssumption ==
  /\ Home \in [Nodes -> Servers]
  /\ RetryCounter \in Nat

VARIABLES
  node_loop,        \* where the main thread is
  node_id,          \* NodeProcess.node_id, None while unset
  server_addr,      \* the address both threads read
  retry_counter,    \* NodeProcess.retry_counter
  sock,             \* the stream the main thread waits on
  work,             \* the chunk it computes
  heartbeat,        \* the heartbeat thread
  hb_retry_counter  \* NodeHeartbeat.retry_counter

nodeVars == <<node_loop, node_id, server_addr, retry_counter, sock, work,
              heartbeat, hb_retry_counter>>

hbVars == <<heartbeat, hb_retry_counter>>

NCNodeTypeOK ==
  /\ node_loop \in [Nodes -> {"start", "registering", "request", "waiting",
                              "working", "migrating", "exited", "failed", "crashed"}]
  /\ node_id \in [Nodes -> NodeIDs \cup {None}]
  /\ server_addr \in [Nodes -> Servers]
  /\ retry_counter \in [Nodes -> 0 .. RetryCounter]
  /\ sock \in [Nodes -> Conns \cup {None}]
  /\ work \in [Nodes -> ChunkIdx \cup {None}]
  /\ heartbeat \in [Nodes -> {"off", "running", "exited", "crashed"}]
  /\ hb_retry_counter \in [Nodes -> 0 .. RetryCounter]

NCNodeInit ==
  /\ node_loop = [n \in Nodes |-> "start"]
  /\ node_id = [n \in Nodes |-> None]
  /\ server_addr = Home
  /\ retry_counter = [n \in Nodes |-> RetryCounter]
  /\ sock = [n \in Nodes |-> None]
  /\ work = [n \in Nodes |-> None]
  /\ heartbeat = [n \in Nodes |-> "off"]
  /\ hb_retry_counter = [n \in Nodes |-> RetryCounter]

-----------------------------------------------------------------------------
(* Steps of the main loop all threads of control share.                    *)

Goto(n, place) == node_loop' = [node_loop EXCEPT ![n] = place]

(* get_and_process_data() returned Ok: reset_counter(), next round.        *)
NextRound(n) ==
  /\ Goto(n, "request")
  /\ retry_counter' = [retry_counter EXCEPT ![n] = RetryCounter]

(* Mutant: the counter is decremented before it is compared with zero.     *)
RoundFailsUnderflow(n) ==
  /\ retry_counter' = [retry_counter EXCEPT ![n] = @ - 1]
  /\ Goto(n, IF retry_counter[n] = 0 THEN "exited" ELSE "request")

(* Mutant: a failed round resets the counter too.                          *)
RoundFailsReset(n) == NextRound(n)

(* It returned an error: dec_and_check_counter(), leave the loop or sleep. *)
RoundFails(n) ==
  IF retry_counter[n] = 0
  THEN Goto(n, "exited") /\ UNCHANGED retry_counter
  ELSE /\ Goto(n, "request")
       /\ retry_counter' = [retry_counter EXCEPT ![n] = @ - 1]

(* Connect, send, and wait on the stream for the answer.                   *)
SendAndWait(n, message) ==
  \E k \in Conns :
    /\ Send(k, server_addr[n], message, TRUE)
    /\ sock' = [sock EXCEPT ![n] = k]

(* The main thread takes the answer, or the loss of it, off its stream.    *)
Replied(n, type) ==
  /\ conn[sock[n]].step = "replied"
  /\ conn[sock[n]].reply.type = type

StreamLost(n) == conn[sock[n]].step = "dropped"

Close(n) ==
  /\ conn' = [conn EXCEPT ![sock[n]] = None]
  /\ sock' = [sock EXCEPT ![n] = None]

-----------------------------------------------------------------------------
(* start() and get_initial_data()                                          *)

SendRegister(n) ==
  /\ node_loop[n] = "start"
  /\ SendAndWait(n, [type |-> "Register"])
  /\ Goto(n, "registering")
  /\ UNCHANGED <<listening, node_id, server_addr, retry_counter, work, hbVars>>

GetInitialData(n) ==
  /\ node_loop[n] = "registering"
  /\ Replied(n, "InitialData")
  /\ node_id' = [node_id EXCEPT ![n] = conn[sock[n]].reply.node_id]
  /\ Close(n)
  /\ heartbeat' = [heartbeat EXCEPT ![n] = "running"]
  /\ Goto(n, "request")
  /\ UNCHANGED <<listening, server_addr, retry_counter, work, hb_retry_counter>>

(* start() hands the error to its caller and nothing has been started yet. *)
RegisterRefused(n) ==
  /\ node_loop[n] = "start"
  /\ Goto(n, "failed")
  /\ UNCHANGED <<connVars, node_id, server_addr, retry_counter, sock, work, hbVars>>

RegisterLost(n) ==
  /\ node_loop[n] = "registering"
  /\ StreamLost(n)
  /\ Close(n)
  /\ Goto(n, "failed")
  /\ UNCHANGED <<listening, node_id, server_addr, retry_counter, work, hbVars>>

-----------------------------------------------------------------------------
(* get_and_process_data()                                                  *)

SendNeedsData(n) ==
  /\ node_loop[n] = "request"
  /\ SendAndWait(n, [type |-> "NeedsData", node_id |-> node_id[n]])
  /\ Goto(n, "waiting")
  /\ UNCHANGED <<listening, node_id, server_addr, retry_counter, work, hbVars>>

NeedsDataRefused(n) ==
  /\ node_loop[n] = "request"
  /\ RoundFails(n)
  /\ UNCHANGED <<connVars, node_id, server_addr, sock, work, hbVars>>

NeedsDataLost(n) ==
  /\ node_loop[n] = "waiting"
  /\ StreamLost(n)
  /\ Close(n)
  /\ RoundFails(n)
  /\ UNCHANGED <<listening, node_id, server_addr, work, hbVars>>

GetUnfinished(n) ==
  /\ node_loop[n] = "waiting"
  /\ Replied(n, "Unfinished")
  /\ work' = [work EXCEPT ![n] = conn[sock[n]].reply.chunk_id]
  /\ Close(n)
  /\ Goto(n, "working")
  /\ UNCHANGED <<listening, node_id, server_addr, retry_counter, hbVars>>

(* Waiting and a custom message leave nothing behind but a good round.     *)
GetNoWork(n) ==
  /\ node_loop[n] = "waiting"
  /\ Replied(n, "Waiting") \/ Replied(n, "CustomMessage")
  /\ Close(n)
  /\ NextRound(n)
  /\ UNCHANGED <<listening, node_id, server_addr, work, hbVars>>

(* Mutant: the address both threads read stays the old one.                *)
GetNewServerKeepAddress(n) ==
  /\ node_loop[n] = "waiting"
  /\ Replied(n, "NewServer")
  /\ Close(n)
  /\ Goto(n, "migrating")
  /\ UNCHANGED <<listening, node_id, server_addr, retry_counter, work, hbVars>>

GetNewServer(n) ==
  /\ node_loop[n] = "waiting"
  /\ Replied(n, "NewServer")
  /\ server_addr' = [server_addr EXCEPT ![n] = conn[sock[n]].reply.server]
  /\ Close(n)
  /\ Goto(n, "migrating")
  /\ UNCHANGED <<listening, node_id, retry_counter, work, hbVars>>

(* Mutant: the new server is not told.                                     *)
SendNodeMigratedSkipped(n) ==
  /\ node_loop[n] = "migrating"
  /\ NextRound(n)
  /\ UNCHANGED <<connVars, node_id, server_addr, sock, work, hbVars>>

SendNodeMigrated(n) ==
  /\ node_loop[n] = "migrating"
  /\ \E k \in Conns :
       Send(k, server_addr[n], [type |-> "NodeMigrated", node_id |-> node_id[n]], FALSE)
  /\ NextRound(n)
  /\ UNCHANGED <<listening, node_id, server_addr, sock, work, hbVars>>

NodeMigratedRefused(n) ==
  /\ node_loop[n] = "migrating"
  /\ RoundFails(n)
  /\ UNCHANGED <<connVars, node_id, server_addr, sock, work, hbVars>>

SendHasData(n) ==
  /\ node_loop[n] = "working"
  /\ \E k \in Conns :
       Send(k, server_addr[n],
            [type |-> "HasData", node_id |-> node_id[n], chunk_id |-> work[n]], FALSE)
  /\ work' = [work EXCEPT ![n] = None]
  /\ NextRound(n)
  /\ UNCHANGED <<listening, node_id, server_addr, sock, hbVars>>

(* process_data_from_server() returned an error, or the result could not   *)
(* be sent: it is gone, the next round asks for something else.            *)
WorkFails(n) ==
  /\ node_loop[n] = "working"
  /\ work' = [work EXCEPT ![n] = None]
  /\ RoundFails(n)
  /\ UNCHANGED <<connVars, node_id, server_addr, sock, hbVars>>

-----------------------------------------------------------------------------
(* The heartbeat thread.  Bound: one HeartBeat of a node under way.        *)

IsHeartBeat(k, id) ==
  /\ conn[k] # None
  /\ conn[k].request.type = "HeartBeat"
  /\ conn[k].request.node_id = id

HeartBeat(n) ==
  /\ heartbeat[n] = "running"
  /\ ~ \E k \in Conns : IsHeartBeat(k, node_id[n])
  /\ \E k \in Conns :
       Send(k, server_addr[n], [type |-> "HeartBeat", node_id |-> node_id[n]], FALSE)
  /\ hb_retry_counter' = [hb_retry_counter EXCEPT ![n] = RetryCounter]
  /\ UNCHANGED <<listening, node_loop, node_id, server_addr, retry_counter, sock,
                 work, heartbeat>>

HeartBeatRefused(n) ==
  /\ heartbeat[n] = "running"
  /\ IF hb_retry_counter[n] = 0
     THEN /\ heartbeat' = [heartbeat EXCEPT ![n] = "exited"]
          /\ UNCHANGED hb_retry_counter
     ELSE /\ hb_retry_counter' = [hb_retry_counter EXCEPT ![n] = @ - 1]
          /\ UNCHANGED heartbeat
  /\ UNCHANGED <<connVars, node_loop, node_id, server_addr, retry_counter, sock, work>>

-----------------------------------------------------------------------------
main_thread(n) ==
  \/ SendRegister(n)  \/ GetInitialData(n) \/ RegisterLost(n)
  \/ SendNeedsData(n) \/ NeedsDataLost(n)  \/ GetUnfinished(n)
  \/ GetNoWork(n)     \/ GetNewServer(n)   \/ SendNodeMigrated(n)
  \/ SendHasData(n)

(* TcpStream::connect fails: for good once the server's listener is gone.  *)
MainThreadRefused(n) ==
  \/ RegisterRefused(n)
  \/ NeedsDataRefused(n)
  \/ NodeMigratedRefused(n)
  \/ WorkFails(n)

NodeMainLoop(n) ==
  main_thread(n) \/ (~listening[server_addr[n]] /\ MainThreadRefused(n))

NodeHeartbeatThread(n) ==
  HeartBeat(n) \/ (~listening[server_addr[n]] /\ HeartBeatRefused(n))

NCNodeNext == \E n \in Nodes : NodeMainLoop(n) \/ NodeHeartbeatThread(n)

(* The process dies, and the streams its threads have open with it.        *)
Alive(n) == node_loop[n] \notin {"failed", "crashed"}
            /\ ~(node_loop[n] = "exited" /\ heartbeat[n] = "exited")

Crash(n) ==
  /\ Alive(n)
  /\ Goto(n, "crashed")
  /\ heartbeat' = [heartbeat EXCEPT ![n] = "crashed"]
  /\ conn' = IF sock[n] = None THEN conn
             ELSE [conn EXCEPT ![sock[n]] = Abandoned(@)]
  /\ sock' = [sock EXCEPT ![n] = None]
  /\ work' = [work EXCEPT ![n] = None]
  /\ UNCHANGED <<listening, node_id, server_addr, retry_counter, hb_retry_counter>>
=============================================================================
