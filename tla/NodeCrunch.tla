------------------------------ MODULE NodeCrunch -----------------------------
(***************************************************************************)
(* Servers and nodes together, in an environment that may do some of the   *)
(* things the code has to live with:                                       *)
(*   crash    a node process dies                                          *)
(*   late     the heartbeat of a living node is older than the limit       *)
(*   lose     a request or a reply is lost with its stream                 *)
(*   refuse   a node, or the server's heartbeat thread, cannot connect     *)
(*            although the server listens                                  *)
(*   error    process_data_from_server() returns an error                  *)
(*   admin    an operator sends one of AdminRequests                       *)
(* Events says which of them a run admits, MaxEvents (a bound) how many.   *)
(* ServerRestart adds a server that is killed and started again,           *)
(* ServerLocks has peers that hang.  Not covered: anything a peer that is  *)
(* not a node sends.                                                       *)
(***************************************************************************)
EXTENDS NCServer, NCNode

CONSTANTS
  Events,           \* kinds of events that may happen
  MaxEvents,        \* at most so many of them
  AdminRequests     \* pairs <<server, request>> an operator may send

ASSUME NodeCrunchAssumption ==
  /\ MaxEvents \in Nat
  /\ AdminRequests \subseteq (Servers \X NCNodeMessage)

VARIABLE events     \* events so far

vars == <<connVars, serverVars, nodeVars, events>>

TypeOK ==
  /\ NCConnectionTypeOK
  /\ NCServerTypeOK
  /\ NCNodeTypeOK
  /\ events \in 0 .. MaxEvents

Init ==
  /\ NCConnectionInit
  /\ NCServerInit
  /\ NCNodeInit
  /\ events = 0

-----------------------------------------------------------------------------
ServerStep == NCServerNext /\ UNCHANGED <<nodeVars, events>>

NodeStep == NCNodeNext /\ UNCHANGED <<serverVars, events>>

(* A running heartbeat thread, or one its node is about to start, keeps    *)
(* the entry of id on server s fresh.                                      *)
Beating(s, id) ==
  \/ \E n \in Nodes :
       heartbeat[n] = "running" /\ node_id[n] = id /\ server_addr[n] = s
  \/ \E k \in Conns : /\ At(k, s, "replied")
                      /\ conn[k].reply = [type |-> "InitialData", node_id |-> id]

Expire(s, id) ==
  /\ \E i \in DOMAIN node_list[s] :
       /\ node_list[s][i].node_id = id
       /\ ~node_list[s][i].stale
       /\ node_list' = [node_list EXCEPT ![s][i].stale = TRUE]
  /\ UNCHANGED <<connVars, threadVars, departed, new_server, poisoned, jobVars,
                 doneVars, saved, nodeVars>>

(* Time passes: the entry of a node that sends nothing gets too old.       *)
HeartbeatExpires(s) ==
  /\ \E id \in NodeIDs : ~Beating(s, id) /\ Expire(s, id)
  /\ UNCHANGED events

Event(kind) ==
  /\ kind \in Events
  /\ events < MaxEvents
  /\ events' = events + 1

NodeCrashes == Event("crash") /\ (\E n \in Nodes : Crash(n)) /\ UNCHANGED serverVars

HeartbeatLate ==
  Event("late") /\ \E s \in Servers, id \in NodeIDs : Beating(s, id) /\ Expire(s, id)

StreamBreaks ==
  /\ Event("lose")
  /\ \E k \in Conns : LoseRequest(k) \/ LoseReply(k)
  /\ UNCHANGED <<serverVars, nodeVars>>

ConnectRefused ==
  /\ Event("refuse")
  /\ \E n \in Nodes : MainThreadRefused(n) \/ HeartBeatRefused(n)
  /\ UNCHANGED serverVars

CheckRefused ==
  /\ Event("refuse")
  /\ \E s \in Servers : ServerHeartbeatExits(s)
  /\ UNCHANGED nodeVars

ProcessDataFails ==
  Event("error") /\ (\E n \in Nodes : WorkFails(n)) /\ UNCHANGED serverVars

OperatorSends ==
  /\ Event("admin")
  /\ \E k \in Conns, r \in AdminRequests : Send(k, r[1], r[2], FALSE)
  /\ UNCHANGED <<listening, serverVars, nodeVars>>

(* All processes have ended.                                               *)
Terminated ==
  /\ \A s \in Servers : main_loop[s] = "exited"
  /\ \A n \in Nodes : ~Alive(n)
  /\ UNCHANGED vars

Next ==
  \/ ServerStep
  \/ NodeStep
  \/ \E s \in Servers : HeartbeatExpires(s)
  \/ NodeCrashes
  \/ HeartbeatLate
  \/ StreamBreaks
  \/ ConnectRefused
  \/ CheckRefused
  \/ ProcessDataFails
  \/ OperatorSends
  \/ Terminated

Spec == Init /\ [][Next]_vars

-----------------------------------------------------------------------------
(* Fairness.  Every thread that can go on does, and time passes.  Weak     *)
(* fairness is enough for a handler, for time and for the main loop. What  *)
(* needs a free slot of Conns, or the main loop to come round again, gets  *)
(* strong fairness: slots are a bound of the model and the backlog is a    *)
(* queue, so neither starves anyone in the program.                        *)
Fairness ==
  /\ \A s \in Servers :
       /\ WF_vars(ServerMainLoop(s) /\ UNCHANGED <<nodeVars, events>>)
       /\ SF_vars(ServerHeartbeatThread(s) /\ UNCHANGED <<nodeVars, events>>)
       /\ WF_vars(HeartbeatExpires(s))
       /\ \A k \in Conns :
            SF_vars((Accept(s, k) \/ handle_node(s, k)) /\ UNCHANGED <<nodeVars, events>>)
  /\ \A n \in Nodes :
       /\ SF_vars(NodeMainLoop(n) /\ UNCHANGED <<serverVars, events>>)
       /\ SF_vars(NodeHeartbeatThread(n) /\ UNCHANGED <<serverVars, events>>)

FairSpec == Spec /\ Fairness

-----------------------------------------------------------------------------
(* Properties                                                              *)

(* What finish_job() writes to disk holds a result for every chunk, and it *)
(* stays the server's image, unless an operator cut the job short: the     *)
(* flag travels from the handler that saw the last chunk finished over     *)
(* job_done to the accept loop while other handlers go on freeing and      *)
(* assigning chunks (nc_server.rs handle_node, start_main_loop).           *)
SavedImageComplete ==
  \A s \in Servers :
    saved[s] # None /\ ~stopped[s] =>
      /\ saved[s] = image[s]
      /\ \A c \in ChunkIdx : saved[s][c] # None

(* A chunk's result is stored once.  A node that was given up and its      *)
(* successor may both deliver one, in any order and also after the chunk   *)
(* was freed again; only the first that is expected changes the image      *)
(* (process_data_from_node, heartbeat_timeout).                            *)
WriteOnce ==
  [][\A s \in Servers, c \in ChunkIdx :
       image[s][c] # None =>
         /\ image'[s][c] = image[s][c]
         /\ chunk_list'[s][c] = chunk_list[s][c]]_vars

(* Chunk c was given to id and its result can still come.                  *)
UnderWay(s, c, id) ==
  \/ \E n \in Nodes : node_id[n] = id /\ server_addr[n] = s /\ work[n] = c
  \/ \E k \in Conns :
       /\ conn[k] # None
       /\ conn[k].server = s
       /\ \/ /\ conn[k].step = "replied"
             /\ conn[k].request = [type |-> "NeedsData", node_id |-> id]
             /\ conn[k].reply = [type |-> "Unfinished", chunk_id |-> c]
          \/ /\ conn[k].step \in {"backlog", "accepted"}
             /\ conn[k].request = [type |-> "HasData", node_id |-> id, chunk_id |-> c]

(* The server's heartbeat check is going to find out about id.             *)
WillTimeOut(s, id) ==
  /\ ~ \E n \in Nodes : heartbeat[n] = "running" /\ node_id[n] = id
  /\ \/ id \in Ids(node_list[s])
     \/ \E k \in Conns :
          /\ conn[k] # None
          /\ conn[k].server = s
          /\ conn[k].request = [type |-> "NodeMigrated", node_id |-> id]

(* No chunk is stranded: while the server listens, a chunk that is being   *)
(* processed has its result under way, or belongs to a node the heartbeat  *)
(* check will time out, also when nodes crash between any two steps, when  *)
(* the check uses an old list and when nodes move to another server.       *)
NoStrandedChunk ==
  \A s \in Servers, c \in ChunkIdx :
    listening[s] /\ chunk_list[s][c].status = "Processing" =>
      LET id == chunk_list[s][c].node_id
      IN  UnderWay(s, c, id) \/ WillTimeOut(s, id)

(* As long as no heartbeat is late or refused and no operator cuts the job *)
(* short or sends nodes away, two living nodes never compute the same      *)
(* chunk: only a dead node's chunk is given away (heartbeat_timeout).      *)
ExclusiveWork ==
  \A m, n \in Nodes :
    m # n /\ work[m] # None /\ work[m] = work[n] => server_addr[m] # server_addr[n]

(* Moving the nodes to a new server once never makes remove_node() panic   *)
(* with the mutexes of the node list locked (nc_node_info.rs).             *)
NeverPoisoned == \A s \in Servers : ~poisoned[s]

(* As long as a node goes on, the job is done to the end and saved, and    *)
(* the server exits: the chunks of nodes that "have crashed or lost the    *)
(* network connection" become empty again (array2d.rs:256), and "the       *)
(* server and all other nodes can still continue" (README).                *)
JobEnds ==
  <>(\A s \in Servers : main_loop[s] = "exited" /\ \A c \in ChunkIdx : saved[s][c] # None)

(* Each server's job behaves like the abstract one.                        *)
Job == INSTANCE JobSpec WITH
         Jobs <- Servers, Chunks <- ChunkIdx, Workers <- NodeIDs, Nothing <- None,
         result <- image, report <- saved, cancelled <- stopped

JobImplemented == Job!Spec
=============================================================================
