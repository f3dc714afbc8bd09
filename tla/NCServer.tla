------------------------------- MODULE NCServer ------------------------------
(***************************************************************************)
(* The server process (nc_server.rs) together with the job the examples    *)
(* put on top of it (examples/mandel1/src/server.rs): the accept loop, the *)
(* heartbeat thread and one pool thread per stream that runs handle_node.  *)
(* A handler is cut into steps at its mutexes: what it does while it holds *)
(* one is one action, and other threads run between two of them.           *)
(***************************************************************************)
EXTENDS NCConnection, NCNodeList, ChunkList, FiniteSets

VARIABLES
  main_loop,        \* where the accept loop is
  server_heartbeat, \* the thread that sends CheckHeartbeat
  job_done,         \* NCServerProcess.job_done
  node_list,        \* NCServerProcess.node_list
  departed,         \* history: the ids that have left a list
  new_server,       \* NCServerProcess.new_server
  poisoned,         \* the mutexes of node_list and new_server are poisoned
  chunk_list,       \* MandelServer.chunk_list
  image,            \* MandelServer.array2d_chunk: whose result a chunk holds
  saved,            \* the image finish_job() has written, None before
  stopped           \* history: a ShutDown request has been handled

serverVars == <<main_loop, server_heartbeat, job_done, node_list, departed,
                new_server, poisoned, chunk_list, image, saved, stopped>>

threadVars == <<main_loop, server_heartbeat>>   \* not touched by a handler
jobVars == <<chunk_list, image>>
doneVars == <<job_done, stopped>>
listVars == <<node_list, departed, new_server, poisoned>>

Image == [ChunkIdx -> NodeIDs \cup {None}]

NCServerTypeOK ==
  /\ main_loop \in [Servers -> {"accept", "check", "finish", "join", "exited"}]
  /\ server_heartbeat \in [Servers -> {"running", "exited"}]
  /\ job_done \in [Servers -> BOOLEAN]
  /\ node_list \in [Servers -> Seq(NCNodeInfo)]
  /\ departed \subseteq NodeIDs
  /\ new_server \in [Servers -> Servers \cup {None}]
  /\ poisoned \in [Servers -> BOOLEAN]
  /\ chunk_list \in [Servers -> [ChunkIdx -> Chunk]]
  /\ image \in [Servers -> Image]
  /\ saved \in [Servers -> Image \cup {None}]
  /\ stopped \in [Servers -> BOOLEAN]

NCServerInit ==
  /\ main_loop = [s \in Servers |-> "accept"]
  /\ server_heartbeat = [s \in Servers |-> "running"]
  /\ job_done = [s \in Servers |-> FALSE]
  /\ node_list = [s \in Servers |-> <<>>]
  /\ departed = {}
  /\ new_server = [s \in Servers |-> None]
  /\ poisoned = [s \in Servers |-> FALSE]
  /\ chunk_list = [s \in Servers |-> initialize]
  /\ image = [s \in Servers |-> [c \in ChunkIdx |-> None]]
  /\ saved = [s \in Servers |-> None]
  /\ stopped = [s \in Servers |-> FALSE]

-----------------------------------------------------------------------------
(* The main thread: accept a stream, look at job_done, accept again.       *)

Accept(s, k) ==
  /\ main_loop[s] = "accept"
  /\ At(k, s, "backlog")
  /\ Continue(k, "accepted")
  /\ main_loop' = [main_loop EXCEPT ![s] = "check"]
  /\ UNCHANGED <<listening, server_heartbeat, listVars, jobVars, doneVars, saved>>

CheckJobDone(s) ==
  /\ main_loop[s] = "check"
  /\ main_loop' = [main_loop EXCEPT ![s] = IF job_done[s] THEN "finish" ELSE "accept"]
  /\ UNCHANGED <<connVars, server_heartbeat, listVars, jobVars, doneVars, saved>>

(* finish_job() and the end of start_main_loop(), which drops the listener *)
(* and resets the streams nobody has accepted.                             *)
FinishJob(s) ==
  /\ main_loop[s] = "finish"
  /\ saved' = [saved EXCEPT ![s] = image[s]]
  /\ main_loop' = [main_loop EXCEPT ![s] = "join"]
  /\ listening' = [listening EXCEPT ![s] = FALSE]
  /\ conn' = [k \in Conns |-> IF At(k, s, "backlog") THEN Dropped(conn[k]) ELSE conn[k]]
  /\ UNCHANGED <<server_heartbeat, listVars, jobVars, doneVars>>

(* Streams a pool thread still works on.                                   *)
InHandler(s) ==
  {k \in Conns : \E step \in Step \ {"replied", "dropped"} : At(k, s, step)}

JoinThreads(s) ==
  /\ main_loop[s] = "join"
  /\ InHandler(s) = {}
  /\ server_heartbeat[s] = "exited"
  /\ main_loop' = [main_loop EXCEPT ![s] = "exited"]
  /\ UNCHANGED <<connVars, server_heartbeat, listVars, jobVars, doneVars, saved>>

-----------------------------------------------------------------------------
(* The heartbeat thread, which makes the server check its own node list.   *)
(* Bound: one CheckHeartbeat under way at a time.                          *)

IsCheckHeartbeat(k, s) ==
  conn[k] # None /\ conn[k].server = s /\ conn[k].request.type = "CheckHeartbeat"

SendCheckHeartbeat(s) ==
  /\ server_heartbeat[s] = "running"
  /\ ~ \E k \in Conns : IsCheckHeartbeat(k, s)
  /\ \E k \in Conns : Send(k, s, [type |-> "CheckHeartbeat"], FALSE)
  /\ UNCHANGED <<listening, serverVars>>

(* The thread leaves its loop at the first error, whatever its reason: one *)
(* that passes ends the checks of a server that listens on.                *)
ServerHeartbeatExits(s) ==
  /\ server_heartbeat[s] = "running"
  /\ server_heartbeat' = [server_heartbeat EXCEPT ![s] = "exited"]
  /\ UNCHANGED <<connVars, main_loop, listVars, jobVars, doneVars, saved>>

-----------------------------------------------------------------------------
(* handle_node().  A handler that locks a poisoned mutex ends with an      *)
(* error; the others need only the mutexes of the user's server.           *)

LocksNodes == {"Register", "NeedsData", "HeartBeat", "CheckHeartbeat",
               "NewServer", "NodeMigrated", "CustomMessage"}

HandlerFails(s, k) ==
  /\ poisoned[s]
  /\ \/ \E type \in LocksNodes : Received(k, s, type)
     \/ At(k, s, "messages")
  /\ Drop(k)
  /\ UNCHANGED <<listening, serverVars>>

(* random() returns any id that is not in the list, as the loop of         *)
(* register_new_node() ensures, nor one that a node has moved away with,   *)
(* which nothing but 64 bits of chance ensures.                            *)
HandleRegister(s, k) ==
  /\ Received(k, s, "Register")
  /\ ~poisoned[s]
  /\ \E id \in NodeIDs \ (Ids(node_list[s]) \cup departed) :
       /\ node_list' = [node_list EXCEPT ![s] = register_new_node(@, id)]
       /\ Answer(k, [type |-> "InitialData", node_id |-> id])
  /\ UNCHANGED <<listening, threadVars, departed, new_server, poisoned, jobVars, doneVars, saved>>

(* NeedsData looks for a new server first.  A node that is to leave is     *)
(* taken off the list; remove_node() panics if it is not on it, with both  *)
(* mutexes locked.                                                         *)
HandleNeedsData(s, k) ==
  /\ Received(k, s, "NeedsData")
  /\ ~poisoned[s]
  /\ new_server[s] = None
  /\ Continue(k, "messages")
  /\ UNCHANGED <<listening, serverVars>>

HandleLeavingNode(s, k) ==
  /\ Received(k, s, "NeedsData")
  /\ ~poisoned[s]
  /\ new_server[s] # None
  /\ \E i \in DOMAIN node_list[s] :
       /\ IsFirst(node_list[s], i, conn[k].request.node_id)
       /\ node_list' = [node_list EXCEPT ![s] = swap_remove(@, i)]
  /\ departed' = departed \cup {conn[k].request.node_id}
  /\ Answer(k, [type |-> "NewServer", server |-> new_server[s]])
  /\ UNCHANGED <<listening, threadVars, new_server, poisoned, jobVars, doneVars, saved>>

HandleUnknownNode(s, k) ==
  /\ Received(k, s, "NeedsData")
  /\ ~poisoned[s]
  /\ new_server[s] # None
  /\ conn[k].request.node_id \notin Ids(node_list[s])
  /\ poisoned' = [poisoned EXCEPT ![s] = TRUE]
  /\ Drop(k)
  /\ UNCHANGED <<listening, threadVars, node_list, departed, new_server, jobVars, doneVars, saved>>

(* ... then for a custom message that waits for the node ...               *)
SendCustomMessage(s, k) ==
  /\ At(k, s, "messages")
  /\ ~poisoned[s]
  /\ \E i \in DOMAIN node_list[s] :
       /\ IsFirst(node_list[s], i, conn[k].request.node_id)
       /\ node_list[s][i].message_queue # <<>>
       /\ node_list' = [node_list EXCEPT ![s] = pop_message(@, i)]
       /\ Answer(k, [type |-> "CustomMessage",
                     message |-> Head(node_list[s][i].message_queue)])
  /\ UNCHANGED <<listening, threadVars, departed, new_server, poisoned, jobVars, doneVars, saved>>

NoCustomMessage(s, k) ==
  /\ At(k, s, "messages")
  /\ ~poisoned[s]
  /\ \A i \in DOMAIN node_list[s] :
       IsFirst(node_list[s], i, conn[k].request.node_id)
         => node_list[s][i].message_queue = <<>>
  /\ Continue(k, "prepare")
  /\ UNCHANGED <<listening, serverVars>>

(* ... and then for work: the three answers of prepare_data_for_node().    *)
PrepareUnfinished(s, k) ==
  /\ At(k, s, "prepare")
  /\ \E c \in ChunkIdx :
       /\ IsNextFree(chunk_list[s], c)
       /\ chunk_list' = [chunk_list EXCEPT ![s][c] =
                           set_processing(@, conn[k].request.node_id)]
       /\ Answer(k, [type |-> "Unfinished", chunk_id |-> c])
  /\ UNCHANGED <<listening, threadVars, listVars, image, doneVars, saved>>

PrepareWaiting(s, k) ==
  /\ At(k, s, "prepare")
  /\ Having(chunk_list[s], "Empty") = {}
  /\ ~is_job_done(chunk_list[s])
  /\ Answer(k, [type |-> "Waiting"])
  /\ UNCHANGED <<listening, serverVars>>

(* Mutant: no free chunk is taken for a finished job.                      *)
PrepareFinishedEarly(s, k) ==
  /\ At(k, s, "prepare")
  /\ Having(chunk_list[s], "Empty") = {}
  /\ Continue(k, "shut_down")
  /\ UNCHANGED <<listening, serverVars>>

PrepareFinished(s, k) ==
  /\ At(k, s, "prepare")
  /\ Having(chunk_list[s], "Empty") = {}
  /\ is_job_done(chunk_list[s])
  /\ Continue(k, "shut_down")
  /\ UNCHANGED <<listening, serverVars>>

(* Finished is not sent: the handler sets the flag and drops the stream.   *)
HandleFinished(s, k) ==
  /\ At(k, s, "shut_down")
  /\ job_done' = [job_done EXCEPT ![s] = TRUE]
  /\ Drop(k)
  /\ UNCHANGED <<listening, threadVars, listVars, jobVars, stopped, saved>>

HandleHeartBeat(s, k) ==
  /\ Received(k, s, "HeartBeat")
  /\ ~poisoned[s]
  /\ node_list' = [node_list EXCEPT ![s] = update_heartbeat(@, conn[k].request.node_id)]
  /\ Drop(k)
  /\ UNCHANGED <<listening, threadVars, departed, new_server, poisoned, jobVars, doneVars, saved>>

(* process_data_from_node(): a result counts only while its chunk is       *)
(* assigned to its sender.                                                 *)
AcceptResult(s, k) ==
  /\ Received(k, s, "HasData")
  /\ LET c  == conn[k].request.chunk_id
         id == conn[k].request.node_id
     IN  /\ is_processing(chunk_list[s][c], id)
         /\ chunk_list' = [chunk_list EXCEPT ![s][c] = set_finished(@)]
         /\ image' = [image EXCEPT ![s][c] = id]
  /\ Drop(k)
  /\ UNCHANGED <<listening, threadVars, listVars, doneVars, saved>>

RejectResult(s, k) ==
  /\ Received(k, s, "HasData")
  /\ ~is_processing(chunk_list[s][conn[k].request.chunk_id], conn[k].request.node_id)
  /\ Drop(k)
  /\ UNCHANGED <<listening, serverVars>>

(* CheckHeartbeat: the list of nodes is made under one mutex and used      *)
(* under another.                                                          *)
HandleCheckHeartbeat(s, k) ==
  /\ Received(k, s, "CheckHeartbeat")
  /\ ~poisoned[s]
  /\ conn' = [conn EXCEPT ![k].nodes = check_heartbeat(node_list[s]),
                          ![k].step = "timeout"]
  /\ UNCHANGED <<listening, serverVars>>

HeartbeatTimeout(s, k) ==
  /\ At(k, s, "timeout")
  /\ chunk_list' = [chunk_list EXCEPT ![s] = heartbeat_timeout(@, conn[k].nodes)]
  /\ Drop(k)
  /\ UNCHANGED <<listening, threadVars, listVars, image, doneVars, saved>>

HandleShutDown(s, k) ==
  /\ Received(k, s, "ShutDown")
  /\ job_done' = [job_done EXCEPT ![s] = TRUE]
  /\ stopped' = [stopped EXCEPT ![s] = TRUE]
  /\ Drop(k)
  /\ UNCHANGED <<listening, threadVars, listVars, jobVars, saved>>

HandleNewServer(s, k) ==
  /\ Received(k, s, "NewServer")
  /\ ~poisoned[s]
  /\ new_server' = [new_server EXCEPT ![s] = conn[k].request.server]
  /\ Drop(k)
  /\ UNCHANGED <<listening, threadVars, node_list, departed, poisoned, jobVars, doneVars, saved>>

HandleNodeMigrated(s, k) ==
  /\ Received(k, s, "NodeMigrated")
  /\ ~poisoned[s]
  /\ node_list' = [node_list EXCEPT ![s] = migrate_node(@, conn[k].request.node_id)]
  /\ Drop(k)
  /\ UNCHANGED <<listening, threadVars, departed, new_server, poisoned, jobVars, doneVars, saved>>

HandleCustomMessage(s, k) ==
  /\ Received(k, s, "CustomMessage")
  /\ ~poisoned[s]
  /\ LET message     == conn[k].request.message
         destination == conn[k].request.destination
     IN  node_list' = [node_list EXCEPT ![s] =
           IF destination = None THEN add_message_all(@, message)
                                 ELSE add_message(@, message, destination)]
  /\ Drop(k)
  /\ UNCHANGED <<listening, threadVars, departed, new_server, poisoned, jobVars, doneVars, saved>>

-----------------------------------------------------------------------------
handle_node(s, k) ==
  \/ HandlerFails(s, k)       \/ HandleRegister(s, k)
  \/ HandleNeedsData(s, k)    \/ HandleLeavingNode(s, k)
  \/ HandleUnknownNode(s, k)  \/ SendCustomMessage(s, k)
  \/ NoCustomMessage(s, k)    \/ PrepareUnfinished(s, k)
  \/ PrepareWaiting(s, k)     \/ PrepareFinished(s, k)
  \/ HandleFinished(s, k)     \/ HandleHeartBeat(s, k)
  \/ AcceptResult(s, k)       \/ RejectResult(s, k)
  \/ HandleCheckHeartbeat(s, k) \/ HeartbeatTimeout(s, k)
  \/ HandleShutDown(s, k)     \/ HandleNewServer(s, k)
  \/ HandleNodeMigrated(s, k) \/ HandleCustomMessage(s, k)

ServerMainLoop(s) == CheckJobDone(s) \/ FinishJob(s) \/ JoinThreads(s)

ServerHeartbeatThread(s) ==
  SendCheckHeartbeat(s) \/ (~listening[s] /\ ServerHeartbeatExits(s))

NCServerNext ==
  \E s \in Servers :
    \/ ServerMainLoop(s)
    \/ ServerHeartbeatThread(s)
    \/ \E k \in Conns : Accept(s, k) \/ handle_node(s, k)
=============================================================================
