----------------------------- MODULE ServerLocks -----------------------------
(***************************************************************************)
(* Who waits for whom in the server (nc_server.rs).  NCServer treats what  *)
(* a handler does under one mutex as one step; here the mutexes are held,  *)
(* also while another is waited for and while a request is read from a     *)
(* peer that has not sent it yet.  Handlers are jobs of a pool of bounded  *)
(* size.                                                                   *)
(*                                                                         *)
(* The mutex of the user's server guards sections that wait for nothing,   *)
(* so it is left out, as is the heartbeat thread: CheckHeartbeat comes     *)
(* from a peer like any other request.                                     *)
(***************************************************************************)
EXTENDS NCNodeList, FiniteSets

CONSTANTS
  Peers,        \* whoever connects; each has one connection at a time
  Requests,     \* what they may send
  PoolSize,     \* NCConfiguration.pool_size
  MaxHung       \* how many peers may vanish without closing their connection

Locks == {"new_server", "node_list", "nc_communicator"}

(* GetStatistics changes nothing, and NCServer leaves it out.              *)
AnyRequest == NCNodeMessage \cup [type : {"GetStatistics"}]

Step == {"backlog", "queued", "receive", "reading", "register", "new_server", "leave",
         "messages", "prepare", "list", "process", "count", "stamps", "shut_down",
         "set_new_server", "send"}

Conn == [request : AnyRequest, wire : {"quiet", "sent", "gone", "hung"}, step : Step,
         num_of_nodes : Nat, hb_time_stamps : Seq(NodeIDs)]

ASSUME ServerLocksAssumption ==
  /\ Requests \subseteq AnyRequest
  /\ PoolSize \in Nat \ {0}
  /\ MaxHung \in Nat
  /\ None \notin Peers \cup Conn \cup Locks

VARIABLES
  main_loop,    \* where the accept loop is
  jobs,         \* the connections no pool thread has taken yet
  job_done,     \* NCServerProcess.job_done
  node_list,    \* NCServerProcess.node_list
  new_server,   \* NCServerProcess.new_server
  holder,       \* mutex -> the peer whose handler holds it
  poisoned,     \* the mutexes a handler has panicked with
  conn,         \* peer -> its connection and the locals of its handler
  issued        \* history: the ids of nodes that have come to this server

listVars == <<node_list, new_server, poisoned, issued>>
poolVars == <<main_loop, jobs, job_done>>
vars == <<poolVars, listVars, holder, conn>>

TypeOK ==
  /\ main_loop \in {"accept", "check", "finish", "join", "exited"}
  /\ jobs \in Seq(Peers)
  /\ job_done \in BOOLEAN
  /\ node_list \in Seq(NCNodeInfo)
  /\ new_server \in Servers \cup {None}
  /\ holder \in [Locks -> Peers \cup {None}]
  /\ poisoned \subseteq Locks
  /\ conn \in [Peers -> Conn \cup {None}]
  /\ issued \subseteq NodeIDs

(* The mutex a handler at a step needs to go on, if any.                   *)
Wanted(step) ==
  CASE step \in {"receive", "send"} -> "nc_communicator"
    [] step \in {"new_server", "set_new_server"} -> "new_server"
    [] step \in {"leave", "messages", "list", "register", "count", "stamps"} -> "node_list"
    [] OTHER -> None

Waits(p, q) ==
  /\ conn[p] # None
  /\ Wanted(conn[p].step) # None
  /\ holder[Wanted(conn[p].step)] = q

AtStep(p, step) == conn[p] # None /\ conn[p].step = step

InHandler == {p \in Peers : conn[p] # None /\ conn[p].step \notin {"backlog", "queued"}}

(* pool_size + 1 threads, one of which runs the heartbeat loop for good.   *)
HandlerThreads == (PoolSize + 1) - 1

Init ==
  /\ main_loop = "accept"
  /\ jobs = <<>>
  /\ job_done = FALSE
  /\ node_list = <<>>
  /\ new_server = None
  /\ holder = [l \in Locks |-> None]
  /\ poisoned = {}
  /\ conn = [p \in Peers |-> None]
  /\ issued = {}

-----------------------------------------------------------------------------
(* The peers.                                                              *)

(* Bound: NodeIDs must leave an id to every registration under way.  The   *)
(* code draws 64 random bits instead, and counts no requests; Arriving and *)
(* Spoken (the ids that came here or are about to) serve this bound only.  *)
Arriving(type) == {p \in Peers : conn[p] # None /\ conn[p].request.type = type}

Spoken == issued \cup {conn[p].request.node_id : p \in Arriving("NodeMigrated")}

(* Nodes use the id they were given; a node that moves here brings one.    *)
Sendable(request) ==
  CASE request.type \in {"NeedsData", "HeartBeat", "HasData"} -> request.node_id \in issued
    [] request.type \in {"Register", "NodeMigrated"} ->
         /\ Cardinality(Arriving("Register")) < Cardinality(NodeIDs \ Spoken)
         /\ request.type = "NodeMigrated" => request.node_id \notin Spoken
    [] OTHER -> TRUE

Connect(p) ==
  /\ main_loop \in {"accept", "check", "finish"}
  /\ conn[p] = None
  /\ \E request \in Requests :
       /\ Sendable(request)
       /\ conn' = [conn EXCEPT ![p] = [request |-> request, wire |-> "quiet",
                     step |-> "backlog", num_of_nodes |-> 0, hb_time_stamps |-> <<>>]]
  /\ UNCHANGED <<poolVars, listVars, holder>>

(* What becomes of the connection: the request is written, or the          *)
(* connection is closed without it, or the peer's machine stops, which     *)
(* the server does not learn.                                              *)
Becomes(p, wire) ==
  /\ conn[p] # None
  /\ conn[p].wire = "quiet"
  /\ conn' = [conn EXCEPT ![p].wire = wire]
  /\ UNCHANGED <<poolVars, listVars, holder>>

SendOrClose(p) == Becomes(p, "sent") \/ Becomes(p, "gone")

Hang(p) ==
  /\ Cardinality({q \in Peers : conn[q] # None /\ conn[q].wire = "hung"}) < MaxHung
  /\ Becomes(p, "hung")

-----------------------------------------------------------------------------
(* Accept loop and pool.                                                   *)

Accept(p) ==
  /\ main_loop = "accept"
  /\ AtStep(p, "backlog")
  /\ conn' = [conn EXCEPT ![p].step = "queued"]
  /\ jobs' = Append(jobs, p)
  /\ main_loop' = "check"
  /\ UNCHANGED <<job_done, listVars, holder>>

CheckJobDone ==
  /\ main_loop = "check"
  /\ main_loop' = IF job_done THEN "finish" ELSE "accept"
  /\ UNCHANGED <<jobs, job_done, listVars, holder, conn>>

(* finish_job(), then the listener goes with the connections in it.        *)
FinishJob ==
  /\ main_loop = "finish"
  /\ main_loop' = "join"
  /\ conn' = [p \in Peers |-> IF AtStep(p, "backlog") THEN None ELSE conn[p]]
  /\ UNCHANGED <<jobs, job_done, listVars, holder>>

JoinThreads ==
  /\ main_loop = "join"
  /\ jobs = <<>>
  /\ InHandler = {}
  /\ main_loop' = "exited"
  /\ UNCHANGED <<jobs, job_done, listVars, holder, conn>>

(* Mutant: what is queued when the job is done is thrown away.             *)
TakeJobUntilDone ==
  /\ jobs # <<>>
  /\ ~job_done
  /\ Cardinality(InHandler) < HandlerThreads
  /\ conn' = [conn EXCEPT ![Head(jobs)].step = "receive"]
  /\ jobs' = Tail(jobs)
  /\ UNCHANGED <<main_loop, job_done, listVars, holder>>

TakeJob ==
  /\ jobs # <<>>
  /\ Cardinality(InHandler) < HandlerThreads
  /\ conn' = [conn EXCEPT ![Head(jobs)].step = "receive"]
  /\ jobs' = Tail(jobs)
  /\ UNCHANGED <<main_loop, job_done, listVars, holder>>

-----------------------------------------------------------------------------
(* A handler.  It leaves with all the guards it has, or keeps one of them  *)
(* and goes to another step.                                               *)

Locked(p, step) ==
  /\ AtStep(p, step)
  /\ holder[Wanted(step)] = None
  /\ Wanted(step) \notin poisoned

Return(p) ==
  /\ conn' = [conn EXCEPT ![p] = None]
  /\ holder' = [l \in Locks |-> IF holder[l] = p THEN None ELSE holder[l]]

Goto(p, step) == conn' = [conn EXCEPT ![p].step = step] /\ UNCHANGED holder

GotoWith(p, lock, step) ==
  /\ conn' = [conn EXCEPT ![p].step = step]
  /\ holder' = [holder EXCEPT ![lock] = p]

LockFails(p) ==
  /\ conn[p] # None
  /\ Wanted(conn[p].step) \in poisoned
  /\ holder[Wanted(conn[p].step)] = None
  /\ Return(p)
  /\ UNCHANGED <<poolVars, listVars>>

(* self.nc_communicator.lock()?.nc_receive_data(): the guard lives until   *)
(* the request is there.                                                   *)
Receive(p) ==
  /\ Locked(p, "receive")
  /\ GotoWith(p, "nc_communicator", "reading")
  /\ UNCHANGED <<poolVars, listVars>>

FirstStep(type) ==
  CASE type = "Register" -> "register"
    [] type = "NeedsData" -> "new_server"
    [] type \in {"HeartBeat", "CheckHeartbeat", "NodeMigrated", "CustomMessage"} -> "list"
    [] type = "HasData" -> "process"
    [] type = "GetStatistics" -> "count"
    [] type = "ShutDown" -> "shut_down"
    [] type = "NewServer" -> "set_new_server"

(* Mutant: match on the received value itself, which keeps the guard.      *)
ReadInMatch(p) ==
  /\ AtStep(p, "reading")
  /\ conn[p].wire = "sent"
  /\ Goto(p, FirstStep(conn[p].request.type))
  /\ UNCHANGED <<poolVars, listVars>>

Read(p) ==
  /\ AtStep(p, "reading")
  /\ conn[p].wire = "sent"
  /\ conn' = [conn EXCEPT ![p].step = FirstStep(conn[p].request.type)]
  /\ holder' = [holder EXCEPT !["nc_communicator"] = None]
  /\ UNCHANGED <<poolVars, listVars>>

ReadFails(p) ==
  /\ AtStep(p, "reading")
  /\ conn[p].wire = "gone"
  /\ Return(p)
  /\ UNCHANGED <<poolVars, listVars>>

(* Every answer: nc_send_data2() under the communicator's mutex, then all  *)
(* guards go.                                                              *)
Send(p) ==
  /\ Locked(p, "send")
  /\ Return(p)
  /\ UNCHANGED <<poolVars, listVars>>

(* NeedsData: the guard of new_server lives as long as the "if let".       *)
NoNewServer(p) ==
  /\ Locked(p, "new_server")
  /\ new_server = None
  /\ Goto(p, "messages")
  /\ UNCHANGED <<poolVars, listVars>>

NewServerFound(p) ==
  /\ Locked(p, "new_server")
  /\ new_server # None
  /\ GotoWith(p, "new_server", "leave")
  /\ UNCHANGED <<poolVars, listVars>>

RemoveNode(p) ==
  /\ Locked(p, "leave")
  /\ \E i \in DOMAIN node_list :
       /\ IsFirst(node_list, i, conn[p].request.node_id)
       /\ node_list' = swap_remove(node_list, i)
  /\ Goto(p, "send")
  /\ UNCHANGED <<poolVars, new_server, poisoned, issued>>

RemoveNodePanics(p) ==
  /\ Locked(p, "leave")
  /\ conn[p].request.node_id \notin Ids(node_list)
  /\ poisoned' = poisoned \cup {"new_server", "node_list"}
  /\ Return(p)
  /\ UNCHANGED <<poolVars, node_list, new_server, issued>>

(* ... and the guard of node_list that of the second "if let".             *)
GetMessage(p) ==
  /\ Locked(p, "messages")
  /\ \E i \in DOMAIN node_list :
       /\ IsFirst(node_list, i, conn[p].request.node_id)
       /\ node_list[i].message_queue # <<>>
       /\ node_list' = pop_message(node_list, i)
  /\ GotoWith(p, "node_list", "send")
  /\ UNCHANGED <<poolVars, new_server, poisoned, issued>>

NoMessage(p) ==
  /\ Locked(p, "messages")
  /\ \A i \in DOMAIN node_list :
       IsFirst(node_list, i, conn[p].request.node_id) => node_list[i].message_queue = <<>>
  /\ Goto(p, "prepare")
  /\ UNCHANGED <<poolVars, listVars>>

(* Whether there is work is up to the user's server.                       *)
Prepare(p) ==
  /\ AtStep(p, "prepare")
  /\ \E step \in {"send", "shut_down"} : Goto(p, step)
  /\ UNCHANGED <<poolVars, listVars>>

Process(p) ==
  /\ AtStep(p, "process")
  /\ Return(p)
  /\ UNCHANGED <<poolVars, listVars>>

ShutDown(p) ==
  /\ AtStep(p, "shut_down")
  /\ job_done' = TRUE
  /\ Return(p)
  /\ UNCHANGED <<main_loop, jobs, listVars>>

RegisterNode(p) ==
  /\ Locked(p, "register")
  /\ \E id \in NodeIDs \ Spoken :
       /\ node_list' = register_new_node(node_list, id)
       /\ issued' = issued \cup {id}
  /\ Goto(p, "send")
  /\ UNCHANGED <<poolVars, new_server, poisoned>>

(* HeartBeat, CheckHeartbeat, NodeMigrated, CustomMessage.                 *)
ListAfter(request) ==
  CASE request.type = "HeartBeat" -> update_heartbeat(node_list, request.node_id)
    [] request.type = "CheckHeartbeat" -> node_list
    [] request.type = "NodeMigrated" -> migrate_node(node_list, request.node_id)
    [] request.type = "CustomMessage" ->
         IF request.destination = None
         THEN add_message_all(node_list, request.message)
         ELSE add_message(node_list, request.message, request.destination)

UseList(p) ==
  /\ Locked(p, "list")
  /\ node_list' = ListAfter(conn[p].request)
  /\ issued' = issued \cup IF conn[p].request.type = "NodeMigrated"
                          THEN {conn[p].request.node_id} ELSE {}
  /\ Return(p)
  /\ UNCHANGED <<poolVars, new_server, poisoned>>

SetNewServer(p) ==
  /\ Locked(p, "set_new_server")
  /\ new_server' = conn[p].request.server
  /\ Return(p)
  /\ UNCHANGED <<poolVars, node_list, poisoned, issued>>

(* Mutant: the time stamps are read first.                                 *)
StatisticsReadSwapped == [count |-> "hb_time_stamps", stamps |-> "num_of_nodes"]

(* GetStatistics locks the list twice.                                     *)
StatisticsRead == [count |-> "num_of_nodes", stamps |-> "hb_time_stamps"]

GetStatistics(p, step, next) ==
  /\ Locked(p, step)
  /\ conn' = [conn EXCEPT
       ![p].step = next,
       ![p][StatisticsRead[step]] =
         IF StatisticsRead[step] = "num_of_nodes" THEN Len(node_list)
         ELSE [i \in DOMAIN node_list |-> node_list[i].node_id]]
  /\ UNCHANGED <<poolVars, listVars, holder>>

handle_node(p) ==
  \/ LockFails(p) \/ Receive(p) \/ Read(p) \/ ReadFails(p) \/ Send(p)
  \/ NoNewServer(p) \/ NewServerFound(p) \/ RemoveNode(p) \/ RemoveNodePanics(p)
  \/ GetMessage(p) \/ NoMessage(p) \/ Prepare(p) \/ Process(p) \/ ShutDown(p)
  \/ RegisterNode(p) \/ UseList(p) \/ SetNewServer(p)
  \/ GetStatistics(p, "count", "stamps") \/ GetStatistics(p, "stamps", "send")

-----------------------------------------------------------------------------
MainLoop == CheckJobDone \/ FinishJob \/ JoinThreads

Next ==
  \/ MainLoop
  \/ TakeJob
  \/ \E p \in Peers :
       Connect(p) \/ SendOrClose(p) \/ Hang(p) \/ Accept(p) \/ handle_node(p)

(* The threads of the server are scheduled, none loses every race for a    *)
(* mutex or for the accept loop, and a peer that still runs sends what it  *)
(* has connected for, or closes.  Nobody has to connect.                   *)
Fairness ==
  /\ WF_vars(MainLoop)
  /\ WF_vars(TakeJob)
  /\ \A p \in Peers :
       WF_vars(SendOrClose(p)) /\ SF_vars(Accept(p) \/ handle_node(p))

Spec == Init /\ [][Next]_vars /\ Fairness

-----------------------------------------------------------------------------
(* No handlers wait for each other in a circle, nor one for itself: the    *)
(* mutexes are taken in one order, and a handler that reads has only one.  *)
NoCircularWait ==
  \A circle \in (SUBSET Peers) \ {{}} :
    \E p \in circle : \A q \in circle : ~Waits(p, q)

(* While nobody is sent away, statistics list at least as many nodes as    *)
(* they count, although the list is read twice.                            *)
StatisticsInOrder ==
  \A p \in Peers :
    AtStep(p, "send") /\ conn[p].request.type = "GetStatistics" /\ new_server = None
      => conn[p].num_of_nodes <= Len(conn[p].hb_time_stamps)

(* A peer has stopped while its handler is in nc_receive_data(): nobody    *)
(* gets the communicator's mutex any more.                                 *)
Blocked == \E p \in Peers : AtStep(p, "reading") /\ conn[p].wire = "hung"

(* But for that, whoever has sent a request is served or sees its          *)
(* connection closed, whoever else connects, sends, closes or stops, and   *)
(* also at the end of the job.                                             *)
ServedUnlessBlocked ==
  \A p \in Peers : (conn[p] # None /\ conn[p].wire = "sent") ~> (conn[p] = None \/ Blocked)
=============================================================================
