----------------------------- MODULE MCNodeCrunch ----------------------------
(* Small instances of NodeCrunch for TLC.                                  *)
EXTENDS NodeCrunch, TLC

CONSTANTS s1, s2      \* s1 is the server the nodes start with

AtS1 == [n \in Nodes |-> s1]

NoRequests == {}

ShutDownRequest == {<<s1, [type |-> "ShutDown"]>>}

MessageRequests ==
  {s1} \X [type : {"CustomMessage"}, message : Messages, destination : NodeIDs \cup {None}]

MoveRequest == {<<s1, [type |-> "NewServer", server |-> s2]>>}

OtherRequests == MessageRequests \cup MoveRequest

(* With one server: it sends its nodes to itself.                          *)
HomeRequests == ShutDownRequest \cup {<<s1, [type |-> "NewServer", server |-> s1]>>}

(* A state all nodes have just registered in, from where the liveness runs *)
(* start: Ids hands the ids out.                                           *)
HandOut == CHOOSE f \in [Nodes -> NodeIDs] : \A m, n \in Nodes : f[m] = f[n] => m = n

Arrivals == CHOOSE q \in [1 .. Cardinality(Nodes) -> Nodes] :
              \A i, j \in DOMAIN q : q[i] = q[j] => i = j

RegisteredInit ==
  /\ NCConnectionInit
  /\ main_loop = [s \in Servers |-> "accept"]
  /\ server_heartbeat = [s \in Servers |-> "running"]
  /\ job_done = [s \in Servers |-> FALSE]
  /\ node_list = [s \in Servers |-> [i \in DOMAIN Arrivals |-> NewNodeInfo(HandOut[Arrivals[i]])]]
  /\ departed = {}
  /\ new_server = [s \in Servers |-> None]
  /\ poisoned = [s \in Servers |-> FALSE]
  /\ chunk_list = [s \in Servers |-> initialize]
  /\ image = [s \in Servers |-> [c \in ChunkIdx |-> None]]
  /\ saved = [s \in Servers |-> None]
  /\ stopped = [s \in Servers |-> FALSE]
  /\ node_loop = [n \in Nodes |-> "request"]
  /\ node_id = HandOut
  /\ server_addr = Home
  /\ retry_counter = [n \in Nodes |-> RetryCounter]
  /\ sock = [n \in Nodes |-> None]
  /\ work = [n \in Nodes |-> None]
  /\ heartbeat = [n \in Nodes |-> "running"]
  /\ hb_retry_counter = [n \in Nodes |-> RetryCounter]
  /\ events = 0

RegisteredSpec == RegisteredInit /\ [][Next]_vars /\ Fairness

Symmetric == Permutations(Nodes) \cup Permutations(NodeIDs) \cup Permutations(Conns)
=============================================================================
