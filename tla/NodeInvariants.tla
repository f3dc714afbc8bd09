---------------------------- MODULE NodeInvariants ---------------------------
(***************************************************************************)
(* The inductive invariants of NodeCrunch, from which NodeCrunchProofs and *)
(* JobProofs prove their theorems:                                         *)
(*   TypeInv     the fields of requests and replies, who waits where       *)
(*   IdInv       which node has which id, and which streams carry it       *)
(*   MoveInv     where nodes are sent and which server has them listed     *)
(*   StrandInv   whose a chunk is that is being processed                  *)
(*   WorkInv     what the living hold is theirs, and they are not suspected*)
(* Each but the last needs those before it; WorkInv needs the first two    *)
(* and JobInv (JobProofs).  home is the server all nodes start at.         *)
(***************************************************************************)
EXTENDS NodeCrunch

-----------------------------------------------------------------------------
(* The invariant that makes TypeOK inductive.  A handler finds the fields  *)
(* it needs in its request, a client finds an answer in a reply, a node    *)
(* that waits has an open stream of its own, and it has an id when it      *)
(* needs one.                                                              *)

WellFormed(x) ==
  x # None =>
    /\ x \in Stream
    /\ x.step \in {"messages", "prepare", "shut_down"} => x.request.type = "NeedsData"
    /\ x.step = "replied" => x.reply \in NCServerMessage

StreamsOK == \A k \in Conns : WellFormed(conn[k])

AwaitsReply(n) == node_loop[n] \in {"registering", "waiting"}

NodeOK(n) ==
  /\ node_loop[n] \in {"request", "waiting", "working", "migrating"}
       => node_id[n] \in NodeIDs
  /\ heartbeat[n] = "running" => node_id[n] \in NodeIDs
  /\ node_loop[n] = "working" => work[n] \in ChunkIdx
  /\ AwaitsReply(n) =>
       /\ sock[n] \in Conns
       /\ conn[sock[n]] # None
       /\ conn[sock[n]].open
  /\ sock[n] # None => AwaitsReply(n)

OwnStreams ==
  \A m, n \in Nodes : m # n /\ AwaitsReply(m) /\ AwaitsReply(n) => sock[m] # sock[n]

TypeInv ==
  /\ TypeOK
  /\ StreamsOK
  /\ \A n \in Nodes : NodeOK(n)
  /\ OwnStreams

-----------------------------------------------------------------------------
(* Who has which id.  From here on all nodes are configured with the same  *)
(* server and operators send only what is theirs to send.                  *)

OperatorRequests == {"CustomMessage", "NewServer", "ShutDown"}

OneHome(home) ==
  /\ \A n \in Nodes : Home[n] = home
  /\ \A r \in AdminRequests : r[2].type \in OperatorRequests

(* The request of a stream.                                                *)
WithId == {"NeedsData", "HeartBeat", "NodeMigrated", "HasData"}
WithoutId == OperatorRequests \cup {"CheckHeartbeat"}

Names(x, id) == x # None /\ x.request.type \in WithId /\ x.request.node_id = id
Asks(x, id) == Names(x, id) /\ x.request.type = "NeedsData"
Registers(x) == x # None /\ x.request.type = "Register"

(* The reply of a stream.                                                  *)
Grants(x, id) ==
  x # None /\ x.step = "replied" /\ x.reply.type = "InitialData" /\ x.reply.node_id = id

DrawnIds(home) == Ids(node_list[home]) \cup departed

(* No two nodes have the same id, and each has drawn it.                   *)
OwnIds(home) ==
  /\ \A m, n \in Nodes : m # n /\ node_id[m] # None => node_id[m] # node_id[n]
  /\ \A n \in Nodes : node_id[n] # None => node_id[n] \in DrawnIds(home)

(* An id that is on its way to a node is nobody's yet.                     *)
GrantsOK(home) ==
  \A k \in Conns, id \in NodeIDs : Grants(conn[k], id) =>
    /\ Registers(conn[k])
    /\ id \in DrawnIds(home)
    /\ \A n \in Nodes : node_id[n] # id
    /\ \A l \in Conns : Grants(conn[l], id) => l = k

(* Requests carry ids of nodes, and a node asks on one stream at a time,   *)
(* on which it waits unless it has died there.                             *)
RequestsOwned ==
  \A k \in Conns, id \in NodeIDs : Names(conn[k], id) =>
    \E n \in Nodes :
      /\ node_id[n] = id
      /\ Asks(conn[k], id) =>
           /\ conn[k].server = server_addr[n]
           /\ IF conn[k].open THEN sock[n] = k /\ node_loop[n] = "waiting"
                              ELSE node_loop[n] = "crashed"

AskOnce ==
  \A k, l \in Conns, id \in NodeIDs : Asks(conn[k], id) /\ Asks(conn[l], id) => k = l

RepliesRead ==
  \A k \in Conns : conn[k] # None /\ conn[k].step = "replied" => conn[k].open

(* A node without an id is at home.                                        *)
StartAtHome(home) ==
  /\ \A n \in Nodes : node_loop[n] \in {"start", "registering"} =>
       node_id[n] = None /\ server_addr[n] = home
  /\ \A k \in Conns : Registers(conn[k]) => conn[k].server = home

(* A node waits for an answer to its own request.                          *)
Waits ==
  \A n \in Nodes :
    /\ AwaitsReply(n) => conn[sock[n]].server = server_addr[n]
    /\ node_loop[n] = "registering" => Registers(conn[sock[n]])
    /\ node_loop[n] = "waiting" => Asks(conn[sock[n]], node_id[n])

(* What a node that has died, or does not compute, leaves behind.          *)
Leftovers ==
  \A n \in Nodes :
    /\ node_loop[n] = "crashed" => heartbeat[n] = "crashed"
    /\ node_loop[n] # "working" => work[n] = None

IdInv(home) ==
  /\ OwnIds(home)
  /\ GrantsOK(home)
  /\ RequestsOwned
  /\ AskOnce
  /\ RepliesRead
  /\ StartAtHome(home)
  /\ Waits
  /\ Leftovers

-----------------------------------------------------------------------------
(* Where nodes move.  From here on no operator sends nodes on from a       *)
(* server nodes are sent to, and no message is lost.                       *)

(* An operator may send the nodes of server s to t.                        *)
Moves(s, t) == \E r \in AdminRequests : r[1] = s /\ r[2].type = "NewServer" /\ r[2].server = t

MoveOnce == \A s, t, u \in Servers : Moves(s, t) => ~Moves(t, u)

Redirects(x) == x # None /\ x.step = "replied" /\ x.reply.type = "NewServer"

Final == {"replied", "dropped"}

(* Every order to move comes from an operator.                             *)
OrdersOK ==
  /\ \A k \in Conns : conn[k] # None /\ conn[k].request.type = "NewServer" =>
       Moves(conn[k].server, conn[k].request.server)
  /\ \A s \in Servers : new_server[s] # None => Moves(s, new_server[s])
  /\ \A k \in Conns : Redirects(conn[k]) => Moves(conn[k].server, conn[k].reply.server)

(* A node is at home or has been sent from there.                          *)
Places(home) ==
  \A n \in Nodes :
    /\ server_addr[n] = home \/ Moves(home, server_addr[n])
    /\ node_loop[n] = "migrating" => server_addr[n] # home

(* A node is listed at home as long as it does not know that it has to     *)
(* leave, and so is every id that is granted or asked with.                *)
Listed(home, n) ==
  node_loop[n] \in {"request", "waiting", "working"} /\ server_addr[n] = home =>
    \/ node_id[n] \in Ids(node_list[home])
    \/ node_loop[n] = "waiting" /\ Redirects(conn[sock[n]])

OpenAsk(x, home, id) == Asks(x, id) /\ x.server = home /\ x.step \notin Final

IdsListed(home) ==
  \A k \in Conns, id \in NodeIDs :
    Grants(conn[k], id) \/ OpenAsk(conn[k], home, id) => id \in Ids(node_list[home])

MoveInv(home) ==
  /\ OrdersOK
  /\ Places(home)
  /\ \A n \in Nodes : Listed(home, n)
  /\ IdsListed(home)
  /\ NeverPoisoned

-----------------------------------------------------------------------------
(* Whose chunk is whose.                                                   *)

NeedsDataFrom(id) == [type |-> "NeedsData", node_id |-> id]
MigratedFrom(id) == [type |-> "NodeMigrated", node_id |-> id]
ResultFrom(id, c) == [type |-> "HasData", node_id |-> id, chunk_id |-> c]

(* A request server s has still to handle.                                 *)
Unread(x, s, request) ==
  x # None /\ x.server = s /\ x.request = request /\ x.step \in {"backlog", "accepted"}

(* Server s knows id, or is going to.                                      *)
Known(s, id) ==
  \/ id \in Ids(node_list[s])
  \/ \E k \in Conns : Unread(conn[k], s, MigratedFrom(id))

(* Wherever a node asks for work it is known.                              *)
KnownAway(home) ==
  /\ \A n \in Nodes :
       /\ node_loop[n] \in {"request", "waiting", "working"}
       /\ server_addr[n] # home
       /\ listening[server_addr[n]]
       => Known(server_addr[n], node_id[n])
  /\ \A k \in Conns, id \in NodeIDs :
       Asks(conn[k], id) /\ conn[k].server # home /\ listening[conn[k].server]
       => Known(conn[k].server, id)

(* The node has died and will not move any more.                           *)
Lost(s, id) ==
  /\ \E n \in Nodes : node_id[n] = id /\ node_loop[n] = "crashed"
  /\ Known(s, id)
  /\ \A k \in Conns : ~Asks(conn[k], id)

ChunksAccounted ==
  \A s \in Servers, c \in ChunkIdx :
    listening[s] /\ chunk_list[s][c].status = "Processing" =>
      /\ chunk_list[s][c].node_id \in NodeIDs
      /\ \/ UnderWay(s, c, chunk_list[s][c].node_id)
         \/ Lost(s, chunk_list[s][c].node_id)

StrandInv(home) == KnownAway(home) /\ ChunksAccounted

(* No work is given up by a node that lives and no connection refused      *)
(* while the server listens.                                               *)
NothingFails == {"lose", "refuse", "error"} \cap Events = {}

-----------------------------------------------------------------------------
(* Who works on what.  From here on no node moves, heartbeats are in time, *)
(* and operators send custom messages only.                                *)

Steady(home) ==
  /\ \A n \in Nodes : Home[n] = home
  /\ \A r \in AdminRequests : r[2].type = "CustomMessage"
  /\ {"late", "refuse"} \cap Events = {}

(* Every chunk of server s has its result.                                 *)
AllDelivered(s) == \A c \in ChunkIdx : image[s][c] # None

(* Nobody moves and no server ends before its job.                         *)
StayInv(home) ==
  /\ \A k \in Conns : conn[k] # None => conn[k].request.type \notin {"NewServer", "ShutDown"}
  /\ \A k \in Conns : ~Redirects(conn[k])
  /\ \A s \in Servers : new_server[s] = None /\ ~stopped[s]
  /\ \A s \in Servers : ~listening[s] => AllDelivered(s)
  /\ \A n \in Nodes : server_addr[n] = home

(* The node with this id has not died, or is going to learn its id.        *)
Living(id) == \E n \in Nodes : node_id[n] = id /\ node_loop[n] # "crashed"
Expected(id) == Living(id) \/ \E k \in Conns : Grants(conn[k], id)

(* Server s takes the node for dead, or a handler does with its list.      *)
Doubts(x, s, id) == x # None /\ x.server = s /\ x.step = "timeout" /\ id \in x.nodes
Suspected(s, id) ==
  id \in check_heartbeat(node_list[s]) \/ \E k \in Conns : Doubts(conn[k], s, id)

(* As long as the server listens the living are heard and not suspected.   *)
SuspectInv(home) ==
  /\ \A n \in Nodes :
       listening[home] /\ node_id[n] # None /\ node_loop[n] # "crashed" => heartbeat[n] = "running"
  /\ \A id \in NodeIDs : Suspected(home, id) =>
       /\ id \in DrawnIds(home)
       /\ listening[home] => ~Expected(id)

(* The node with this id computes chunk c, or is going to.                 *)
Offers(x, id, c) ==
  Asks(x, id) /\ x.step = "replied" /\ x.reply.type = "Unfinished" /\ x.reply.chunk_id = c
Holds(id, c) ==
  \/ \E n \in Nodes : node_id[n] = id /\ work[n] = c
  \/ \E k \in Conns : Offers(conn[k], id, c)

(* What a node holds is assigned to it, and it stays so until the result   *)
(* has been read, which is sent once.                                      *)
HoldInv(home) ==
  \A id \in NodeIDs, c \in ChunkIdx :
    /\ Holds(id, c) => is_processing(chunk_list[home][c], id)
    /\ \A k \in Conns : Unread(conn[k], home, ResultFrom(id, c)) /\ Living(id) =>
         /\ is_processing(chunk_list[home][c], id)
         /\ ~Holds(id, c)
         /\ \A l \in Conns : Unread(conn[l], home, ResultFrom(id, c)) => l = k

WorkInv(home) == StayInv(home) /\ SuspectInv(home) /\ HoldInv(home)
=============================================================================
