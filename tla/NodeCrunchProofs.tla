--------------------------- MODULE NodeCrunchProofs ---------------------------
(***************************************************************************)
(* What holds of NodeCrunch for every number of servers, nodes, chunks,    *)
(* streams and events: the types, who has which id, where nodes are known, *)
(* and that no chunk is stranded.  NodeInvariants has the inductive        *)
(* invariants, each of which is proved here from those before it: first    *)
(* the steps of a server, then those of a node, then the environment's.    *)
(***************************************************************************)
EXTENDS NodeInvariants, NodeListLemmas

-----------------------------------------------------------------------------
(* The operations keep their types, and a reply has the fields it needs.   *)

LEMMA ExpireType ==
  ASSUME NEW list \in Seq(NCNodeInfo), NEW i \in DOMAIN list
  PROVE  [list EXCEPT ![i].stale = TRUE] \in Seq(NCNodeInfo)
<1>1. \A j \in DOMAIN list : list[j] \in NCNodeInfo
  OBVIOUS
<1>2. [list EXCEPT ![i].stale = TRUE] \in [DOMAIN list -> NCNodeInfo]
  BY <1>1 DEF NCNodeInfo
<1> QED BY <1>2, SameShape

LEMMA HeartbeatTimeoutType ==
  ASSUME NEW chunks \in [ChunkIdx -> Chunk], NEW nodes
  PROVE  heartbeat_timeout(chunks, nodes) \in [ChunkIdx -> Chunk]
BY DEF heartbeat_timeout, set_empty, Chunk, ChunkStatus

LEMMA ChunkTypes ==
  ASSUME NEW chunk \in Chunk, NEW id \in NodeIDs
  PROVE  /\ set_processing(chunk, id) \in Chunk
         /\ set_finished(chunk) \in Chunk
BY DEF set_processing, set_finished, Chunk, ChunkStatus

LEMMA ReplyFields ==
  ASSUME NEW m \in NCServerMessage
  PROVE  /\ m.type = "InitialData" => m.node_id \in NodeIDs
         /\ m.type = "Unfinished" => m.chunk_id \in ChunkIdx
         /\ m.type = "NewServer" => m.server \in Servers
BY DEF NCServerMessage

-----------------------------------------------------------------------------
(* The type invariant.                                                     *)

(* What a step of a server does to the streams: they stay well formed, and *)
(* a stream whose client waits stays there for the client.                 *)
StreamsProgress ==
  /\ conn' \in [Conns -> Stream \cup {None}]
  /\ \A k \in Conns :
       /\ WellFormed(conn'[k])
       /\ conn[k] # None /\ conn[k].open => conn'[k] # None /\ conn'[k].open

LEMMA DroppedStream ==
  ASSUME NEW x \in Stream
  PROVE  /\ Dropped(x) \in Stream \cup {None}
         /\ WellFormed(Dropped(x))
         /\ x.open => Dropped(x) # None /\ Dropped(x).open
BY NCConnectionAssumption DEF Dropped, WellFormed, Stream, Step

LEMMA DropProgress ==
  ASSUME TypeInv, NEW k \in Conns, conn[k] # None, Drop(k)
  PROVE  StreamsProgress
<1>1. conn \in [Conns -> Stream \cup {None}] /\ conn[k] \in Stream
  BY DEF TypeInv, TypeOK, NCConnectionTypeOK
<1>2. /\ Dropped(conn[k]) \in Stream \cup {None}
      /\ WellFormed(Dropped(conn[k]))
      /\ conn[k].open => Dropped(conn[k]) # None /\ Dropped(conn[k]).open
  BY <1>1, DroppedStream
<1> QED BY <1>1, <1>2 DEF Drop, StreamsProgress, TypeInv, StreamsOK

LEMMA AnswerProgress ==
  ASSUME TypeInv, NEW k \in Conns, conn[k] # None,
         NEW m \in NCServerMessage, Answer(k, m)
  PROVE  StreamsProgress
<1>1. conn \in [Conns -> Stream \cup {None}] /\ conn[k] \in Stream
  BY DEF TypeInv, TypeOK, NCConnectionTypeOK
<1>2. /\ Answered(conn[k], m) \in Stream \cup {None}
      /\ WellFormed(Answered(conn[k], m))
      /\ conn[k].open => Answered(conn[k], m) # None /\ Answered(conn[k], m).open
  BY <1>1, NCConnectionAssumption DEF Answered, WellFormed, Stream, Step
<1> QED BY <1>1, <1>2 DEF Answer, StreamsProgress, TypeInv, StreamsOK

LEMMA ContinueProgress ==
  ASSUME TypeInv, NEW k \in Conns, conn[k] # None,
         NEW step \in Step \ {"replied"},
         step \in {"messages", "prepare", "shut_down"} => conn[k].request.type = "NeedsData",
         NEW nodes \in SUBSET NodeIDs,
         conn' = [conn EXCEPT ![k].nodes = nodes, ![k].step = step]
  PROVE  StreamsProgress
<1>1. conn \in [Conns -> Stream \cup {None}] /\ conn[k] \in Stream
  BY DEF TypeInv, TypeOK, NCConnectionTypeOK
<1> DEFINE y == [[conn[k] EXCEPT !.nodes = nodes] EXCEPT !.step = step]
<1>2. y \in Stream /\ y.step = step /\ y.request = conn[k].request /\ y.open = conn[k].open
  BY <1>1 DEF Stream
<1>3. conn' = [conn EXCEPT ![k] = y]
  BY <1>1
<1>4. WellFormed(y) /\ y # None
  BY <1>2, NCConnectionAssumption DEF WellFormed
<1> HIDE DEF y
<1> QED BY <1>1, <1>2, <1>3, <1>4 DEF StreamsProgress, TypeInv, StreamsOK

LEMMA StepProgress ==
  ASSUME TypeInv, NEW k \in Conns, conn[k] # None,
         NEW step \in Step \ {"replied"},
         step \in {"messages", "prepare", "shut_down"} => conn[k].request.type = "NeedsData",
         Continue(k, step)
  PROVE  StreamsProgress
<1>1. conn \in [Conns -> Stream \cup {None}] /\ conn[k] \in Stream
  BY DEF TypeInv, TypeOK, NCConnectionTypeOK
<1> DEFINE nodes == conn[k].nodes
<1>2. nodes \in SUBSET NodeIDs
  BY <1>1 DEF Stream
<1>3. [[conn[k] EXCEPT !.nodes = nodes] EXCEPT !.step = step] = [conn[k] EXCEPT !.step = step]
  BY <1>1 DEF Stream
<1>4. conn' = [conn EXCEPT ![k].nodes = nodes, ![k].step = step]
  BY <1>1, <1>3 DEF Continue
<1> HIDE DEF nodes
<1> QED BY <1>2, <1>4, ContinueProgress

LEMMA SendProgress ==
  ASSUME TypeInv, NEW k \in Conns, NEW s \in Servers, NEW m \in NCNodeMessage,
         NEW open \in BOOLEAN, Send(k, s, m, open)
  PROVE  /\ StreamsProgress
         /\ conn'[k] # None /\ conn'[k].open = open
<1>1. conn \in [Conns -> Stream \cup {None}]
  BY DEF TypeInv, TypeOK, NCConnectionTypeOK
<1>2. /\ NewStream(s, m, open) \in Stream
      /\ WellFormed(NewStream(s, m, open))
      /\ NewStream(s, m, open).open = open
  BY DEF NewStream, WellFormed, Stream, Step
<1> QED BY <1>1, <1>2, NCConnectionAssumption
        DEF Send, StreamsProgress, TypeInv, StreamsOK

LEMMA NodesUndisturbed ==
  ASSUME TypeInv, StreamsProgress, UNCHANGED nodeVars
  PROVE  (\A n \in Nodes : NodeOK(n))' /\ OwnStreams'
BY DEF TypeInv, NodeOK, OwnStreams, AwaitsReply, StreamsProgress, nodeVars

LEMMA StreamsKept ==
  ASSUME TypeInv, UNCHANGED conn
  PROVE  StreamsProgress
BY DEF TypeInv, TypeOK, NCConnectionTypeOK, StreamsOK, StreamsProgress

-----------------------------------------------------------------------------
(* Every step of a server keeps the types of the server's own state and    *)
(* treats the streams well.                                                *)

ServerTypes ==
  /\ NCServerTypeOK'
  /\ listening' \in [Servers -> BOOLEAN]
  /\ StreamsProgress

(* What a handler may rely on.                                             *)
LEMMA HandlerRequest ==
  ASSUME TypeInv, NEW k \in Conns, NEW s \in Servers
  PROVE  /\ \A type : Received(k, s, type) =>
              conn[k] # None /\ conn[k].request.type = type
         /\ \A step : At(k, s, step) => conn[k] # None /\ conn[k].nodes \in SUBSET NodeIDs
         /\ \A step \in {"messages", "prepare", "shut_down"} :
              At(k, s, step) => conn[k].request.type = "NeedsData"
<1>1. conn[k] \in Stream \cup {None} /\ WellFormed(conn[k])
  BY DEF TypeInv, TypeOK, NCConnectionTypeOK, StreamsOK
<1> QED BY <1>1 DEF Received, At, WellFormed, Stream

LEMMA RequestValues ==
  ASSUME TypeInv, NEW k \in Conns, NEW s \in Servers
  PROVE  /\ \A type \in {"NeedsData", "HeartBeat", "NodeMigrated", "HasData"} :
              Received(k, s, type) => conn[k].request.node_id \in NodeIDs
         /\ At(k, s, "prepare") => conn[k].request.node_id \in NodeIDs
         /\ Received(k, s, "HasData") => conn[k].request.chunk_id \in ChunkIdx
         /\ Received(k, s, "NewServer") => conn[k].request.server \in Servers
         /\ Received(k, s, "CustomMessage") =>
              /\ conn[k].request.message \in Messages
              /\ conn[k].request.destination \in NodeIDs \cup {None}
<1>1. conn[k] # None => conn[k].request \in NCNodeMessage
  BY DEF TypeInv, TypeOK, NCConnectionTypeOK, Stream
<1>2. conn[k] # None /\ conn[k].step = "prepare" => conn[k].request.type = "NeedsData"
  BY DEF TypeInv, StreamsOK, WellFormed
<1> QED BY <1>1, <1>2, RequestFields DEF Received, At

LEMMA HandlerTypes ==
  ASSUME TypeInv, NEW s \in Servers, NEW k \in Conns, handle_node(s, k)
  PROVE  ServerTypes
<1> USE DEF TypeInv, TypeOK, NCConnectionTypeOK, NCServerTypeOK, ServerTypes,
            threadVars, listVars, jobVars, doneVars, serverVars
<1>1. CASE HandlerFails(s, k)
  BY <1>1, HandlerRequest, DropProgress DEF HandlerFails
<1>2. CASE HandleRegister(s, k)
  <2>1. PICK id \in NodeIDs :
          /\ node_list' = [node_list EXCEPT ![s] = register_new_node(@, id)]
          /\ Answer(k, [type |-> "InitialData", node_id |-> id])
    BY <1>2 DEF HandleRegister
  <2>2. [type |-> "InitialData", node_id |-> id] \in NCServerMessage
    BY DEF NCServerMessage
  <2>3. StreamsProgress
    BY <1>2, <2>1, <2>2, HandlerRequest, AnswerProgress DEF HandleRegister
  <2> QED BY <1>2, <2>1, <2>3, NodeListTypes DEF HandleRegister
<1>3. CASE HandleNeedsData(s, k)
  <2>1. conn[k] # None /\ conn[k].request.type = "NeedsData" /\ Continue(k, "messages")
    BY <1>3, HandlerRequest DEF HandleNeedsData
  <2>2. StreamsProgress
    BY <2>1, StepProgress DEF Step
  <2> QED BY <1>3, <2>2 DEF HandleNeedsData
<1>4. CASE HandleLeavingNode(s, k)
  <2>1. conn[k].request.node_id \in NodeIDs
    BY <1>4, RequestValues DEF HandleLeavingNode
  <2>2. PICK i \in DOMAIN node_list[s] :
          node_list' = [node_list EXCEPT ![s] = swap_remove(@, i)]
    BY <1>4 DEF HandleLeavingNode
  <2>3. swap_remove(node_list[s], i) \in Seq(NCNodeInfo)
    BY <2>1, NodeListTypes
  <2>4. [type |-> "NewServer", server |-> new_server[s]] \in NCServerMessage
    BY <1>4 DEF HandleLeavingNode, NCServerMessage
  <2>5. StreamsProgress
    BY <1>4, <2>4, HandlerRequest, AnswerProgress DEF HandleLeavingNode
  <2> QED BY <1>4, <2>1, <2>2, <2>3, <2>5 DEF HandleLeavingNode
<1>5. CASE HandleUnknownNode(s, k)
  <2>1. StreamsProgress
    BY <1>5, HandlerRequest, DropProgress DEF HandleUnknownNode
  <2> QED BY <1>5, <2>1 DEF HandleUnknownNode
<1>6. CASE SendCustomMessage(s, k)
  <2>1. PICK i \in DOMAIN node_list[s] :
          /\ node_list[s][i].message_queue # <<>>
          /\ node_list' = [node_list EXCEPT ![s] = pop_message(@, i)]
          /\ Answer(k, [type |-> "CustomMessage",
                        message |-> Head(node_list[s][i].message_queue)])
    BY <1>6 DEF SendCustomMessage
  <2>2. /\ pop_message(node_list[s], i) \in Seq(NCNodeInfo)
        /\ Head(node_list[s][i].message_queue) \in Messages
    BY <2>1, PopMessageType
  <2>3. [type |-> "CustomMessage", message |-> Head(node_list[s][i].message_queue)]
          \in NCServerMessage
    BY <2>2 DEF NCServerMessage
  <2>4. StreamsProgress
    BY <1>6, <2>1, <2>3, HandlerRequest, AnswerProgress DEF SendCustomMessage
  <2> QED BY <1>6, <2>1, <2>2, <2>4 DEF SendCustomMessage
<1>7. CASE NoCustomMessage(s, k)
  <2>1. StreamsProgress
    BY <1>7, HandlerRequest, StepProgress DEF NoCustomMessage, Step
  <2> QED BY <1>7, <2>1 DEF NoCustomMessage
<1>8. CASE PrepareUnfinished(s, k)
  <2>1. conn[k].request.node_id \in NodeIDs
    BY <1>8, RequestValues DEF PrepareUnfinished
  <2>2. PICK c \in ChunkIdx :
          /\ chunk_list' = [chunk_list EXCEPT ![s][c] =
                              set_processing(@, conn[k].request.node_id)]
          /\ Answer(k, [type |-> "Unfinished", chunk_id |-> c])
    BY <1>8 DEF PrepareUnfinished
  <2>3. [type |-> "Unfinished", chunk_id |-> c] \in NCServerMessage
    BY DEF NCServerMessage
  <2>4. StreamsProgress
    BY <1>8, <2>2, <2>3, HandlerRequest, AnswerProgress DEF PrepareUnfinished
  <2>5. set_processing(chunk_list[s][c], conn[k].request.node_id) \in Chunk
    BY <2>1, ChunkTypes
  <2>6. chunk_list' \in [Servers -> [ChunkIdx -> Chunk]]
    BY <2>2, <2>5
  <2> QED BY <1>8, <2>4, <2>6 DEF PrepareUnfinished
<1>9. CASE PrepareWaiting(s, k)
  <2>1. [type |-> "Waiting"] \in NCServerMessage
    BY DEF NCServerMessage
  <2>2. StreamsProgress
    BY <1>9, <2>1, HandlerRequest, AnswerProgress DEF PrepareWaiting
  <2> QED BY <1>9, <2>2 DEF PrepareWaiting
<1>10. CASE PrepareFinished(s, k)
  <2>1. StreamsProgress
    BY <1>10, HandlerRequest, StepProgress DEF PrepareFinished, Step
  <2> QED BY <1>10, <2>1 DEF PrepareFinished
<1>11. CASE HandleFinished(s, k)
  <2>1. StreamsProgress
    BY <1>11, HandlerRequest, DropProgress DEF HandleFinished
  <2> QED BY <1>11, <2>1 DEF HandleFinished
<1>12. CASE HandleHeartBeat(s, k)
  <2>1. conn[k].request.node_id \in NodeIDs
    BY <1>12, RequestValues DEF HandleHeartBeat
  <2>2. StreamsProgress
    BY <1>12, HandlerRequest, DropProgress DEF HandleHeartBeat
  <2>3. update_heartbeat(node_list[s], conn[k].request.node_id) \in Seq(NCNodeInfo)
    BY <2>1, NodeListTypes
  <2> QED BY <1>12, <2>2, <2>3 DEF HandleHeartBeat
<1>13. CASE AcceptResult(s, k)
  <2> DEFINE c  == conn[k].request.chunk_id
             id == conn[k].request.node_id
  <2>1. c \in ChunkIdx /\ id \in NodeIDs
    BY <1>13, RequestValues DEF AcceptResult
  <2>2. /\ chunk_list' = [chunk_list EXCEPT ![s][c] = set_finished(@)]
        /\ image' = [image EXCEPT ![s][c] = id]
    BY <1>13 DEF AcceptResult
  <2>3. StreamsProgress
    BY <1>13, HandlerRequest, DropProgress DEF AcceptResult
  <2> HIDE DEF c, id
  <2>4. set_finished(chunk_list[s][c]) \in Chunk
    BY <2>1, ChunkTypes
  <2>5. chunk_list' \in [Servers -> [ChunkIdx -> Chunk]]
    BY <2>1, <2>2, <2>4
  <2>6. image' \in [Servers -> Image]
    BY <2>1, <2>2 DEF Image
  <2> QED BY <1>13, <2>3, <2>5, <2>6 DEF AcceptResult
<1>14. CASE RejectResult(s, k)
  <2>1. StreamsProgress
    BY <1>14, HandlerRequest, DropProgress DEF RejectResult
  <2> QED BY <1>14, <2>1 DEF RejectResult
<1>15. CASE HandleCheckHeartbeat(s, k)
  <2>1. check_heartbeat(node_list[s]) \in SUBSET NodeIDs
    BY CheckHeartbeatType
  <2>2. StreamsProgress
    BY <1>15, <2>1, HandlerRequest, ContinueProgress DEF HandleCheckHeartbeat, Step
  <2> QED BY <1>15, <2>2 DEF HandleCheckHeartbeat
<1>16. CASE HeartbeatTimeout(s, k)
  <2>1. StreamsProgress
    BY <1>16, HandlerRequest, DropProgress DEF HeartbeatTimeout
  <2>2. heartbeat_timeout(chunk_list[s], conn[k].nodes) \in [ChunkIdx -> Chunk]
    BY HeartbeatTimeoutType
  <2> QED BY <1>16, <2>1, <2>2 DEF HeartbeatTimeout
<1>17. CASE HandleShutDown(s, k)
  <2>1. StreamsProgress
    BY <1>17, HandlerRequest, DropProgress DEF HandleShutDown
  <2> QED BY <1>17, <2>1 DEF HandleShutDown
<1>18. CASE HandleNewServer(s, k)
  <2>1. conn[k].request.server \in Servers
    BY <1>18, RequestValues DEF HandleNewServer
  <2>2. StreamsProgress
    BY <1>18, HandlerRequest, DropProgress DEF HandleNewServer
  <2> QED BY <1>18, <2>1, <2>2 DEF HandleNewServer
<1>19. CASE HandleNodeMigrated(s, k)
  <2>1. conn[k].request.node_id \in NodeIDs
    BY <1>19, RequestValues DEF HandleNodeMigrated
  <2>2. StreamsProgress
    BY <1>19, HandlerRequest, DropProgress DEF HandleNodeMigrated
  <2>3. migrate_node(node_list[s], conn[k].request.node_id) \in Seq(NCNodeInfo)
    BY <2>1, NodeListTypes
  <2> QED BY <1>19, <2>2, <2>3 DEF HandleNodeMigrated
<1>20. CASE HandleCustomMessage(s, k)
  <2> DEFINE message     == conn[k].request.message
             destination == conn[k].request.destination
             longer == IF destination = None THEN add_message_all(node_list[s], message)
                       ELSE add_message(node_list[s], message, destination)
  <2>1. message \in Messages /\ destination \in NodeIDs \cup {None}
    BY <1>20, RequestValues DEF HandleCustomMessage
  <2>2. StreamsProgress
    BY <1>20, HandlerRequest, DropProgress DEF HandleCustomMessage
  <2>3. longer \in Seq(NCNodeInfo)
    BY <2>1, MessageQueueTypes
  <2>4. node_list' = [node_list EXCEPT ![s] = longer]
    BY <1>20 DEF HandleCustomMessage
  <2> HIDE DEF longer, message, destination
  <2> QED BY <1>20, <2>2, <2>3, <2>4 DEF HandleCustomMessage
<1> QED BY <1>1, <1>2, <1>3, <1>4, <1>5, <1>6, <1>7, <1>8, <1>9, <1>10, <1>11, <1>12,
           <1>13, <1>14, <1>15, <1>16, <1>17, <1>18, <1>19, <1>20 DEF handle_node

LEMMA ServerThreadTypes ==
  ASSUME TypeInv, NEW s \in Servers,
         \/ \E k \in Conns : Accept(s, k)
         \/ ServerMainLoop(s)
         \/ SendCheckHeartbeat(s) \/ ServerHeartbeatExits(s)
  PROVE  ServerTypes
<1> USE DEF TypeInv, TypeOK, NCConnectionTypeOK, NCServerTypeOK, ServerTypes,
            threadVars, listVars, jobVars, doneVars, serverVars, connVars
<1>1. ASSUME NEW k \in Conns, Accept(s, k)
      PROVE  ServerTypes
  <2>1. StreamsProgress
    BY <1>1, HandlerRequest, StepProgress DEF Accept, Step
  <2> QED BY <1>1, <2>1 DEF Accept
<1>2. CASE CheckJobDone(s)
  <2>1. StreamsProgress
    BY <1>2, StreamsKept DEF CheckJobDone
  <2> QED BY <1>2, <2>1 DEF CheckJobDone
<1>3. CASE FinishJob(s)
  <2>1. ASSUME NEW k \in Conns
        PROVE  /\ conn'[k] \in Stream \cup {None}
               /\ WellFormed(conn'[k])
               /\ conn[k] # None /\ conn[k].open => conn'[k] # None /\ conn'[k].open
    <3>1. conn[k] \in Stream \cup {None} /\ WellFormed(conn[k])
      BY DEF StreamsOK
    <3>2. conn'[k] = conn[k] \/ (conn[k] # None /\ conn'[k] = Dropped(conn[k]))
      BY <1>3 DEF FinishJob, At
    <3>3. conn[k] # None => /\ Dropped(conn[k]) \in Stream \cup {None}
                            /\ WellFormed(Dropped(conn[k]))
                            /\ conn[k].open => Dropped(conn[k]) # None /\ Dropped(conn[k]).open
      BY <3>1, DroppedStream
    <3> QED BY <3>1, <3>2, <3>3
  <2>2. conn' = [k \in Conns |-> conn'[k]]
    BY <1>3 DEF FinishJob
  <2>3. StreamsProgress
    BY <2>1, <2>2 DEF StreamsProgress
  <2> QED BY <1>3, <2>3 DEF FinishJob
<1>4. CASE JoinThreads(s)
  <2>1. StreamsProgress
    BY <1>4, StreamsKept DEF JoinThreads
  <2> QED BY <1>4, <2>1 DEF JoinThreads
<1>5. CASE SendCheckHeartbeat(s)
  <2>1. [type |-> "CheckHeartbeat"] \in NCNodeMessage
    BY DEF NCNodeMessage
  <2>2. StreamsProgress
    BY <1>5, <2>1, SendProgress DEF SendCheckHeartbeat
  <2> QED BY <1>5, <2>2 DEF SendCheckHeartbeat
<1>6. CASE ServerHeartbeatExits(s)
  <2>1. StreamsProgress
    BY <1>6, StreamsKept DEF ServerHeartbeatExits
  <2> QED BY <1>6, <2>1 DEF ServerHeartbeatExits
<1> QED BY <1>1, <1>2, <1>3, <1>4, <1>5, <1>6 DEF ServerMainLoop

-----------------------------------------------------------------------------
(* Every step of a node.                                                   *)

NodeTypes ==
  /\ NCNodeTypeOK'
  /\ conn' \in [Conns -> Stream \cup {None}]
  /\ StreamsOK'
  /\ (\A n \in Nodes : NodeOK(n))'
  /\ OwnStreams'

LEMMA CloseStream ==
  ASSUME TypeInv, NEW n \in Nodes, AwaitsReply(n), Close(n)
  PROVE  /\ conn' \in [Conns -> Stream \cup {None}]
         /\ StreamsOK'
         /\ \A k \in Conns : k # sock[n] => conn'[k] = conn[k]
         /\ sock' = [sock EXCEPT ![n] = None]
BY DEF TypeInv, TypeOK, NCConnectionTypeOK, StreamsOK, WellFormed, NodeOK, Close

LEMMA ReplyValues ==
  ASSUME TypeInv, NEW n \in Nodes, AwaitsReply(n)
  PROVE  /\ Replied(n, "InitialData") => conn[sock[n]].reply.node_id \in NodeIDs
         /\ Replied(n, "Unfinished") => conn[sock[n]].reply.chunk_id \in ChunkIdx
         /\ Replied(n, "NewServer") => conn[sock[n]].reply.server \in Servers
<1>1. sock[n] \in Conns /\ conn[sock[n]] # None /\ WellFormed(conn[sock[n]])
  BY DEF TypeInv, NodeOK, StreamsOK
<1>2. conn[sock[n]].step = "replied" => conn[sock[n]].reply \in NCServerMessage
  BY <1>1 DEF WellFormed
<1> QED BY <1>2, ReplyFields DEF Replied

(* A node opens a stream it will wait on.                                  *)
LEMMA SendAndWaitTypes ==
  ASSUME TypeInv, NEW n \in Nodes, ~AwaitsReply(n), NEW m \in NCNodeMessage,
         SendAndWait(n, m),
         NEW place \in {"registering", "waiting"}, Goto(n, place),
         place = "waiting" => node_id[n] \in NodeIDs,
         UNCHANGED <<node_id, server_addr, retry_counter, work, hbVars>>
  PROVE  NodeTypes
<1>1. PICK k \in Conns : /\ Send(k, server_addr[n], m, TRUE)
                         /\ sock' = [sock EXCEPT ![n] = k]
  BY DEF SendAndWait
<1>2. server_addr[n] \in Servers
  BY DEF TypeInv, TypeOK, NCNodeTypeOK
<1>3. StreamsProgress /\ conn'[k] # None /\ conn'[k].open = TRUE
  BY <1>1, <1>2, SendProgress
<1>4. conn[k] = None
  BY <1>1 DEF Send
<1> USE DEF TypeInv, TypeOK, NCNodeTypeOK, Goto, hbVars
<1>5. NCNodeTypeOK'
  BY <1>1
<1>6. (\A p \in Nodes : NodeOK(p))'
  BY <1>1, <1>3 DEF NodeOK, AwaitsReply, StreamsProgress
<1>7. OwnStreams'
  BY <1>1, <1>4 DEF OwnStreams, NodeOK, AwaitsReply
<1> QED BY <1>3, <1>5, <1>6, <1>7 DEF NodeTypes, StreamsProgress, StreamsOK

(* A node sends something it gets no answer to, or nothing at all, and its *)
(* main thread goes on or ends.                                            *)
LEMMA GoOnTypes ==
  ASSUME TypeInv, NEW n \in Nodes, ~AwaitsReply(n), StreamsProgress,
         NCNodeTypeOK',
         NEW place \in {"request", "exited", "failed"}, Goto(n, place),
         place = "request" => node_id[n] \in NodeIDs,
         UNCHANGED <<node_id, sock, heartbeat>>,
         \A p \in Nodes \ {n} : work'[p] = work[p]
  PROVE  NodeTypes
<1> USE DEF TypeInv, TypeOK, NCNodeTypeOK, Goto
<1>1. (\A p \in Nodes : NodeOK(p))'
  BY DEF NodeOK, AwaitsReply, StreamsProgress
<1>2. OwnStreams'
  BY DEF OwnStreams, NodeOK, AwaitsReply
<1> QED BY <1>1, <1>2 DEF NodeTypes, StreamsProgress, StreamsOK

(* A node takes what has become of its request and closes the stream.      *)
LEMMA GetReplyTypes ==
  ASSUME TypeInv, NEW n \in Nodes, AwaitsReply(n), Close(n),
         NCNodeTypeOK',
         NEW place \in {"request", "working", "migrating", "exited", "failed"},
         Goto(n, place),
         place \in {"request", "working", "migrating"} => node_id'[n] \in NodeIDs,
         place = "working" => work'[n] \in ChunkIdx,
         heartbeat'[n] = "running" => node_id'[n] \in NodeIDs,
         \A p \in Nodes \ {n} : /\ node_id'[p] = node_id[p]
                                /\ work'[p] = work[p]
                                /\ heartbeat'[p] = heartbeat[p]
  PROVE  NodeTypes
<1> USE DEF TypeInv, TypeOK, NCNodeTypeOK, Goto
<1>1. /\ conn' \in [Conns -> Stream \cup {None}]
      /\ StreamsOK'
      /\ \A k \in Conns : k # sock[n] => conn'[k] = conn[k]
      /\ sock' = [sock EXCEPT ![n] = None]
  BY CloseStream
<1>2. \A p \in Nodes \ {n} :
        /\ node_loop'[p] = node_loop[p] /\ sock'[p] = sock[p]
        /\ AwaitsReply(p) => sock[p] # sock[n] /\ sock[p] \in Conns
  BY <1>1 DEF OwnStreams, NodeOK, AwaitsReply
<1>3. \A p \in Nodes \ {n} : AwaitsReply(p) => conn'[sock[p]] = conn[sock[p]]
  BY <1>1, <1>2
<1>4. ASSUME NEW p \in Nodes
      PROVE  NodeOK(p)'
  <2>1. CASE p = n
    BY <1>1, <2>1 DEF NodeOK, AwaitsReply
  <2>2. CASE p # n
    BY <1>2, <1>3, <2>2 DEF NodeOK, AwaitsReply
  <2> QED BY <2>1, <2>2
<1>5. OwnStreams'
  BY <1>2 DEF OwnStreams, AwaitsReply
<1> QED BY <1>1, <1>4, <1>5 DEF NodeTypes

LEMMA RoundFailsTypes ==
  ASSUME TypeInv, NEW n \in Nodes, RoundFails(n)
  PROVE  /\ \E place \in {"request", "exited"} : Goto(n, place)
         /\ retry_counter' \in [Nodes -> 0 .. RetryCounter]
BY NCNodeAssumption DEF TypeInv, TypeOK, NCNodeTypeOK, RoundFails, Goto

LEMMA NextRoundTypes ==
  ASSUME TypeInv, NEW n \in Nodes, NextRound(n)
  PROVE  /\ Goto(n, "request")
         /\ retry_counter' \in [Nodes -> 0 .. RetryCounter]
BY NCNodeAssumption DEF TypeInv, TypeOK, NCNodeTypeOK, NextRound, Goto

LEMMA MainThreadTypes ==
  ASSUME TypeInv, NEW n \in Nodes, main_thread(n)
  PROVE  NodeTypes
<1> USE DEF TypeInv, TypeOK, NCNodeTypeOK
<1>1. CASE SendRegister(n)
  <2>1. [type |-> "Register"] \in NCNodeMessage
    BY DEF NCNodeMessage
  <2> QED BY <1>1, <2>1, SendAndWaitTypes DEF SendRegister, AwaitsReply
<1>2. CASE GetInitialData(n)
  <2>1. AwaitsReply(n) /\ Close(n) /\ Goto(n, "request")
    BY <1>2 DEF GetInitialData, AwaitsReply
  <2>2. conn[sock[n]].reply.node_id \in NodeIDs
    BY <1>2, <2>1, ReplyValues DEF GetInitialData
  <2>3. NCNodeTypeOK'
    BY <1>2, <2>2, CloseStream, <2>1 DEF GetInitialData, Goto
  <2> QED BY <1>2, <2>1, <2>2, <2>3, GetReplyTypes DEF GetInitialData
<1>3. CASE RegisterLost(n)
  <2>1. AwaitsReply(n) /\ Close(n) /\ Goto(n, "failed")
    BY <1>3 DEF RegisterLost, AwaitsReply
  <2>2. NCNodeTypeOK'
    BY <1>3, <2>1, CloseStream DEF RegisterLost, Goto, hbVars
  <2> QED BY <1>3, <2>1, <2>2, GetReplyTypes DEF RegisterLost, hbVars, NodeOK
<1>4. CASE SendNeedsData(n)
  <2>1. node_id[n] \in NodeIDs
    BY <1>4 DEF SendNeedsData, NodeOK
  <2>2. [type |-> "NeedsData", node_id |-> node_id[n]] \in NCNodeMessage
    BY <2>1 DEF NCNodeMessage
  <2> QED BY <1>4, <2>1, <2>2, SendAndWaitTypes DEF SendNeedsData, AwaitsReply
<1>5. CASE NeedsDataLost(n)
  <2>1. AwaitsReply(n) /\ Close(n) /\ node_id[n] \in NodeIDs
    BY <1>5 DEF NeedsDataLost, AwaitsReply, NodeOK
  <2>2. PICK place \in {"request", "exited"} : Goto(n, place)
    BY <1>5, RoundFailsTypes DEF NeedsDataLost
  <2>3. NCNodeTypeOK'
    BY <1>5, <2>1, <2>2, CloseStream, RoundFailsTypes DEF NeedsDataLost, Goto, hbVars
  <2> QED BY <1>5, <2>1, <2>2, <2>3, GetReplyTypes DEF NeedsDataLost, hbVars
<1>6. CASE GetUnfinished(n)
  <2>1. AwaitsReply(n) /\ Close(n) /\ node_id[n] \in NodeIDs /\ Goto(n, "working")
    BY <1>6 DEF GetUnfinished, AwaitsReply, NodeOK
  <2>2. conn[sock[n]].reply.chunk_id \in ChunkIdx
    BY <1>6, <2>1, ReplyValues DEF GetUnfinished
  <2>3. NCNodeTypeOK'
    BY <1>6, <2>1, <2>2, CloseStream DEF GetUnfinished, Goto, hbVars
  <2> QED BY <1>6, <2>1, <2>2, <2>3, GetReplyTypes DEF GetUnfinished, hbVars
<1>7. CASE GetNoWork(n)
  <2>1. AwaitsReply(n) /\ Close(n) /\ node_id[n] \in NodeIDs
    BY <1>7 DEF GetNoWork, AwaitsReply, NodeOK
  <2>2. Goto(n, "request") /\ retry_counter' \in [Nodes -> 0 .. RetryCounter]
    BY <1>7, NextRoundTypes DEF GetNoWork
  <2>3. NCNodeTypeOK'
    BY <1>7, <2>1, <2>2, CloseStream DEF GetNoWork, Goto, hbVars
  <2> QED BY <1>7, <2>1, <2>2, <2>3, GetReplyTypes DEF GetNoWork, hbVars
<1>8. CASE GetNewServer(n)
  <2>1. AwaitsReply(n) /\ Close(n) /\ node_id[n] \in NodeIDs /\ Goto(n, "migrating")
    BY <1>8 DEF GetNewServer, AwaitsReply, NodeOK
  <2>2. conn[sock[n]].reply.server \in Servers
    BY <1>8, <2>1, ReplyValues DEF GetNewServer
  <2>3. NCNodeTypeOK'
    BY <1>8, <2>1, <2>2, CloseStream DEF GetNewServer, Goto, hbVars
  <2> QED BY <1>8, <2>1, <2>3, GetReplyTypes DEF GetNewServer, hbVars
<1>9. CASE SendNodeMigrated(n)
  <2>1. node_id[n] \in NodeIDs /\ ~AwaitsReply(n)
    BY <1>9 DEF SendNodeMigrated, NodeOK, AwaitsReply
  <2>2. [type |-> "NodeMigrated", node_id |-> node_id[n]] \in NCNodeMessage
    BY <2>1 DEF NCNodeMessage
  <2>3. StreamsProgress
    BY <1>9, <2>2, SendProgress DEF SendNodeMigrated
  <2>4. Goto(n, "request") /\ retry_counter' \in [Nodes -> 0 .. RetryCounter]
    BY <1>9, NextRoundTypes DEF SendNodeMigrated
  <2>5. NCNodeTypeOK'
    BY <1>9, <2>4 DEF SendNodeMigrated, Goto, hbVars
  <2> QED BY <1>9, <2>1, <2>3, <2>4, <2>5, GoOnTypes DEF SendNodeMigrated, hbVars
<1>10. CASE SendHasData(n)
  <2>1. node_id[n] \in NodeIDs /\ work[n] \in ChunkIdx /\ ~AwaitsReply(n)
    BY <1>10 DEF SendHasData, NodeOK, AwaitsReply
  <2>2. [type |-> "HasData", node_id |-> node_id[n], chunk_id |-> work[n]] \in NCNodeMessage
    BY <2>1 DEF NCNodeMessage
  <2>3. StreamsProgress
    BY <1>10, <2>2, SendProgress DEF SendHasData
  <2>4. Goto(n, "request") /\ retry_counter' \in [Nodes -> 0 .. RetryCounter]
    BY <1>10, NextRoundTypes DEF SendHasData
  <2>5. NCNodeTypeOK'
    BY <1>10, <2>4 DEF SendHasData, Goto, hbVars
  <2> QED BY <1>10, <2>1, <2>3, <2>4, <2>5, GoOnTypes DEF SendHasData, hbVars
<1> QED BY <1>1, <1>2, <1>3, <1>4, <1>5, <1>6, <1>7, <1>8, <1>9, <1>10 DEF main_thread

LEMMA RefusedTypes ==
  ASSUME TypeInv, NEW n \in Nodes, MainThreadRefused(n)
  PROVE  NodeTypes
<1> USE DEF TypeInv, TypeOK, NCNodeTypeOK
<1>1. CASE RegisterRefused(n)
  <2>1. StreamsProgress
    BY <1>1, StreamsKept DEF RegisterRefused, connVars
  <2>2. NCNodeTypeOK'
    BY <1>1 DEF RegisterRefused, Goto, hbVars
  <2> QED BY <1>1, <2>1, <2>2, GoOnTypes DEF RegisterRefused, hbVars, AwaitsReply
<1>2. CASE NeedsDataRefused(n)
  <2>1. StreamsProgress
    BY <1>2, StreamsKept DEF NeedsDataRefused, connVars
  <2>2. node_id[n] \in NodeIDs /\ ~AwaitsReply(n)
    BY <1>2 DEF NeedsDataRefused, NodeOK, AwaitsReply
  <2>3. PICK place \in {"request", "exited"} : Goto(n, place)
    BY <1>2, RoundFailsTypes DEF NeedsDataRefused
  <2>4. NCNodeTypeOK'
    BY <1>2, <2>3, RoundFailsTypes DEF NeedsDataRefused, Goto, hbVars
  <2> QED BY <1>2, <2>1, <2>2, <2>3, <2>4, GoOnTypes DEF NeedsDataRefused, hbVars
<1>3. CASE NodeMigratedRefused(n)
  <2>1. StreamsProgress
    BY <1>3, StreamsKept DEF NodeMigratedRefused, connVars
  <2>2. node_id[n] \in NodeIDs /\ ~AwaitsReply(n)
    BY <1>3 DEF NodeMigratedRefused, NodeOK, AwaitsReply
  <2>3. PICK place \in {"request", "exited"} : Goto(n, place)
    BY <1>3, RoundFailsTypes DEF NodeMigratedRefused
  <2>4. NCNodeTypeOK'
    BY <1>3, <2>3, RoundFailsTypes DEF NodeMigratedRefused, Goto, hbVars
  <2> QED BY <1>3, <2>1, <2>2, <2>3, <2>4, GoOnTypes DEF NodeMigratedRefused, hbVars
<1>4. CASE WorkFails(n)
  <2>1. StreamsProgress
    BY <1>4, StreamsKept DEF WorkFails, connVars
  <2>2. node_id[n] \in NodeIDs /\ ~AwaitsReply(n)
    BY <1>4 DEF WorkFails, NodeOK, AwaitsReply
  <2>3. PICK place \in {"request", "exited"} : Goto(n, place)
    BY <1>4, RoundFailsTypes DEF WorkFails
  <2>4. NCNodeTypeOK'
    BY <1>4, <2>3, RoundFailsTypes DEF WorkFails, Goto, hbVars
  <2> QED BY <1>4, <2>1, <2>2, <2>3, <2>4, GoOnTypes DEF WorkFails, hbVars
<1> QED BY <1>1, <1>2, <1>3, <1>4 DEF MainThreadRefused

(* The heartbeat thread of a node touches nothing of its main thread.      *)
LEMMA HeartbeatTypes ==
  ASSUME TypeInv, NEW n \in Nodes, HeartBeat(n) \/ HeartBeatRefused(n)
  PROVE  NodeTypes
<1> USE DEF TypeInv, TypeOK, NCNodeTypeOK
<1>1. StreamsProgress
  <2>1. CASE HeartBeat(n)
    <3>1. [type |-> "HeartBeat", node_id |-> node_id[n]] \in NCNodeMessage
      BY <2>1 DEF HeartBeat, NodeOK, NCNodeMessage
    <3> QED BY <2>1, <3>1, SendProgress DEF HeartBeat
  <2>2. CASE HeartBeatRefused(n)
    BY <2>2, StreamsKept DEF HeartBeatRefused, connVars
  <2> QED BY <2>1, <2>2
<1>2. NCNodeTypeOK'
  <2>1. CASE HeartBeat(n)
    BY <2>1, NCNodeAssumption DEF HeartBeat
  <2>2. CASE HeartBeatRefused(n)
    <3>1. /\ heartbeat' \in [Nodes -> {"off", "running", "exited", "crashed"}]
          /\ hb_retry_counter' \in [Nodes -> 0 .. RetryCounter]
      <4>1. CASE hb_retry_counter[n] = 0
        BY <2>2, <4>1 DEF HeartBeatRefused
      <4>2. CASE hb_retry_counter[n] # 0
        <5>1. hb_retry_counter[n] - 1 \in 0 .. RetryCounter
          BY <4>2, NCNodeAssumption
        <5> QED BY <2>2, <4>2, <5>1 DEF HeartBeatRefused
      <4> QED BY <4>1, <4>2
    <3> QED BY <2>2, <3>1 DEF HeartBeatRefused
  <2> QED BY <2>1, <2>2
<1>3. /\ UNCHANGED <<node_loop, node_id, sock, work>>
      /\ \A p \in Nodes : heartbeat'[p] = "running" => heartbeat[p] = "running"
  BY DEF HeartBeat, HeartBeatRefused
<1>4. (\A p \in Nodes : NodeOK(p))' /\ OwnStreams'
  BY <1>1, <1>3 DEF NodeOK, OwnStreams, AwaitsReply, StreamsProgress
<1> QED BY <1>1, <1>2, <1>4 DEF NodeTypes, StreamsProgress, StreamsOK

LEMMA CrashTypes ==
  ASSUME TypeInv, NEW n \in Nodes, Crash(n)
  PROVE  NodeTypes
<1> USE DEF TypeInv, TypeOK, NCNodeTypeOK, NCConnectionTypeOK
<1>1. NCNodeTypeOK'
  BY DEF Crash, Goto
<1>2. \A p \in Nodes \ {n} : /\ node_loop'[p] = node_loop[p] /\ sock'[p] = sock[p]
                             /\ node_id'[p] = node_id[p] /\ work'[p] = work[p]
                             /\ heartbeat'[p] = heartbeat[p]
  BY DEF Crash, Goto
<1>3. /\ conn' \in [Conns -> Stream \cup {None}]
      /\ StreamsOK'
      /\ \A k \in Conns : conn'[k] = conn[k] \/ (k = sock[n] /\ AwaitsReply(n))
  <2>1. CASE sock[n] = None
    BY <2>1 DEF Crash, StreamsOK, WellFormed
  <2>2. CASE sock[n] # None
    <3>1. /\ AwaitsReply(n) /\ sock[n] \in Conns /\ conn[sock[n]] \in Stream
          /\ conn' = [conn EXCEPT ![sock[n]] = Abandoned(conn[sock[n]])]
          /\ WellFormed(conn[sock[n]])
      BY <2>2 DEF Crash, NodeOK, StreamsOK
    <3>2. /\ Abandoned(conn[sock[n]]) \in Stream \cup {None}
          /\ WellFormed(Abandoned(conn[sock[n]]))
      BY <3>1, NCConnectionAssumption DEF Abandoned, WellFormed, Stream
    <3> QED BY <3>1, <3>2 DEF StreamsOK
  <2> QED BY <2>1, <2>2
<1>4. ASSUME NEW p \in Nodes
      PROVE  NodeOK(p)'
  <2>1. CASE p = n
    BY <2>1 DEF Crash, Goto, NodeOK, AwaitsReply
  <2>2. CASE p # n
    BY <1>2, <1>3, <2>2 DEF NodeOK, AwaitsReply, OwnStreams
  <2> QED BY <2>1, <2>2
<1>5. OwnStreams'
  BY <1>2 DEF Crash, Goto, OwnStreams, AwaitsReply
<1> QED BY <1>1, <1>3, <1>4, <1>5 DEF NodeTypes

-----------------------------------------------------------------------------
(* Every step of the composition keeps the invariant.                      *)

LEMMA ServerTypesSuffice ==
  ASSUME TypeInv, ServerTypes, UNCHANGED nodeVars, events' \in 0 .. MaxEvents
  PROVE  TypeInv'
<1>1. (\A n \in Nodes : NodeOK(n))' /\ OwnStreams'
  BY NodesUndisturbed DEF ServerTypes
<1>2. StreamsOK' /\ NCConnectionTypeOK'
  BY DEF ServerTypes, StreamsProgress, StreamsOK, NCConnectionTypeOK
<1>3. NCNodeTypeOK'
  BY DEF TypeInv, TypeOK, NCNodeTypeOK, nodeVars
<1> QED BY <1>1, <1>2, <1>3 DEF TypeInv, TypeOK, ServerTypes

LEMMA NodeTypesSuffice ==
  ASSUME TypeInv, NodeTypes, UNCHANGED <<listening, serverVars>>, events' \in 0 .. MaxEvents
  PROVE  TypeInv'
<1>1. NCServerTypeOK'
  BY DEF TypeInv, TypeOK, NCServerTypeOK, serverVars
<1>2. NCConnectionTypeOK'
  BY DEF TypeInv, TypeOK, NCConnectionTypeOK, NodeTypes
<1> QED BY <1>1, <1>2 DEF TypeInv, TypeOK, NodeTypes

LEMMA NodesDoNotListen ==
  ASSUME NEW n \in Nodes,
         main_thread(n) \/ MainThreadRefused(n) \/ HeartBeat(n) \/ HeartBeatRefused(n) \/ Crash(n)
  PROVE  UNCHANGED listening
BY DEF main_thread, MainThreadRefused, SendRegister, GetInitialData, RegisterLost,
       SendNeedsData, NeedsDataLost, GetUnfinished, GetNoWork, GetNewServer,
       SendNodeMigrated, SendHasData, RegisterRefused, NeedsDataRefused,
       NodeMigratedRefused, WorkFails, HeartBeat, HeartBeatRefused, Crash, connVars

LEMMA ExpireTypes ==
  ASSUME TypeInv, NEW s \in Servers, NEW id \in NodeIDs, Expire(s, id)
  PROVE  ServerTypes /\ UNCHANGED nodeVars
<1> USE DEF TypeInv, TypeOK, NCConnectionTypeOK, NCServerTypeOK, ServerTypes,
            threadVars, jobVars, doneVars, connVars
<1>1. PICK i \in DOMAIN node_list[s] : node_list' = [node_list EXCEPT ![s][i].stale = TRUE]
  BY DEF Expire
<1>2. [node_list[s] EXCEPT ![i].stale = TRUE] \in Seq(NCNodeInfo)
  BY ExpireType
<1>3. node_list' \in [Servers -> Seq(NCNodeInfo)]
  BY <1>1, <1>2
<1>4. StreamsProgress
  BY StreamsKept DEF Expire
<1> QED BY <1>3, <1>4 DEF Expire

LEMMA EventCounted ==
  ASSUME TypeInv, NEW kind, Event(kind)
  PROVE  events' \in 0 .. MaxEvents
BY NodeCrunchAssumption DEF Event, TypeInv, TypeOK

LEMMA StreamBreaksTypes ==
  ASSUME TypeInv, StreamBreaks
  PROVE  ServerTypes /\ UNCHANGED nodeVars
<1>1. UNCHANGED <<listening, serverVars, nodeVars>>
  BY DEF StreamBreaks, LoseRequest, LoseReply
<1>2. PICK k \in Conns : LoseRequest(k) \/ LoseReply(k)
  BY DEF StreamBreaks
<1>3. StreamsProgress
  <2>1. CASE LoseRequest(k)
    BY <2>1, DropProgress DEF LoseRequest
  <2>2. CASE LoseReply(k)
    BY <2>2, StepProgress DEF LoseReply, Continue, Step
  <2> QED BY <1>2, <2>1, <2>2
<1> QED BY <1>1, <1>3 DEF ServerTypes, TypeInv, TypeOK, NCConnectionTypeOK,
                         NCServerTypeOK, serverVars

LEMMA OperatorTypes ==
  ASSUME TypeInv, OperatorSends
  PROVE  ServerTypes /\ UNCHANGED nodeVars
<1>1. UNCHANGED <<listening, serverVars, nodeVars>>
  BY DEF OperatorSends
<1>2. PICK k \in Conns, r \in AdminRequests : Send(k, r[1], r[2], FALSE)
  BY DEF OperatorSends
<1>3. r[1] \in Servers /\ r[2] \in NCNodeMessage
  BY NodeCrunchAssumption
<1>4. StreamsProgress
  BY <1>2, <1>3, SendProgress
<1> QED BY <1>1, <1>4 DEF ServerTypes, TypeInv, TypeOK, NCConnectionTypeOK,
                         NCServerTypeOK, serverVars

LEMMA InitTypes == Init => TypeInv
<1> SUFFICES ASSUME Init PROVE TypeInv
  OBVIOUS
<1>1. NCConnectionTypeOK /\ StreamsOK
  BY DEF Init, NCConnectionInit, NCConnectionTypeOK, StreamsOK, WellFormed
<1>2. NCServerTypeOK
  BY DEF Init, NCServerInit, NCServerTypeOK, initialize, Chunk, ChunkStatus, Image
<1>3. NCNodeTypeOK
  BY NCNodeAssumption DEF Init, NCNodeInit, NCNodeTypeOK
<1>4. (\A n \in Nodes : NodeOK(n)) /\ OwnStreams
  BY DEF Init, NCNodeInit, NodeOK, OwnStreams, AwaitsReply
<1>5. events \in 0 .. MaxEvents
  BY NodeCrunchAssumption DEF Init
<1> QED BY <1>1, <1>2, <1>3, <1>4, <1>5 DEF TypeInv, TypeOK

LEMMA NextTypes == TypeInv /\ [Next]_vars => TypeInv'
<1> SUFFICES ASSUME TypeInv, [Next]_vars PROVE TypeInv'
  OBVIOUS
<1>0. events \in 0 .. MaxEvents
  BY DEF TypeInv, TypeOK
<1>1. CASE ServerStep
  <2>1. PICK s \in Servers : \/ ServerMainLoop(s)
                             \/ ServerHeartbeatThread(s)
                             \/ \E k \in Conns : Accept(s, k) \/ handle_node(s, k)
    BY <1>1 DEF ServerStep, NCServerNext
  <2>2. ServerTypes
    BY <2>1, HandlerTypes, ServerThreadTypes DEF ServerHeartbeatThread
  <2> QED BY <1>0, <1>1, <2>2, ServerTypesSuffice DEF ServerStep
<1>2. CASE NodeStep
  <2>1. PICK n \in Nodes : \/ main_thread(n) \/ MainThreadRefused(n)
                           \/ HeartBeat(n) \/ HeartBeatRefused(n)
    BY <1>2 DEF NodeStep, NCNodeNext, NodeMainLoop, NodeHeartbeatThread
  <2>2. NodeTypes
    BY <2>1, MainThreadTypes, RefusedTypes, HeartbeatTypes
  <2> QED BY <1>0, <1>2, <2>1, <2>2, NodesDoNotListen, NodeTypesSuffice DEF NodeStep
<1>3. CASE \E s \in Servers : HeartbeatExpires(s)
  BY <1>0, <1>3, ExpireTypes, ServerTypesSuffice DEF HeartbeatExpires
<1>4. CASE NodeCrashes
  <2>1. PICK n \in Nodes : Crash(n)
    BY <1>4 DEF NodeCrashes
  <2>2. NodeTypes /\ UNCHANGED listening
    BY <2>1, CrashTypes, NodesDoNotListen
  <2> QED BY <1>4, <2>2, EventCounted, NodeTypesSuffice DEF NodeCrashes
<1>5. CASE HeartbeatLate
  BY <1>5, EventCounted, ExpireTypes, ServerTypesSuffice DEF HeartbeatLate
<1>6. CASE StreamBreaks
  BY <1>6, EventCounted, StreamBreaksTypes, ServerTypesSuffice DEF StreamBreaks
<1>7. CASE ConnectRefused
  <2>1. PICK n \in Nodes : MainThreadRefused(n) \/ HeartBeatRefused(n)
    BY <1>7 DEF ConnectRefused
  <2>2. NodeTypes /\ UNCHANGED listening
    BY <2>1, RefusedTypes, HeartbeatTypes, NodesDoNotListen
  <2> QED BY <1>7, <2>2, EventCounted, NodeTypesSuffice DEF ConnectRefused
<1>8. CASE ProcessDataFails
  <2>1. PICK n \in Nodes : WorkFails(n)
    BY <1>8 DEF ProcessDataFails
  <2>2. NodeTypes /\ UNCHANGED listening
    BY <2>1, RefusedTypes, NodesDoNotListen DEF MainThreadRefused
  <2> QED BY <1>8, <2>2, EventCounted, NodeTypesSuffice DEF ProcessDataFails
<1>9. CASE OperatorSends
  BY <1>9, EventCounted, OperatorTypes, ServerTypesSuffice DEF OperatorSends
<1>10. CASE UNCHANGED vars
  <2>1. StreamsProgress
    BY <1>10, StreamsKept DEF vars, connVars
  <2>2. ServerTypes
    BY <1>10, <2>1 DEF ServerTypes, vars, connVars, serverVars, TypeInv, TypeOK,
                       NCConnectionTypeOK, NCServerTypeOK
  <2> QED BY <1>0, <1>10, <2>2, ServerTypesSuffice DEF vars
<1>11. CASE CheckRefused
  BY <1>11, EventCounted, ServerThreadTypes, ServerTypesSuffice DEF CheckRefused
<1> QED BY <1>1, <1>2, <1>3, <1>4, <1>5, <1>6, <1>7, <1>8, <1>9, <1>10, <1>11
        DEF Next, Terminated

(* Every variable keeps its type, and in particular no handler and no node *)
(* meets a request or a reply without the field it reads, and the retry    *)
(* counters, unsigned in the code, are never decremented below zero        *)
(* (nc_node.rs dec_and_check_counter).                                     *)
THEOREM TypeCorrect == Spec => []TypeOK
<1>1. TypeInv => TypeOK
  BY DEF TypeInv
<1> QED BY <1>1, InitTypes, NextTypes, PTL DEF Spec

-----------------------------------------------------------------------------
(* How the servers, the network and operators change the streams, except   *)
(* when an id is drawn: requests and clients stay, a request that is new   *)
(* names nobody.                                                           *)

Advances(x, y) ==
  \/ y = None
  \/ /\ x # None /\ y # None
     /\ y.server = x.server /\ y.open = x.open /\ y.request = x.request
     /\ y.step = "replied" =>
          \/ x.step = "replied" /\ y.reply = x.reply
          \/ y.open /\ y.reply.type # "InitialData"
  \/ x = None /\ y # None /\ y.request.type \in WithoutId /\ y.step = "backlog"

StreamsAdvance == \A k \in Conns : Advances(conn[k], conn'[k])

LEMMA AdvanceFacts ==
  ASSUME NEW x, NEW y, Advances(x, y)
  PROVE  /\ \A id : Grants(y, id) => Grants(x, id)
         /\ \A id : Names(y, id) => Names(x, id)
         /\ \A id : Asks(y, id) => Asks(x, id)
         /\ Registers(y) <=> Registers(x) /\ y # None
         /\ \A id : Names(y, id) => y.server = x.server /\ y.open = x.open
         /\ Registers(y) => y.server = x.server
         /\ y # None /\ y.step = "replied" =>
              y.open \/ (x # None /\ x.step = "replied" /\ y.open = x.open)
BY DEF Advances, Grants, Names, Asks, Registers, WithId, WithoutId, OperatorRequests

LEMMA AdvanceKeeps ==
  ASSUME NEW home, TypeInv, IdInv(home), TypeInv', StreamsAdvance, UNCHANGED nodeVars,
         DrawnIds(home) \subseteq DrawnIds(home)'
  PROVE  IdInv(home)'
<1> USE DEF IdInv, nodeVars, StreamsAdvance
<1>1. OwnIds(home)'
  BY DEF OwnIds
<1>2. GrantsOK(home)'
  <2>1. ASSUME NEW k \in Conns, NEW id \in NodeIDs, Grants(conn'[k], id)
        PROVE  /\ Registers(conn'[k])
               /\ id \in DrawnIds(home)'
               /\ \A n \in Nodes : node_id[n] # id
               /\ \A l \in Conns : Grants(conn'[l], id) => l = k
    <3>1. Grants(conn[k], id) /\ conn'[k] # None
      BY <2>1, AdvanceFacts DEF Grants
    <3>2. \A l \in Conns : Grants(conn'[l], id) => Grants(conn[l], id)
      BY AdvanceFacts
    <3>3. Registers(conn[k]) => Registers(conn'[k])
      BY <3>1, AdvanceFacts
    <3> QED BY <3>1, <3>2, <3>3 DEF GrantsOK
  <2> QED BY <2>1 DEF GrantsOK
<1>3. RequestsOwned'
  <2>1. ASSUME NEW k \in Conns, NEW id \in NodeIDs, Names(conn'[k], id)
        PROVE  \E n \in Nodes :
                 /\ node_id[n] = id
                 /\ Asks(conn'[k], id) =>
                      /\ conn'[k].server = server_addr[n]
                      /\ IF conn'[k].open THEN sock[n] = k /\ node_loop[n] = "waiting"
                                          ELSE node_loop[n] = "crashed"
    <3>1. /\ Names(conn[k], id)
          /\ Asks(conn'[k], id) => Asks(conn[k], id)
          /\ conn'[k].server = conn[k].server /\ conn'[k].open = conn[k].open
      BY <2>1, AdvanceFacts
    <3> QED BY <3>1 DEF RequestsOwned
  <2> QED BY <2>1 DEF RequestsOwned
<1>4. AskOnce'
  <2>1. \A k \in Conns, id \in NodeIDs : Asks(conn'[k], id) => Asks(conn[k], id)
    BY AdvanceFacts
  <2> QED BY <2>1 DEF AskOnce
<1>5. RepliesRead'
  <2>1. ASSUME NEW k \in Conns, conn'[k] # None, conn'[k].step = "replied"
        PROVE  conn'[k].open
    BY <2>1, AdvanceFacts DEF RepliesRead
  <2> QED BY <2>1 DEF RepliesRead
<1>6. StartAtHome(home)'
  <2>1. \A k \in Conns : Registers(conn'[k]) =>
          Registers(conn[k]) /\ conn'[k].server = conn[k].server
    BY AdvanceFacts
  <2> QED BY <2>1 DEF StartAtHome
<1>7. Waits'
  <2>1. ASSUME NEW n \in Nodes, AwaitsReply(n)
        PROVE  /\ conn'[sock[n]].server = conn[sock[n]].server
               /\ conn'[sock[n]].request = conn[sock[n]].request
               /\ conn'[sock[n]] # None /\ conn[sock[n]] # None
    <3>1. AwaitsReply(n)'
      BY <2>1 DEF AwaitsReply
    <3>2. sock[n] \in Conns /\ conn[sock[n]] # None /\ conn'[sock[n]] # None
      BY <2>1, <3>1 DEF TypeInv, NodeOK
    <3> QED BY <3>2 DEF Advances
  <2> QED BY <2>1 DEF Waits, AwaitsReply, Registers, Asks, Names
<1>8. Leftovers'
  BY DEF Leftovers
<1> QED BY <1>1, <1>2, <1>3, <1>4, <1>5, <1>6, <1>7, <1>8

LEMMA OneAdvances ==
  ASSUME NEW k \in Conns, NEW y, Advances(conn[k], y), conn' = [conn EXCEPT ![k] = y],
         conn \in [Conns -> Stream \cup {None}]
  PROVE  StreamsAdvance
<1>1. \A l \in Conns : conn'[l] = conn[l] \/ (l = k /\ conn'[l] = y)
  OBVIOUS
<1>2. \A l \in Conns : Advances(conn[l], conn[l])
  BY DEF Advances
<1> QED BY <1>1, <1>2 DEF StreamsAdvance

LEMMA StreamOperations ==
  ASSUME TypeInv, NEW k \in Conns
  PROVE  /\ conn[k] # None /\ Drop(k) => StreamsAdvance
         /\ \A m : conn[k] # None /\ m.type # "InitialData" /\ Answer(k, m) => StreamsAdvance
         /\ \A s, m : m.type \in WithoutId /\ Send(k, s, m, FALSE) => StreamsAdvance
<1>1. conn \in [Conns -> Stream \cup {None}]
  BY DEF TypeInv, TypeOK, NCConnectionTypeOK
<1>2. ASSUME conn[k] # None
      PROVE  /\ Advances(conn[k], Dropped(conn[k]))
             /\ \A m : m.type # "InitialData" => Advances(conn[k], Answered(conn[k], m))
  <2>1. conn[k] \in Stream
    BY <1>1, <1>2
  <2>2. Dropped(conn[k]) # None =>
          /\ Dropped(conn[k]).server = conn[k].server
          /\ Dropped(conn[k]).open = conn[k].open
          /\ Dropped(conn[k]).request = conn[k].request
          /\ Dropped(conn[k]).step = "dropped"
    BY <2>1 DEF Dropped, Stream
  <2>3. ASSUME NEW m, Answered(conn[k], m) # None
        PROVE  /\ Answered(conn[k], m).server = conn[k].server
               /\ Answered(conn[k], m).open = conn[k].open
               /\ Answered(conn[k], m).open
               /\ Answered(conn[k], m).request = conn[k].request
               /\ Answered(conn[k], m).reply = m
    BY <2>1, <2>3 DEF Answered, Stream
  <2>4. Advances(conn[k], Dropped(conn[k]))
    BY <1>2, <2>2 DEF Advances
  <2> QED BY <1>2, <2>3, <2>4 DEF Advances
<1>3. conn[k] # None /\ Drop(k) => StreamsAdvance
  BY <1>1, <1>2, OneAdvances DEF Drop
<1>4. ASSUME NEW m, conn[k] # None, m.type # "InitialData", Answer(k, m)
      PROVE  StreamsAdvance
  BY <1>1, <1>2, <1>4, OneAdvances DEF Answer
<1>5. ASSUME NEW s, NEW m, m.type \in WithoutId, Send(k, s, m, FALSE)
      PROVE  StreamsAdvance
  <2>1. Advances(None, NewStream(s, m, FALSE))
    BY <1>5 DEF NewStream, Advances
  <2> QED BY <1>1, <1>5, <2>1, OneAdvances DEF Send
<1> QED BY <1>3, <1>4, <1>5

LEMMA ContinueAdvances ==
  ASSUME TypeInv, NEW k \in Conns, conn[k] # None, NEW step, step # "replied",
         \/ Continue(k, step)
         \/ \E nodes : conn' = [conn EXCEPT ![k].nodes = nodes, ![k].step = step]
  PROVE  StreamsAdvance
<1>1. conn \in [Conns -> Stream \cup {None}] /\ conn[k] \in Stream
  BY DEF TypeInv, TypeOK, NCConnectionTypeOK
<1>2. CASE Continue(k, step)
  <2> DEFINE y == [conn[k] EXCEPT !.step = step]
  <2>1. /\ y.server = conn[k].server /\ y.open = conn[k].open
        /\ y.request = conn[k].request /\ y.step = step
    BY <1>1 DEF Stream
  <2>2. conn' = [conn EXCEPT ![k] = y]
    BY <1>2 DEF Continue
  <2> HIDE DEF y
  <2>3. Advances(conn[k], y)
    BY <2>1 DEF Advances
  <2> QED BY <1>1, <2>2, <2>3, OneAdvances
<1>3. ASSUME NEW nodes, conn' = [conn EXCEPT ![k].nodes = nodes, ![k].step = step]
      PROVE  StreamsAdvance
  <2> DEFINE y == [[conn[k] EXCEPT !.nodes = nodes] EXCEPT !.step = step]
  <2>1. /\ y.server = conn[k].server /\ y.open = conn[k].open
        /\ y.request = conn[k].request /\ y.step = step
    BY <1>1 DEF Stream
  <2>2. conn' = [conn EXCEPT ![k] = y]
    BY <1>1, <1>3
  <2> HIDE DEF y
  <2>3. Advances(conn[k], y)
    BY <2>1 DEF Advances
  <2> QED BY <1>1, <2>2, <2>3, OneAdvances
<1> QED BY <1>2, <1>3

LEMMA StreamsUnchanged == ASSUME UNCHANGED conn PROVE StreamsAdvance
BY DEF StreamsAdvance, Advances

(* Every handler but that of Register advances the streams.                *)
LEMMA HandlersAdvance ==
  ASSUME TypeInv, NEW s \in Servers, NEW k \in Conns,
         handle_node(s, k), ~HandleRegister(s, k)
  PROVE  StreamsAdvance
<1>1. conn[k] # None
  BY DEF handle_node, HandlerFails, HandleRegister, HandleNeedsData, HandleLeavingNode,
         HandleUnknownNode, SendCustomMessage, NoCustomMessage, PrepareUnfinished,
         PrepareWaiting, PrepareFinished, HandleFinished, HandleHeartBeat, AcceptResult,
         RejectResult, HandleCheckHeartbeat, HeartbeatTimeout, HandleShutDown,
         HandleNewServer, HandleNodeMigrated, HandleCustomMessage, Received, At
<1>2. \/ Drop(k)
      \/ \E server : Answer(k, [type |-> "NewServer", server |-> server])
      \/ \E message : Answer(k, [type |-> "CustomMessage", message |-> message])
      \/ \E c : Answer(k, [type |-> "Unfinished", chunk_id |-> c])
      \/ Answer(k, [type |-> "Waiting"])
      \/ Continue(k, "messages")
      \/ Continue(k, "prepare")
      \/ Continue(k, "shut_down")
      \/ \E nodes : conn' = [conn EXCEPT ![k].nodes = nodes, ![k].step = "timeout"]
  BY DEF handle_node, HandlerFails, HandleRegister, HandleNeedsData, HandleLeavingNode,
         HandleUnknownNode, SendCustomMessage, NoCustomMessage, PrepareUnfinished,
         PrepareWaiting, PrepareFinished, HandleFinished, HandleHeartBeat, AcceptResult,
         RejectResult, HandleCheckHeartbeat, HeartbeatTimeout, HandleShutDown,
         HandleNewServer, HandleNodeMigrated, HandleCustomMessage
<1>3. CASE \/ Drop(k)
           \/ \E server : Answer(k, [type |-> "NewServer", server |-> server])
           \/ \E message : Answer(k, [type |-> "CustomMessage", message |-> message])
           \/ \E c : Answer(k, [type |-> "Unfinished", chunk_id |-> c])
           \/ Answer(k, [type |-> "Waiting"])
  BY <1>1, <1>3, StreamOperations
<1> QED BY <1>1, <1>2, <1>3, ContinueAdvances

LEMMA ThreadsAdvance ==
  ASSUME TypeInv, NEW s \in Servers,
         \/ ServerMainLoop(s) \/ ServerHeartbeatThread(s) \/ \E k \in Conns : Accept(s, k)
  PROVE  StreamsAdvance
<1> USE DEF connVars
<1>1. CASE ServerHeartbeatExits(s) \/ CheckJobDone(s) \/ JoinThreads(s)
  BY <1>1, StreamsUnchanged DEF ServerHeartbeatExits, CheckJobDone, JoinThreads
<1>2. CASE SendCheckHeartbeat(s)
  <2>1. PICK k \in Conns : Send(k, s, [type |-> "CheckHeartbeat"], FALSE)
    BY <1>2 DEF SendCheckHeartbeat
  <2>2. [type |-> "CheckHeartbeat"].type \in WithoutId
    BY DEF WithoutId
  <2> QED BY <2>1, <2>2, StreamOperations
<1>3. CASE FinishJob(s)
  <2>1. conn \in [Conns -> Stream \cup {None}]
    BY DEF TypeInv, TypeOK, NCConnectionTypeOK
  <2>2. ASSUME NEW k \in Conns
        PROVE  Advances(conn[k], conn'[k])
    <3>1. conn'[k] = conn[k] \/ (conn[k] # None /\ conn'[k] = Dropped(conn[k]))
      BY <1>3 DEF FinishJob, At
    <3>2. CASE conn[k] # None /\ conn'[k] = Dropped(conn[k])
      <4>1. conn[k] \in Stream
        BY <2>1, <3>2
      <4>2. Dropped(conn[k]) # None =>
              /\ Dropped(conn[k]).server = conn[k].server
              /\ Dropped(conn[k]).open = conn[k].open
              /\ Dropped(conn[k]).request = conn[k].request
              /\ Dropped(conn[k]).step = "dropped"
        BY <4>1 DEF Dropped, Stream
      <4> QED BY <3>2, <4>2 DEF Advances
    <3> QED BY <3>1, <3>2 DEF Advances
  <2> QED BY <2>2 DEF StreamsAdvance
<1>4. ASSUME NEW k \in Conns, Accept(s, k)
      PROVE  StreamsAdvance
  BY <1>4, ContinueAdvances DEF Accept, At
<1> QED BY <1>1, <1>2, <1>3, <1>4 DEF ServerMainLoop, ServerHeartbeatThread

-----------------------------------------------------------------------------
(* Ids stay in the lists but for the node that leaves.                     *)

ListsGrow ==
  /\ \A s \in Servers : Ids(node_list[s]) \subseteq Ids(node_list'[s])
  /\ departed' = departed

LEMMA OneListGrows ==
  ASSUME TypeInv, NEW s \in Servers, NEW new, Ids(node_list[s]) \subseteq Ids(new),
         node_list' = [node_list EXCEPT ![s] = new], UNCHANGED departed
  PROVE  ListsGrow
<1>1. node_list \in [Servers -> Seq(NCNodeInfo)]
  BY DEF TypeInv, TypeOK, NCServerTypeOK
<1>2. \A t \in Servers : node_list'[t] = IF t = s THEN new ELSE node_list[t]
  BY <1>1
<1> QED BY <1>2 DEF ListsGrow

LEMMA HandlersGrow ==
  ASSUME TypeInv, NEW s \in Servers, NEW k \in Conns,
         handle_node(s, k), ~HandleLeavingNode(s, k)
  PROVE  ListsGrow
<1> USE DEF threadVars, listVars, jobVars, doneVars, serverVars
<1>0. node_list[s] \in Seq(NCNodeInfo)
  BY DEF TypeInv, TypeOK, NCServerTypeOK
<1>1. CASE UNCHANGED <<node_list, departed>>
  BY <1>1 DEF ListsGrow
<1>2. CASE HandleRegister(s, k)
  <2>1. PICK id \in NodeIDs : node_list' = [node_list EXCEPT ![s] = register_new_node(@, id)]
    BY <1>2 DEF HandleRegister
  <2>2. Ids(register_new_node(node_list[s], id)) = Ids(node_list[s]) \cup {id}
    BY <1>0, EnlistedIds
  <2> QED BY <1>2, <2>1, <2>2, OneListGrows DEF HandleRegister
<1>3. CASE SendCustomMessage(s, k)
  <2>1. PICK i \in DOMAIN node_list[s] : node_list' = [node_list EXCEPT ![s] = pop_message(@, i)]
    BY <1>3 DEF SendCustomMessage
  <2> QED BY <1>0, <1>3, <2>1, PopIds, OneListGrows DEF SendCustomMessage
<1>4. CASE HandleHeartBeat(s, k)
  <2>1. conn[k].request.node_id \in NodeIDs
    BY <1>4, RequestValues DEF HandleHeartBeat
  <2>2. Ids(update_heartbeat(node_list[s], conn[k].request.node_id)) = Ids(node_list[s])
    BY <1>0, <2>1, HeartbeatIds
  <2> QED BY <1>4, <2>2, OneListGrows DEF HandleHeartBeat
<1>5. CASE HandleNodeMigrated(s, k)
  <2>1. conn[k].request.node_id \in NodeIDs
    BY <1>5, RequestValues DEF HandleNodeMigrated
  <2>2. Ids(node_list[s]) \subseteq Ids(migrate_node(node_list[s], conn[k].request.node_id))
    BY <1>0, <2>1, EnlistedIds
  <2> QED BY <1>5, <2>2, OneListGrows DEF HandleNodeMigrated
<1>6. CASE HandleCustomMessage(s, k)
  <2> DEFINE message     == conn[k].request.message
             destination == conn[k].request.destination
             new == IF destination = None THEN add_message_all(node_list[s], message)
                    ELSE add_message(node_list[s], message, destination)
  <2>1. message \in Messages /\ destination \in NodeIDs \cup {None}
    BY <1>6, RequestValues DEF HandleCustomMessage
  <2>2. Ids(new) = Ids(node_list[s])
    BY <1>0, <2>1, MessageIds
  <2>3. node_list' = [node_list EXCEPT ![s] = new] /\ UNCHANGED departed
    BY <1>6 DEF HandleCustomMessage
  <2> HIDE DEF new
  <2> QED BY <2>2, <2>3, OneListGrows
<1>7. \/ UNCHANGED <<node_list, departed>>
      \/ HandleRegister(s, k) \/ SendCustomMessage(s, k) \/ HandleHeartBeat(s, k)
      \/ HandleNodeMigrated(s, k) \/ HandleCustomMessage(s, k)
  BY DEF handle_node, HandlerFails, HandleNeedsData, HandleUnknownNode, NoCustomMessage,
         PrepareUnfinished, PrepareWaiting, PrepareFinished, HandleFinished, AcceptResult,
         RejectResult, HandleCheckHeartbeat, HeartbeatTimeout, HandleShutDown, HandleNewServer
<1> QED BY <1>1, <1>2, <1>3, <1>4, <1>5, <1>6, <1>7

-----------------------------------------------------------------------------
(* An id is drawn.                                                         *)
LEMMA DrawKeeps ==
  ASSUME NEW home \in Servers, OneHome(home), TypeInv, IdInv(home), TypeInv',
         NEW s \in Servers, NEW k \in Conns, HandleRegister(s, k), UNCHANGED nodeVars
  PROVE  IdInv(home)'
<1> USE DEF IdInv
<1>1. conn \in [Conns -> Stream \cup {None}] /\ node_list \in [Servers -> Seq(NCNodeInfo)]
  BY DEF TypeInv, TypeOK, NCConnectionTypeOK, NCServerTypeOK
<1>2. Registers(conn[k]) /\ conn[k] \in Stream /\ s = home
  BY <1>1 DEF HandleRegister, Received, At, Registers, StartAtHome
<1>3. PICK id \in NodeIDs :
        /\ id \notin DrawnIds(home)
        /\ node_list' = [node_list EXCEPT ![s] = register_new_node(@, id)]
        /\ Answer(k, [type |-> "InitialData", node_id |-> id])
  BY <1>2 DEF HandleRegister, DrawnIds
<1>4. DrawnIds(home) \subseteq DrawnIds(home)' /\ id \in DrawnIds(home)'
  <2>1. Ids(register_new_node(node_list[s], id)) = Ids(node_list[s]) \cup {id}
    BY <1>1, EnlistedIds
  <2>2. node_list'[home] = register_new_node(node_list[home], id) /\ departed' = departed
    BY <1>1, <1>2, <1>3 DEF HandleRegister
  <2> QED BY <1>2, <2>1, <2>2 DEF DrawnIds
<1> DEFINE y == Answered(conn[k], [type |-> "InitialData", node_id |-> id])
<1>5. /\ conn'[k] = y /\ \A l \in Conns \ {k} : conn'[l] = conn[l]
      /\ y # None =>
           /\ y.server = conn[k].server /\ y.open = conn[k].open /\ y.open
           /\ y.request = conn[k].request
           /\ y.reply = [type |-> "InitialData", node_id |-> id]
  BY <1>1, <1>2, <1>3 DEF Answer, Answered, Stream
<1> HIDE DEF y
<1>6. /\ y # None => Registers(y)
      /\ \A i : ~Names(y, i) /\ ~Asks(y, i)
      /\ \A i : ~Names(conn[k], i) /\ ~Asks(conn[k], i)
      /\ \A i : Grants(y, i) => i = id
  BY <1>2, <1>5 DEF Registers, Names, Asks, Grants, WithId
<1>7. UNCHANGED nodeVars
  OBVIOUS
<1>8. OwnIds(home)'
  BY <1>4, <1>7 DEF OwnIds, nodeVars
<1>9. GrantsOK(home)'
  <2>1. ASSUME NEW l \in Conns, NEW i \in NodeIDs, Grants(conn'[l], i)
        PROVE  /\ Registers(conn'[l])
               /\ i \in DrawnIds(home)'
               /\ \A n \in Nodes : node_id[n] # i
               /\ \A j \in Conns : Grants(conn'[j], i) => j = l
    <3>1. CASE l = k
      <4>1. i = id /\ y # None
        BY <1>5, <1>6, <2>1, <3>1 DEF Grants
      <4>2. \A n \in Nodes : node_id[n] # id
        BY <1>3, NCMessagesAssumption DEF OwnIds
      <4>3. \A j \in Conns : j # k => ~Grants(conn'[j], id)
        BY <1>3, <1>5 DEF GrantsOK
      <4> QED BY <1>4, <1>5, <1>6, <3>1, <4>1, <4>2, <4>3
    <3>2. CASE l # k
      <4>1. Grants(conn[l], i)
        BY <1>5, <2>1, <3>2
      <4>2. i # id
        BY <1>3, <4>1 DEF GrantsOK
      <4> QED BY <1>4, <1>5, <1>6, <3>2, <4>1, <4>2 DEF GrantsOK
    <3> QED BY <3>1, <3>2
  <2> QED BY <1>7, <2>1 DEF GrantsOK, nodeVars
<1>10. RequestsOwned' /\ AskOnce'
  <2>1. \A l \in Conns, i \in NodeIDs : Names(conn'[l], i) => l # k /\ conn'[l] = conn[l]
    BY <1>5, <1>6
  <2>2. \A l \in Conns, i \in NodeIDs : Asks(conn'[l], i) => Asks(conn[l], i)
    BY <2>1 DEF Asks
  <2> QED BY <1>7, <2>1, <2>2 DEF RequestsOwned, AskOnce, nodeVars
<1>11. RepliesRead' /\ StartAtHome(home)'
  BY <1>2, <1>5, <1>7 DEF RepliesRead, StartAtHome, Registers, nodeVars
<1>12. Waits'
  <2>1. ASSUME NEW n \in Nodes, AwaitsReply(n)
        PROVE  /\ conn'[sock[n]].server = conn[sock[n]].server
               /\ conn'[sock[n]].request = conn[sock[n]].request
               /\ conn'[sock[n]] # None /\ conn[sock[n]] # None
    <3>1. AwaitsReply(n)'
      BY <1>7, <2>1 DEF AwaitsReply, nodeVars
    <3>2. sock[n] \in Conns /\ conn[sock[n]] # None /\ conn'[sock[n]] # None
      BY <1>7, <2>1, <3>1 DEF TypeInv, NodeOK, nodeVars
    <3> QED BY <1>5, <3>2
  <2> QED BY <1>7, <2>1 DEF Waits, AwaitsReply, Registers, Asks, Names, nodeVars
<1>13. Leftovers'
  BY <1>7 DEF Leftovers, nodeVars
<1> QED BY <1>8, <1>9, <1>10, <1>11, <1>12, <1>13

-----------------------------------------------------------------------------
(* What the nodes do.                                                      *)

LEMMA SendsStream ==
  ASSUME TypeInv, NEW k \in Conns, NEW s, NEW m, NEW open, Send(k, s, m, open)
  PROVE  /\ conn[k] = None
         /\ conn'[k] = NewStream(s, m, open)
         /\ conn'[k] # None => /\ conn'[k].server = s /\ conn'[k].request = m
                               /\ conn'[k].open = open /\ conn'[k].step = "backlog"
         /\ \A l \in Conns \ {k} : conn'[l] = conn[l]
         /\ \A n \in Nodes : AwaitsReply(n) => sock[n] # k
BY DEF Send, NewStream, TypeInv, TypeOK, NCConnectionTypeOK, NodeOK

LEMMA RegisterKeepsIds ==
  ASSUME NEW home \in Servers, OneHome(home), TypeInv, IdInv(home), TypeInv',
         NEW n \in Nodes, SendRegister(n), UNCHANGED serverVars
  PROVE  IdInv(home)'
<1> USE DEF IdInv, hbVars, serverVars
<1>1. PICK k \in Conns : /\ Send(k, server_addr[n], [type |-> "Register"], TRUE)
                         /\ sock' = [sock EXCEPT ![n] = k]
  BY DEF SendRegister, SendAndWait
<1>2. /\ node_loop[n] = "start" /\ node_loop' = [node_loop EXCEPT ![n] = "registering"]
      /\ node_id[n] = None /\ server_addr[n] = home
      /\ UNCHANGED <<node_id, server_addr, work, heartbeat, node_list, departed>>
  BY DEF SendRegister, Goto, StartAtHome
<1>3. /\ conn[k] = None
      /\ conn'[k] # None => /\ conn'[k].server = home /\ conn'[k].request.type = "Register"
                            /\ conn'[k].open = TRUE /\ conn'[k].step = "backlog"
      /\ \A l \in Conns \ {k} : conn'[l] = conn[l]
      /\ \A m \in Nodes : AwaitsReply(m) => sock[m] # k
  <2> DEFINE request == [type |-> "Register"]
  <2>1. Send(k, server_addr[n], request, TRUE) /\ request.type = "Register"
    BY <1>1
  <2> HIDE DEF request
  <2> QED BY <1>2, <2>1, SendsStream
<1>4. /\ node_loop \in [Nodes -> {"start", "registering", "request", "waiting",
                              "working", "migrating", "exited", "failed", "crashed"}]
      /\ sock \in [Nodes -> Conns \cup {None}]
  BY DEF TypeInv, TypeOK, NCNodeTypeOK
<1>5. /\ node_loop'[n] = "registering" /\ sock'[n] = k
      /\ \A m \in Nodes \ {n} : node_loop'[m] = node_loop[m] /\ sock'[m] = sock[m]
  BY <1>1, <1>2, <1>4
<1>6. \A i \in NodeIDs : ~Grants(conn'[k], i) /\ ~Names(conn'[k], i) /\ ~Asks(conn'[k], i)
  BY <1>3 DEF Grants, Names, Asks, WithId
<1>7. OwnIds(home)'
  BY <1>2 DEF OwnIds, DrawnIds
<1>8. GrantsOK(home)'
  BY <1>2, <1>3, <1>6 DEF GrantsOK, DrawnIds
<1>9. RequestsOwned'
  <2>1. ASSUME NEW l \in Conns, NEW i \in NodeIDs, Names(conn'[l], i)
        PROVE  \E m \in Nodes :
                 /\ node_id'[m] = i
                 /\ Asks(conn'[l], i) =>
                      /\ conn'[l].server = server_addr'[m]
                      /\ IF conn'[l].open THEN sock'[m] = l /\ node_loop'[m] = "waiting"
                                          ELSE node_loop'[m] = "crashed"
    <3>1. conn'[l] = conn[l]
      BY <1>3, <1>6, <2>1
    <3>2. PICK m \in Nodes :
                 /\ node_id[m] = i
                 /\ Asks(conn[l], i) =>
                      /\ conn[l].server = server_addr[m]
                      /\ IF conn[l].open THEN sock[m] = l /\ node_loop[m] = "waiting"
                                         ELSE node_loop[m] = "crashed"
      BY <2>1, <3>1 DEF RequestsOwned
    <3>3. m # n
      BY <1>2, <3>2, NCMessagesAssumption
    <3> QED BY <1>2, <1>5, <3>1, <3>2, <3>3
  <2> QED BY <2>1 DEF RequestsOwned
<1>10. AskOnce' /\ RepliesRead'
  BY <1>3, <1>6 DEF AskOnce, RepliesRead
<1>11. StartAtHome(home)'
  <2>1. \A l \in Conns : Registers(conn'[l]) => conn'[l].server = home
    BY <1>3 DEF StartAtHome, Registers
  <2> QED BY <1>2, <1>5, <2>1 DEF StartAtHome
<1>12. Waits'
  <2>1. ASSUME NEW m \in Nodes
        PROVE  /\ AwaitsReply(m)' => conn'[sock'[m]].server = server_addr'[m]
               /\ node_loop'[m] = "registering" => Registers(conn'[sock'[m]])
               /\ node_loop'[m] = "waiting" => Asks(conn'[sock'[m]], node_id'[m])
    <3>1. CASE m = n
      <4>1. conn'[k] # None
        BY <1>5, <3>1 DEF TypeInv, NodeOK, AwaitsReply
      <4> QED BY <1>2, <1>3, <1>5, <3>1, <4>1 DEF Registers
    <3>2. CASE m # n
      <4>1. AwaitsReply(m) => sock[m] \in Conns \ {k}
        BY <1>3 DEF TypeInv, NodeOK
      <4> QED BY <1>2, <1>3, <1>5, <3>2, <4>1 DEF Waits, AwaitsReply
    <3> QED BY <3>1, <3>2
  <2> QED BY <2>1 DEF Waits
<1>13. Leftovers'
  BY <1>2, <1>5 DEF Leftovers
<1> QED BY <1>7, <1>8, <1>9, <1>10, <1>11, <1>12, <1>13

(* A node asks for work.                                                   *)
LEMMA NeedsDataKeepsIds ==
  ASSUME NEW home \in Servers, OneHome(home), TypeInv, IdInv(home), TypeInv',
         NEW n \in Nodes, SendNeedsData(n), UNCHANGED serverVars
  PROVE  IdInv(home)'
<1> USE DEF IdInv, hbVars, serverVars
<1> DEFINE request == [type |-> "NeedsData", node_id |-> node_id[n]]
<1>1. PICK k \in Conns : /\ Send(k, server_addr[n], request, TRUE)
                         /\ sock' = [sock EXCEPT ![n] = k]
  BY DEF SendNeedsData, SendAndWait
<1>2. /\ node_loop[n] = "request" /\ node_loop' = [node_loop EXCEPT ![n] = "waiting"]
      /\ node_id[n] \in NodeIDs
      /\ UNCHANGED <<node_id, server_addr, work, heartbeat, node_list, departed>>
  BY DEF SendNeedsData, Goto, TypeInv, NodeOK
<1>3. request.type = "NeedsData" /\ request.node_id = node_id[n]
  OBVIOUS
<1> HIDE DEF request
<1>4. /\ conn[k] = None
      /\ conn'[k] # None => /\ conn'[k].server = server_addr[n] /\ conn'[k].request = request
                            /\ conn'[k].open = TRUE /\ conn'[k].step = "backlog"
      /\ \A l \in Conns \ {k} : conn'[l] = conn[l]
      /\ \A m \in Nodes : AwaitsReply(m) => sock[m] # k
  BY <1>1, SendsStream
<1>5. /\ node_loop \in [Nodes -> {"start", "registering", "request", "waiting",
                              "working", "migrating", "exited", "failed", "crashed"}]
      /\ sock \in [Nodes -> Conns \cup {None}]
  BY DEF TypeInv, TypeOK, NCNodeTypeOK
<1>6. /\ node_loop'[n] = "waiting" /\ sock'[n] = k
      /\ \A m \in Nodes \ {n} : node_loop'[m] = node_loop[m] /\ sock'[m] = sock[m]
  BY <1>1, <1>2, <1>5
<1>7. conn'[k] # None
  BY <1>6 DEF TypeInv, NodeOK, AwaitsReply
<1>8. /\ Asks(conn'[k], node_id[n]) /\ ~Registers(conn'[k])
      /\ \A i : ~Grants(conn'[k], i)
      /\ \A i : Names(conn'[k], i) => i = node_id[n]
  BY <1>3, <1>4, <1>7 DEF Grants, Names, Asks, Registers, WithId
<1>9. \A l \in Conns : ~Asks(conn[l], node_id[n])
  <2>1. ASSUME NEW l \in Conns, Asks(conn[l], node_id[n])
        PROVE  FALSE
    <3>1. Names(conn[l], node_id[n])
      BY <2>1 DEF Asks
    <3>2. PICK m \in Nodes :
                 /\ node_id[m] = node_id[n]
                 /\ IF conn[l].open THEN sock[m] = l /\ node_loop[m] = "waiting"
                                    ELSE node_loop[m] = "crashed"
      BY <1>2, <2>1, <3>1 DEF RequestsOwned
    <3>3. m = n
      BY <1>2, <3>2, NCMessagesAssumption DEF OwnIds
    <3> QED BY <1>2, <3>2, <3>3
  <2> QED BY <2>1
<1>10. OwnIds(home)' /\ GrantsOK(home)'
  <2>1. OwnIds(home)'
    BY <1>2 DEF OwnIds, DrawnIds
  <2>2. \A l \in Conns, i \in NodeIDs : Grants(conn'[l], i) => l # k
    BY <1>8
  <2>3. GrantsOK(home)'
    BY <1>2, <1>4, <2>2 DEF GrantsOK, DrawnIds
  <2> QED BY <2>1, <2>3
<1>11. RequestsOwned'
  <2>1. ASSUME NEW l \in Conns, NEW i \in NodeIDs, Names(conn'[l], i)
        PROVE  \E m \in Nodes :
                 /\ node_id'[m] = i
                 /\ Asks(conn'[l], i) =>
                      /\ conn'[l].server = server_addr'[m]
                      /\ IF conn'[l].open THEN sock'[m] = l /\ node_loop'[m] = "waiting"
                                          ELSE node_loop'[m] = "crashed"
    <3>1. CASE l = k
      BY <1>2, <1>4, <1>6, <1>7, <1>8, <2>1, <3>1
    <3>2. CASE l # k
      <4>1. conn'[l] = conn[l]
        BY <1>4, <3>2
      <4>2. PICK m \in Nodes :
                 /\ node_id[m] = i
                 /\ Asks(conn[l], i) =>
                      /\ conn[l].server = server_addr[m]
                      /\ IF conn[l].open THEN sock[m] = l /\ node_loop[m] = "waiting"
                                         ELSE node_loop[m] = "crashed"
        BY <2>1, <4>1 DEF RequestsOwned
      <4>3. m # n \/ ~Asks(conn[l], i)
        BY <1>9, <4>2
      <4> QED BY <1>2, <1>6, <4>1, <4>2, <4>3
    <3> QED BY <3>1, <3>2
  <2> QED BY <2>1 DEF RequestsOwned
<1>12. AskOnce' /\ RepliesRead'
  <2>1. ASSUME NEW j \in Conns, NEW l \in Conns, NEW i \in NodeIDs,
               Asks(conn'[j], i), Asks(conn'[l], i)
        PROVE  j = l
    <3>1. \A m \in Conns : Asks(conn'[m], i) /\ m # k => Asks(conn[m], i)
      BY <1>4
    <3>2. \A m \in Conns : Asks(conn'[m], i) /\ m = k => i = node_id[n]
      BY <1>8 DEF Asks
    <3> QED BY <1>9, <2>1, <3>1, <3>2 DEF AskOnce
  <2>2. RepliesRead'
    BY <1>4 DEF RepliesRead
  <2> QED BY <2>1, <2>2 DEF AskOnce
<1>13. StartAtHome(home)'
  <2>1. \A l \in Conns : Registers(conn'[l]) => conn'[l].server = home
    BY <1>4, <1>8 DEF StartAtHome
  <2> QED BY <1>2, <1>6, <2>1 DEF StartAtHome
<1>14. Waits'
  <2>1. ASSUME NEW m \in Nodes
        PROVE  /\ AwaitsReply(m)' => conn'[sock'[m]].server = server_addr'[m]
               /\ node_loop'[m] = "registering" => Registers(conn'[sock'[m]])
               /\ node_loop'[m] = "waiting" => Asks(conn'[sock'[m]], node_id'[m])
    <3>1. CASE m = n
      BY <1>2, <1>4, <1>6, <1>7, <1>8, <3>1
    <3>2. CASE m # n
      <4>1. AwaitsReply(m) => sock[m] \in Conns \ {k}
        BY <1>4 DEF TypeInv, NodeOK
      <4> QED BY <1>2, <1>4, <1>6, <3>2, <4>1 DEF Waits, AwaitsReply
    <3> QED BY <3>1, <3>2
  <2> QED BY <2>1 DEF Waits
<1>15. Leftovers'
  BY <1>2, <1>6 DEF Leftovers
<1> QED BY <1>10, <1>11, <1>12, <1>13, <1>14, <1>15

(* A node has read its answer, or lost it.                                 *)
LEMMA CloseKeepsIds ==
  ASSUME NEW home \in Servers, TypeInv, IdInv(home), TypeInv',
         NEW n \in Nodes, AwaitsReply(n), Close(n),
         NEW place \in {"request", "working", "migrating", "exited", "failed"},
         Goto(n, place),
         UNCHANGED <<node_id, heartbeat, serverVars>>,
         \A m \in Nodes \ {n} : server_addr'[m] = server_addr[m] /\ work'[m] = work[m],
         place # "working" => work'[n] = None
  PROVE  IdInv(home)'
<1> USE DEF IdInv, serverVars
<1>1. /\ node_loop \in [Nodes -> {"start", "registering", "request", "waiting",
                              "working", "migrating", "exited", "failed", "crashed"}]
      /\ sock \in [Nodes -> Conns \cup {None}]
      /\ conn \in [Conns -> Stream \cup {None}]
      /\ sock[n] \in Conns
  BY DEF TypeInv, TypeOK, NCNodeTypeOK, NCConnectionTypeOK, NodeOK
<1>2. /\ node_loop'[n] = place /\ ~AwaitsReply(n)'
      /\ \A m \in Nodes \ {n} : node_loop'[m] = node_loop[m] /\ sock'[m] = sock[m]
  BY <1>1 DEF Goto, Close, AwaitsReply
<1>3. /\ conn'[sock[n]] = None
      /\ \A l \in Conns : l # sock[n] => conn'[l] = conn[l]
  BY <1>1 DEF Close
<1>4. \A l \in Conns : conn'[l] # None => conn'[l] = conn[l] /\ l # sock[n]
  BY <1>3
<1>5. OwnIds(home)' /\ GrantsOK(home)'
  <2>1. \A l \in Conns, i \in NodeIDs : Grants(conn'[l], i) => Grants(conn[l], i) /\ conn'[l] = conn[l]
    BY <1>4 DEF Grants
  <2> QED BY <2>1 DEF OwnIds, GrantsOK, DrawnIds
<1>6. RequestsOwned'
  <2>1. ASSUME NEW l \in Conns, NEW i \in NodeIDs, Names(conn'[l], i)
        PROVE  \E m \in Nodes :
                 /\ node_id'[m] = i
                 /\ Asks(conn'[l], i) =>
                      /\ conn'[l].server = server_addr'[m]
                      /\ IF conn'[l].open THEN sock'[m] = l /\ node_loop'[m] = "waiting"
                                          ELSE node_loop'[m] = "crashed"
    <3>1. conn'[l] = conn[l] /\ l # sock[n]
      BY <1>4, <2>1 DEF Names
    <3>2. PICK m \in Nodes :
                 /\ node_id[m] = i
                 /\ Asks(conn[l], i) =>
                      /\ conn[l].server = server_addr[m]
                      /\ IF conn[l].open THEN sock[m] = l /\ node_loop[m] = "waiting"
                                         ELSE node_loop[m] = "crashed"
      BY <2>1, <3>1 DEF RequestsOwned
    <3>3. m # n \/ ~Asks(conn[l], i)
      BY <3>1, <3>2 DEF AwaitsReply
    <3> QED BY <1>2, <3>1, <3>2, <3>3
  <2> QED BY <2>1 DEF RequestsOwned
<1>7. AskOnce' /\ RepliesRead'
  <2>1. \A l \in Conns, i \in NodeIDs : Asks(conn'[l], i) => Asks(conn[l], i)
    BY <1>4 DEF Asks, Names
  <2> QED BY <1>4, <2>1 DEF AskOnce, RepliesRead
<1>8. StartAtHome(home)'
  <2>1. \A l \in Conns : Registers(conn'[l]) => conn'[l].server = home
    BY <1>4 DEF StartAtHome, Registers
  <2> QED BY <1>2, <2>1 DEF StartAtHome
<1>9. Waits'
  <2>1. ASSUME NEW m \in Nodes
        PROVE  /\ AwaitsReply(m)' => conn'[sock'[m]].server = server_addr'[m]
               /\ node_loop'[m] = "registering" => Registers(conn'[sock'[m]])
               /\ node_loop'[m] = "waiting" => Asks(conn'[sock'[m]], node_id'[m])
    <3>1. CASE m = n
      BY <1>2, <3>1 DEF AwaitsReply
    <3>2. CASE m # n
      <4>1. AwaitsReply(m) => sock[m] \in Conns /\ sock[m] # sock[n]
        BY <3>2 DEF TypeInv, NodeOK, OwnStreams
      <4> QED BY <1>2, <1>3, <3>2, <4>1 DEF Waits, AwaitsReply
    <3> QED BY <3>1, <3>2
  <2> QED BY <2>1 DEF Waits
<1>10. Leftovers'
  BY <1>2 DEF Leftovers
<1> QED BY <1>5, <1>6, <1>7, <1>8, <1>9, <1>10

(* A node learns its id.                                                   *)
LEMMA GetInitialDataKeepsIds ==
  ASSUME NEW home \in Servers, TypeInv, IdInv(home), TypeInv',
         NEW n \in Nodes, GetInitialData(n), UNCHANGED serverVars
  PROVE  IdInv(home)'
<1> USE DEF IdInv, serverVars
<1>0. AwaitsReply(n) /\ node_id[n] = None
  BY DEF GetInitialData, AwaitsReply, StartAtHome
<1>1. /\ node_loop \in [Nodes -> {"start", "registering", "request", "waiting",
                              "working", "migrating", "exited", "failed", "crashed"}]
      /\ sock \in [Nodes -> Conns \cup {None}]
      /\ conn \in [Conns -> Stream \cup {None}]
      /\ node_id \in [Nodes -> NodeIDs \cup {None}]
      /\ heartbeat \in [Nodes -> {"off", "running", "exited", "crashed"}]
      /\ sock[n] \in Conns /\ conn[sock[n]] # None
  BY <1>0 DEF TypeInv, TypeOK, NCNodeTypeOK, NCConnectionTypeOK, NodeOK
<1>2. /\ node_loop'[n] = "request" /\ ~AwaitsReply(n)'
      /\ \A m \in Nodes \ {n} : /\ node_loop'[m] = node_loop[m] /\ sock'[m] = sock[m]
                                /\ node_id'[m] = node_id[m] /\ heartbeat'[m] = heartbeat[m]
      /\ UNCHANGED <<server_addr, work>>
  BY <1>1 DEF GetInitialData, Goto, Close, AwaitsReply
<1>3. /\ conn'[sock[n]] = None
      /\ \A l \in Conns : l # sock[n] => conn'[l] = conn[l]
  BY <1>1 DEF GetInitialData, Close
<1>4. \A l \in Conns : conn'[l] # None => conn'[l] = conn[l] /\ l # sock[n]
  BY <1>3
<1>5. PICK id \in NodeIDs : node_id'[n] = id /\ Grants(conn[sock[n]], id)
  <2>1. Replied(n, "InitialData") /\ node_id'[n] = conn[sock[n]].reply.node_id
    BY <1>1 DEF GetInitialData
  <2>2. conn[sock[n]].reply.node_id \in NodeIDs
    BY <1>0, <2>1, ReplyValues
  <2> QED BY <1>1, <2>1, <2>2 DEF Grants, Replied
<1>6. /\ id \in DrawnIds(home)
      /\ \A m \in Nodes : node_id[m] # id
      /\ \A l \in Conns : Grants(conn[l], id) => l = sock[n]
  BY <1>1, <1>5 DEF GrantsOK
<1>7. OwnIds(home)'
  BY <1>2, <1>5, <1>6 DEF OwnIds, DrawnIds
<1>8. GrantsOK(home)'
  <2>1. ASSUME NEW l \in Conns, NEW i \in NodeIDs, Grants(conn'[l], i)
        PROVE  conn'[l] = conn[l] /\ Grants(conn[l], i) /\ i # id
    BY <1>4, <1>6, <2>1 DEF Grants
  <2>2. \A l \in Conns, i \in NodeIDs : Grants(conn'[l], i) => \A m \in Nodes : node_id'[m] # i
    BY <1>2, <1>5, <2>1 DEF GrantsOK
  <2> QED BY <2>1, <2>2 DEF GrantsOK, DrawnIds
<1>9. RequestsOwned'
  <2>1. ASSUME NEW l \in Conns, NEW i \in NodeIDs, Names(conn'[l], i)
        PROVE  \E m \in Nodes :
                 /\ node_id'[m] = i
                 /\ Asks(conn'[l], i) =>
                      /\ conn'[l].server = server_addr'[m]
                      /\ IF conn'[l].open THEN sock'[m] = l /\ node_loop'[m] = "waiting"
                                          ELSE node_loop'[m] = "crashed"
    <3>1. conn'[l] = conn[l] /\ l # sock[n]
      BY <1>4, <2>1 DEF Names
    <3>2. PICK m \in Nodes :
                 /\ node_id[m] = i
                 /\ Asks(conn[l], i) =>
                      /\ conn[l].server = server_addr[m]
                      /\ IF conn[l].open THEN sock[m] = l /\ node_loop[m] = "waiting"
                                         ELSE node_loop[m] = "crashed"
      BY <2>1, <3>1 DEF RequestsOwned
    <3>3. m # n
      BY <1>0, <3>2, NCMessagesAssumption
    <3> QED BY <1>2, <3>1, <3>2, <3>3
  <2> QED BY <2>1 DEF RequestsOwned
<1>10. AskOnce' /\ RepliesRead'
  <2>1. \A l \in Conns, i \in NodeIDs : Asks(conn'[l], i) => Asks(conn[l], i)
    BY <1>4 DEF Asks, Names
  <2> QED BY <1>4, <2>1 DEF AskOnce, RepliesRead
<1>11. StartAtHome(home)'
  <2>1. \A l \in Conns : Registers(conn'[l]) => conn'[l].server = home
    BY <1>4 DEF StartAtHome, Registers
  <2> QED BY <1>2, <2>1 DEF StartAtHome
<1>12. Waits'
  <2>1. ASSUME NEW m \in Nodes
        PROVE  /\ AwaitsReply(m)' => conn'[sock'[m]].server = server_addr'[m]
               /\ node_loop'[m] = "registering" => Registers(conn'[sock'[m]])
               /\ node_loop'[m] = "waiting" => Asks(conn'[sock'[m]], node_id'[m])
    <3>1. CASE m = n
      BY <1>2, <3>1 DEF AwaitsReply
    <3>2. CASE m # n
      <4>1. AwaitsReply(m) => sock[m] \in Conns /\ sock[m] # sock[n]
        BY <1>0, <3>2 DEF TypeInv, NodeOK, OwnStreams
      <4> QED BY <1>2, <1>3, <3>2, <4>1 DEF Waits, AwaitsReply
    <3> QED BY <3>1, <3>2
  <2> QED BY <2>1 DEF Waits
<1>13. Leftovers'
  <2>1. work[n] = None
    BY <1>0 DEF AwaitsReply, Leftovers
  <2> QED BY <1>2, <2>1 DEF Leftovers
<1> QED BY <1>7, <1>8, <1>9, <1>10, <1>11, <1>12, <1>13

(* A node goes on without an answer, and may leave a request behind that   *)
(* carries its id.                                                         *)
Leaves(n, x, y) ==
  \/ y = x
  \/ /\ x = None
     /\ y # None =>
          /\ y.request.type \in WithId \ {"NeedsData"}
          /\ y.request.node_id = node_id[n]
          /\ y.step = "backlog"

LEMMA GoOnKeepsIds ==
  ASSUME NEW home \in Servers, TypeInv, IdInv(home), TypeInv', NEW n \in Nodes,
         \A k \in Conns : Leaves(n, conn[k], conn'[k]),
         \/ UNCHANGED node_loop
         \/ /\ node_loop[n] \in {"start", "request", "migrating", "working"}
            /\ \E place \in {"request", "exited", "failed"} : Goto(n, place),
         UNCHANGED <<node_id, server_addr, sock, serverVars>>,
         Leftovers'
  PROVE  IdInv(home)'
<1> USE DEF IdInv, serverVars
<1>1. /\ node_loop \in [Nodes -> {"start", "registering", "request", "waiting",
                              "working", "migrating", "exited", "failed", "crashed"}]
      /\ conn \in [Conns -> Stream \cup {None}]
  BY DEF TypeInv, TypeOK, NCNodeTypeOK, NCConnectionTypeOK
<1>2. \A m \in Nodes :
        /\ node_loop'[m] \in {"start", "registering", "waiting", "crashed"} => node_loop'[m] = node_loop[m]
        /\ node_loop[m] \in {"waiting", "crashed"} => node_loop'[m] = node_loop[m]
  BY <1>1 DEF Goto
<1>3. /\ \A k \in Conns : \A i : Grants(conn'[k], i) => conn'[k] = conn[k]
      /\ \A k \in Conns : \A i : Asks(conn'[k], i) => conn'[k] = conn[k]
      /\ \A k \in Conns : Registers(conn'[k]) => conn'[k] = conn[k]
      /\ \A k \in Conns : \A i : Names(conn'[k], i) => i = node_id[n] \/ conn'[k] = conn[k]
      /\ \A k \in Conns : conn[k] # None => conn'[k] = conn[k]
      /\ \A k \in Conns : conn'[k] # None /\ conn'[k].step = "replied" => conn'[k] = conn[k]
  BY DEF Leaves, Grants, Asks, Registers, Names, WithId
<1>4. OwnIds(home)'
  BY DEF OwnIds, DrawnIds
<1>5. GrantsOK(home)'
  BY <1>3 DEF GrantsOK, DrawnIds
<1>6. RequestsOwned'
  <2>1. ASSUME NEW l \in Conns, NEW i \in NodeIDs, Names(conn'[l], i)
        PROVE  \E m \in Nodes :
                 /\ node_id[m] = i
                 /\ Asks(conn'[l], i) =>
                      /\ conn'[l].server = server_addr[m]
                      /\ IF conn'[l].open THEN sock[m] = l /\ node_loop'[m] = "waiting"
                                          ELSE node_loop'[m] = "crashed"
    <3>1. CASE conn'[l] = conn[l]
      BY <1>2, <2>1, <3>1 DEF RequestsOwned
    <3>2. CASE conn'[l] # conn[l]
      BY <1>3, <2>1, <3>2
    <3> QED BY <3>1, <3>2
  <2> QED BY <2>1 DEF RequestsOwned
<1>7. AskOnce' /\ RepliesRead'
  <2>1. AskOnce'
    BY <1>3 DEF AskOnce
  <2>2. RepliesRead'
    BY <1>3 DEF RepliesRead
  <2> QED BY <2>1, <2>2
<1>8. StartAtHome(home)'
  <2>1. \A l \in Conns : Registers(conn'[l]) => conn'[l].server = home
    BY <1>3 DEF StartAtHome
  <2> QED BY <1>2, <2>1 DEF StartAtHome
<1>9. Waits'
  <2>1. ASSUME NEW m \in Nodes, AwaitsReply(m)'
        PROVE  conn'[sock[m]] = conn[sock[m]] /\ node_loop'[m] = node_loop[m]
    BY <1>2, <1>3, <2>1 DEF TypeInv, NodeOK, AwaitsReply
  <2> QED BY <2>1 DEF Waits, AwaitsReply
<1> QED BY <1>4, <1>5, <1>6, <1>7, <1>8, <1>9

(* A node dies.                                                            *)
LEMMA CrashKeepsIds ==
  ASSUME NEW home \in Servers, TypeInv, IdInv(home), TypeInv',
         NEW n \in Nodes, Crash(n), UNCHANGED serverVars
  PROVE  IdInv(home)'
<1> USE DEF IdInv, serverVars
<1>1. /\ node_loop \in [Nodes -> {"start", "registering", "request", "waiting",
                              "working", "migrating", "exited", "failed", "crashed"}]
      /\ sock \in [Nodes -> Conns \cup {None}]
      /\ conn \in [Conns -> Stream \cup {None}]
      /\ work \in [Nodes -> ChunkIdx \cup {None}]
      /\ heartbeat \in [Nodes -> {"off", "running", "exited", "crashed"}]
      /\ sock[n] # None => sock[n] \in Conns /\ AwaitsReply(n) /\ conn[sock[n]] # None
  BY DEF TypeInv, TypeOK, NCNodeTypeOK, NCConnectionTypeOK, NodeOK
<1>2. /\ node_loop'[n] = "crashed" /\ heartbeat'[n] = "crashed" /\ work'[n] = None
      /\ \A m \in Nodes \ {n} : /\ node_loop'[m] = node_loop[m] /\ sock'[m] = sock[m]
                                /\ heartbeat'[m] = heartbeat[m] /\ work'[m] = work[m]
      /\ UNCHANGED <<server_addr, node_id>>
  BY <1>1 DEF Crash, Goto
<1>3. ASSUME NEW k \in Conns
      PROVE  conn'[k] = conn[k] \/ (k = sock[n] /\ sock[n] # None /\ conn'[k] = Abandoned(conn[k]))
  BY <1>1 DEF Crash
<1>4. ASSUME NEW k \in Conns, k = sock[n], sock[n] # None, conn'[k] = Abandoned(conn[k]), conn'[k] # None
      PROVE  /\ conn'[k].request = conn[k].request /\ conn'[k].server = conn[k].server
             /\ conn'[k].open = FALSE /\ conn'[k].step # "replied" /\ conn[k] # None
  <2>1. conn[k] \in Stream
    BY <1>1, <1>4
  <2>2. conn[k].step \notin {"replied", "dropped"} /\ conn'[k] = [conn[k] EXCEPT !.open = FALSE]
    BY <1>4 DEF Abandoned
  <2> QED BY <1>1, <1>4, <2>1, <2>2 DEF Stream
<1>5. ASSUME NEW k \in Conns, conn'[k] # None
      PROVE  /\ conn[k] # None
             /\ conn'[k].request = conn[k].request /\ conn'[k].server = conn[k].server
             /\ conn'[k] = conn[k] \/ (k = sock[n] /\ conn'[k].open = FALSE /\ conn'[k].step # "replied")
  <2>1. CASE conn'[k] = conn[k]
    BY <1>5, <2>1
  <2>2. CASE k = sock[n] /\ sock[n] # None /\ conn'[k] = Abandoned(conn[k])
    BY <1>4, <1>5, <2>2
  <2> QED BY <1>3, <2>1, <2>2
<1>6. /\ \A k \in Conns : \A i : Grants(conn'[k], i) => Grants(conn[k], i)
      /\ \A k \in Conns : \A i : Asks(conn'[k], i) => Asks(conn[k], i)
      /\ \A k \in Conns : Registers(conn'[k]) => Registers(conn[k])
      /\ \A k \in Conns : conn'[k] # None /\ Registers(conn[k]) => Registers(conn'[k])
      /\ \A k \in Conns : \A i : Names(conn'[k], i) => Names(conn[k], i)
  BY <1>5 DEF Grants, Asks, Registers, Names
<1>7. OwnIds(home)'
  BY <1>2 DEF OwnIds, DrawnIds
<1>8. GrantsOK(home)'
  <2>1. \A k \in Conns : \A i : Grants(conn'[k], i) => conn'[k] # None
    BY DEF Grants
  <2> QED BY <1>2, <1>6, <2>1 DEF GrantsOK, DrawnIds
<1>9. RequestsOwned'
  <2>1. ASSUME NEW l \in Conns, NEW i \in NodeIDs, Names(conn'[l], i)
        PROVE  \E m \in Nodes :
                 /\ node_id'[m] = i
                 /\ Asks(conn'[l], i) =>
                      /\ conn'[l].server = server_addr'[m]
                      /\ IF conn'[l].open THEN sock'[m] = l /\ node_loop'[m] = "waiting"
                                          ELSE node_loop'[m] = "crashed"
    <3>1. conn'[l] # None /\ Names(conn[l], i) /\ (Asks(conn'[l], i) => Asks(conn[l], i))
      BY <1>6, <2>1 DEF Names
    <3>2. PICK m \in Nodes :
                 /\ node_id[m] = i
                 /\ Asks(conn[l], i) =>
                      /\ conn[l].server = server_addr[m]
                      /\ IF conn[l].open THEN sock[m] = l /\ node_loop[m] = "waiting"
                                         ELSE node_loop[m] = "crashed"
      BY <3>1 DEF RequestsOwned
    <3>3. CASE ~Asks(conn'[l], i)
      BY <1>2, <3>2, <3>3
    <3>4. CASE Asks(conn'[l], i) /\ m = n
      <4>1. ~conn'[l].open
        <5>1. CASE conn[l].open
          <6>1. sock[n] = l /\ sock[n] # None
            BY <3>1, <3>2, <3>4, <5>1, NCConnectionAssumption
          <6>2. conn'[l] = Abandoned(conn[l])
            BY <1>1, <6>1 DEF Crash
          <6> QED BY <1>4, <3>1, <6>1, <6>2
        <5>2. CASE ~conn[l].open
          BY <1>5, <3>1, <5>2
        <5> QED BY <5>1, <5>2
      <4> QED BY <1>2, <1>5, <3>1, <3>2, <3>4, <4>1
    <3>5. CASE Asks(conn'[l], i) /\ m # n
      <4>1. CASE conn'[l] = conn[l]
        BY <1>2, <3>1, <3>2, <3>5, <4>1
      <4>2. CASE l = sock[n] /\ sock[n] # None
        <5>1. AwaitsReply(n) /\ conn[l].open
          BY <1>1, <4>2 DEF TypeInv, NodeOK
        <5>2. AwaitsReply(m) /\ sock[m] = l
          BY <3>1, <3>2, <3>5, <5>1 DEF AwaitsReply
        <5> QED BY <3>5, <4>2, <5>1, <5>2 DEF TypeInv, OwnStreams
      <4> QED BY <1>3, <4>1, <4>2
    <3> QED BY <3>3, <3>4, <3>5
  <2> QED BY <2>1 DEF RequestsOwned
<1>10. AskOnce' /\ RepliesRead'
  <2>1. AskOnce'
    BY <1>6 DEF AskOnce
  <2>2. RepliesRead'
    BY <1>5 DEF RepliesRead
  <2> QED BY <2>1, <2>2
<1>11. StartAtHome(home)'
  <2>1. \A l \in Conns : Registers(conn'[l]) => conn'[l].server = home
    BY <1>5, <1>6 DEF StartAtHome, Registers
  <2> QED BY <1>2, <2>1 DEF StartAtHome
<1>12. Waits'
  <2>1. ASSUME NEW m \in Nodes, AwaitsReply(m)'
        PROVE  m # n /\ AwaitsReply(m) /\ conn'[sock[m]] = conn[sock[m]]
    <3>1. m # n /\ AwaitsReply(m)
      BY <1>2, <2>1 DEF AwaitsReply
    <3>2. sock[m] \in Conns /\ sock[m] # sock[n]
      BY <1>1, <3>1, NCConnectionAssumption DEF TypeInv, NodeOK, OwnStreams
    <3> QED BY <1>3, <3>1, <3>2
  <2> QED BY <1>2, <2>1 DEF Waits, AwaitsReply
<1>13. Leftovers'
  BY <1>2 DEF Leftovers
<1> QED BY <1>7, <1>8, <1>9, <1>10, <1>11, <1>12, <1>13

-----------------------------------------------------------------------------
(* Every step.                                                             *)

LEMMA LeavingGrows ==
  ASSUME NEW home \in Servers, TypeInv, NEW s \in Servers, NEW k \in Conns,
         HandleLeavingNode(s, k)
  PROVE  DrawnIds(home) \subseteq DrawnIds(home)'
<1>1. node_list \in [Servers -> Seq(NCNodeInfo)]
  BY DEF TypeInv, TypeOK, NCServerTypeOK
<1>2. PICK i \in DOMAIN node_list[s] :
        /\ node_list[s][i].node_id = conn[k].request.node_id
        /\ node_list' = [node_list EXCEPT ![s] = swap_remove(@, i)]
  BY DEF HandleLeavingNode, IsFirst
<1>3. Ids(node_list[s]) \subseteq Ids(swap_remove(node_list[s], i)) \cup {conn[k].request.node_id}
  BY <1>1, <1>2, RemoveIds
<1>4. departed' = departed \cup {conn[k].request.node_id}
  BY DEF HandleLeavingNode
<1>5. node_list'[home] = IF home = s THEN swap_remove(node_list[s], i) ELSE node_list[home]
  BY <1>1, <1>2
<1> QED BY <1>3, <1>4, <1>5 DEF DrawnIds

LEMMA ServerKeepsIds ==
  ASSUME NEW home \in Servers, OneHome(home), TypeInv, IdInv(home), TypeInv', ServerStep
  PROVE  IdInv(home)'
<1>0. UNCHANGED nodeVars
  BY DEF ServerStep
<1>1. PICK s \in Servers : \/ ServerMainLoop(s) \/ ServerHeartbeatThread(s)
                           \/ \E k \in Conns : Accept(s, k) \/ handle_node(s, k)
  BY DEF ServerStep, NCServerNext
<1>2. CASE ServerMainLoop(s) \/ ServerHeartbeatThread(s) \/ \E k \in Conns : Accept(s, k)
  <2>1. UNCHANGED <<node_list, departed>>
    BY <1>2 DEF ServerMainLoop, ServerHeartbeatThread, CheckJobDone, FinishJob, JoinThreads,
                SendCheckHeartbeat, ServerHeartbeatExits, Accept, listVars, serverVars
  <2> QED BY <1>0, <1>2, <2>1, ThreadsAdvance, AdvanceKeeps DEF DrawnIds
<1>3. ASSUME NEW k \in Conns, handle_node(s, k)
      PROVE  IdInv(home)'
  <2>1. CASE HandleRegister(s, k)
    BY <1>0, <2>1, DrawKeeps
  <2>2. CASE ~HandleRegister(s, k)
    <3>1. StreamsAdvance
      BY <1>3, <2>2, HandlersAdvance
    <3>2. CASE HandleLeavingNode(s, k)
      BY <1>0, <3>1, <3>2, LeavingGrows, AdvanceKeeps
    <3>3. CASE ~HandleLeavingNode(s, k)
      <4>1. ListsGrow
        BY <1>3, <3>3, HandlersGrow
      <4>2. DrawnIds(home) \subseteq DrawnIds(home)'
        BY <4>1 DEF ListsGrow, DrawnIds
      <4> QED BY <1>0, <3>1, <4>2, AdvanceKeeps
    <3> QED BY <3>2, <3>3
  <2> QED BY <2>1, <2>2
<1> QED BY <1>1, <1>2, <1>3

(* A request that carries the id of its node is sent.                      *)
LEMMA SendLeaves ==
  ASSUME TypeInv, NEW n, NEW k \in Conns, NEW s, NEW m, Send(k, s, m, FALSE),
         m.type \in WithId \ {"NeedsData"}, m.node_id = node_id[n]
  PROVE  \A l \in Conns : Leaves(n, conn[l], conn'[l])
<1>1. /\ conn[k] = None
      /\ conn'[k] # None => conn'[k].request = m /\ conn'[k].step = "backlog"
      /\ \A l \in Conns \ {k} : conn'[l] = conn[l]
  BY SendsStream
<1> QED BY <1>1 DEF Leaves

LEMMA MainThreadKeepsIds ==
  ASSUME NEW home \in Servers, OneHome(home), TypeInv, IdInv(home), TypeInv',
         NEW n \in Nodes, main_thread(n), UNCHANGED serverVars
  PROVE  IdInv(home)'
<1> USE DEF hbVars
<1>0. /\ node_loop \in [Nodes -> {"start", "registering", "request", "waiting",
                              "working", "migrating", "exited", "failed", "crashed"}]
      /\ work \in [Nodes -> ChunkIdx \cup {None}]
      /\ server_addr \in [Nodes -> Servers]
  BY DEF TypeInv, TypeOK, NCNodeTypeOK
<1>1. CASE SendRegister(n) BY <1>1, RegisterKeepsIds
<1>2. CASE GetInitialData(n) BY <1>2, GetInitialDataKeepsIds
<1>3. CASE SendNeedsData(n) BY <1>3, NeedsDataKeepsIds
<1>4. CASE RegisterLost(n) \/ NeedsDataLost(n) \/ GetUnfinished(n) \/ GetNoWork(n) \/ GetNewServer(n)
  <2>1. AwaitsReply(n) /\ Close(n)
    BY <1>4 DEF AwaitsReply, RegisterLost, NeedsDataLost, GetUnfinished, GetNoWork, GetNewServer
  <2>2. work[n] = None
    BY <2>1 DEF AwaitsReply, IdInv, Leftovers
  <2>3. \E place \in {"request", "working", "migrating", "exited", "failed"} :
          Goto(n, place) /\ (place # "working" => work' = work)
    <3>1. CASE NeedsDataLost(n)
      BY <3>1, RoundFailsTypes DEF NeedsDataLost
    <3>2. CASE GetNoWork(n)
      BY <3>2, NextRoundTypes DEF GetNoWork
    <3> QED BY <1>4, <3>1, <3>2 DEF RegisterLost, GetUnfinished, GetNewServer
  <2>4. \A m \in Nodes \ {n} : server_addr'[m] = server_addr[m] /\ work'[m] = work[m]
    BY <1>0, <1>4 DEF RegisterLost, NeedsDataLost, GetUnfinished, GetNoWork, GetNewServer
  <2>5. UNCHANGED <<node_id, heartbeat>>
    BY <1>4 DEF RegisterLost, NeedsDataLost, GetUnfinished, GetNoWork, GetNewServer
  <2> QED BY <2>1, <2>2, <2>3, <2>4, <2>5, CloseKeepsIds
<1>5. CASE SendNodeMigrated(n)
  <2>1. Goto(n, "request") /\ node_loop[n] = "migrating"
    BY <1>5, NextRoundTypes DEF SendNodeMigrated
  <2> DEFINE request == [type |-> "NodeMigrated", node_id |-> node_id[n]]
  <2>2. \E k \in Conns : Send(k, server_addr[n], request, FALSE)
    BY <1>5 DEF SendNodeMigrated
  <2>3. request.type \in WithId \ {"NeedsData"} /\ request.node_id = node_id[n]
    BY DEF WithId
  <2> HIDE DEF request
  <2>4. \A l \in Conns : Leaves(n, conn[l], conn'[l])
    BY <2>2, <2>3, SendLeaves
  <2>5. UNCHANGED <<node_id, server_addr, sock, work, heartbeat>>
    BY <1>5 DEF SendNodeMigrated
  <2>6. Leftovers'
    BY <1>0, <2>1, <2>5 DEF IdInv, Leftovers, Goto
  <2> QED BY <2>1, <2>4, <2>5, <2>6, GoOnKeepsIds
<1>6. CASE SendHasData(n)
  <2>1. Goto(n, "request") /\ node_loop[n] = "working"
    BY <1>6, NextRoundTypes DEF SendHasData
  <2> DEFINE request == [type |-> "HasData", node_id |-> node_id[n], chunk_id |-> work[n]]
  <2>2. \E k \in Conns : Send(k, server_addr[n], request, FALSE)
    BY <1>6 DEF SendHasData
  <2>3. request.type \in WithId \ {"NeedsData"} /\ request.node_id = node_id[n]
    BY DEF WithId
  <2> HIDE DEF request
  <2>4. \A l \in Conns : Leaves(n, conn[l], conn'[l])
    BY <2>2, <2>3, SendLeaves
  <2>5. /\ UNCHANGED <<node_id, server_addr, sock, heartbeat>>
        /\ work' = [work EXCEPT ![n] = None]
    BY <1>6 DEF SendHasData
  <2>6. Leftovers'
    BY <1>0, <2>1, <2>5 DEF IdInv, Leftovers, Goto
  <2> QED BY <2>1, <2>4, <2>5, <2>6, GoOnKeepsIds
<1> QED BY <1>1, <1>2, <1>3, <1>4, <1>5, <1>6 DEF main_thread

LEMMA RefusedKeepsIds ==
  ASSUME NEW home \in Servers, TypeInv, IdInv(home), TypeInv',
         NEW n \in Nodes, MainThreadRefused(n), UNCHANGED serverVars
  PROVE  IdInv(home)'
<1> USE DEF hbVars, connVars
<1>0. /\ node_loop \in [Nodes -> {"start", "registering", "request", "waiting",
                              "working", "migrating", "exited", "failed", "crashed"}]
      /\ work \in [Nodes -> ChunkIdx \cup {None}]
  BY DEF TypeInv, TypeOK, NCNodeTypeOK
<1>1. /\ node_loop[n] \in {"start", "request", "migrating", "working"}
      /\ \E place \in {"request", "exited", "failed"} : Goto(n, place)
  BY RoundFailsTypes
  DEF MainThreadRefused, RegisterRefused, NeedsDataRefused, NodeMigratedRefused, WorkFails
<1>2. /\ UNCHANGED <<conn, node_id, server_addr, sock, heartbeat>>
      /\ work' = work \/ work' = [work EXCEPT ![n] = None]
  BY DEF MainThreadRefused, RegisterRefused, NeedsDataRefused, NodeMigratedRefused, WorkFails
<1>3. node_loop[n] # "working" => work[n] = None
  BY DEF IdInv, Leftovers
<1>4. node_loop[n] = "working" => work' = [work EXCEPT ![n] = None]
  BY DEF MainThreadRefused, RegisterRefused, NeedsDataRefused, NodeMigratedRefused, WorkFails
<1>5. Leftovers'
  BY <1>0, <1>1, <1>2, <1>3, <1>4 DEF IdInv, Leftovers, Goto
<1>6. \A l \in Conns : Leaves(n, conn[l], conn'[l])
  BY <1>2 DEF Leaves
<1> QED BY <1>1, <1>2, <1>5, <1>6, GoOnKeepsIds

LEMMA HeartbeatKeepsIds ==
  ASSUME NEW home \in Servers, TypeInv, IdInv(home), TypeInv',
         NEW n \in Nodes, HeartBeat(n) \/ HeartBeatRefused(n), UNCHANGED serverVars
  PROVE  IdInv(home)'
<1> USE DEF connVars
<1>0. heartbeat \in [Nodes -> {"off", "running", "exited", "crashed"}]
  BY DEF TypeInv, TypeOK, NCNodeTypeOK
<1>1. UNCHANGED <<node_loop, node_id, server_addr, sock, work>>
  BY DEF HeartBeat, HeartBeatRefused
<1>2. \A l \in Conns : Leaves(n, conn[l], conn'[l])
  <2>1. CASE HeartBeat(n)
    <3> DEFINE request == [type |-> "HeartBeat", node_id |-> node_id[n]]
    <3>1. \E k \in Conns : Send(k, server_addr[n], request, FALSE)
      BY <2>1 DEF HeartBeat
    <3>2. request.type \in WithId \ {"NeedsData"} /\ request.node_id = node_id[n]
      BY DEF WithId
    <3> HIDE DEF request
    <3> QED BY <3>1, <3>2, SendLeaves
  <2>2. CASE HeartBeatRefused(n)
    BY <2>2 DEF HeartBeatRefused, Leaves
  <2> QED BY <2>1, <2>2
<1>3. Leftovers'
  BY <1>0, <1>1 DEF IdInv, Leftovers, HeartBeat, HeartBeatRefused
<1> QED BY <1>1, <1>2, <1>3, GoOnKeepsIds

(* The environment's steps that touch a list or a stream.                  *)
LEMMA ExpireKeepsIds ==
  ASSUME NEW home \in Servers, TypeInv, IdInv(home), TypeInv',
         NEW s \in Servers, NEW id \in NodeIDs, Expire(s, id)
  PROVE  IdInv(home)'
<1>1. node_list \in [Servers -> Seq(NCNodeInfo)]
  BY DEF TypeInv, TypeOK, NCServerTypeOK
<1>2. PICK i \in DOMAIN node_list[s] : node_list' = [node_list EXCEPT ![s][i].stale = TRUE]
  BY DEF Expire
<1> DEFINE new == [node_list[s] EXCEPT ![i].stale = TRUE]
<1>3. node_list' = [node_list EXCEPT ![s] = new]
  BY <1>1, <1>2
<1>4. Ids(new) = Ids(node_list[s])
  BY <1>1, <1>2, ExpireIds
<1> HIDE DEF new
<1>5. UNCHANGED <<departed, conn, nodeVars>>
  BY DEF Expire, connVars
<1>6. ListsGrow
  BY <1>3, <1>4, <1>5, OneListGrows
<1>7. DrawnIds(home) \subseteq DrawnIds(home)'
  BY <1>6 DEF ListsGrow, DrawnIds
<1> QED BY <1>5, <1>7, StreamsUnchanged, AdvanceKeeps

LEMMA BreaksAdvance ==
  ASSUME TypeInv, StreamBreaks
  PROVE  StreamsAdvance
<1>1. PICK k \in Conns : LoseRequest(k) \/ LoseReply(k)
  BY DEF StreamBreaks
<1>2. CASE LoseRequest(k)
  BY <1>2, StreamOperations DEF LoseRequest
<1>3. CASE LoseReply(k)
  BY <1>3, ContinueAdvances DEF LoseReply, Continue
<1> QED BY <1>1, <1>2, <1>3

LEMMA NextKeepsIds ==
  ASSUME NEW home \in Servers, OneHome(home), TypeInv, IdInv(home), TypeInv', [Next]_vars
  PROVE  IdInv(home)'
<1>1. CASE ServerStep BY <1>1, ServerKeepsIds
<1>2. CASE NodeStep
  <2>1. UNCHANGED serverVars
    BY <1>2 DEF NodeStep
  <2>2. PICK n \in Nodes : main_thread(n) \/ MainThreadRefused(n) \/ HeartBeat(n) \/ HeartBeatRefused(n)
    BY <1>2 DEF NodeStep, NCNodeNext, NodeMainLoop, NodeHeartbeatThread
  <2> QED BY <2>1, <2>2, MainThreadKeepsIds, RefusedKeepsIds, HeartbeatKeepsIds
<1>3. CASE (\E s \in Servers : HeartbeatExpires(s)) \/ HeartbeatLate
  BY <1>3, ExpireKeepsIds DEF HeartbeatExpires, HeartbeatLate
<1>4. CASE NodeCrashes
  BY <1>4, CrashKeepsIds DEF NodeCrashes
<1>5. CASE StreamBreaks
  <2>1. UNCHANGED <<nodeVars, serverVars>>
    BY <1>5 DEF StreamBreaks
  <2>2. StreamsAdvance
    BY <1>5, BreaksAdvance
  <2> QED BY <2>1, <2>2, AdvanceKeeps DEF serverVars, DrawnIds
<1>6. CASE ConnectRefused
  BY <1>6, RefusedKeepsIds, HeartbeatKeepsIds DEF ConnectRefused
<1>7. CASE ProcessDataFails
  BY <1>7, RefusedKeepsIds DEF ProcessDataFails, MainThreadRefused
<1>8. CASE OperatorSends
  <2>1. UNCHANGED <<nodeVars, serverVars>>
    BY <1>8 DEF OperatorSends
  <2>2. PICK k \in Conns, r \in AdminRequests : Send(k, r[1], r[2], FALSE)
    BY <1>8 DEF OperatorSends
  <2>3. r[2].type \in WithoutId
    BY <2>2 DEF OneHome, WithoutId
  <2>4. StreamsAdvance
    BY <2>2, <2>3, StreamOperations
  <2> QED BY <2>1, <2>4, AdvanceKeeps DEF serverVars, DrawnIds
<1>9. CASE UNCHANGED vars
  BY <1>9, StreamsUnchanged, AdvanceKeeps DEF vars, connVars, serverVars, DrawnIds
<1>10. CASE CheckRefused
  BY <1>10, StreamsUnchanged, AdvanceKeeps
  DEF CheckRefused, ServerHeartbeatExits, connVars, listVars, DrawnIds
<1> QED BY <1>1, <1>2, <1>3, <1>4, <1>5, <1>6, <1>7, <1>8, <1>9, <1>10 DEF Next, Terminated

LEMMA InitIds ==
  ASSUME NEW home \in Servers, OneHome(home), Init
  PROVE  IdInv(home)
<1>1. \A k \in Conns : conn[k] = None
  BY DEF Init, NCConnectionInit
<1>2. \A n \in Nodes : /\ node_loop[n] = "start" /\ node_id[n] = None /\ work[n] = None
                       /\ server_addr[n] = home
  BY DEF Init, NCNodeInit, OneHome
<1>3. OwnIds(home) /\ StartAtHome(home)
  BY <1>1, <1>2 DEF OwnIds, StartAtHome, Registers
<1>4. GrantsOK(home) /\ RequestsOwned /\ AskOnce /\ RepliesRead
  BY <1>1 DEF GrantsOK, RequestsOwned, AskOnce, RepliesRead, Grants, Names, Asks
<1>5. Waits /\ Leftovers
  BY <1>2 DEF Waits, Leftovers, AwaitsReply
<1> QED BY <1>3, <1>4, <1>5 DEF IdInv

(* No two nodes have the same id, and requests and replies carry an id     *)
(* only between its node and the server (nc_node_info.rs register_new_node,*)
(* nc_node.rs get_initial_data), however often streams break or nodes die. *)
THEOREM IdsAreUnique ==
  ASSUME NEW home \in Servers, OneHome(home)
  PROVE  Spec => []IdInv(home)
<1>1. Init => TypeInv /\ IdInv(home)
  BY InitTypes, InitIds
<1>2. TypeInv /\ IdInv(home) /\ [Next]_vars => (TypeInv /\ IdInv(home))'
  BY NextTypes, NextKeepsIds
<1> QED BY <1>1, <1>2, PTL DEF Spec

-----------------------------------------------------------------------------
(* What a step of a server makes of a stream if it grants no id and sends  *)
(* nobody away.                                                            *)
Serves(x, y) ==
  \/ y = None
  \/ /\ x # None /\ y # None
     /\ y.server = x.server /\ y.request = x.request
     /\ \/ y = x
        \/ /\ x.step # "replied"
           /\ y.step = "replied" => y.reply.type \notin {"InitialData", "NewServer"}
     /\ x.step \in Final => y.step \in Final
  \/ x = None /\ y # None /\ y.request.type = "CheckHeartbeat" /\ y.step = "backlog"

StreamsServed == \A k \in Conns : Serves(conn[k], conn'[k])

LEMMA ServedMoves ==
  ASSUME NEW home \in Servers, TypeInv, MoveInv(home), TypeInv', StreamsServed,
         Ids(node_list[home]) \subseteq Ids(node_list'[home]),
         \A s \in Servers : new_server'[s] # None => Moves(s, new_server'[s]),
         UNCHANGED <<poisoned, nodeVars>>
  PROVE  MoveInv(home)'
<1> USE DEF MoveInv, nodeVars, StreamsServed
<1>1. \A k \in Conns : conn'[k] # None /\ conn'[k].request.type = "NewServer" =>
        /\ conn[k] # None /\ conn'[k].server = conn[k].server
        /\ conn'[k].request = conn[k].request
  BY DEF Serves
<1>2. /\ \A k \in Conns : Redirects(conn'[k]) => conn'[k] = conn[k]
      /\ \A k \in Conns : \A id : Grants(conn'[k], id) => conn'[k] = conn[k]
      /\ \A k \in Conns : \A id : OpenAsk(conn'[k], home, id) => OpenAsk(conn[k], home, id)
  BY DEF Serves, Redirects, Grants, OpenAsk, Asks, Names, WithId, Final
<1>3. OrdersOK'
  BY <1>1, <1>2 DEF OrdersOK
<1>4. Places(home)'
  BY DEF Places
<1>5. (\A n \in Nodes : Listed(home, n))'
  <2>1. ASSUME NEW n \in Nodes, node_loop[n] = "waiting", Redirects(conn[sock[n]])
        PROVE  Redirects(conn'[sock[n]])
    <3>1. sock[n] \in Conns /\ conn[sock[n]] # None /\ conn'[sock[n]] # None
      BY <2>1 DEF TypeInv, NodeOK, AwaitsReply
    <3> QED BY <2>1, <3>1 DEF Serves, Redirects
  <2> QED BY <2>1 DEF Listed
<1>6. IdsListed(home)'
  BY <1>2 DEF IdsListed
<1> QED BY <1>3, <1>4, <1>5, <1>6 DEF NeverPoisoned

LEMMA SendServes ==
  ASSUME TypeInv, NEW k \in Conns, NEW s, NEW m, m.type = "CheckHeartbeat", Send(k, s, m, FALSE)
  PROVE  StreamsServed
<1> DEFINE no == FALSE
<1>1. Send(k, s, m, no)
  OBVIOUS
<1> HIDE DEF no
<1>2. /\ conn[k] = None
      /\ conn'[k] # None => conn'[k].request = m /\ conn'[k].step = "backlog"
      /\ \A l \in Conns \ {k} : conn'[l] = conn[l]
  BY <1>1, SendsStream
<1> QED BY <1>2 DEF StreamsServed, Serves

LEMMA DroppedServes ==
  ASSUME NEW x \in Stream, x.step # "replied"
  PROVE  Serves(x, Dropped(x))
<1>1. Dropped(x) # None =>
        /\ Dropped(x).server = x.server /\ Dropped(x).request = x.request
        /\ Dropped(x).step = "dropped"
  BY DEF Dropped, Stream
<1> QED BY <1>1, NCConnectionAssumption DEF Serves, Final

LEMMA AnsweredServes ==
  ASSUME NEW x \in Stream, x.step # "replied", NEW m, m.type \notin {"InitialData", "NewServer"}
  PROVE  Serves(x, Answered(x, m))
<1>1. Answered(x, m) # None =>
        /\ Answered(x, m).server = x.server /\ Answered(x, m).request = x.request
        /\ Answered(x, m).step = "replied" /\ Answered(x, m).reply = m
  BY DEF Answered, Stream
<1> QED BY <1>1, NCConnectionAssumption DEF Serves, Final

LEMMA StepServes ==
  ASSUME NEW x \in Stream, x.step \notin Final, NEW y \in Stream \cup {None},
         y.server = x.server, y.request = x.request, y.step # "replied"
  PROVE  Serves(x, y)
BY NCConnectionAssumption DEF Serves, Final

LEMMA StepChanges ==
  ASSUME NEW x \in Stream, NEW nodes, NEW step
  PROVE  /\ [x EXCEPT !.step = step].server = x.server
         /\ [x EXCEPT !.step = step].request = x.request
         /\ [x EXCEPT !.step = step].step = step
         /\ [[x EXCEPT !.nodes = nodes] EXCEPT !.step = step].server = x.server
         /\ [[x EXCEPT !.nodes = nodes] EXCEPT !.step = step].request = x.request
         /\ [[x EXCEPT !.nodes = nodes] EXCEPT !.step = step].step = step
BY DEF Stream

(* A handler touches its own stream, which it has not answered yet.        *)
LEMMA HandlerLocal ==
  ASSUME TypeInv, NEW s \in Servers, NEW k \in Conns, handle_node(s, k)
  PROVE  /\ conn[k] \in Stream /\ conn[k].server = s
         /\ conn[k].step \notin Final \cup {"backlog"}
         /\ \A l \in Conns : l # k => conn'[l] = conn[l]
         /\ UNCHANGED <<listening, main_loop>>
<1>0. conn \in [Conns -> Stream \cup {None}]
  BY DEF TypeInv, TypeOK, NCConnectionTypeOK
<1>1. \E step \in {"accepted", "messages", "prepare", "timeout", "shut_down"} : At(k, s, step)
  BY DEF handle_node, HandlerFails, HandleRegister, HandleNeedsData, HandleLeavingNode,
         HandleUnknownNode, SendCustomMessage, NoCustomMessage, PrepareUnfinished,
         PrepareWaiting, PrepareFinished, HandleFinished, HandleHeartBeat, AcceptResult,
         RejectResult, HandleCheckHeartbeat, HeartbeatTimeout, HandleShutDown,
         HandleNewServer, HandleNodeMigrated, HandleCustomMessage, Received
<1>2. \E y : conn' = [conn EXCEPT ![k] = y]
  <2>1. \/ Drop(k) \/ (\E m : Answer(k, m)) \/ (\E step : Continue(k, step))
        \/ \E nodes : conn' = [conn EXCEPT ![k].nodes = nodes, ![k].step = "timeout"]
    BY DEF handle_node, HandlerFails, HandleRegister, HandleNeedsData, HandleLeavingNode,
         HandleUnknownNode, SendCustomMessage, NoCustomMessage, PrepareUnfinished,
         PrepareWaiting, PrepareFinished, HandleFinished, HandleHeartBeat, AcceptResult,
         RejectResult, HandleCheckHeartbeat, HeartbeatTimeout, HandleShutDown,
         HandleNewServer, HandleNodeMigrated, HandleCustomMessage
  <2>2. ASSUME NEW nodes, conn' = [conn EXCEPT ![k].nodes = nodes, ![k].step = "timeout"]
        PROVE  conn' = [conn EXCEPT ![k] = [[conn[k] EXCEPT !.nodes = nodes] EXCEPT !.step = "timeout"]]
    BY <1>0, <2>2
  <2> QED BY <2>1, <2>2 DEF Drop, Answer, Continue
<1>3. UNCHANGED <<listening, main_loop>>
  BY DEF handle_node, HandlerFails, HandleRegister, HandleNeedsData, HandleLeavingNode,
         HandleUnknownNode, SendCustomMessage, NoCustomMessage, PrepareUnfinished,
         PrepareWaiting, PrepareFinished, HandleFinished, HandleHeartBeat, AcceptResult,
         RejectResult, HandleCheckHeartbeat, HeartbeatTimeout, HandleShutDown,
         HandleNewServer, HandleNodeMigrated, HandleCustomMessage, threadVars, serverVars
<1> QED BY <1>0, <1>1, <1>2, <1>3 DEF At, Final

LEMMA HandlersServe ==
  ASSUME TypeInv, TypeInv', NEW s \in Servers, NEW k \in Conns, handle_node(s, k),
         ~HandleRegister(s, k), ~HandleLeavingNode(s, k)
  PROVE  StreamsServed
<1>0. conn \in [Conns -> Stream \cup {None}]
  BY DEF TypeInv, TypeOK, NCConnectionTypeOK
<1>t. \A l \in Conns : conn'[l] \in Stream \cup {None}
  BY DEF TypeInv, TypeOK, NCConnectionTypeOK
<1>1. /\ conn[k] \in Stream /\ conn[k].step \notin Final /\ conn[k].step # "replied"
      /\ \A l \in Conns : l # k => conn'[l] = conn[l]
  BY HandlerLocal DEF Final
<1>2. \/ Drop(k)
      \/ \E message : Answer(k, [type |-> "CustomMessage", message |-> message])
      \/ \E c : Answer(k, [type |-> "Unfinished", chunk_id |-> c])
      \/ Answer(k, [type |-> "Waiting"])
      \/ Continue(k, "messages")
      \/ Continue(k, "prepare")
      \/ Continue(k, "shut_down")
      \/ \E nodes : conn' = [conn EXCEPT ![k].nodes = nodes, ![k].step = "timeout"]
  BY DEF handle_node, HandlerFails, HandleNeedsData,
         HandleUnknownNode, SendCustomMessage, NoCustomMessage, PrepareUnfinished,
         PrepareWaiting, PrepareFinished, HandleFinished, HandleHeartBeat, AcceptResult,
         RejectResult, HandleCheckHeartbeat, HeartbeatTimeout, HandleShutDown,
         HandleNewServer, HandleNodeMigrated, HandleCustomMessage
<1>3. Serves(conn[k], conn'[k])
  <2>1. CASE Drop(k)
    BY <1>0, <1>1, <2>1, DroppedServes DEF Drop
  <2>2. ASSUME NEW m, m.type \notin {"InitialData", "NewServer"}, Answer(k, m)
        PROVE  Serves(conn[k], conn'[k])
    BY <1>0, <1>1, <2>2, AnsweredServes DEF Answer
  <2>3. CASE \/ \E message : Answer(k, [type |-> "CustomMessage", message |-> message])
             \/ \E c : Answer(k, [type |-> "Unfinished", chunk_id |-> c])
             \/ Answer(k, [type |-> "Waiting"])
    BY <2>2, <2>3
  <2>4. CASE Continue(k, "messages") \/ Continue(k, "prepare") \/ Continue(k, "shut_down")
    <3>1. ASSUME NEW step, step # "replied", Continue(k, step)
          PROVE  Serves(conn[k], conn'[k])
      <4>1. conn'[k] = [conn[k] EXCEPT !.step = step]
        BY <1>0, <3>1 DEF Continue
      <4>2. conn'[k].server = conn[k].server /\ conn'[k].request = conn[k].request /\ conn'[k].step = step
        BY <1>1, <4>1, StepChanges
      <4> QED BY <1>t, <1>1, <3>1, <4>2, StepServes
    <3> QED BY <2>4, <3>1
  <2>5. ASSUME NEW nodes, conn' = [conn EXCEPT ![k].nodes = nodes, ![k].step = "timeout"]
        PROVE  Serves(conn[k], conn'[k])
    <3>1. conn'[k] = [[conn[k] EXCEPT !.nodes = nodes] EXCEPT !.step = "timeout"]
      BY <1>0, <2>5
    <3> DEFINE step == "timeout"
    <3>2. /\ conn'[k].server = conn[k].server /\ conn'[k].request = conn[k].request
          /\ conn'[k].step = step
      BY <1>1, <3>1, StepChanges
    <3> QED BY <1>t, <1>1, <3>2, StepServes
  <2> QED BY <1>2, <2>1, <2>3, <2>4, <2>5
<1> QED BY <1>1, <1>3 DEF StreamsServed, Serves

LEMMA ThreadsServe ==
  ASSUME TypeInv, TypeInv', NEW s \in Servers,
         \/ ServerMainLoop(s) \/ ServerHeartbeatThread(s) \/ \E k \in Conns : Accept(s, k)
  PROVE  StreamsServed
<1> USE DEF connVars
<1>0. conn \in [Conns -> Stream \cup {None}]
  BY DEF TypeInv, TypeOK, NCConnectionTypeOK
<1>t. \A l \in Conns : conn'[l] \in Stream \cup {None}
  BY DEF TypeInv, TypeOK, NCConnectionTypeOK
<1>1. CASE ServerHeartbeatExits(s) \/ CheckJobDone(s) \/ JoinThreads(s)
  BY <1>1 DEF ServerHeartbeatExits, CheckJobDone, JoinThreads, StreamsServed, Serves
<1>2. CASE SendCheckHeartbeat(s)
  <2>1. PICK k \in Conns : Send(k, s, [type |-> "CheckHeartbeat"], FALSE)
    BY <1>2 DEF SendCheckHeartbeat
  <2> QED BY <2>1, SendServes
<1>3. CASE FinishJob(s)
  <2>1. ASSUME NEW k \in Conns
        PROVE  Serves(conn[k], conn'[k])
    <3>1. conn'[k] = conn[k] \/ (conn[k] # None /\ conn[k].step # "replied" /\ conn'[k] = Dropped(conn[k]))
      BY <1>3 DEF FinishJob, At
    <3> QED BY <1>0, <3>1, DroppedServes DEF Serves
  <2> QED BY <2>1 DEF StreamsServed
<1>4. ASSUME NEW k \in Conns, Accept(s, k)
      PROVE  StreamsServed
  <2>1. conn[k] \in Stream /\ conn[k].step \notin Final
    BY <1>0, <1>4 DEF Accept, At, Final
  <2>2. /\ conn'[k] = [conn[k] EXCEPT !.step = "accepted"]
        /\ \A l \in Conns : l # k => conn'[l] = conn[l]
    BY <1>0, <1>4 DEF Accept, Continue
  <2>3. Serves(conn[k], conn'[k])
    <3> DEFINE step == "accepted"
    <3>1. /\ conn'[k].server = conn[k].server /\ conn'[k].request = conn[k].request
          /\ conn'[k].step = step
      BY <2>1, <2>2, StepChanges
    <3> QED BY <1>t, <2>1, <3>1, StepServes
  <2> QED BY <2>2, <2>3 DEF StreamsServed, Serves
<1> QED BY <1>1, <1>2, <1>3, <1>4 DEF ServerMainLoop, ServerHeartbeatThread

-----------------------------------------------------------------------------
(* The orders are kept by every step of a server.                          *)

LEMMA RegisterMoves ==
  ASSUME NEW home \in Servers, TypeInv, IdInv(home), MoveInv(home), TypeInv',
         NEW s \in Servers, NEW k \in Conns, HandleRegister(s, k), UNCHANGED nodeVars
  PROVE  MoveInv(home)'
<1> USE DEF MoveInv, nodeVars
<1>1. conn \in [Conns -> Stream \cup {None}] /\ node_list \in [Servers -> Seq(NCNodeInfo)]
  BY DEF TypeInv, TypeOK, NCConnectionTypeOK, NCServerTypeOK
<1>2. Registers(conn[k]) /\ conn[k] \in Stream /\ s = home
  BY <1>1 DEF HandleRegister, Received, At, Registers, IdInv, StartAtHome
<1> DEFINE reply(id) == [type |-> "InitialData", node_id |-> id]
<1>3. PICK id \in NodeIDs :
        /\ node_list' = [node_list EXCEPT ![home] = register_new_node(@, id)]
        /\ Answer(k, reply(id))
  BY <1>2 DEF HandleRegister
<1>4. Ids(node_list'[home]) = Ids(node_list[home]) \cup {id}
  BY <1>1, <1>3, EnlistedIds
<1>5. reply(id).type = "InitialData" /\ reply(id).node_id = id
  OBVIOUS
<1> HIDE DEF reply
<1>6. /\ \A l \in Conns : l # k => conn'[l] = conn[l]
      /\ conn'[k] # None => /\ conn'[k].request = conn[k].request
                            /\ conn'[k].reply = reply(id) /\ conn'[k].step = "replied"
  BY <1>1, <1>2, <1>3 DEF Answer, Answered, Stream
<1>7. /\ ~Redirects(conn'[k]) /\ ~Redirects(conn[k])
      /\ \A i : Grants(conn'[k], i) => i = id
      /\ \A i : ~OpenAsk(conn'[k], home, i)
      /\ conn'[k] # None => conn'[k].request.type # "NewServer"
  <2>1. conn[k].step = "accepted"
    BY DEF HandleRegister, Received, At
  <2> QED BY <1>2, <1>5, <1>6, <2>1 DEF Redirects, Grants, OpenAsk, Asks, Names, Registers
<1>8. UNCHANGED <<new_server, poisoned>>
  BY DEF HandleRegister
<1>9. OrdersOK'
  BY <1>6, <1>7, <1>8 DEF OrdersOK
<1>10. (\A n \in Nodes : Listed(home, n))'
  <2>1. ASSUME NEW n \in Nodes, node_loop[n] = "waiting", Redirects(conn[sock[n]])
        PROVE  Redirects(conn'[sock[n]])
    <3>1. sock[n] \in Conns
      BY <2>1 DEF TypeInv, NodeOK, AwaitsReply
    <3> QED BY <1>6, <1>7, <2>1, <3>1
  <2> QED BY <1>4, <2>1 DEF Listed
<1>11. IdsListed(home)'
  <2>1. ASSUME NEW l \in Conns, NEW i \in NodeIDs, Grants(conn'[l], i) \/ OpenAsk(conn'[l], home, i)
        PROVE  i \in Ids(node_list'[home])
    BY <1>4, <1>6, <1>7, <2>1 DEF IdsListed
  <2> QED BY <2>1 DEF IdsListed
<1> QED BY <1>8, <1>9, <1>10, <1>11 DEF Places, NeverPoisoned

(* Whoever is sent away is at home, and knows it as soon as the list does. *)
LEMMA LeavingMoves ==
  ASSUME NEW home \in Servers, MoveOnce, TypeInv, IdInv(home), MoveInv(home), TypeInv',
         NEW s \in Servers, NEW k \in Conns, HandleLeavingNode(s, k), UNCHANGED nodeVars
  PROVE  MoveInv(home)'
<1> USE DEF MoveInv, nodeVars
<1>1. conn \in [Conns -> Stream \cup {None}] /\ node_list \in [Servers -> Seq(NCNodeInfo)]
  BY DEF TypeInv, TypeOK, NCConnectionTypeOK, NCServerTypeOK
<1> DEFINE id == conn[k].request.node_id
           reply == [type |-> "NewServer", server |-> new_server[s]]
<1>2. /\ conn[k] \in Stream /\ conn[k].server = s /\ conn[k].step = "accepted"
      /\ conn[k].request.type = "NeedsData" /\ id \in NodeIDs /\ Asks(conn[k], id)
      /\ Moves(s, new_server[s])
  <2>1. conn[k] # None /\ conn[k].server = s /\ conn[k].step = "accepted"
        /\ conn[k].request.type = "NeedsData"
    BY DEF HandleLeavingNode, Received, At
  <2>2. id \in NodeIDs
    BY RequestValues DEF HandleLeavingNode
  <2> QED BY <1>1, <2>1, <2>2 DEF HandleLeavingNode, Asks, Names, WithId, OrdersOK
<1>3. reply.type = "NewServer" /\ reply.server = new_server[s]
  OBVIOUS
<1>4. Answer(k, reply) /\ UNCHANGED <<new_server, poisoned>>
  BY DEF HandleLeavingNode
<1>5. /\ \A t \in Servers : t # s => node_list'[t] = node_list[t]
      /\ Ids(node_list'[s]) \subseteq Ids(node_list[s])
      /\ Ids(node_list[s]) \subseteq Ids(node_list'[s]) \cup {id}
  <2>1. PICK i \in DOMAIN node_list[s] :
          /\ node_list[s][i].node_id = id
          /\ node_list' = [node_list EXCEPT ![s] = swap_remove(@, i)]
    BY DEF HandleLeavingNode, IsFirst
  <2> QED BY <1>1, <2>1, RemoveIds
<1> HIDE DEF id, reply
<1>6. /\ \A l \in Conns : l # k => conn'[l] = conn[l]
      /\ conn[k].open => conn'[k] # None
      /\ conn'[k] # None => /\ conn'[k].request = conn[k].request
                            /\ conn'[k].server = s
                            /\ conn'[k].reply = reply /\ conn'[k].step = "replied"
  <2>1. conn'[k] # None => /\ conn'[k].request = conn[k].request
                           /\ conn'[k].server = s
                           /\ conn'[k].reply = reply /\ conn'[k].step = "replied"
    BY <1>1, <1>2, <1>4 DEF Answer, Answered, Stream
  <2>2. reply \in NCServerMessage /\ conn[k] # None
    BY <1>1, <1>2, NCConnectionAssumption
    DEF reply, NCServerMessage, TypeInv, TypeOK, NCServerTypeOK, HandleLeavingNode
  <2>3. conn[k].open => conn'[k] # None
    BY <1>4, <2>2, AnswerProgress DEF StreamsProgress
  <2> QED BY <1>1, <1>4, <2>1, <2>3 DEF Answer
<1>7. /\ conn[k].open => Redirects(conn'[k])
      /\ ~Redirects(conn[k])
      /\ \A i : ~Grants(conn'[k], i) /\ ~OpenAsk(conn'[k], home, i)
  <2>1. conn[k].open => Redirects(conn'[k])
    BY <1>3, <1>6 DEF Redirects
  <2>2. ~Redirects(conn[k])
    BY <1>2 DEF Redirects
  <2>3. ASSUME NEW i, Grants(conn'[k], i) PROVE FALSE
    BY <1>3, <1>6, <2>3 DEF Grants
  <2>4. ASSUME NEW i, OpenAsk(conn'[k], home, i) PROVE FALSE
    BY <1>6, <2>4 DEF OpenAsk, Asks, Names, Final
  <2> QED BY <2>1, <2>2, <2>3, <2>4
<1>8. OrdersOK'
  <2>1. ASSUME NEW l \in Conns
        PROVE  /\ conn'[l] # None /\ conn'[l].request.type = "NewServer" =>
                    Moves(conn'[l].server, conn'[l].request.server)
               /\ Redirects(conn'[l]) => Moves(conn'[l].server, conn'[l].reply.server)
    <3>1. CASE l # k
      BY <1>6, <3>1 DEF OrdersOK
    <3>2. CASE l = k
      BY <1>2, <1>3, <1>6, <3>2 DEF Redirects
    <3> QED BY <3>1, <3>2
  <2> QED BY <1>4, <2>1 DEF OrdersOK
<1>9. PICK m \in Nodes :
        /\ node_id[m] = id /\ server_addr[m] = s
        /\ IF conn[k].open THEN sock[m] = k /\ node_loop[m] = "waiting"
                           ELSE node_loop[m] = "crashed"
  BY <1>2 DEF IdInv, RequestsOwned, Asks
<1>10. s = home
  BY <1>2, <1>9, NCConnectionAssumption DEF Places, MoveOnce, TypeInv, TypeOK, NCServerTypeOK, HandleLeavingNode
<1>11. ASSUME NEW n \in Nodes
       PROVE  Listed(home, n)'
  <2>1. node_loop[n] = "waiting" /\ Redirects(conn[sock[n]]) => Redirects(conn'[sock[n]])
    <3>1. node_loop[n] = "waiting" => sock[n] \in Conns
      BY DEF TypeInv, NodeOK, AwaitsReply
    <3> QED BY <1>6, <1>7, <3>1
  <2>2. CASE n = m
    BY <1>7, <1>9, <2>2 DEF Listed
  <2>3. CASE n # m
    <3>1. node_id[n] # id
      BY <1>2, <1>9, <2>3, NCMessagesAssumption DEF IdInv, OwnIds
    <3> QED BY <1>5, <1>10, <2>1, <3>1 DEF Listed
  <2> QED BY <2>2, <2>3
<1>12. IdsListed(home)'
  <2>1. ASSUME NEW l \in Conns, NEW i \in NodeIDs, Grants(conn'[l], i) \/ OpenAsk(conn'[l], home, i)
        PROVE  i \in Ids(node_list'[home])
    <3>1. l # k /\ conn'[l] = conn[l] /\ i \in Ids(node_list[home])
      BY <1>6, <1>7, <2>1 DEF IdsListed
    <3>2. i # id
      <4>1. CASE Grants(conn[l], i)
        BY <1>9, <4>1 DEF IdInv, GrantsOK
      <4>2. CASE OpenAsk(conn[l], home, i)
        BY <1>2, <3>1, <4>2 DEF IdInv, AskOnce, OpenAsk
      <4> QED BY <2>1, <3>1, <4>1, <4>2
    <3> QED BY <1>5, <1>10, <3>1, <3>2
  <2> QED BY <2>1 DEF IdsListed
<1> QED BY <1>4, <1>8, <1>11, <1>12 DEF Places, NeverPoisoned

(* No server that sends its nodes away is asked by a node it does not know *)
(* (nc_node_info.rs remove_node).                                          *)
LEMMA NobodyUnknown ==
  ASSUME NEW home \in Servers, MoveOnce, TypeInv, IdInv(home), MoveInv(home),
         NEW s \in Servers, NEW k \in Conns
  PROVE  ~HandleUnknownNode(s, k)
<1> SUFFICES ASSUME HandleUnknownNode(s, k) PROVE FALSE
  OBVIOUS
<1> DEFINE id == conn[k].request.node_id
<1>1. /\ conn[k].server = s /\ conn[k].step = "accepted" /\ Asks(conn[k], id) /\ id \in NodeIDs
      /\ Moves(s, new_server[s]) /\ id \notin Ids(node_list[s])
  <2>1. id \in NodeIDs
    BY RequestValues DEF HandleUnknownNode
  <2> QED BY <2>1 DEF HandleUnknownNode, Received, At, Asks, Names, WithId, MoveInv, OrdersOK
<1>2. \E m \in Nodes : server_addr[m] = s
  BY <1>1 DEF IdInv, RequestsOwned, Asks
<1>3. new_server[s] \in Servers
  BY DEF TypeInv, TypeOK, NCServerTypeOK, HandleUnknownNode
<1>4. s = home
  BY <1>1, <1>2, <1>3 DEF MoveInv, Places, MoveOnce
<1>5. OpenAsk(conn[k], home, id)
  BY <1>1, <1>4 DEF OpenAsk, Final
<1> QED BY <1>1, <1>4, <1>5 DEF MoveInv, IdsListed

LEMMA ServerMoves ==
  ASSUME NEW home \in Servers, MoveOnce, TypeInv, IdInv(home), MoveInv(home), TypeInv',
         ServerStep
  PROVE  MoveInv(home)'
<1>0. UNCHANGED nodeVars
  BY DEF ServerStep
<1>1. PICK s \in Servers : \/ ServerMainLoop(s) \/ ServerHeartbeatThread(s)
                           \/ \E k \in Conns : Accept(s, k) \/ handle_node(s, k)
  BY DEF ServerStep, NCServerNext
<1>2. \A t \in Servers : new_server[t] # None => Moves(t, new_server[t])
  BY DEF MoveInv, OrdersOK
<1>3. CASE ServerMainLoop(s) \/ ServerHeartbeatThread(s) \/ \E k \in Conns : Accept(s, k)
  <2>1. UNCHANGED <<node_list, new_server, poisoned>>
    BY <1>3 DEF ServerMainLoop, ServerHeartbeatThread, CheckJobDone, FinishJob, JoinThreads,
                SendCheckHeartbeat, ServerHeartbeatExits, Accept, listVars, serverVars
  <2>2. StreamsServed
    BY <1>3, ThreadsServe
  <2> QED BY <1>0, <1>2, <2>1, <2>2, ServedMoves
<1>4. ASSUME NEW k \in Conns, handle_node(s, k)
      PROVE  MoveInv(home)'
  <2>1. CASE HandleRegister(s, k) BY <1>0, <2>1, RegisterMoves
  <2>2. CASE HandleLeavingNode(s, k) BY <1>0, <2>2, LeavingMoves
  <2>3. CASE ~HandleRegister(s, k) /\ ~HandleLeavingNode(s, k)
    <3>1. StreamsServed /\ Ids(node_list[home]) \subseteq Ids(node_list'[home])
      BY <1>4, <2>3, HandlersServe, HandlersGrow DEF ListsGrow
    <3>2. CASE HandleNewServer(s, k)
      <4>1. Moves(s, conn[k].request.server)
        BY <3>2 DEF HandleNewServer, Received, At, MoveInv, OrdersOK
      <4>2. new_server \in [Servers -> Servers \cup {None}]
        BY DEF TypeInv, TypeOK, NCServerTypeOK
      <4>3. new_server' = [new_server EXCEPT ![s] = conn[k].request.server] /\ poisoned' = poisoned
        BY <3>2 DEF HandleNewServer
      <4>4. \A t \in Servers : new_server'[t] # None => Moves(t, new_server'[t])
        BY <1>2, <4>1, <4>2, <4>3
      <4> QED BY <1>0, <3>1, <4>3, <4>4, ServedMoves
    <3>3. CASE ~HandleNewServer(s, k)
      <4>1. UNCHANGED <<new_server, poisoned>>
        BY <1>4, <3>3, NobodyUnknown
        DEF handle_node, HandlerFails, HandleRegister, HandleNeedsData, HandleLeavingNode,
            SendCustomMessage, NoCustomMessage, PrepareUnfinished, PrepareWaiting,
            PrepareFinished, HandleFinished, HandleHeartBeat, AcceptResult, RejectResult,
            HandleCheckHeartbeat, HeartbeatTimeout, HandleShutDown, HandleNodeMigrated,
            HandleCustomMessage, listVars, serverVars
      <4> QED BY <1>0, <1>2, <3>1, <4>1, ServedMoves
    <3> QED BY <3>2, <3>3
  <2> QED BY <2>1, <2>2, <2>3
<1> QED BY <1>1, <1>3, <1>4

-----------------------------------------------------------------------------
(* What a node makes of the streams: one is new, or read, or abandoned.    *)
NodeTouches(home, x, y) ==
  \/ y = None
  \/ /\ x # None /\ y # None
     /\ y.server = x.server /\ y.request = x.request
     /\ y.step = x.step /\ y.reply = x.reply
  \/ /\ x = None /\ y # None
     /\ y.step = "backlog" /\ y.request.type # "NewServer"
     /\ \A id : Asks(y, id) /\ y.server = home => id \in Ids(node_list[home])

StreamsTouched(home) == \A k \in Conns : NodeTouches(home, conn[k], conn'[k])

(* The other nodes are not concerned.                                      *)
OthersStay(n) ==
  \A m \in Nodes \ {n} :
    /\ node_loop'[m] = node_loop[m] /\ node_id'[m] = node_id[m]
    /\ server_addr'[m] = server_addr[m] /\ sock'[m] = sock[m]
    /\ AwaitsReply(m) => conn'[sock[m]] = conn[sock[m]]

LEMMA NodeMoves ==
  ASSUME NEW home \in Servers, MoveInv(home), NEW n \in Nodes,
         StreamsTouched(home), OthersStay(n),
         server_addr'[n] = home \/ Moves(home, server_addr'[n]),
         node_loop'[n] = "migrating" => server_addr'[n] # home,
         Listed(home, n)',
         UNCHANGED serverVars
  PROVE  MoveInv(home)'
<1> USE DEF MoveInv, serverVars
<1>1. /\ \A k \in Conns : conn'[k] # None /\ conn'[k].request.type = "NewServer" =>
           /\ conn[k] # None /\ conn'[k].server = conn[k].server
           /\ conn'[k].request = conn[k].request
      /\ \A k \in Conns : Redirects(conn'[k]) =>
           /\ Redirects(conn[k])
           /\ conn'[k].server = conn[k].server /\ conn'[k].reply = conn[k].reply
      /\ \A k \in Conns : \A id : Grants(conn'[k], id) => Grants(conn[k], id)
      /\ \A k \in Conns : \A id : OpenAsk(conn'[k], home, id) =>
           OpenAsk(conn[k], home, id) \/ id \in Ids(node_list[home])
  BY DEF StreamsTouched, NodeTouches, Redirects, Grants, OpenAsk, Asks, Names
<1>2. OrdersOK'
  BY <1>1 DEF OrdersOK
<1>3. Places(home)'
  BY DEF Places, OthersStay
<1>4. IdsListed(home)'
  BY <1>1 DEF IdsListed
<1>5. ASSUME NEW m \in Nodes, m # n
      PROVE  Listed(home, m)'
  BY <1>5 DEF OthersStay, Listed, AwaitsReply
<1> QED BY <1>2, <1>3, <1>4, <1>5 DEF NeverPoisoned

LEMMA SendTouches ==
  ASSUME NEW home \in Servers, TypeInv, NEW k \in Conns, NEW s, NEW m, NEW open,
         Send(k, s, m, open), m.type # "NewServer",
         m.type = "NeedsData" /\ s = home => m.node_id \in Ids(node_list[home])
  PROVE  /\ StreamsTouched(home)
         /\ \A n \in Nodes : AwaitsReply(n) => conn'[sock[n]] = conn[sock[n]]
<1>1. /\ conn[k] = None
      /\ conn'[k] # None => /\ conn'[k].server = s /\ conn'[k].request = m
                            /\ conn'[k].step = "backlog"
      /\ \A l \in Conns \ {k} : conn'[l] = conn[l]
      /\ \A n \in Nodes : AwaitsReply(n) => sock[n] # k
  BY SendsStream
<1>2. NodeTouches(home, conn[k], conn'[k])
  BY <1>1 DEF NodeTouches, Asks, Names
<1>3. \A l \in Conns \ {k} : NodeTouches(home, conn[l], conn'[l])
  BY <1>1 DEF NodeTouches
<1>4. \A n \in Nodes : AwaitsReply(n) => sock[n] \in Conns
  BY DEF TypeInv, NodeOK
<1> QED BY <1>1, <1>2, <1>3, <1>4 DEF StreamsTouched

LEMMA CloseTouches ==
  ASSUME NEW home \in Servers, TypeInv, NEW n \in Nodes, AwaitsReply(n), Close(n)
  PROVE  /\ StreamsTouched(home)
         /\ \A m \in Nodes \ {n} :
              /\ sock'[m] = sock[m]
              /\ AwaitsReply(m) => conn'[sock[m]] = conn[sock[m]]
<1>1. /\ conn \in [Conns -> Stream \cup {None}] /\ sock \in [Nodes -> Conns \cup {None}]
      /\ \A m \in Nodes : AwaitsReply(m) => sock[m] \in Conns
  BY DEF TypeInv, TypeOK, NCConnectionTypeOK, NCNodeTypeOK, NodeOK
<1>2. /\ conn'[sock[n]] = None /\ \A k \in Conns : k # sock[n] => conn'[k] = conn[k]
      /\ \A m \in Nodes \ {n} : sock'[m] = sock[m]
  BY <1>1 DEF Close
<1>3. StreamsTouched(home)
  BY <1>2 DEF StreamsTouched, NodeTouches
<1>4. \A m \in Nodes \ {n} : AwaitsReply(m) => sock[m] # sock[n]
  BY DEF TypeInv, OwnStreams
<1> QED BY <1>1, <1>2, <1>3, <1>4

LEMMA CrashTouches ==
  ASSUME NEW home \in Servers, TypeInv, NEW n \in Nodes, Crash(n)
  PROVE  /\ StreamsTouched(home) /\ OthersStay(n)
         /\ node_loop'[n] = "crashed"
         /\ UNCHANGED <<server_addr, node_id, listening>>
<1>1. /\ conn \in [Conns -> Stream \cup {None}] /\ sock \in [Nodes -> Conns \cup {None}]
      /\ node_loop \in [Nodes -> {"start", "registering", "request", "waiting",
                              "working", "migrating", "exited", "failed", "crashed"}]
      /\ \A m \in Nodes : AwaitsReply(m) => sock[m] \in Conns
      /\ sock[n] # None => sock[n] \in Conns /\ AwaitsReply(n) /\ conn[sock[n]] # None
  BY DEF TypeInv, TypeOK, NCConnectionTypeOK, NCNodeTypeOK, NodeOK
<1>2. /\ node_loop'[n] = "crashed"
      /\ \A m \in Nodes \ {n} : node_loop'[m] = node_loop[m] /\ sock'[m] = sock[m]
      /\ UNCHANGED <<server_addr, node_id, listening>>
  BY <1>1 DEF Crash, Goto
<1>3. ASSUME NEW k \in Conns
      PROVE  \/ conn'[k] = conn[k]
             \/ k = sock[n] /\ sock[n] # None /\ conn'[k] = Abandoned(conn[k])
  BY <1>1 DEF Crash
<1>4. ASSUME NEW x \in Stream
      PROVE  NodeTouches(home, x, Abandoned(x))
  <2>1. Abandoned(x) # None =>
          /\ Abandoned(x).server = x.server /\ Abandoned(x).request = x.request
          /\ Abandoned(x).step = x.step /\ Abandoned(x).reply = x.reply
    BY <1>4 DEF Abandoned, Stream
  <2> QED BY <1>4, <2>1, NCConnectionAssumption DEF NodeTouches
<1>5. StreamsTouched(home)
  <2>1. ASSUME NEW k \in Conns
        PROVE  NodeTouches(home, conn[k], conn'[k])
    <3>1. CASE conn'[k] = conn[k]
      BY <3>1 DEF NodeTouches
    <3>2. CASE k = sock[n] /\ sock[n] # None /\ conn'[k] = Abandoned(conn[k])
      <4>1. conn[k] \in Stream
        BY <1>1, <3>2
      <4> QED BY <1>4, <3>2, <4>1
    <3> QED BY <1>3, <3>1, <3>2
  <2> QED BY <2>1 DEF StreamsTouched
<1>6. \A m \in Nodes \ {n} : AwaitsReply(m) => conn'[sock[m]] = conn[sock[m]]
  <2>1. ASSUME NEW m \in Nodes \ {n}, AwaitsReply(m)
        PROVE  conn'[sock[m]] = conn[sock[m]]
    <3>1. sock[m] \in Conns /\ (sock[m] = sock[n] => sock[n] = None)
      BY <1>1, <2>1 DEF TypeInv, OwnStreams
    <3> QED BY <1>3, <3>1
  <2> QED BY <2>1
<1> QED BY <1>2, <1>5, <1>6 DEF OthersStay

(* The orders are kept by every step of a node.                            *)
LEMMA MainThreadMoves ==
  ASSUME NEW home \in Servers, MoveOnce, TypeInv, IdInv(home), MoveInv(home), TypeInv',
         NEW n \in Nodes, main_thread(n), UNCHANGED serverVars
  PROVE  MoveInv(home)'
<1> USE DEF hbVars
<1>0. /\ node_loop \in [Nodes -> {"start", "registering", "request", "waiting",
                              "working", "migrating", "exited", "failed", "crashed"}]
      /\ node_id \in [Nodes -> NodeIDs \cup {None}]
      /\ server_addr \in [Nodes -> Servers]
      /\ sock \in [Nodes -> Conns \cup {None}]
  BY DEF TypeInv, TypeOK, NCNodeTypeOK
<1>1. /\ server_addr[n] = home \/ Moves(home, server_addr[n])
      /\ node_loop[n] = "migrating" => server_addr[n] # home
      /\ Listed(home, n)
  BY DEF MoveInv, Places
<1>2. node_list' = node_list
  BY DEF serverVars
<1>3. CASE SendRegister(n)
  <2> DEFINE request == [type |-> "Register"]
  <2>1. PICK k \in Conns : /\ Send(k, server_addr[n], request, TRUE)
                           /\ sock' = [sock EXCEPT ![n] = k]
    BY <1>3 DEF SendRegister, SendAndWait
  <2>2. request.type = "Register"
    OBVIOUS
  <2> HIDE DEF request
  <2>3. /\ StreamsTouched(home)
        /\ \A m \in Nodes : AwaitsReply(m) => conn'[sock[m]] = conn[sock[m]]
    BY <2>1, <2>2, SendTouches
  <2>4. node_loop' = [node_loop EXCEPT ![n] = "registering"] /\ UNCHANGED <<node_id, server_addr>>
    BY <1>3 DEF SendRegister, Goto
  <2>5. OthersStay(n)
    BY <1>0, <2>1, <2>3, <2>4 DEF OthersStay
  <2>6. Listed(home, n)' /\ node_loop'[n] = "registering"
    BY <1>0, <2>4 DEF Listed
  <2> QED BY <1>1, <2>3, <2>4, <2>5, <2>6, NodeMoves
<1>4. CASE GetInitialData(n)
  <2>1. AwaitsReply(n) /\ Close(n) /\ node_loop[n] = "registering"
    BY <1>4 DEF AwaitsReply, GetInitialData
  <2>2. /\ node_loop' = [node_loop EXCEPT ![n] = "request"]
        /\ node_id' = [node_id EXCEPT ![n] = conn[sock[n]].reply.node_id]
        /\ UNCHANGED server_addr
    BY <1>4 DEF GetInitialData, Goto
  <2>3. node_id'[n] \in NodeIDs /\ Grants(conn[sock[n]], node_id'[n]) /\ sock[n] \in Conns
    <3>1. conn[sock[n]] # None /\ sock[n] \in Conns
      BY <2>1 DEF TypeInv, NodeOK
    <3> QED BY <1>0, <1>4, <2>1, <2>2, <3>1, ReplyValues DEF GetInitialData, Replied, Grants
  <2>4. node_id'[n] \in Ids(node_list[home])
    BY <2>3 DEF MoveInv, IdsListed
  <2>5. StreamsTouched(home) /\ OthersStay(n)
    BY <1>0, <2>1, <2>2, CloseTouches DEF OthersStay
  <2>6. Listed(home, n)' /\ node_loop'[n] = "request"
    BY <1>0, <1>2, <2>2, <2>4 DEF Listed
  <2> QED BY <1>1, <2>2, <2>5, <2>6, NodeMoves
<1>5. CASE SendNeedsData(n)
  <2> DEFINE request == [type |-> "NeedsData", node_id |-> node_id[n]]
  <2>1. PICK k \in Conns : /\ Send(k, server_addr[n], request, TRUE)
                           /\ sock' = [sock EXCEPT ![n] = k]
    BY <1>5 DEF SendNeedsData, SendAndWait
  <2>2. request.type = "NeedsData" /\ request.node_id = node_id[n]
    OBVIOUS
  <2> HIDE DEF request
  <2>3. node_loop[n] = "request"
    BY <1>5 DEF SendNeedsData
  <2>4. server_addr[n] = home => node_id[n] \in Ids(node_list[home])
    BY <1>1, <2>3 DEF Listed
  <2>5. /\ StreamsTouched(home)
        /\ \A m \in Nodes : AwaitsReply(m) => conn'[sock[m]] = conn[sock[m]]
    BY <2>1, <2>2, <2>4, SendTouches
  <2>6. node_loop' = [node_loop EXCEPT ![n] = "waiting"] /\ UNCHANGED <<node_id, server_addr>>
    BY <1>5 DEF SendNeedsData, Goto
  <2>7. OthersStay(n)
    BY <1>0, <2>1, <2>5, <2>6 DEF OthersStay
  <2>8. Listed(home, n)' /\ node_loop'[n] = "waiting"
    BY <1>0, <1>2, <2>4, <2>6 DEF Listed
  <2> QED BY <1>1, <2>5, <2>6, <2>7, <2>8, NodeMoves
<1>6. CASE RegisterLost(n) \/ NeedsDataLost(n) \/ GetUnfinished(n) \/ GetNoWork(n)
  <2>1. AwaitsReply(n) /\ Close(n)
    BY <1>6 DEF AwaitsReply, RegisterLost, NeedsDataLost, GetUnfinished, GetNoWork
  <2>2. PICK place \in {"request", "working", "exited", "failed"} : Goto(n, place)
    BY <1>6, RoundFailsTypes, NextRoundTypes
    DEF RegisterLost, NeedsDataLost, GetUnfinished, GetNoWork
  <2>3. UNCHANGED <<node_id, server_addr>>
    BY <1>6 DEF RegisterLost, NeedsDataLost, GetUnfinished, GetNoWork
  <2>4. place \in {"request", "working"} => node_loop[n] = "waiting" /\ ~Redirects(conn[sock[n]])
    BY <1>6, <1>0, <2>2
    DEF RegisterLost, NeedsDataLost, GetUnfinished, GetNoWork, Redirects, Replied, StreamLost, Goto
  <2>5. StreamsTouched(home) /\ OthersStay(n)
    BY <1>0, <2>1, <2>2, <2>3, CloseTouches DEF OthersStay, Goto
  <2>6. Listed(home, n)' /\ node_loop'[n] = place
    BY <1>0, <1>1, <1>2, <2>2, <2>3, <2>4 DEF Listed, Goto
  <2> QED BY <1>1, <2>2, <2>3, <2>5, <2>6, NodeMoves
<1>7. CASE GetNewServer(n)
  <2>1. AwaitsReply(n) /\ Close(n) /\ node_loop[n] = "waiting"
    BY <1>7 DEF AwaitsReply, GetNewServer
  <2> DEFINE t == conn[sock[n]].reply.server
  <2>2. /\ node_loop' = [node_loop EXCEPT ![n] = "migrating"]
        /\ server_addr' = [server_addr EXCEPT ![n] = t]
        /\ UNCHANGED node_id
    BY <1>7 DEF GetNewServer, Goto
  <2>3. t \in Servers /\ Redirects(conn[sock[n]]) /\ sock[n] \in Conns
    <3>1. conn[sock[n]] # None /\ sock[n] \in Conns
      BY <2>1 DEF TypeInv, NodeOK
    <3> QED BY <1>7, <2>1, <3>1, ReplyValues DEF GetNewServer, Replied, Redirects
  <2>4. Moves(server_addr[n], t)
    BY <2>1, <2>3 DEF MoveInv, OrdersOK, IdInv, Waits
  <2> HIDE DEF t
  <2>5. Moves(home, t) /\ t # home
    <3>1. server_addr[n] = home
      BY <1>0, <1>1, <2>3, <2>4 DEF MoveOnce
    <3> QED BY <2>3, <2>4, <3>1 DEF MoveOnce
  <2>6. StreamsTouched(home) /\ OthersStay(n)
    BY <1>0, <2>1, <2>2, CloseTouches DEF OthersStay
  <2>7. Listed(home, n)' /\ node_loop'[n] = "migrating" /\ server_addr'[n] = t
    BY <1>0, <2>2 DEF Listed
  <2> QED BY <2>5, <2>6, <2>7, NodeMoves
<1>8. CASE SendNodeMigrated(n) \/ SendHasData(n)
  <2>1. PICK k \in Conns, m \in NCNodeMessage :
          /\ m.type \in {"NodeMigrated", "HasData"}
          /\ Send(k, server_addr[n], m, FALSE)
    <3>1. CASE SendNodeMigrated(n)
      <4>1. [type |-> "NodeMigrated", node_id |-> node_id[n]] \in NCNodeMessage
        BY <3>1 DEF SendNodeMigrated, TypeInv, NodeOK, NCNodeMessage
      <4> QED BY <3>1, <4>1 DEF SendNodeMigrated
    <3>2. CASE SendHasData(n)
      <4>1. [type |-> "HasData", node_id |-> node_id[n], chunk_id |-> work[n]] \in NCNodeMessage
        BY <3>2 DEF SendHasData, TypeInv, NodeOK, NCNodeMessage
      <4> QED BY <3>2, <4>1 DEF SendHasData
    <3> QED BY <1>8, <3>1, <3>2
  <2>2. /\ StreamsTouched(home)
        /\ \A p \in Nodes : AwaitsReply(p) => conn'[sock[p]] = conn[sock[p]]
    <3> DEFINE no == FALSE
    <3>1. Send(k, server_addr[n], m, no)
      BY <2>1
    <3> HIDE DEF no
    <3> QED BY <2>1, <3>1, SendTouches
  <2>3. /\ Goto(n, "request") /\ node_loop[n] \in {"migrating", "working"}
        /\ UNCHANGED <<node_id, server_addr, sock>>
    BY <1>8, NextRoundTypes DEF SendNodeMigrated, SendHasData
  <2>4. OthersStay(n)
    BY <1>0, <2>2, <2>3 DEF OthersStay, Goto
  <2>5. Listed(home, n)' /\ node_loop'[n] = "request"
    BY <1>0, <1>1, <1>2, <2>3 DEF Listed, Goto
  <2> QED BY <1>1, <2>2, <2>3, <2>4, <2>5, NodeMoves
<1> QED BY <1>3, <1>4, <1>5, <1>6, <1>7, <1>8 DEF main_thread

LEMMA OtherThreadMoves ==
  ASSUME NEW home \in Servers, TypeInv, IdInv(home), MoveInv(home), TypeInv', NEW n \in Nodes,
         MainThreadRefused(n) \/ HeartBeat(n) \/ HeartBeatRefused(n) \/ Crash(n),
         UNCHANGED serverVars
  PROVE  MoveInv(home)'
<1> USE DEF hbVars, connVars
<1>0. /\ node_loop \in [Nodes -> {"start", "registering", "request", "waiting",
                              "working", "migrating", "exited", "failed", "crashed"}]
      /\ sock \in [Nodes -> Conns \cup {None}]
      /\ AwaitsReply(n) => sock[n] \in Conns
  BY DEF TypeInv, TypeOK, NCNodeTypeOK, NodeOK
<1>1. /\ server_addr[n] = home \/ Moves(home, server_addr[n])
      /\ node_loop[n] = "migrating" => server_addr[n] # home
      /\ Listed(home, n)
  BY DEF MoveInv, Places
<1>2. node_list' = node_list
  BY DEF serverVars
<1>3. CASE MainThreadRefused(n)
  <2>1. /\ node_loop[n] \in {"start", "request", "migrating", "working"}
        /\ \E place \in {"request", "exited", "failed"} :
             Goto(n, place) /\ (place = "request" => node_loop[n] # "start")
        /\ UNCHANGED <<conn, sock, server_addr, node_id>>
    BY <1>3, RoundFailsTypes
    DEF MainThreadRefused, RegisterRefused, NeedsDataRefused, NodeMigratedRefused, WorkFails
  <2>2. StreamsTouched(home)
    BY <2>1 DEF StreamsTouched, NodeTouches
  <2>3. OthersStay(n)
    BY <1>0, <2>1 DEF OthersStay, Goto
  <2>4. Listed(home, n)' /\ node_loop'[n] # "migrating"
    BY <1>0, <1>1, <1>2, <2>1 DEF Listed, Goto
  <2> QED BY <1>1, <2>1, <2>2, <2>3, <2>4, NodeMoves
<1>4. CASE HeartBeat(n)
  <2> DEFINE request == [type |-> "HeartBeat", node_id |-> node_id[n]]
             no == FALSE
  <2>1. \E k \in Conns : Send(k, server_addr[n], request, no)
    BY <1>4 DEF HeartBeat
  <2>2. request.type = "HeartBeat"
    OBVIOUS
  <2> HIDE DEF request, no
  <2>3. /\ StreamsTouched(home)
        /\ \A m \in Nodes : AwaitsReply(m) => conn'[sock[m]] = conn[sock[m]]
    BY <2>1, <2>2, SendTouches
  <2>4. UNCHANGED <<node_loop, node_id, server_addr, sock>>
    BY <1>4 DEF HeartBeat
  <2>5. OthersStay(n)
    BY <2>3, <2>4 DEF OthersStay
  <2>6. Listed(home, n)'
    BY <1>1, <1>2, <2>3, <2>4 DEF Listed, AwaitsReply
  <2> QED BY <1>1, <2>3, <2>4, <2>5, <2>6, NodeMoves
<1>5. CASE HeartBeatRefused(n)
  <2>1. UNCHANGED <<node_loop, node_id, server_addr, sock, conn>>
    BY <1>5 DEF HeartBeatRefused
  <2>2. StreamsTouched(home) /\ OthersStay(n)
    BY <2>1 DEF StreamsTouched, NodeTouches, OthersStay
  <2>3. Listed(home, n)'
    BY <1>1, <1>2, <2>1 DEF Listed
  <2> QED BY <1>1, <2>1, <2>2, <2>3, NodeMoves
<1>6. CASE Crash(n)
  <2>1. StreamsTouched(home) /\ OthersStay(n) /\ node_loop'[n] = "crashed" /\ server_addr' = server_addr
    BY <1>6, CrashTouches
  <2>2. Listed(home, n)'
    BY <2>1 DEF Listed
  <2> QED BY <1>1, <2>1, <2>2, NodeMoves
<1> QED BY <1>3, <1>4, <1>5, <1>6

-----------------------------------------------------------------------------
(* The environment's steps, and the theorem.                               *)
LEMMA NothingServed ==
  ASSUME NEW home \in Servers, TypeInv, MoveInv(home), TypeInv',
         UNCHANGED <<conn, new_server, poisoned, nodeVars>>,
         Ids(node_list[home]) \subseteq Ids(node_list'[home])
  PROVE  MoveInv(home)'
<1>1. StreamsServed
  <2>1. \A k \in Conns : conn[k] \in Stream \cup {None}
    BY DEF TypeInv, TypeOK, NCConnectionTypeOK
  <2> QED BY <2>1 DEF StreamsServed, Serves
<1>2. \A s \in Servers : new_server'[s] # None => Moves(s, new_server'[s])
  BY DEF MoveInv, OrdersOK
<1> QED BY <1>1, <1>2, ServedMoves

LEMMA ExpireMoves ==
  ASSUME NEW home \in Servers, TypeInv, MoveInv(home), TypeInv',
         NEW s \in Servers, NEW id \in NodeIDs, Expire(s, id)
  PROVE  MoveInv(home)'
<1>1. node_list \in [Servers -> Seq(NCNodeInfo)]
  BY DEF TypeInv, TypeOK, NCServerTypeOK
<1>2. PICK i \in DOMAIN node_list[s] : node_list' = [node_list EXCEPT ![s][i].stale = TRUE]
  BY DEF Expire
<1> DEFINE new == [node_list[s] EXCEPT ![i].stale = TRUE]
<1>3. node_list' = [node_list EXCEPT ![s] = new]
  BY <1>1, <1>2
<1>4. Ids(new) = Ids(node_list[s])
  BY <1>1, <1>2, ExpireIds
<1> HIDE DEF new
<1>5. Ids(node_list[home]) \subseteq Ids(node_list'[home])
  BY <1>1, <1>3, <1>4
<1>6. UNCHANGED <<conn, new_server, poisoned, nodeVars>>
  BY DEF Expire, connVars
<1> QED BY <1>5, <1>6, NothingServed

LEMMA OperatorMoves ==
  ASSUME NEW home \in Servers, OneHome(home), TypeInv, MoveInv(home), TypeInv', OperatorSends
  PROVE  MoveInv(home)'
<1> USE DEF MoveInv, nodeVars, serverVars
<1>1. PICK k \in Conns, r \in AdminRequests : Send(k, r[1], r[2], FALSE)
  BY DEF OperatorSends
<1> DEFINE s == r[1]
           m == r[2]
           no == FALSE
<1>2. m.type \in OperatorRequests /\ Send(k, s, m, no)
  BY <1>1 DEF OneHome
<1>3. m.type = "NewServer" => Moves(s, m.server)
  BY DEF Moves
<1> HIDE DEF s, m, no
<1>4. /\ conn[k] = None
      /\ conn'[k] # None => /\ conn'[k].server = s /\ conn'[k].request = m
                            /\ conn'[k].step = "backlog"
      /\ \A l \in Conns \ {k} : conn'[l] = conn[l]
      /\ \A n \in Nodes : AwaitsReply(n) => sock[n] # k
  BY <1>2, SendsStream
<1>5. /\ \A id : ~Grants(conn'[k], id) /\ ~OpenAsk(conn'[k], home, id)
      /\ ~Redirects(conn'[k])
  BY <1>2, <1>4 DEF Grants, OpenAsk, Asks, Names, Redirects, OperatorRequests
<1>6. UNCHANGED <<serverVars, nodeVars>>
  BY DEF OperatorSends
<1>7. OrdersOK'
  <2>1. \A l \in Conns : conn'[l] # None /\ conn'[l].request.type = "NewServer" =>
          Moves(conn'[l].server, conn'[l].request.server)
    BY <1>3, <1>4 DEF OrdersOK
  <2>2. \A l \in Conns : Redirects(conn'[l]) => Moves(conn'[l].server, conn'[l].reply.server)
    BY <1>4, <1>5 DEF OrdersOK
  <2> QED BY <1>6, <2>1, <2>2 DEF OrdersOK
<1>8. Places(home)'
  BY <1>6 DEF Places
<1>9. (\A n \in Nodes : Listed(home, n))'
  <2>1. ASSUME NEW n \in Nodes, node_loop[n] = "waiting", Redirects(conn[sock[n]])
        PROVE  Redirects(conn'[sock[n]])
    <3>1. AwaitsReply(n) /\ sock[n] \in Conns
      BY <2>1 DEF TypeInv, NodeOK, AwaitsReply
    <3> QED BY <1>4, <2>1, <3>1
  <2> QED BY <1>6, <2>1 DEF Listed
<1>10. IdsListed(home)'
  BY <1>4, <1>5, <1>6 DEF IdsListed
<1> QED BY <1>6, <1>7, <1>8, <1>9, <1>10 DEF NeverPoisoned

LEMMA NextMoves ==
  ASSUME NEW home \in Servers, OneHome(home), MoveOnce, "lose" \notin Events,
         TypeInv, IdInv(home), MoveInv(home), TypeInv', [Next]_vars
  PROVE  MoveInv(home)'
<1>1. CASE ServerStep BY <1>1, ServerMoves
<1>2. CASE NodeStep
  <2>1. UNCHANGED serverVars
    BY <1>2 DEF NodeStep
  <2>2. PICK n \in Nodes : main_thread(n) \/ MainThreadRefused(n) \/ HeartBeat(n) \/ HeartBeatRefused(n)
    BY <1>2 DEF NodeStep, NCNodeNext, NodeMainLoop, NodeHeartbeatThread
  <2> QED BY <2>1, <2>2, MainThreadMoves, OtherThreadMoves
<1>3. CASE (\E s \in Servers : HeartbeatExpires(s)) \/ HeartbeatLate
  BY <1>3, ExpireMoves DEF HeartbeatExpires, HeartbeatLate
<1>4. CASE NodeCrashes
  BY <1>4, OtherThreadMoves DEF NodeCrashes
<1>5. CASE StreamBreaks
  BY <1>5 DEF StreamBreaks, Event
<1>6. CASE ConnectRefused
  BY <1>6, OtherThreadMoves DEF ConnectRefused
<1>7. CASE ProcessDataFails
  BY <1>7, OtherThreadMoves DEF ProcessDataFails, MainThreadRefused
<1>8. CASE OperatorSends
  BY <1>8, OperatorMoves
<1>9. CASE UNCHANGED vars
  <2>1. UNCHANGED <<conn, new_server, poisoned, nodeVars, node_list>>
    BY <1>9 DEF vars, connVars, serverVars
  <2> QED BY <2>1, NothingServed
<1>10. CASE CheckRefused
  <2>1. UNCHANGED <<conn, new_server, poisoned, nodeVars, node_list>>
    BY <1>10 DEF CheckRefused, ServerHeartbeatExits, connVars, listVars
  <2> QED BY <2>1, NothingServed
<1> QED BY <1>1, <1>2, <1>3, <1>4, <1>5, <1>6, <1>7, <1>8, <1>9, <1>10 DEF Next, Terminated

LEMMA InitMoves ==
  ASSUME NEW home \in Servers, OneHome(home), Init
  PROVE  MoveInv(home)
<1>1. \A k \in Conns : conn[k] = None
  BY DEF Init, NCConnectionInit
<1>2. \A n \in Nodes : node_loop[n] = "start" /\ server_addr[n] = home
  BY DEF Init, NCNodeInit, OneHome
<1>3. \A s \in Servers : new_server[s] = None /\ ~poisoned[s]
  BY DEF Init, NCServerInit
<1>4. OrdersOK
  BY <1>1, <1>3 DEF OrdersOK, Redirects
<1>5. Places(home) /\ \A n \in Nodes : Listed(home, n)
  BY <1>2 DEF Places, Listed
<1>6. IdsListed(home)
  BY <1>1 DEF IdsListed, Grants, OpenAsk, Asks, Names
<1> QED BY <1>3, <1>4, <1>5, <1>6 DEF MoveInv, NeverPoisoned

LEMMA MovesKept ==
  ASSUME NEW home \in Servers, OneHome(home), MoveOnce, "lose" \notin Events
  PROVE  Spec => [](TypeInv /\ IdInv(home) /\ MoveInv(home))
<1>1. Init => TypeInv /\ IdInv(home) /\ MoveInv(home)
  BY InitTypes, InitIds, InitMoves
<1>2. TypeInv /\ IdInv(home) /\ MoveInv(home) /\ [Next]_vars =>
        (TypeInv /\ IdInv(home) /\ MoveInv(home))'
  BY NextTypes, NextKeepsIds, NextMoves
<1> QED BY <1>1, <1>2, PTL DEF Spec

(* No node that asks a server that sends its nodes away is missing from    *)
(* its list: remove_node() never panics (nc_node_info.rs), however often   *)
(* and whenever operators send the order, nodes crash or come late, as     *)
(* long as all nodes start at one server, no operator sends them on from a *)
(* server they are sent to, and no message is lost.                        *)
THEOREM NeverPoisonedHolds ==
  ASSUME NEW home \in Servers, OneHome(home), MoveOnce, "lose" \notin Events
  PROVE  Spec => []NeverPoisoned
<1>1. MoveInv(home) => NeverPoisoned
  BY DEF MoveInv
<1> QED BY <1>1, MovesKept, PTL

-----------------------------------------------------------------------------
(* Why no chunk is stranded.                                               *)

AsksKept ==
  \A k \in Conns, id \in NodeIDs : Asks(conn'[k], id) =>
    Asks(conn[k], id) /\ conn'[k].server = conn[k].server

(* At home only the ids of nodes that ask are struck off.                  *)
KnownKept(home) ==
  \A s \in Servers, id \in NodeIDs :
    /\ listening'[s]
    /\ Known(s, id)
    /\ s = home => \A k \in Conns : ~Asks(conn[k], id)
    => Known(s, id)'

ChunksKept ==
  \A s \in Servers, c \in ChunkIdx :
    chunk_list'[s][c].status = "Processing" => chunk_list'[s][c] = chunk_list[s][c]

WorkKept ==
  \A s \in Servers, c \in ChunkIdx, id \in NodeIDs :
    /\ listening'[s]
    /\ chunk_list[s][c].status = "Processing" /\ chunk_list[s][c].node_id = id
    /\ chunk_list'[s][c] = chunk_list[s][c]
    /\ UnderWay(s, c, id)
    => UnderWay(s, c, id)' \/ Lost(s, id)'

StillListening == \A s \in Servers : listening'[s] => listening[s]

LEMMA KnownAwayKept ==
  ASSUME NEW home \in Servers, TypeInv, KnownAway(home), KnownKept(home), AsksKept,
         StillListening, UNCHANGED nodeVars
  PROVE  KnownAway(home)'
<1> USE DEF nodeVars
<1>1. ASSUME NEW n \in Nodes, node_loop[n] \in {"request", "waiting", "working"},
             server_addr[n] # home, listening'[server_addr[n]]
      PROVE  Known(server_addr[n], node_id[n])'
  <2>1. server_addr[n] \in Servers /\ node_id[n] \in NodeIDs
    BY <1>1 DEF TypeInv, TypeOK, NCNodeTypeOK, NodeOK
  <2>2. PICK s \in Servers, id \in NodeIDs : s = server_addr[n] /\ id = node_id[n]
    BY <2>1
  <2>3. Known(s, id)
    BY <1>1, <2>2 DEF KnownAway, StillListening
  <2>4. Known(s, id)'
    BY <1>1, <2>2, <2>3 DEF KnownKept
  <2> QED BY <2>2, <2>4
<1>2. ASSUME NEW k \in Conns, NEW id \in NodeIDs,
             Asks(conn'[k], id), conn'[k].server # home, listening'[conn'[k].server]
      PROVE  Known(conn[k].server, id)'
  <2>1. /\ Asks(conn[k], id) /\ conn'[k].server = conn[k].server
        /\ conn[k].server \in Servers
    BY <1>2 DEF AsksKept, Asks, Names, TypeInv, TypeOK, NCConnectionTypeOK, Stream
  <2>2. PICK s \in Servers : s = conn[k].server
    BY <2>1
  <2>3. Known(s, id)
    BY <1>2, <2>1, <2>2 DEF KnownAway, StillListening
  <2>4. Known(s, id)'
    BY <1>2, <2>1, <2>2, <2>3 DEF KnownKept
  <2>5. s = conn'[k].server
    BY <2>1, <2>2
  <2> QED BY <2>4, <2>5
<1> QED BY <1>1, <1>2 DEF KnownAway

LostKept ==
  \A s \in Servers, id \in NodeIDs : listening'[s] /\ Lost(s, id) => Lost(s, id)'

LEMMA LostIsKept ==
  ASSUME NEW home \in Servers, KnownKept(home), AsksKept, UNCHANGED nodeVars
  PROVE  LostKept
<1> USE DEF nodeVars
<1> SUFFICES ASSUME NEW s \in Servers, NEW id \in NodeIDs, listening'[s], Lost(s, id)
             PROVE  Lost(s, id)'
  BY DEF LostKept
<1>1. Known(s, id)'
  BY DEF KnownKept, Lost
<1>2. \A k \in Conns : ~Asks(conn'[k], id)
  BY DEF AsksKept, Lost
<1> QED BY <1>1, <1>2 DEF Lost

LEMMA ChunkKept ==
  ASSUME NEW home \in Servers, StrandInv(home), LostKept, WorkKept, StillListening,
         NEW s \in Servers, NEW c \in ChunkIdx, listening'[s],
         chunk_list'[s][c].status = "Processing", chunk_list'[s][c] = chunk_list[s][c]
  PROVE  /\ chunk_list'[s][c].node_id \in NodeIDs
         /\ \/ UnderWay(s, c, chunk_list[s][c].node_id)'
            \/ Lost(s, chunk_list[s][c].node_id)'
<1>1. /\ chunk_list[s][c].node_id \in NodeIDs
      /\ \/ UnderWay(s, c, chunk_list[s][c].node_id)
         \/ Lost(s, chunk_list[s][c].node_id)
  BY DEF StrandInv, ChunksAccounted, StillListening
<1>2. PICK id \in NodeIDs : id = chunk_list[s][c].node_id
  BY <1>1
<1>3. id = chunk_list'[s][c].node_id
  BY <1>2
<1>4. CASE UnderWay(s, c, id)
  <2>1. UnderWay(s, c, id)' \/ Lost(s, id)'
    BY <1>2, <1>4 DEF WorkKept
  <2> QED BY <1>3, <2>1
<1>5. CASE Lost(s, id)
  <2>1. Lost(s, id)'
    BY <1>5 DEF LostKept
  <2> QED BY <1>3, <2>1
<1> QED BY <1>1, <1>2, <1>4, <1>5

LEMMA AccountedKept ==
  ASSUME NEW home \in Servers, StrandInv(home), LostKept, WorkKept, StillListening, ChunksKept
  PROVE  ChunksAccounted'
<1>1. ASSUME NEW s \in Servers, NEW c \in ChunkIdx,
             listening'[s], chunk_list'[s][c].status = "Processing"
      PROVE  /\ chunk_list'[s][c].node_id \in NodeIDs
             /\ \/ UnderWay(s, c, chunk_list[s][c].node_id)'
                \/ Lost(s, chunk_list[s][c].node_id)'
  BY <1>1, ChunkKept DEF ChunksKept
<1> QED BY <1>1 DEF ChunksAccounted

LEMMA StrandKept ==
  ASSUME NEW home \in Servers, TypeInv, StrandInv(home), KnownKept(home), AsksKept,
         ChunksKept, WorkKept, StillListening, UNCHANGED nodeVars
  PROVE  StrandInv(home)'
<1>1. KnownAway(home)'
  BY KnownAwayKept DEF StrandInv
<1>2. ChunksAccounted'
  BY LostIsKept, AccountedKept
<1> QED BY <1>1, <1>2 DEF StrandInv

(* A stream that holds something still has it after the step.              *)
CarriesNews(x, y) ==
  /\ x # None /\ x.step \in {"backlog", "accepted"} /\ x.request.type = "NodeMigrated"
  => y # None /\ y.server = x.server /\ y.request = x.request /\ y.step \in {"backlog", "accepted"}

CarriesWork(x, y) ==
  /\ x # None /\ x.step = "replied" => y = x
  /\ x # None /\ x.step \in {"backlog", "accepted"} /\ x.request.type = "HasData" =>
       y # None /\ y.server = x.server /\ y.request = x.request /\ y.step \in {"backlog", "accepted"}

NewsCarried ==
  \A k \in Conns : conn[k] # None /\ listening'[conn[k].server] => CarriesNews(conn[k], conn'[k])

WorkCarried ==
  \A k \in Conns : conn[k] # None /\ listening'[conn[k].server] => CarriesWork(conn[k], conn'[k])

LEMMA NewsKept ==
  ASSUME NEW home, NewsCarried, ListsGrow
  PROVE  KnownKept(home)
<1> SUFFICES ASSUME NEW s \in Servers, NEW id \in NodeIDs, listening'[s], Known(s, id)
             PROVE  Known(s, id)'
  BY DEF KnownKept
<1>1. CASE id \in Ids(node_list[s])
  BY <1>1 DEF ListsGrow, Known
<1>2. ASSUME NEW k \in Conns, Unread(conn[k], s, MigratedFrom(id))
      PROVE  Known(s, id)'
  <2>1. conn[k].request.type = "NodeMigrated"
    BY <1>2 DEF Unread, MigratedFrom
  <2>2. Unread(conn'[k], s, MigratedFrom(id))
    BY <1>2, <2>1 DEF NewsCarried, CarriesNews, Unread
  <2> QED BY <2>2 DEF Known
<1> QED BY <1>1, <1>2 DEF Known

(* The streams on which work is under way.                                 *)
Delivers(x, s, c, id) ==
  \/ /\ x # None /\ x.server = s /\ x.step = "replied"
     /\ x.request = NeedsDataFrom(id)
     /\ x.reply = [type |-> "Unfinished", chunk_id |-> c]
  \/ Unread(x, s, ResultFrom(id, c))

LEMMA UnderWayMeans ==
  ASSUME NEW s, NEW c, NEW id
  PROVE  UnderWay(s, c, id) <=>
           \/ \E n \in Nodes : node_id[n] = id /\ server_addr[n] = s /\ work[n] = c
           \/ \E k \in Conns : Delivers(conn[k], s, c, id)
BY DEF UnderWay, Delivers, Unread, NeedsDataFrom, ResultFrom

LEMMA StillUnderWay ==
  ASSUME NEW s, NEW c, NEW id, NEW k \in Conns, Delivers(conn'[k], s, c, id)
  PROVE  UnderWay(s, c, id)'
BY DEF UnderWay, Delivers, Unread, NeedsDataFrom, ResultFrom

LEMMA CarriedDelivers ==
  ASSUME NEW x, NEW y, CarriesWork(x, y), NEW s, NEW c, NEW id, Delivers(x, s, c, id)
  PROVE  Delivers(y, s, c, id)
<1>1. Unread(x, s, ResultFrom(id, c)) => x.request.type = "HasData"
  BY DEF Unread, ResultFrom
<1> QED BY <1>1 DEF CarriesWork, Delivers, Unread

LEMMA WorkIsKept ==
  ASSUME WorkCarried, UNCHANGED nodeVars
  PROVE  WorkKept
<1> USE DEF nodeVars
<1> SUFFICES ASSUME NEW s \in Servers, NEW c \in ChunkIdx, NEW id \in NodeIDs, listening'[s],
                    UnderWay(s, c, id)
             PROVE  UnderWay(s, c, id)'
  BY DEF WorkKept
<1>1. ASSUME NEW n \in Nodes, node_id[n] = id, server_addr[n] = s, work[n] = c
      PROVE  UnderWay(s, c, id)'
  BY <1>1 DEF UnderWay
<1>2. ASSUME NEW k \in Conns, Delivers(conn[k], s, c, id)
      PROVE  UnderWay(s, c, id)'
  <2>1. conn[k] # None /\ conn[k].server = s
    BY <1>2 DEF Delivers, Unread
  <2>2. Delivers(conn'[k], s, c, id)
    BY <1>2, <2>1, CarriedDelivers DEF WorkCarried
  <2> QED BY <2>2, StillUnderWay
<1> QED BY <1>1, <1>2, UnderWayMeans

LEMMA AdvanceAsks == ASSUME StreamsAdvance PROVE AsksKept
<1>1. ASSUME NEW k \in Conns, NEW id \in NodeIDs, Asks(conn'[k], id)
      PROVE  Asks(conn[k], id) /\ conn'[k].server = conn[k].server
  <2>1. Advances(conn[k], conn'[k])
    BY DEF StreamsAdvance
  <2>2. Names(conn'[k], id)
    BY <1>1 DEF Asks
  <2> QED BY <1>1, <2>1, <2>2, AdvanceFacts
<1> QED BY <1>1 DEF AsksKept

(* The accept loop and the heartbeat thread of a server.                   *)
LEMMA ThreadsCarry ==
  ASSUME TypeInv, NEW s \in Servers,
         \/ ServerMainLoop(s) \/ ServerHeartbeatThread(s) \/ \E k \in Conns : Accept(s, k)
  PROVE  NewsCarried /\ WorkCarried /\ StillListening
<1> USE DEF connVars
<1>0. conn \in [Conns -> Stream \cup {None}] /\ listening \in [Servers -> BOOLEAN]
  BY DEF TypeInv, TypeOK, NCConnectionTypeOK
<1>1. ASSUME NEW k \in Conns, conn'[k] = conn[k]
      PROVE  CarriesNews(conn[k], conn'[k]) /\ CarriesWork(conn[k], conn'[k])
  BY <1>1 DEF CarriesNews, CarriesWork
<1>2. CASE ServerHeartbeatExits(s) \/ CheckJobDone(s) \/ JoinThreads(s)
  BY <1>1, <1>2 DEF ServerHeartbeatExits, CheckJobDone, JoinThreads, NewsCarried, WorkCarried,
                    StillListening
<1>3. CASE SendCheckHeartbeat(s)
  <2>1. PICK k \in Conns : Send(k, s, [type |-> "CheckHeartbeat"], FALSE)
    BY <1>3 DEF SendCheckHeartbeat
  <2>2. conn[k] = None /\ \A l \in Conns : l # k => conn'[l] = conn[l]
    BY <1>0, <2>1 DEF Send
  <2>3. StillListening
    BY <1>3 DEF SendCheckHeartbeat, StillListening
  <2> QED BY <1>1, <2>2, <2>3 DEF NewsCarried, WorkCarried
<1>4. CASE FinishJob(s)
  <2>1. ASSUME NEW k \in Conns, conn[k] # None, listening'[conn[k].server]
        PROVE  conn'[k] = conn[k]
    <3>1. ~listening'[s]
      BY <1>0, <1>4 DEF FinishJob
    <3> QED BY <1>4, <2>1, <3>1 DEF FinishJob, At
  <2>2. StillListening
    BY <1>0, <1>4 DEF FinishJob, StillListening
  <2> QED BY <1>1, <2>1, <2>2 DEF NewsCarried, WorkCarried
<1>5. ASSUME NEW k \in Conns, Accept(s, k)
      PROVE  NewsCarried /\ WorkCarried /\ StillListening
  <2>1. conn[k] \in Stream /\ conn[k].step = "backlog"
    BY <1>0, <1>5 DEF Accept, At
  <2>2. /\ conn'[k] = [conn[k] EXCEPT !.step = "accepted"]
        /\ \A l \in Conns : l # k => conn'[l] = conn[l]
    BY <1>0, <1>5 DEF Accept, Continue
  <2>3. /\ conn'[k] \in Stream /\ conn'[k].server = conn[k].server
        /\ conn'[k].request = conn[k].request /\ conn'[k].step = "accepted"
    BY <2>1, <2>2 DEF Stream, Step
  <2>4. CarriesNews(conn[k], conn'[k]) /\ CarriesWork(conn[k], conn'[k])
    BY <2>1, <2>3, NCConnectionAssumption DEF CarriesNews, CarriesWork
  <2>5. StillListening
    BY <1>5 DEF Accept, StillListening
  <2> QED BY <1>1, <2>2, <2>4, <2>5 DEF NewsCarried, WorkCarried
<1> QED BY <1>2, <1>3, <1>4, <1>5 DEF ServerMainLoop, ServerHeartbeatThread

LEMMA ThreadsStrand ==
  ASSUME NEW home \in Servers, TypeInv, StrandInv(home), NEW s \in Servers,
         \/ ServerMainLoop(s) \/ ServerHeartbeatThread(s) \/ \E k \in Conns : Accept(s, k),
         UNCHANGED nodeVars
  PROVE  StrandInv(home)'
<1>1. UNCHANGED <<node_list, departed, chunk_list>>
  BY DEF ServerMainLoop, ServerHeartbeatThread, CheckJobDone, FinishJob, JoinThreads,
         SendCheckHeartbeat, ServerHeartbeatExits, Accept, listVars, jobVars, serverVars
<1>2. ListsGrow /\ ChunksKept
  BY <1>1 DEF ListsGrow, ChunksKept
<1>3. AsksKept
  BY ThreadsAdvance, AdvanceAsks
<1>4. NewsCarried /\ WorkCarried /\ StillListening
  BY ThreadsCarry
<1>5. KnownKept(home) /\ WorkKept
  BY <1>2, <1>4, NewsKept, WorkIsKept
<1> QED BY <1>2, <1>3, <1>4, <1>5, StrandKept

(* A handler carries what its stream does not bring itself.                *)
LEMMA HandlerCarries ==
  ASSUME TypeInv, NEW s \in Servers, NEW k \in Conns, handle_node(s, k)
  PROVE  /\ ~HandlerFails(s, k) /\ ~HandleNodeMigrated(s, k) => NewsCarried
         /\ ~AcceptResult(s, k) /\ ~RejectResult(s, k) => WorkCarried
         /\ StillListening
<1>1. /\ conn[k] \in Stream /\ conn[k].step \notin Final \cup {"backlog"}
      /\ \A l \in Conns : l # k => conn'[l] = conn[l]
      /\ UNCHANGED listening
  BY HandlerLocal
<1>2. ASSUME ~HandlerFails(s, k), ~HandleNodeMigrated(s, k)
      PROVE  conn[k].step = "accepted" => conn[k].request.type # "NodeMigrated"
  BY <1>2
  DEF handle_node, HandleRegister, HandleNeedsData, HandleLeavingNode,
      HandleUnknownNode, SendCustomMessage, NoCustomMessage, PrepareUnfinished,
      PrepareWaiting, PrepareFinished, HandleFinished, HandleHeartBeat, AcceptResult,
      RejectResult, HandleCheckHeartbeat, HeartbeatTimeout, HandleShutDown,
      HandleNewServer, HandleCustomMessage, Received, At
<1>3. ASSUME ~AcceptResult(s, k), ~RejectResult(s, k)
      PROVE  conn[k].step = "accepted" => conn[k].request.type # "HasData"
  BY <1>3
  DEF handle_node, HandlerFails, LocksNodes, HandleRegister, HandleNeedsData, HandleLeavingNode,
      HandleUnknownNode, SendCustomMessage, NoCustomMessage, PrepareUnfinished,
      PrepareWaiting, PrepareFinished, HandleFinished, HandleHeartBeat,
      HandleCheckHeartbeat, HeartbeatTimeout, HandleShutDown, HandleNodeMigrated,
      HandleNewServer, HandleCustomMessage, Received, At
<1>4. ASSUME ~HandlerFails(s, k), ~HandleNodeMigrated(s, k)
      PROVE  NewsCarried
  BY <1>1, <1>2, <1>4 DEF NewsCarried, CarriesNews
<1>5. ASSUME ~AcceptResult(s, k), ~RejectResult(s, k)
      PROVE  WorkCarried
  BY <1>1, <1>3, <1>5 DEF WorkCarried, CarriesWork, Final
<1> QED BY <1>1, <1>4, <1>5 DEF StillListening

LEMMA HandlerAsks ==
  ASSUME TypeInv, NEW s \in Servers, NEW k \in Conns, handle_node(s, k)
  PROVE  AsksKept
<1>1. CASE ~HandleRegister(s, k)
  BY <1>1, HandlersAdvance, AdvanceAsks
<1>2. CASE HandleRegister(s, k)
  <2>0. conn \in [Conns -> Stream \cup {None}]
    BY DEF TypeInv, TypeOK, NCConnectionTypeOK
  <2>1. PICK m : Answer(k, m)
    BY <1>2 DEF HandleRegister
  <2>2. conn[k] \in Stream /\ conn[k].request.type = "Register"
    BY <1>2, <2>0 DEF HandleRegister, Received, At
  <2>3. conn'[k] # None => conn'[k].request = conn[k].request
    BY <2>0, <2>1, <2>2 DEF Answer, Answered, Stream
  <2>4. \A l \in Conns : l # k => conn'[l] = conn[l]
    BY <2>0, <2>1 DEF Answer
  <2> QED BY <2>2, <2>3, <2>4 DEF AsksKept, Asks, Names
<1> QED BY <1>1, <1>2

LEMMA TimeoutKeeps ==
  ASSUME TypeInv, NEW s \in Servers, NEW k \in Conns, HeartbeatTimeout(s, k)
  PROVE  ChunksKept
<1>1. chunk_list \in [Servers -> [ChunkIdx -> Chunk]]
  BY DEF TypeInv, TypeOK, NCServerTypeOK
<1>2. chunk_list' = [chunk_list EXCEPT ![s] = heartbeat_timeout(@, conn[k].nodes)]
  BY DEF HeartbeatTimeout
<1>3. ASSUME NEW c \in ChunkIdx, chunk_list'[s][c].status = "Processing"
      PROVE  chunk_list'[s][c] = chunk_list[s][c]
  <2>1. chunk_list'[s][c] \in {chunk_list[s][c], set_empty(chunk_list[s][c])}
    BY <1>1, <1>2 DEF heartbeat_timeout
  <2>2. set_empty(chunk_list[s][c]).status = "Empty"
    BY <1>1 DEF set_empty, Chunk
  <2> QED BY <1>3, <2>1, <2>2
<1>4. \A t \in Servers : t # s => chunk_list'[t] = chunk_list[t]
  BY <1>1, <1>2
<1> QED BY <1>3, <1>4 DEF ChunksKept

LEMMA OrdinaryStrand ==
  ASSUME NEW home \in Servers, TypeInv, StrandInv(home), NEW s \in Servers, NEW k \in Conns,
         handle_node(s, k), UNCHANGED nodeVars,
         ~HandlerFails(s, k), ~HandleUnknownNode(s, k), ~HandleLeavingNode(s, k),
         ~PrepareUnfinished(s, k), ~AcceptResult(s, k), ~RejectResult(s, k),
         ~HandleNodeMigrated(s, k)
  PROVE  StrandInv(home)'
<1>1. ListsGrow /\ AsksKept /\ NewsCarried /\ WorkCarried /\ StillListening
  BY HandlersGrow, HandlerAsks, HandlerCarries
<1>2. ChunksKept
  <2>1. CASE HeartbeatTimeout(s, k) BY <2>1, TimeoutKeeps
  <2>2. CASE ~HeartbeatTimeout(s, k)
    <3>1. UNCHANGED chunk_list
      BY <2>2
      DEF handle_node, HandleRegister, HandleNeedsData, SendCustomMessage, NoCustomMessage,
          PrepareWaiting, PrepareFinished, HandleFinished, HandleHeartBeat,
          HandleCheckHeartbeat, HandleShutDown, HandleNewServer, HandleCustomMessage,
          serverVars, jobVars
    <3> QED BY <3>1 DEF ChunksKept
  <2> QED BY <2>1, <2>2
<1>3. KnownKept(home) /\ WorkKept
  BY <1>1, NewsKept, WorkIsKept
<1> QED BY <1>1, <1>2, <1>3, StrandKept

(* A result that is read was under way for its own chunk only.             *)
LEMMA ResultStrand ==
  ASSUME NEW home \in Servers, TypeInv, StrandInv(home), NEW s \in Servers, NEW k \in Conns,
         AcceptResult(s, k) \/ RejectResult(s, k), UNCHANGED nodeVars
  PROVE  StrandInv(home)'
<1>1. handle_node(s, k) /\ ~HandlerFails(s, k) /\ ~HandleNodeMigrated(s, k) /\ ~HandleLeavingNode(s, k)
  BY DEF handle_node, AcceptResult, RejectResult, HandlerFails, HandleNodeMigrated,
         HandleLeavingNode, LocksNodes, Received, At
<1>2. ListsGrow /\ AsksKept /\ NewsCarried /\ StillListening
  BY <1>1, HandlersGrow, HandlerAsks, HandlerCarries
<1>3. KnownKept(home)
  BY <1>2, NewsKept
<1>4. /\ conn[k] # None /\ conn[k].step = "accepted" /\ conn[k].server = s
      /\ conn[k].request.type = "HasData"
      /\ \A l \in Conns : l # k => conn'[l] = conn[l]
  BY <1>1, HandlerLocal DEF AcceptResult, RejectResult, Received, At
<1>5. chunk_list \in [Servers -> [ChunkIdx -> Chunk]]
  BY DEF TypeInv, TypeOK, NCServerTypeOK
<1> DEFINE d == conn[k].request.chunk_id
           i == conn[k].request.node_id
<1>6. /\ \A t \in Servers, c \in ChunkIdx : ~(t = s /\ c = d) => chunk_list'[t][c] = chunk_list[t][c]
      /\ d \in ChunkIdx =>
           \/ chunk_list'[s][d].status = "Finished" /\ chunk_list[s][d].status = "Processing"
           \/ chunk_list'[s][d] = chunk_list[s][d] /\ ~is_processing(chunk_list[s][d], i)
  <2>1. CASE AcceptResult(s, k)
    <3>1. /\ chunk_list' = [chunk_list EXCEPT ![s][d] = set_finished(@)]
          /\ is_processing(chunk_list[s][d], i)
      BY <2>1 DEF AcceptResult
    <3> HIDE DEF d, i
    <3>2. d \in ChunkIdx => set_finished(chunk_list[s][d]).status = "Finished"
      BY <1>5 DEF set_finished, Chunk
    <3> QED BY <1>5, <3>1, <3>2 DEF is_processing
  <2>2. CASE RejectResult(s, k)
    BY <2>2 DEF RejectResult, serverVars
  <2> QED BY <2>1, <2>2
<1>7. \A c, id : Unread(conn[k], s, ResultFrom(id, c)) => c = d /\ id = i
  BY DEF Unread, ResultFrom
<1> HIDE DEF d, i
<1>8. ChunksKept
  BY <1>6 DEF ChunksKept
<1>9. WorkKept
  <2> SUFFICES ASSUME NEW t \in Servers, NEW c \in ChunkIdx, NEW id \in NodeIDs,
                      chunk_list[t][c].status = "Processing", chunk_list[t][c].node_id = id,
                      chunk_list'[t][c] = chunk_list[t][c], UnderWay(t, c, id)
               PROVE  UnderWay(t, c, id)'
    BY DEF WorkKept
  <2>1. ASSUME NEW n \in Nodes, node_id[n] = id, server_addr[n] = t, work[n] = c
        PROVE  UnderWay(t, c, id)'
    BY <2>1 DEF UnderWay, nodeVars
  <2>2. ASSUME NEW l \in Conns, Delivers(conn[l], t, c, id)
        PROVE  UnderWay(t, c, id)'
    <3>1. l # k
      <4> SUFFICES ASSUME l = k PROVE FALSE
        OBVIOUS
      <4>1. t = s /\ Unread(conn[k], s, ResultFrom(id, c))
        BY <1>4, <2>2 DEF Delivers, Unread
      <4>2. c = d /\ id = i
        BY <1>7, <4>1
      <4> QED BY <1>6, <4>1, <4>2 DEF is_processing
    <3>2. Delivers(conn'[l], t, c, id)
      BY <1>4, <2>2, <3>1
    <3> QED BY <3>2, StillUnderWay
  <2> QED BY <2>1, <2>2, UnderWayMeans
<1> QED BY <1>2, <1>3, <1>8, <1>9, StrandKept

(* The new server has read that a node comes.                              *)
LEMMA MigratedStrand ==
  ASSUME NEW home \in Servers, TypeInv, StrandInv(home), NEW s \in Servers, NEW k \in Conns,
         HandleNodeMigrated(s, k), UNCHANGED nodeVars
  PROVE  StrandInv(home)'
<1>1. /\ handle_node(s, k) /\ ~HandlerFails(s, k) /\ ~HandleLeavingNode(s, k)
      /\ ~AcceptResult(s, k) /\ ~RejectResult(s, k)
  BY DEF handle_node, AcceptResult, RejectResult, HandlerFails, HandleNodeMigrated,
         HandleLeavingNode, Received, At
<1>2. ListsGrow /\ AsksKept /\ WorkCarried /\ StillListening
  BY <1>1, HandlersGrow, HandlerAsks, HandlerCarries
<1>3. WorkKept
  BY <1>2, WorkIsKept
<1>4. ChunksKept
  BY DEF HandleNodeMigrated, jobVars, ChunksKept
<1>5. conn[k].server = s /\ \A l \in Conns : l # k => conn'[l] = conn[l]
  BY <1>1, HandlerLocal
<1> DEFINE i == conn[k].request.node_id
<1>6. Ids(node_list'[s]) = Ids(node_list[s]) \cup {i}
  <2>1. node_list \in [Servers -> Seq(NCNodeInfo)] /\ i \in NodeIDs
    BY RequestValues DEF TypeInv, TypeOK, NCServerTypeOK, HandleNodeMigrated, Received
  <2>2. node_list' = [node_list EXCEPT ![s] = migrate_node(@, i)]
    BY DEF HandleNodeMigrated
  <2> HIDE DEF i
  <2> QED BY <2>1, <2>2, EnlistedIds
<1>7. KnownKept(home)
  <2> SUFFICES ASSUME NEW t \in Servers, NEW id \in NodeIDs, Known(t, id)
               PROVE  Known(t, id)'
    BY DEF KnownKept
  <2>1. CASE id \in Ids(node_list[t])
    BY <1>2, <2>1 DEF ListsGrow, Known
  <2>2. ASSUME NEW l \in Conns, Unread(conn[l], t, MigratedFrom(id))
        PROVE  Known(t, id)'
    <3>1. CASE l = k
      <4>1. t = s /\ id = i
        BY <1>5, <2>2, <3>1 DEF Unread, MigratedFrom
      <4> QED BY <1>6, <4>1 DEF Known
    <3>2. CASE l # k
      <4>1. Unread(conn'[l], t, MigratedFrom(id))
        BY <1>5, <2>2, <3>2 
      <4> QED BY <4>1 DEF Known
    <3> QED BY <3>1, <3>2
  <2> QED BY <2>1, <2>2 DEF Known
<1> QED BY <1>2, <1>3, <1>4, <1>7, StrandKept

(* Only the home sends nodes away.                                         *)
LEMMA LeavesHome ==
  ASSUME NEW home \in Servers, MoveOnce, TypeInv, IdInv(home), MoveInv(home),
         NEW s \in Servers, NEW k \in Conns, HandleLeavingNode(s, k)
  PROVE  s = home /\ Asks(conn[k], conn[k].request.node_id) /\ conn[k].request.node_id \in NodeIDs
<1> DEFINE id == conn[k].request.node_id
<1>1. /\ conn[k].server = s /\ Asks(conn[k], id) /\ id \in NodeIDs
      /\ Moves(s, new_server[s])
  <2>1. id \in NodeIDs
    BY RequestValues DEF HandleLeavingNode
  <2> QED BY <2>1 DEF HandleLeavingNode, Received, At, Asks, Names, WithId, MoveInv, OrdersOK
<1>2. \E m \in Nodes : server_addr[m] = s
  BY <1>1 DEF IdInv, RequestsOwned, Asks
<1>3. new_server[s] \in Servers
  BY DEF TypeInv, TypeOK, NCServerTypeOK, HandleLeavingNode
<1>4. s = home
  BY <1>1, <1>2, <1>3 DEF MoveInv, Places, MoveOnce
<1> QED BY <1>1, <1>4

LEMMA LeavingStrand ==
  ASSUME NEW home \in Servers, MoveOnce, TypeInv, IdInv(home), MoveInv(home), StrandInv(home),
         NEW s \in Servers, NEW k \in Conns, HandleLeavingNode(s, k), UNCHANGED nodeVars
  PROVE  StrandInv(home)'
<1> DEFINE i == conn[k].request.node_id
<1>1. s = home /\ Asks(conn[k], i) /\ i \in NodeIDs
  BY LeavesHome
<1>2. /\ handle_node(s, k) /\ ~HandlerFails(s, k) /\ ~HandleNodeMigrated(s, k)
      /\ ~AcceptResult(s, k) /\ ~RejectResult(s, k)
  BY DEF handle_node, AcceptResult, RejectResult, HandlerFails, HandleNodeMigrated,
         HandleLeavingNode, Received, At
<1>3. AsksKept /\ NewsCarried /\ WorkCarried /\ StillListening
  BY <1>2, HandlerAsks, HandlerCarries
<1>4. WorkKept
  BY <1>3, WorkIsKept
<1>5. ChunksKept
  BY DEF HandleLeavingNode, jobVars, ChunksKept
<1>6. /\ \A t \in Servers : t # home => node_list'[t] = node_list[t]
      /\ Ids(node_list[home]) \subseteq Ids(node_list'[home]) \cup {i}
  <2>1. PICK j \in DOMAIN node_list[s] :
          /\ node_list[s][j].node_id = i
          /\ node_list' = [node_list EXCEPT ![s] = swap_remove(@, j)]
    BY DEF HandleLeavingNode, IsFirst
  <2>2. node_list \in [Servers -> Seq(NCNodeInfo)]
    BY DEF TypeInv, TypeOK, NCServerTypeOK
  <2> QED BY <1>1, <2>1, <2>2, RemoveIds
<1> HIDE DEF i
<1>7. KnownKept(home)
  <2> SUFFICES ASSUME NEW t \in Servers, NEW id \in NodeIDs, listening'[t], Known(t, id),
                      t = home => \A l \in Conns : ~Asks(conn[l], id)
               PROVE  Known(t, id)'
    BY DEF KnownKept
  <2>1. CASE id \in Ids(node_list[t])
    BY <1>1, <1>6, <2>1 DEF Known
  <2>2. ASSUME NEW l \in Conns, Unread(conn[l], t, MigratedFrom(id))
        PROVE  Known(t, id)'
    <3>1. conn[l].request.type = "NodeMigrated"
      BY <2>2 DEF Unread, MigratedFrom
    <3>2. Unread(conn'[l], t, MigratedFrom(id))
      BY <1>3, <2>2, <3>1 DEF NewsCarried, CarriesNews, Unread
    <3> QED BY <3>2 DEF Known
  <2> QED BY <2>1, <2>2 DEF Known
<1> QED BY <1>3, <1>4, <1>5, <1>7, StrandKept

LEMMA NeedsDataFields ==
  ASSUME NEW m \in NCNodeMessage, m.type = "NeedsData"
  PROVE  m.node_id \in NodeIDs /\ m = NeedsDataFrom(m.node_id)
BY DEF NCNodeMessage, NeedsDataFrom

(* A chunk is given to a node that waits for it, or to one that has died   *)
(* meanwhile and that the server knows.                                    *)
LEMMA PrepareStrand ==
  ASSUME NEW home \in Servers, TypeInv, IdInv(home), MoveInv(home), StrandInv(home),
         NEW s \in Servers, NEW k \in Conns, PrepareUnfinished(s, k), UNCHANGED nodeVars
  PROVE  StrandInv(home)'
<1>1. /\ handle_node(s, k) /\ ~HandlerFails(s, k) /\ ~HandleNodeMigrated(s, k)
      /\ ~AcceptResult(s, k) /\ ~RejectResult(s, k) /\ ~HandleLeavingNode(s, k)
  BY DEF handle_node, AcceptResult, RejectResult, HandlerFails, HandleNodeMigrated,
         HandleLeavingNode, PrepareUnfinished, Received, At
<1>2. AsksKept /\ NewsCarried /\ WorkCarried /\ StillListening /\ ListsGrow
  BY <1>1, HandlerAsks, HandlerCarries, HandlersGrow
<1>3. WorkKept /\ KnownKept(home) /\ LostKept
  BY <1>2, WorkIsKept, NewsKept, LostIsKept
<1>4. KnownAway(home)'
  BY <1>2, <1>3, KnownAwayKept DEF StrandInv
<1>0. PICK i \in NodeIDs : i = conn[k].request.node_id
  BY RequestValues DEF PrepareUnfinished
<1>5. /\ conn[k] \in Stream /\ conn[k].server = s /\ conn[k].step = "prepare"
      /\ conn[k].request = NeedsDataFrom(i) /\ Asks(conn[k], i)
      /\ \A l \in Conns : l # k => conn'[l] = conn[l]
      /\ UNCHANGED listening
  <2>1. /\ conn[k] \in Stream /\ conn[k].server = s /\ UNCHANGED listening
        /\ \A l \in Conns : l # k => conn'[l] = conn[l]
    BY <1>1, HandlerLocal
  <2>2. conn[k].step = "prepare"
    BY DEF PrepareUnfinished, At
  <2>3. conn[k].request.type = "NeedsData" /\ conn[k].request \in NCNodeMessage
    BY <2>1, <2>2, NCConnectionAssumption DEF TypeInv, StreamsOK, WellFormed, Stream
  <2>4. conn[k].request = NeedsDataFrom(i)
    BY <1>0, <2>3, NeedsDataFields
  <2> QED BY <1>0, <2>1, <2>2, <2>3, <2>4, NCConnectionAssumption DEF Asks, Names, WithId
<1> DEFINE reply(c) == [type |-> "Unfinished", chunk_id |-> c]
<1>6. PICK c \in ChunkIdx :
        /\ chunk_list' = [chunk_list EXCEPT ![s][c] = set_processing(@, i)]
        /\ Answer(k, reply(c))
  BY <1>0 DEF PrepareUnfinished
<1>7. chunk_list \in [Servers -> [ChunkIdx -> Chunk]] /\ conn \in [Conns -> Stream \cup {None}]
  BY DEF TypeInv, TypeOK, NCServerTypeOK, NCConnectionTypeOK
<1>8. /\ chunk_list'[s][c].node_id = i
      /\ \A t \in Servers, d \in ChunkIdx : ~(t = s /\ d = c) => chunk_list'[t][d] = chunk_list[t][d]
  BY <1>6, <1>7 DEF set_processing
<1> HIDE DEF reply
<1>9. PICK m \in Nodes :
        /\ node_id[m] = i /\ server_addr[m] = s
        /\ IF conn[k].open THEN sock[m] = k /\ node_loop[m] = "waiting"
                           ELSE node_loop[m] = "crashed"
  BY <1>5 DEF IdInv, RequestsOwned, Asks
<1>10. ASSUME conn[k].open
       PROVE  UnderWay(s, c, i)'
  <2>1. /\ conn'[k] # None /\ conn'[k].server = s /\ conn'[k].step = "replied"
        /\ conn'[k].request = NeedsDataFrom(i) /\ conn'[k].reply = reply(c)
    <3>1. reply(c) \in NCServerMessage
      BY DEF reply, NCServerMessage
    <3>2. conn'[k] = [conn[k] EXCEPT !.step = "replied", !.reply = reply(c)]
      BY <1>6, <1>7, <1>10 DEF Answer, Answered
    <3>3. conn'[k] \in Stream
      BY <1>5, <3>1, <3>2 DEF Stream, Step
    <3> QED BY <1>5, <3>2, <3>3, NCConnectionAssumption DEF Stream
  <2>2. Delivers(conn'[k], s, c, i)
    BY <2>1 DEF Delivers, reply
  <2> QED BY <2>2, StillUnderWay
<1>11. ASSUME ~conn[k].open, listening[s]
       PROVE  Lost(s, i)'
  <2>1. conn'[k] = None
    BY <1>6, <1>7, <1>11 DEF Answer, Answered
  <2>2. \A l \in Conns : ~Asks(conn'[l], i)
    BY <1>2, <1>5, <2>1 DEF AsksKept, IdInv, AskOnce, Asks, Names
  <2>3. Known(s, i)'
    <3>1. CASE s = home
      <4>1. OpenAsk(conn[k], home, i)
        BY <1>5, <3>1 DEF OpenAsk, Final
      <4>2. i \in Ids(node_list'[s])
        BY <1>2, <1>5, <3>1, <4>1 DEF MoveInv, IdsListed, ListsGrow
      <4> QED BY <4>2 DEF Known
    <3>2. CASE s # home
      <4>1. Known(s, i)
        BY <1>5, <1>11, <3>2 DEF StrandInv, KnownAway
      <4> QED BY <1>3, <1>5, <1>11, <3>2, <4>1 DEF KnownKept
    <3> QED BY <3>1, <3>2
  <2>4. node_id'[m] = i /\ node_loop'[m] = "crashed"
    BY <1>9, <1>11 DEF nodeVars
  <2> QED BY <2>2, <2>3, <2>4 DEF Lost
<1>12. ASSUME NEW t \in Servers, NEW d \in ChunkIdx,
              listening'[t], chunk_list'[t][d].status = "Processing"
       PROVE  /\ chunk_list'[t][d].node_id \in NodeIDs
              /\ \/ UnderWay(t, d, chunk_list[t][d].node_id)'
                 \/ Lost(t, chunk_list[t][d].node_id)'
  <2>1. CASE ~(t = s /\ d = c)
    BY <1>2, <1>3, <1>8, <1>12, <2>1, ChunkKept
  <2>2. CASE t = s /\ d = c
    <3>1. UnderWay(s, c, i)' \/ Lost(s, i)'
      BY <1>5, <1>10, <1>11, <1>12, <2>2
    <3> QED BY <1>5, <1>8, <2>2, <3>1
  <2> QED BY <2>1, <2>2
<1>13. ChunksAccounted'
  BY <1>12 DEF ChunksAccounted
<1> QED BY <1>4, <1>13 DEF StrandInv

LEMMA ServerStrand ==
  ASSUME NEW home \in Servers, MoveOnce, TypeInv, IdInv(home), MoveInv(home), StrandInv(home),
         ServerStep
  PROVE  StrandInv(home)'
<1>0. UNCHANGED nodeVars
  BY DEF ServerStep
<1>1. PICK s \in Servers : \/ ServerMainLoop(s) \/ ServerHeartbeatThread(s)
                           \/ \E k \in Conns : Accept(s, k) \/ handle_node(s, k)
  BY DEF ServerStep, NCServerNext
<1>2. CASE ServerMainLoop(s) \/ ServerHeartbeatThread(s) \/ \E k \in Conns : Accept(s, k)
  BY <1>0, <1>2, ThreadsStrand
<1>3. ASSUME NEW k \in Conns, handle_node(s, k)
      PROVE  StrandInv(home)'
  <2>1. ~HandlerFails(s, k) /\ ~HandleUnknownNode(s, k)
    BY NobodyUnknown DEF MoveInv, NeverPoisoned, HandlerFails
  <2>2. CASE PrepareUnfinished(s, k) BY <1>0, <2>2, PrepareStrand
  <2>3. CASE HandleLeavingNode(s, k) BY <1>0, <2>3, LeavingStrand
  <2>4. CASE AcceptResult(s, k) \/ RejectResult(s, k) BY <1>0, <2>4, ResultStrand
  <2>5. CASE HandleNodeMigrated(s, k) BY <1>0, <2>5, MigratedStrand
  <2>6. CASE ~PrepareUnfinished(s, k) /\ ~HandleLeavingNode(s, k) /\ ~AcceptResult(s, k)
             /\ ~RejectResult(s, k) /\ ~HandleNodeMigrated(s, k)
    BY <1>0, <1>3, <2>1, <2>6, OrdinaryStrand
  <2> QED BY <2>2, <2>3, <2>4, <2>5, <2>6
<1> QED BY <1>1, <1>2, <1>3

LEMMA StillStrand ==
  ASSUME NEW home \in Servers, TypeInv, StrandInv(home), StreamsAdvance,
         \A k \in Conns : conn[k] # None => conn'[k] = conn[k], ListsGrow,
         UNCHANGED <<listening, chunk_list, nodeVars>>
  PROVE  StrandInv(home)'
<1>1. AsksKept
  BY AdvanceAsks
<1>2. NewsCarried /\ WorkCarried
  BY DEF NewsCarried, WorkCarried, CarriesNews, CarriesWork
<1>3. KnownKept(home) /\ WorkKept
  BY <1>2, NewsKept, WorkIsKept
<1>4. StillListening /\ ChunksKept
  BY DEF StillListening, ChunksKept
<1> QED BY <1>1, <1>3, <1>4, StrandKept

LEMMA ExpireStrand ==
  ASSUME NEW home \in Servers, TypeInv, StrandInv(home),
         NEW s \in Servers, NEW id \in NodeIDs, Expire(s, id)
  PROVE  StrandInv(home)'
<1>1. node_list \in [Servers -> Seq(NCNodeInfo)]
  BY DEF TypeInv, TypeOK, NCServerTypeOK
<1>2. PICK i \in DOMAIN node_list[s] : node_list' = [node_list EXCEPT ![s][i].stale = TRUE]
  BY DEF Expire
<1> DEFINE new == [node_list[s] EXCEPT ![i].stale = TRUE]
<1>3. node_list' = [node_list EXCEPT ![s] = new]
  BY <1>1, <1>2
<1>4. Ids(new) = Ids(node_list[s])
  BY <1>1, <1>2, ExpireIds
<1> HIDE DEF new
<1>5. UNCHANGED <<departed, conn, listening, chunk_list, nodeVars>>
  BY DEF Expire, connVars, jobVars
<1>6. ListsGrow
  BY <1>3, <1>4, <1>5, OneListGrows
<1>7. StreamsAdvance
  BY <1>5, StreamsUnchanged
<1> QED BY <1>5, <1>6, <1>7, StillStrand

LEMMA OperatorStrand ==
  ASSUME NEW home \in Servers, OneHome(home), TypeInv, StrandInv(home), OperatorSends
  PROVE  StrandInv(home)'
<1>1. UNCHANGED <<node_list, departed, chunk_list, listening, nodeVars>>
  BY DEF OperatorSends, serverVars
<1>2. PICK k \in Conns, r \in AdminRequests : Send(k, r[1], r[2], FALSE)
  BY DEF OperatorSends
<1>3. r[2].type \in WithoutId
  BY <1>2 DEF OneHome, WithoutId
<1>4. StreamsAdvance
  BY <1>2, <1>3, StreamOperations
<1>5. \A l \in Conns : conn[l] # None => conn'[l] = conn[l]
  <2>1. conn \in [Conns -> Stream \cup {None}]
    BY DEF TypeInv, TypeOK, NCConnectionTypeOK
  <2> QED BY <1>2, <2>1 DEF Send
<1>6. ListsGrow
  BY <1>1 DEF ListsGrow
<1> QED BY <1>1, <1>4, <1>5, <1>6, StillStrand

(* What a step of node n leaves of what its servers know and are asked.    *)
AsksMine(n) ==
  \A k \in Conns, id \in NodeIDs : Asks(conn'[k], id) =>
    \/ Asks(conn[k], id) /\ conn'[k].server = conn[k].server
    \/ id = node_id[n] /\ conn'[k].server = server_addr[n] /\ node_loop[n] = "request"

KnownStays == \A s \in Servers, id \in NodeIDs : Known(s, id) => Known(s, id)'

OthersRest(n) ==
  \A m \in Nodes \ {n} :
    /\ node_loop'[m] = node_loop[m] /\ node_id'[m] = node_id[m]
    /\ server_addr'[m] = server_addr[m] /\ work'[m] = work[m]

KnownWhereItAsks(n) ==
  /\ node_loop'[n] \in {"request", "waiting", "working"}
  /\ listening[server_addr'[n]]
  => \/ node_loop[n] \in {"request", "waiting", "working"}
        /\ node_id'[n] = node_id[n] /\ server_addr'[n] = server_addr[n]
     \/ Known(server_addr[n], node_id[n])'

LEMMA NodeStrand ==
  ASSUME NEW home \in Servers, TypeInv, IdInv(home), StrandInv(home), TypeInv',
         NEW n \in Nodes, node_loop[n] # "crashed", OthersRest(n),
         KnownStays, AsksMine(n),
         server_addr'[n] # home => KnownWhereItAsks(n), WorkKept,
         UNCHANGED <<listening, serverVars>>
  PROVE  StrandInv(home)'
<1>1. \A m \in Nodes :
        /\ node_loop[m] \in {"request", "waiting", "working"} => node_id[m] \in NodeIDs
        /\ server_addr[m] \in Servers
  BY DEF TypeInv, TypeOK, NCNodeTypeOK, NodeOK
<1>2. ASSUME NEW m \in Nodes, node_loop[m] \in {"request", "waiting", "working"},
             server_addr[m] # home, listening[server_addr[m]],
             node_id'[m] = node_id[m], server_addr'[m] = server_addr[m]
      PROVE  Known(server_addr[m], node_id[m])'
  <2>1. PICK s \in Servers, id \in NodeIDs : s = server_addr[m] /\ id = node_id[m]
    BY <1>1, <1>2
  <2>2. Known(s, id)'
    BY <1>2, <2>1 DEF StrandInv, KnownAway, KnownStays
  <2>3. s = server_addr'[m] /\ id = node_id'[m]
    BY <1>2, <2>1
  <2> QED BY <2>2, <2>3
<1>3. ASSUME NEW m \in Nodes, node_loop'[m] \in {"request", "waiting", "working"},
             server_addr'[m] # home, listening'[server_addr'[m]]
      PROVE  Known(server_addr[m], node_id[m])'
  <2>1. CASE m # n
    <3>1. node_loop'[m] = node_loop[m] /\ node_id'[m] = node_id[m] /\ server_addr'[m] = server_addr[m]
      BY <2>1 DEF OthersRest
    <3> QED BY <1>2, <1>3, <3>1
  <2>2. CASE m = n
    <3>1. KnownWhereItAsks(n)
      BY <1>3, <2>2
    <3>2. CASE /\ node_loop[n] \in {"request", "waiting", "working"}
               /\ node_id'[n] = node_id[n] /\ server_addr'[n] = server_addr[n]
      BY <1>2, <1>3, <2>2, <3>2
    <3>3. CASE Known(server_addr[n], node_id[n])'
      BY <2>2, <3>3
    <3> QED BY <1>3, <2>2, <3>1, <3>2, <3>3 DEF KnownWhereItAsks
  <2> QED BY <2>1, <2>2
<1>4. ASSUME NEW k \in Conns, NEW id \in NodeIDs,
             Asks(conn'[k], id), conn'[k].server # home, listening'[conn'[k].server]
      PROVE  Known(conn[k].server, id)'
  <2>1. CASE Asks(conn[k], id) /\ conn'[k].server = conn[k].server
    <3>1. conn[k].server \in Servers
      BY <2>1 DEF Asks, Names, TypeInv, TypeOK, NCConnectionTypeOK, Stream
    <3>2. PICK s \in Servers : s = conn[k].server
      BY <3>1
    <3>3. Known(s, id)'
      BY <1>4, <2>1, <3>2 DEF StrandInv, KnownAway, KnownStays
    <3>4. s = conn'[k].server
      BY <2>1, <3>2
    <3> QED BY <3>3, <3>4
  <2>2. CASE id = node_id[n] /\ conn'[k].server = server_addr[n] /\ node_loop[n] = "request"
    <3>1. PICK s \in Servers : s = server_addr[n]
      BY <1>1
    <3>2. Known(s, id)'
      BY <1>4, <2>2, <3>1 DEF StrandInv, KnownAway, KnownStays
    <3>3. s = conn'[k].server
      BY <2>2, <3>1
    <3> QED BY <3>2, <3>3
  <2> QED BY <1>4, <2>1, <2>2 DEF AsksMine
<1>5. KnownAway(home)'
  BY <1>3, <1>4 DEF KnownAway
<1>6. LostKept
  <2> SUFFICES ASSUME NEW s \in Servers, NEW id \in NodeIDs, Lost(s, id)
               PROVE  Lost(s, id)'
    BY DEF LostKept
  <2>1. PICK m \in Nodes : node_id[m] = id /\ node_loop[m] = "crashed"
    BY DEF Lost
  <2>2. node_id'[m] = id /\ node_loop'[m] = "crashed"
    BY <2>1 DEF OthersRest
  <2>3. id # node_id[n]
    BY <2>1, NCMessagesAssumption DEF IdInv, OwnIds
  <2>4. \A k \in Conns : ~Asks(conn'[k], id)
    BY <2>3 DEF Lost, AsksMine
  <2>5. Known(s, id)'
    BY DEF Lost, KnownStays
  <2> QED BY <2>2, <2>4, <2>5 DEF Lost
<1>7. StillListening /\ ChunksKept
  BY DEF StillListening, ChunksKept, serverVars
<1>8. ChunksAccounted'
  BY <1>6, <1>7, AccountedKept
<1> QED BY <1>5, <1>8 DEF StrandInv

(* A node's streams: none that brings news or work is lost by its steps.   *)
StreamsStay ==
  /\ \A k \in Conns : conn[k] # None /\ conn[k].request.type \notin {"Register", "NeedsData"} =>
       conn'[k] = conn[k]
  /\ node_list' = node_list

LEMMA NewsStay ==
  ASSUME StreamsStay
  PROVE  KnownStays
<1> SUFFICES ASSUME NEW s \in Servers, NEW id \in NodeIDs, Known(s, id)
             PROVE  Known(s, id)'
  BY DEF KnownStays
<1>1. CASE id \in Ids(node_list[s])
  BY <1>1 DEF StreamsStay, Known
<1>2. ASSUME NEW k \in Conns, Unread(conn[k], s, MigratedFrom(id))
      PROVE  Known(s, id)'
  <2>1. conn[k] # None /\ conn[k].request.type = "NodeMigrated"
    BY <1>2 DEF Unread, MigratedFrom
  <2>2. Unread(conn'[k], s, MigratedFrom(id))
    BY <1>2, <2>1 DEF StreamsStay
  <2> QED BY <2>2 DEF Known
<1> QED BY <1>1, <1>2 DEF Known

(* Only what node n computes, or is about to, can change hands.            *)
Answers(x, s, c, id) ==
  /\ x # None /\ x.server = s /\ x.step = "replied"
  /\ x.request = NeedsDataFrom(id)
  /\ x.reply = [type |-> "Unfinished", chunk_id |-> c]

LEMMA NodeWorkKept ==
  ASSUME NEW n \in Nodes, StreamsStay, OthersRest(n),
         \A s \in Servers, c \in ChunkIdx, id \in NodeIDs :
           /\ listening'[s]
           /\ node_id[n] = id /\ server_addr[n] = s /\ work[n] = c
           => UnderWay(s, c, id)' \/ Lost(s, id)',
         \A k \in Conns, s \in Servers, c \in ChunkIdx, id \in NodeIDs :
           listening'[s] /\ Answers(conn[k], s, c, id) /\ conn'[k] # conn[k] =>
             UnderWay(s, c, id)' \/ Lost(s, id)'
  PROVE  WorkKept
<1> SUFFICES ASSUME NEW s \in Servers, NEW c \in ChunkIdx, NEW id \in NodeIDs, listening'[s],
                    UnderWay(s, c, id)
             PROVE  UnderWay(s, c, id)' \/ Lost(s, id)'
  BY DEF WorkKept
<1>1. ASSUME NEW m \in Nodes, node_id[m] = id, server_addr[m] = s, work[m] = c
      PROVE  UnderWay(s, c, id)' \/ Lost(s, id)'
  <2>1. CASE m # n
    <3>1. node_id'[m] = id /\ server_addr'[m] = s /\ work'[m] = c
      BY <1>1, <2>1 DEF OthersRest
    <3> QED BY <3>1 DEF UnderWay
  <2>2. CASE m = n
    BY <1>1, <2>2
  <2> QED BY <2>1, <2>2
<1>2. ASSUME NEW k \in Conns, Delivers(conn[k], s, c, id)
      PROVE  UnderWay(s, c, id)' \/ Lost(s, id)'
  <2>1. CASE conn'[k] = conn[k]
    <3>1. Delivers(conn'[k], s, c, id)
      BY <1>2, <2>1
    <3> QED BY <3>1, StillUnderWay
  <2>2. CASE conn'[k] # conn[k]
    <3>1. ~Unread(conn[k], s, ResultFrom(id, c))
      BY <2>2 DEF Unread, ResultFrom, StreamsStay
    <3>2. Answers(conn[k], s, c, id)
      BY <1>2, <3>1 DEF Delivers, Answers
    <3> QED BY <2>2, <3>2
  <2> QED BY <2>1, <2>2
<1> QED BY <1>1, <1>2, UnderWayMeans

LEMMA SendStays ==
  ASSUME TypeInv, NEW n, NEW k \in Conns, NEW s, NEW m, NEW open, Send(k, s, m, open),
         UNCHANGED node_list,
         m.type = "NeedsData" =>
           m.node_id = node_id[n] /\ s = server_addr[n] /\ node_loop[n] = "request"
  PROVE  /\ StreamsStay /\ AsksMine(n)
         /\ \A l \in Conns : conn[l] # None => conn'[l] = conn[l]
<1>1. /\ conn[k] = None
      /\ conn'[k] # None => conn'[k].server = s /\ conn'[k].request = m
      /\ \A l \in Conns \ {k} : conn'[l] = conn[l]
  BY SendsStream
<1>2. \A l \in Conns : conn[l] # None => conn'[l] = conn[l]
  BY <1>1
<1>3. \A id : Asks(conn'[k], id) =>
        id = node_id[n] /\ conn'[k].server = server_addr[n] /\ node_loop[n] = "request"
  BY <1>1 DEF Asks, Names
<1>4. AsksMine(n)
  BY <1>1, <1>3 DEF AsksMine
<1> QED BY <1>2, <1>4 DEF StreamsStay

LEMMA SameStays ==
  ASSUME UNCHANGED <<conn, node_list>>, NEW n
  PROVE  StreamsStay /\ AsksMine(n)
BY DEF StreamsStay, AsksMine

LEMMA CloseStays ==
  ASSUME NEW home \in Servers, TypeInv, IdInv(home), NEW n \in Nodes, AwaitsReply(n), Close(n),
         UNCHANGED node_list
  PROVE  /\ StreamsStay /\ AsksMine(n)
         /\ \A l \in Conns : l # sock[n] => conn'[l] = conn[l]
<1>1. conn \in [Conns -> Stream \cup {None}] /\ sock[n] \in Conns
  BY DEF TypeInv, TypeOK, NCConnectionTypeOK, NodeOK
<1>2. conn'[sock[n]] = None /\ \A l \in Conns : l # sock[n] => conn'[l] = conn[l]
  BY <1>1 DEF Close
<1>3. conn[sock[n]].request.type \in {"Register", "NeedsData"}
  BY DEF IdInv, Waits, AwaitsReply, Registers, Asks, Names
<1>4. AsksMine(n)
  BY <1>2 DEF AsksMine, Asks, Names
<1> QED BY <1>2, <1>3, <1>4 DEF StreamsStay

LEMMA AnswerTypes ==
  ASSUME NEW x, NEW s, NEW c, NEW id, Answers(x, s, c, id)
  PROVE  x # None /\ x.step = "replied" /\ x.reply.type = "Unfinished" /\ x.reply.chunk_id = c
         /\ x.request.type = "NeedsData" /\ x.request.node_id = id /\ x.server = s
BY DEF Answers, NeedsDataFrom

(* A node sends something.                                                 *)
LEMMA SendStrand ==
  ASSUME NEW home \in Servers, TypeInv, IdInv(home), StrandInv(home), TypeInv',
         NEW n \in Nodes,
         SendRegister(n) \/ SendNeedsData(n) \/ SendNodeMigrated(n) \/ SendHasData(n),
         UNCHANGED serverVars
  PROVE  StrandInv(home)'
<1>0. /\ node_loop \in [Nodes -> {"start", "registering", "request", "waiting",
                              "working", "migrating", "exited", "failed", "crashed"}]
      /\ work \in [Nodes -> ChunkIdx \cup {None}]
      /\ server_addr \in [Nodes -> Servers]
      /\ node_id \in [Nodes -> NodeIDs \cup {None}]
      /\ ChunkIdx \subseteq Nat
  BY DEF TypeInv, TypeOK, NCNodeTypeOK, ChunkIdx
<1>1. node_list' = node_list
  BY DEF serverVars
<1>2. UNCHANGED <<listening, node_id, server_addr>>
  BY DEF SendRegister, SendNeedsData, SendNodeMigrated, SendHasData
<1>3. /\ node_loop[n] # "crashed"
      /\ \A m \in Nodes \ {n} : node_loop'[m] = node_loop[m] /\ work'[m] = work[m]
  BY <1>0 DEF SendRegister, SendNeedsData, SendNodeMigrated, SendHasData, Goto, NextRound
<1>4. OthersRest(n)
  BY <1>2, <1>3 DEF OthersRest
<1>5. node_loop[n] # "working" => work[n] = None
  BY DEF IdInv, Leftovers
<1>6. None \notin ChunkIdx
  BY <1>0, NCMessagesAssumption
<1>7. CASE SendRegister(n)
  <2> DEFINE request == [type |-> "Register"]
             yes == TRUE
  <2>1. PICK k \in Conns : Send(k, server_addr[n], request, yes)
    BY <1>7 DEF SendRegister, SendAndWait
  <2>2. request.type = "Register"
    OBVIOUS
  <2> HIDE DEF request, yes
  <2>3. StreamsStay /\ AsksMine(n) /\ \A l \in Conns : conn[l] # None => conn'[l] = conn[l]
    BY <1>1, <2>1, <2>2, SendStays
  <2>4. node_loop[n] = "start" /\ node_loop'[n] = "registering"
    BY <1>0, <1>7 DEF SendRegister, Goto
  <2>5. KnownStays /\ KnownWhereItAsks(n)
    BY <2>3, <2>4, NewsStay DEF KnownWhereItAsks
  <2>6. WorkKept
    BY <1>4, <1>5, <1>6, <2>3, <2>4, AnswerTypes, NodeWorkKept
  <2> QED BY <1>2, <1>3, <1>4, <2>3, <2>5, <2>6, NodeStrand
<1>8. CASE SendNeedsData(n)
  <2> DEFINE request == [type |-> "NeedsData", node_id |-> node_id[n]]
             yes == TRUE
  <2>1. PICK k \in Conns : Send(k, server_addr[n], request, yes)
    BY <1>8 DEF SendNeedsData, SendAndWait
  <2>2. request.node_id = node_id[n]
    OBVIOUS
  <2> HIDE DEF request, yes
  <2>4. node_loop[n] = "request" /\ node_loop'[n] = "waiting"
    BY <1>0, <1>8 DEF SendNeedsData, Goto
  <2>3. StreamsStay /\ AsksMine(n) /\ \A l \in Conns : conn[l] # None => conn'[l] = conn[l]
    BY <1>1, <2>1, <2>2, <2>4, SendStays
  <2>5. KnownStays /\ KnownWhereItAsks(n)
    BY <1>2, <2>3, <2>4, NewsStay DEF KnownWhereItAsks
  <2>6. WorkKept
    BY <1>4, <1>5, <1>6, <2>3, <2>4, AnswerTypes, NodeWorkKept
  <2> QED BY <1>2, <1>3, <1>4, <2>3, <2>5, <2>6, NodeStrand
<1>9. CASE SendNodeMigrated(n)
  <2> DEFINE request == [type |-> "NodeMigrated", node_id |-> node_id[n]]
             no == FALSE
  <2>1. PICK k \in Conns : Send(k, server_addr[n], request, no)
    BY <1>9 DEF SendNodeMigrated
  <2>2. request.type = "NodeMigrated" /\ request = MigratedFrom(node_id[n])
    BY DEF MigratedFrom
  <2> HIDE DEF request, no
  <2>3. StreamsStay /\ AsksMine(n) /\ \A l \in Conns : conn[l] # None => conn'[l] = conn[l]
    BY <1>1, <2>1, <2>2, SendStays
  <2>4. node_loop[n] = "migrating"
    BY <1>9 DEF SendNodeMigrated
  <2>5. Known(server_addr[n], node_id[n])'
    <3>1. PICK s \in Servers, id \in NodeIDs : s = server_addr[n] /\ id = node_id[n]
      BY <1>0, <2>4 DEF TypeInv, NodeOK
    <3>2. conn'[k] # None
      <4>1. request \in NCNodeMessage
        BY <2>2, <3>1 DEF MigratedFrom, NCNodeMessage
      <4>2. NewStream(server_addr[n], request, no) \in Stream
        BY <1>0, <4>1 DEF NewStream, Stream, Step, no
      <4>3. conn'[k] = NewStream(server_addr[n], request, no)
        BY <2>1, SendsStream
      <4> QED BY <4>2, <4>3, NCConnectionAssumption
    <3>3. Unread(conn'[k], s, MigratedFrom(id))
      BY <2>1, <2>2, <3>1, <3>2, SendsStream DEF Unread
    <3>4. s = server_addr'[n] /\ id = node_id'[n]
      BY <1>2, <3>1
    <3> QED BY <3>3, <3>4 DEF Known
  <2>6. KnownStays /\ KnownWhereItAsks(n)
    BY <2>3, <2>5, NewsStay DEF KnownWhereItAsks
  <2>7. WorkKept
    BY <1>4, <1>5, <1>6, <2>3, <2>4, AnswerTypes, NodeWorkKept
  <2> QED BY <1>2, <1>3, <1>4, <2>3, <2>6, <2>7, NodeStrand
<1>10. CASE SendHasData(n)
  <2>0. PICK i \in NodeIDs, d \in ChunkIdx, t \in Servers :
          i = node_id[n] /\ d = work[n] /\ t = server_addr[n]
    BY <1>0, <1>10 DEF SendHasData, TypeInv, NodeOK
  <2> DEFINE request == [type |-> "HasData", node_id |-> i, chunk_id |-> d]
             no == FALSE
  <2>1. PICK k \in Conns : Send(k, t, request, no)
    BY <1>10, <2>0 DEF SendHasData
  <2>2. request.type = "HasData" /\ request = ResultFrom(i, d) /\ request \in NCNodeMessage
    BY DEF ResultFrom, NCNodeMessage
  <2> HIDE DEF request
  <2>3. NewStream(t, request, no) \in Stream
    BY <2>2 DEF NewStream, Stream, Step
  <2> HIDE DEF no
  <2>4. StreamsStay /\ AsksMine(n) /\ \A l \in Conns : conn[l] # None => conn'[l] = conn[l]
    BY <1>1, <2>1, <2>2, SendStays
  <2>5. node_loop[n] = "working"
    BY <1>10 DEF SendHasData
  <2>6. KnownStays /\ KnownWhereItAsks(n)
    BY <1>2, <2>4, <2>5, NewsStay DEF KnownWhereItAsks
  <2>7. UnderWay(t, d, i)'
    <3>1. /\ conn'[k] # None /\ conn'[k].server = t /\ conn'[k].request = request
          /\ conn'[k].step = "backlog"
      BY <2>1, <2>3, SendsStream, NCConnectionAssumption
    <3>2. Delivers(conn'[k], t, d, i)
      BY <2>2, <3>1 DEF Delivers, Unread
    <3> QED BY <3>2, StillUnderWay
  <2>8. WorkKept
    BY <1>4, <2>0, <2>4, <2>7, AnswerTypes, NodeWorkKept
  <2> QED BY <1>2, <1>3, <1>4, <2>4, <2>6, <2>8, NodeStrand
<1> QED BY <1>7, <1>8, <1>9, <1>10

(* A node reads the answer to its request, or that there is none.          *)
LEMMA CloseStrand ==
  ASSUME NEW home \in Servers, TypeInv, IdInv(home), StrandInv(home), TypeInv',
         NEW n \in Nodes,
         \/ GetInitialData(n) \/ RegisterLost(n) \/ NeedsDataLost(n)
         \/ GetUnfinished(n) \/ GetNoWork(n) \/ GetNewServer(n),
         UNCHANGED serverVars
  PROVE  StrandInv(home)'
<1>0. /\ node_loop \in [Nodes -> {"start", "registering", "request", "waiting",
                              "working", "migrating", "exited", "failed", "crashed"}]
      /\ work \in [Nodes -> ChunkIdx \cup {None}]
      /\ server_addr \in [Nodes -> Servers]
      /\ node_id \in [Nodes -> NodeIDs \cup {None}]
      /\ ChunkIdx \subseteq Nat
  BY DEF TypeInv, TypeOK, NCNodeTypeOK, ChunkIdx
<1>1. node_list' = node_list /\ UNCHANGED listening
  BY DEF serverVars, GetInitialData, RegisterLost, NeedsDataLost, GetUnfinished, GetNoWork,
         GetNewServer
<1>2. AwaitsReply(n) /\ Close(n) /\ node_loop[n] # "crashed"
  BY DEF AwaitsReply, GetInitialData, RegisterLost, NeedsDataLost, GetUnfinished, GetNoWork,
         GetNewServer
<1>3. /\ StreamsStay /\ AsksMine(n)
      /\ \A l \in Conns : l # sock[n] => conn'[l] = conn[l]
  BY <1>1, <1>2, CloseStays
<1>4. OthersRest(n)
  <2>1. \E place : Goto(n, place)
    BY DEF GetInitialData, RegisterLost, NeedsDataLost, GetUnfinished, GetNoWork, GetNewServer,
           NextRound, RoundFails
  <2>2. \A m \in Nodes \ {n} : node_loop'[m] = node_loop[m]
    BY <1>0, <2>1 DEF Goto
  <2>3. \A m \in Nodes \ {n} : node_id'[m] = node_id[m] /\ server_addr'[m] = server_addr[m]
                               /\ work'[m] = work[m]
    BY <1>0 DEF GetInitialData, RegisterLost, NeedsDataLost, GetUnfinished, GetNoWork, GetNewServer
  <2> QED BY <2>2, <2>3 DEF OthersRest
<1>5. work[n] = None /\ None \notin ChunkIdx
  BY <1>0, <1>2, NCMessagesAssumption DEF IdInv, Leftovers, AwaitsReply
<1>6. KnownStays
  BY <1>3, NewsStay
<1>7. CASE GetUnfinished(n)
  <2>1. node_loop[n] = "waiting" /\ UNCHANGED <<node_id, server_addr>>
    BY <1>7 DEF GetUnfinished
  <2>2. KnownWhereItAsks(n)
    BY <2>1 DEF KnownWhereItAsks
  <2>3. ASSUME NEW k \in Conns, NEW s \in Servers, NEW c \in ChunkIdx, NEW id \in NodeIDs,
               Answers(conn[k], s, c, id), conn'[k] # conn[k]
        PROVE  UnderWay(s, c, id)'
    <3>1. k = sock[n]
      BY <1>3, <2>3
    <3>2. /\ conn[k].server = s /\ conn[k].request.node_id = id /\ conn[k].reply.chunk_id = c
      BY <2>3, AnswerTypes
    <3>3. node_id[n] = id /\ server_addr[n] = s
      BY <1>2, <2>1, <3>1, <3>2 DEF IdInv, Waits, Asks, Names
    <3>4. work'[n] = c
      BY <1>0, <1>7, <3>1, <3>2 DEF GetUnfinished
    <3>5. node_id'[n] = id /\ server_addr'[n] = s
      BY <2>1, <3>3
    <3> QED BY <3>4, <3>5 DEF UnderWay
  <2>4. WorkKept
    BY <1>3, <1>4, <1>5, <2>3, NodeWorkKept
  <2> QED BY <1>1, <1>2, <1>3, <1>4, <1>6, <2>2, <2>4, NodeStrand
<1>8. CASE ~GetUnfinished(n)
  <2>1. \A s, c, id : ~Answers(conn[sock[n]], s, c, id)
    BY <1>8, AnswerTypes DEF GetInitialData, RegisterLost, NeedsDataLost, GetNoWork, GetNewServer,
                        Replied, StreamLost
  <2>2. WorkKept
    BY <1>3, <1>4, <1>5, <2>1, NodeWorkKept
  <2>3. server_addr'[n] # home => KnownWhereItAsks(n)
    <3>1. CASE GetInitialData(n)
      BY <3>1 DEF GetInitialData, IdInv, StartAtHome
    <3>2. CASE RegisterLost(n) \/ GetNewServer(n)
      BY <1>0, <3>2 DEF RegisterLost, GetNewServer, Goto, KnownWhereItAsks
    <3>3. CASE NeedsDataLost(n) \/ GetNoWork(n)
      BY <3>3 DEF NeedsDataLost, GetNoWork, KnownWhereItAsks
    <3> QED BY <1>8, <3>1, <3>2, <3>3
  <2> QED BY <1>1, <1>2, <1>3, <1>4, <1>6, <2>2, <2>3, NodeStrand
<1> QED BY <1>7, <1>8

(* A node that finds its server gone.                                      *)
LEMMA RefusedStrand ==
  ASSUME NEW home \in Servers, TypeInv, IdInv(home), StrandInv(home), TypeInv',
         NEW n \in Nodes, MainThreadRefused(n), ~listening[server_addr[n]],
         UNCHANGED serverVars
  PROVE  StrandInv(home)'
<1>0. /\ node_loop \in [Nodes -> {"start", "registering", "request", "waiting",
                              "working", "migrating", "exited", "failed", "crashed"}]
      /\ work \in [Nodes -> ChunkIdx \cup {None}]
  BY DEF TypeInv, TypeOK, NCNodeTypeOK
<1>1. UNCHANGED <<conn, node_list, listening, node_id, server_addr>>
  BY DEF serverVars, connVars, MainThreadRefused, RegisterRefused, NeedsDataRefused,
         NodeMigratedRefused, WorkFails
<1>2. /\ node_loop[n] # "crashed"
      /\ \E place : Goto(n, place)
      /\ \A m \in Nodes \ {n} : work'[m] = work[m]
  BY <1>0 DEF MainThreadRefused, RegisterRefused, NeedsDataRefused,
              NodeMigratedRefused, WorkFails, RoundFails
<1>3. OthersRest(n)
  BY <1>0, <1>1, <1>2 DEF OthersRest, Goto
<1>4. StreamsStay /\ AsksMine(n) /\ KnownStays
  BY <1>1, SameStays, NewsStay
<1>5. KnownWhereItAsks(n)
  BY <1>1 DEF KnownWhereItAsks
<1>6. WorkKept
  BY <1>1, <1>3, <1>4, NodeWorkKept
<1> QED BY <1>1, <1>2, <1>3, <1>4, <1>5, <1>6, NodeStrand

LEMMA HeartbeatStrand ==
  ASSUME NEW home \in Servers, TypeInv, IdInv(home), StrandInv(home), TypeInv',
         NEW n \in Nodes, HeartBeat(n) \/ HeartBeatRefused(n), UNCHANGED serverVars
  PROVE  StrandInv(home)'
<1>1. UNCHANGED <<node_list, listening, node_id, server_addr, node_loop, work>>
  BY DEF serverVars, connVars, HeartBeat, HeartBeatRefused
<1>2. StreamsStay /\ AsksMine(n) /\ \A l \in Conns : conn[l] # None => conn'[l] = conn[l]
  <2>1. CASE HeartBeat(n)
    <3> DEFINE request == [type |-> "HeartBeat", node_id |-> node_id[n]]
               no == FALSE
    <3>1. PICK k \in Conns : Send(k, server_addr[n], request, no)
      BY <2>1 DEF HeartBeat
    <3>2. request.type = "HeartBeat"
      OBVIOUS
    <3> HIDE DEF request, no
    <3> QED BY <1>1, <3>1, <3>2, SendStays
  <2>2. CASE HeartBeatRefused(n)
    BY <1>1, <2>2, SameStays DEF HeartBeatRefused, connVars
  <2> QED BY <2>1, <2>2
<1>3. node_loop[n] # "crashed"
  BY DEF IdInv, Leftovers, HeartBeat, HeartBeatRefused
<1>4. OthersRest(n)
  BY <1>1 DEF OthersRest
<1>5. KnownStays
  BY <1>2, NewsStay
<1>6. KnownWhereItAsks(n)
  BY <1>1 DEF KnownWhereItAsks
<1>7. WorkKept
  <2>1. \A s \in Servers, c \in ChunkIdx, id \in NodeIDs :
          node_id[n] = id /\ server_addr[n] = s /\ work[n] = c => UnderWay(s, c, id)'
    BY <1>1 DEF UnderWay
  <2> QED BY <1>2, <1>4, <2>1, AnswerTypes, NodeWorkKept
<1> QED BY <1>1, <1>2, <1>3, <1>4, <1>5, <1>6, <1>7, NodeStrand

(* What a node that dies was computing is lost, and its server knows the   *)
(* node.                                                                   *)
LEMMA CrashStrand ==
  ASSUME NEW home \in Servers, TypeInv, IdInv(home), MoveInv(home), StrandInv(home), TypeInv',
         NEW n \in Nodes, Crash(n), UNCHANGED serverVars
  PROVE  StrandInv(home)'
<1>0. /\ node_loop \in [Nodes -> {"start", "registering", "request", "waiting",
                              "working", "migrating", "exited", "failed", "crashed"}]
      /\ work \in [Nodes -> ChunkIdx \cup {None}]
      /\ conn \in [Conns -> Stream \cup {None}]
      /\ ChunkIdx \subseteq Nat
  BY DEF TypeInv, TypeOK, NCNodeTypeOK, NCConnectionTypeOK, ChunkIdx
<1>1. UNCHANGED <<node_list, listening, node_id, server_addr>>
  BY DEF serverVars, Crash
<1>2. /\ node_loop[n] # "crashed" /\ node_loop'[n] = "crashed"
      /\ \A m \in Nodes \ {n} : node_loop'[m] = node_loop[m] /\ work'[m] = work[m]
  BY <1>0 DEF Crash, Alive, Goto
<1>3. OthersRest(n)
  BY <1>1, <1>2 DEF OthersRest
<1>4. sock[n] # None => sock[n] \in Conns /\ AwaitsReply(n)
  BY DEF TypeInv, NodeOK
<1>5. \A k \in Conns :
        \/ conn'[k] = conn[k]
        \/ AwaitsReply(n) /\ k = sock[n] /\ conn'[k] = Abandoned(conn[k])
  BY <1>0, <1>4 DEF Crash
<1>6. AwaitsReply(n) =>
        /\ conn[sock[n]] # None /\ conn[sock[n]].request.type \in {"Register", "NeedsData"}
  BY DEF IdInv, Waits, AwaitsReply, Registers, Asks, Names
<1>7. ASSUME NEW k \in Conns
      PROVE  conn'[k] # None => /\ conn[k] # None /\ conn'[k].request = conn[k].request
                                /\ conn'[k].server = conn[k].server
  <2>1. CASE conn[k] = None
    BY <1>5, <1>6, <2>1
  <2>2. CASE conn[k] # None
    <3>1. conn[k] \in Stream
      BY <1>0, <2>2
    <3>2. Abandoned(conn[k]) # None => /\ Abandoned(conn[k]).request = conn[k].request
                                       /\ Abandoned(conn[k]).server = conn[k].server
      BY <3>1 DEF Abandoned, Stream
    <3> QED BY <1>5, <2>2, <3>2
  <2> QED BY <2>1, <2>2
<1>8. AsksKept /\ AsksMine(n)
  BY <1>7 DEF AsksKept, AsksMine, Asks, Names
<1>9. StreamsStay
  BY <1>1, <1>5, <1>6 DEF StreamsStay
<1>10. KnownStays
  BY <1>9, NewsStay
<1>11. KnownWhereItAsks(n)
  BY <1>2 DEF KnownWhereItAsks
<1>12. ASSUME NEW s \in Servers, NEW id \in NodeIDs, s = server_addr[n], id = node_id[n],
              listening[s], node_loop[n] \in {"waiting", "working"},
              node_loop[n] = "waiting" => ~Redirects(conn[sock[n]]),
              \A k \in Conns : ~Asks(conn'[k], id)
       PROVE  Lost(s, id)'
  <2>1. Known(s, id)
    <3>1. CASE s = home
      <4>1. id \in Ids(node_list[s])
        BY <1>12, <3>1 DEF MoveInv, Listed
      <4> QED BY <4>1 DEF Known
    <3>2. CASE s # home
      BY <1>12, <3>2 DEF StrandInv, KnownAway
    <3> QED BY <3>1, <3>2
  <2>2. Known(s, id)'
    BY <1>10, <2>1 DEF KnownStays
  <2>3. node_id'[n] = id /\ node_loop'[n] = "crashed"
    BY <1>1, <1>2, <1>12
  <2> QED BY <1>12, <2>2, <2>3 DEF Lost
<1>13. ASSUME NEW s \in Servers, NEW c \in ChunkIdx, NEW id \in NodeIDs,
              listening'[s], node_id[n] = id, server_addr[n] = s, work[n] = c
       PROVE  Lost(s, id)'
  <2>1. node_loop[n] = "working"
    BY <1>0, <1>13, NCMessagesAssumption DEF IdInv, Leftovers
  <2>2. \A k \in Conns : ~Asks(conn[k], id)
    <3> SUFFICES ASSUME NEW k \in Conns, Asks(conn[k], id) PROVE FALSE
      OBVIOUS
    <3>1. PICK m \in Nodes : node_id[m] = id /\ node_loop[m] \in {"waiting", "crashed"}
      BY DEF IdInv, RequestsOwned, Asks
    <3>2. m = n
      BY <1>13, <3>1, NCMessagesAssumption DEF IdInv, OwnIds
    <3> QED BY <2>1, <3>1, <3>2
  <2>3. \A k \in Conns : ~Asks(conn'[k], id)
    BY <1>8, <2>2 DEF AsksKept
  <2> QED BY <1>1, <1>12, <1>13, <2>1, <2>3
<1>14. ASSUME NEW k \in Conns, NEW s \in Servers, NEW c \in ChunkIdx, NEW id \in NodeIDs,
              listening'[s], Answers(conn[k], s, c, id), conn'[k] # conn[k]
       PROVE  Lost(s, id)'
  <2>1. AwaitsReply(n) /\ k = sock[n] /\ conn'[k] = Abandoned(conn[k])
    BY <1>5, <1>14
  <2>2. /\ conn[k] # None /\ conn[k].step = "replied" /\ conn[k].reply.type = "Unfinished"
        /\ conn[k].request.type = "NeedsData" /\ conn[k].request.node_id = id
        /\ conn[k].server = s
    BY <1>14, AnswerTypes
  <2>3. /\ node_loop[n] = "waiting" /\ node_id[n] = id /\ server_addr[n] = s
        /\ Asks(conn[k], id)
    BY <2>1, <2>2 DEF IdInv, Waits, Asks, Names, Registers, AwaitsReply
  <2>4. conn'[k] = None
    BY <2>1, <2>2 DEF Abandoned
  <2>5. \A l \in Conns : ~Asks(conn'[l], id)
    BY <1>8, <2>3, <2>4 DEF AsksKept, IdInv, AskOnce, Asks, Names
  <2>6. ~Redirects(conn[sock[n]])
    BY <2>1, <2>2 DEF Redirects
  <2> QED BY <1>1, <1>12, <1>14, <2>3, <2>5, <2>6
<1>15. WorkKept
  BY <1>3, <1>9, <1>13, <1>14, NodeWorkKept
<1> QED BY <1>1, <1>2, <1>3, <1>8, <1>10, <1>11, <1>15, NodeStrand

LEMMA NextStrand ==
  ASSUME NEW home \in Servers, OneHome(home), MoveOnce, NothingFails,
         TypeInv, IdInv(home), MoveInv(home), StrandInv(home), TypeInv', [Next]_vars
  PROVE  StrandInv(home)'
<1>1. CASE ServerStep BY <1>1, ServerStrand
<1>2. CASE NodeStep
  <2>1. UNCHANGED serverVars
    BY <1>2 DEF NodeStep
  <2>2. PICK n \in Nodes : \/ main_thread(n) \/ HeartBeat(n) \/ HeartBeatRefused(n)
                           \/ MainThreadRefused(n) /\ ~listening[server_addr[n]]
    BY <1>2 DEF NodeStep, NCNodeNext, NodeMainLoop, NodeHeartbeatThread
  <2> QED BY <2>1, <2>2, SendStrand, CloseStrand, RefusedStrand, HeartbeatStrand DEF main_thread
<1>3. CASE (\E s \in Servers : HeartbeatExpires(s)) \/ HeartbeatLate
  BY <1>3, ExpireStrand DEF HeartbeatExpires, HeartbeatLate
<1>4. CASE NodeCrashes
  BY <1>4, CrashStrand DEF NodeCrashes
<1>5. CASE StreamBreaks \/ ConnectRefused \/ CheckRefused \/ ProcessDataFails
  BY <1>5 DEF StreamBreaks, ConnectRefused, CheckRefused, ProcessDataFails, Event, NothingFails
<1>6. CASE OperatorSends
  BY <1>6, OperatorStrand
<1>7. CASE UNCHANGED vars
  <2>1. UNCHANGED <<conn, listening, node_list, departed, chunk_list, nodeVars>>
    BY <1>7 DEF vars, connVars, serverVars
  <2>2. ListsGrow
    BY <2>1 DEF ListsGrow
  <2> QED BY <2>1, <2>2, StreamsUnchanged, StillStrand
<1> QED BY <1>1, <1>2, <1>3, <1>4, <1>5, <1>6, <1>7 DEF Next, Terminated

LEMMA InitStrand ==
  ASSUME NEW home, Init
  PROVE  StrandInv(home)
<1>1. \A k \in Conns : conn[k] = None
  BY DEF Init, NCConnectionInit
<1>2. \A n \in Nodes : node_loop[n] = "start"
  BY DEF Init, NCNodeInit
<1>3. \A s \in Servers, c \in ChunkIdx : chunk_list[s][c].status = "Empty"
  BY DEF Init, NCServerInit, initialize
<1>4. KnownAway(home)
  BY <1>1, <1>2 DEF KnownAway, Asks, Names
<1>5. ChunksAccounted
  BY <1>3 DEF ChunksAccounted
<1> QED BY <1>4, <1>5 DEF StrandInv

(* The owner of a lost chunk is dead and its server has heard of it.       *)
LEMMA LostTimesOut ==
  ASSUME NEW home \in Servers, IdInv(home), NEW s \in Servers, NEW id \in NodeIDs, Lost(s, id)
  PROVE  WillTimeOut(s, id)
<1>1. PICK m \in Nodes : node_id[m] = id /\ node_loop[m] = "crashed"
  BY DEF Lost
<1>2. ASSUME NEW n \in Nodes, heartbeat[n] = "running", node_id[n] = id
      PROVE  FALSE
  <2>1. n = m
    BY <1>1, <1>2, NCMessagesAssumption DEF IdInv, OwnIds
  <2> QED BY <1>1, <1>2, <2>1 DEF IdInv, Leftovers
<1>3. Known(s, id)
  BY DEF Lost
<1> QED BY <1>2, <1>3 DEF WillTimeOut, Known, Unread, MigratedFrom

(* No chunk is stranded, with any number of servers, nodes and chunks,     *)
(* however many nodes crash, wherever they are, however late heartbeats    *)
(* are, and when operators send nodes to other servers: a result is under  *)
(* way, or the heartbeat check is going to free the chunk (array2d.rs      *)
(* heartbeat_timeout).                                                     *)
THEOREM NoStrandedChunkHolds ==
  ASSUME NEW home \in Servers, OneHome(home), MoveOnce, NothingFails
  PROVE  Spec => []NoStrandedChunk
<1>1. Init => StrandInv(home)
  BY InitStrand
<1>2. TypeInv /\ IdInv(home) /\ MoveInv(home) /\ StrandInv(home) /\ TypeInv' /\ [Next]_vars
        => StrandInv(home)'
  BY NextStrand
<1>3. TypeInv /\ IdInv(home) /\ StrandInv(home) => NoStrandedChunk
  <2> SUFFICES ASSUME IdInv(home), StrandInv(home),
                      NEW s \in Servers, NEW c \in ChunkIdx, listening[s],
                      chunk_list[s][c].status = "Processing"
               PROVE  \/ UnderWay(s, c, chunk_list[s][c].node_id)
                      \/ WillTimeOut(s, chunk_list[s][c].node_id)
    BY DEF NoStrandedChunk
  <2> QED BY LostTimesOut DEF StrandInv, ChunksAccounted
<1>4. Spec => [](TypeInv /\ IdInv(home) /\ MoveInv(home))
  <2>1. "lose" \notin Events
    BY DEF NothingFails
  <2> QED BY <2>1, MovesKept
<1> QED BY <1>1, <1>2, <1>3, <1>4, PTL DEF Spec
=============================================================================
