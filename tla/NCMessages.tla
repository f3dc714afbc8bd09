----------------------------- MODULE NCMessages -----------------------------
(***************************************************************************)
(* The vocabulary shared by server and nodes: the two message enums of     *)
(* nc_node.rs and nc_server.rs.  Payloads are reduced to what the protocol *)
(* tells apart: a piece of work or a result is the index of its chunk, an  *)
(* address is a server, a custom message is a model value.                 *)
(***************************************************************************)
EXTENDS Naturals

CONSTANTS
  Servers,      \* the server processes (their socket addresses)
  NodeIDs,      \* the values NodeID::random() may return
  NumChunks,    \* number of chunks a job is split into
  Messages,     \* payloads of custom messages
  None          \* Option::None, an absent connection, no result yet

ChunkIdx == 0 .. NumChunks - 1

ASSUME NCMessagesAssumption ==
  /\ NumChunks \in Nat
  /\ None \notin Servers \cup NodeIDs \cup Messages \cup Nat

(* The server's own heartbeat thread and an operator use the node enum too. *)
NCNodeMessage ==
       [type : {"Register", "CheckHeartbeat", "ShutDown"}]
  \cup [type : {"NeedsData", "HeartBeat", "NodeMigrated"}, node_id : NodeIDs]
  \cup [type : {"HasData"}, node_id : NodeIDs, chunk_id : ChunkIdx]
  \cup [type : {"NewServer"}, server : Servers]
  \cup [type : {"CustomMessage"}, message : Messages,
        destination : NodeIDs \cup {None}]

(* JobStatus(Unfinished(data)) and JobStatus(Waiting) are two types here;  *)
(* JobStatus(Finished) is never sent.                                      *)
NCServerMessage ==
       [type : {"InitialData"}, node_id : NodeIDs]
  \cup [type : {"Unfinished"}, chunk_id : ChunkIdx]
  \cup [type : {"Waiting"}]
  \cup [type : {"NewServer"}, server : Servers]
  \cup [type : {"CustomMessage"}, message : Messages]
=============================================================================
