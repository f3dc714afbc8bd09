---------------------------- MODULE MCServerLocks ----------------------------
(* Peers, requests and small pools for TLC.                                *)
EXTENDS ServerLocks, TLC

(* The handlers that hold one mutex while they wait for another.           *)
HoldingRequests ==
       [type : {"Register"}]
  \cup [type : {"NeedsData"}, node_id : NodeIDs]
  \cup [type : {"NewServer"}, server : Servers]
  \cup [type : {"CustomMessage"}, message : Messages, destination : {None}]

(* ... with one that holds none, and with the one that locks one twice.    *)
MixedRequests ==
  HoldingRequests \cup [type : {"GetStatistics"}]
                  \cup [type : {"HasData"}, node_id : NodeIDs, chunk_id : ChunkIdx]
=============================================================================
