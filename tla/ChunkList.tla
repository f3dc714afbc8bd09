------------------------------ MODULE ChunkList ------------------------------
(***************************************************************************)
(* The book-keeping list of array2d.rs: which chunk of the job is assigned *)
(* to which node.  A chunk list is a function from chunk indices to        *)
(* [status, node_id] records; every operator below is one method.          *)
(***************************************************************************)
EXTENDS NCMessages

ChunkStatus == {"Empty", "Processing", "Finished"}

Chunk == [status : ChunkStatus, node_id : NodeIDs \cup {None}]

(* push(): the id a chunk is born with is random and belongs to no node.   *)
initialize == [c \in ChunkIdx |-> [status |-> "Empty", node_id |-> None]]

(* Mutant: it does not matter to whom the chunk is assigned.               *)
is_processing_whoever(chunk, id) == chunk.status = "Processing"

is_processing(chunk, id) == chunk.status = "Processing" /\ chunk.node_id = id

set_processing(chunk, id) == [status |-> "Processing", node_id |-> id]

(* Mutant: the status is left as it is.                                    *)
set_finished_forgotten(chunk) == chunk

set_finished(chunk) == [chunk EXCEPT !.status = "Finished"]

set_empty(chunk) == [chunk EXCEPT !.status = "Empty"]

(* One component of stats(): the chunks that have the given status.        *)
Having(chunks, status) == {c \in ChunkIdx : chunks[c].status = status}

(* get_next_free_chunk() returns the position of the first empty chunk.    *)
IsNextFree(chunks, c) ==
  /\ c \in Having(chunks, "Empty")
  /\ \A d \in Having(chunks, "Empty") : c <= d

(* Mutant: a node's finished chunks are given back too.                    *)
heartbeat_timeout_any_status(chunks, nodes) ==
  [c \in ChunkIdx |->
     IF chunks[c].node_id \in nodes THEN set_empty(chunks[c]) ELSE chunks[c]]

(* heartbeat_timeout(): give back what these nodes have been processing.   *)
heartbeat_timeout(chunks, nodes) ==
  [c \in ChunkIdx |->
     IF \E id \in nodes : is_processing(chunks[c], id)
     THEN set_empty(chunks[c]) ELSE chunks[c]]

(* Mutant: chunks that are being processed are overlooked.                 *)
is_job_done_all_assigned(chunks) == Having(chunks, "Empty") = {}

(* The servers of the examples ask stats() whether the job is done.        *)
is_job_done(chunks) ==
  /\ Having(chunks, "Empty") = {}
  /\ Having(chunks, "Processing") = {}
=============================================================================
