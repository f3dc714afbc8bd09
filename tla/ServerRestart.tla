---------------------------- MODULE ServerRestart ----------------------------
(***************************************************************************)
(* A server process that is killed in the middle of its job and started    *)
(* again, while nodes of its first life still run: their retry counters    *)
(* (nc_node.rs) let them outlast a server that is away for some time.      *)
(* A server keeps everything in memory, so its second life knows neither   *)
(* nodes nor results, but it gives work to whoever asks                    *)
(* (prepare_data_for_node) and ignores the heartbeats of nodes it does not *)
(* know (update_heartbeat).  "kill" is one more kind of Events.            *)
(***************************************************************************)
EXTENDS NodeCrunch

VARIABLES
  killed,       \* the servers that have been killed and not started again
  kills,        \* how often one has been killed
  asked         \* history: server -> <<chunk, id>> it has given out in this life

restartVars == <<killed, kills, asked>>
allVars == <<vars, restartVars>>

RestartTypeOK ==
  /\ TypeOK
  /\ killed \subseteq Servers
  /\ kills \in 0 .. MaxEvents
  /\ asked \in [Servers -> SUBSET (ChunkIdx \X NodeIDs)]

RestartInit ==
  /\ Init
  /\ killed = {}
  /\ kills = 0
  /\ asked = [s \in Servers |-> {}]

(* Answers that are written can still be read; all other streams break.    *)
Broken(s, stream) ==
  IF stream # None /\ stream.server = s /\ stream.step # "replied"
  THEN Dropped(stream) ELSE stream

(* The operating system ends the process, all its threads and streams.     *)
(* What it has in memory is gone; the next life starts with NCServerInit.  *)
(* As in NCServer, no id is drawn at random twice.  A server that has      *)
(* saved its image is left alone.                                          *)
Kill(s) ==
  /\ main_loop[s] \in {"accept", "check", "finish"}
  /\ Event("kill")
  /\ kills' = kills + 1
  /\ killed' = killed \cup {s}
  /\ asked' = [asked EXCEPT ![s] = {}]
  /\ listening' = [listening EXCEPT ![s] = FALSE]
  /\ conn' = [k \in Conns |-> Broken(s, conn[k])]
  /\ main_loop' = [main_loop EXCEPT ![s] = "exited"]
  /\ server_heartbeat' = [server_heartbeat EXCEPT ![s] = "exited"]
  /\ job_done' = [job_done EXCEPT ![s] = FALSE]
  /\ departed' = departed \cup Ids(node_list[s])
  /\ node_list' = [node_list EXCEPT ![s] = <<>>]
  /\ new_server' = [new_server EXCEPT ![s] = None]
  /\ poisoned' = [poisoned EXCEPT ![s] = FALSE]
  /\ chunk_list' = [chunk_list EXCEPT ![s] = initialize]
  /\ image' = [image EXCEPT ![s] = [c \in ChunkIdx |-> None]]
  /\ stopped' = [stopped EXCEPT ![s] = FALSE]
  /\ UNCHANGED <<saved, nodeVars>>

(* NCServerStarter::start() once more.                                     *)
Restart(s) ==
  /\ s \in killed
  /\ killed' = killed \ {s}
  /\ listening' = [listening EXCEPT ![s] = TRUE]
  /\ main_loop' = [main_loop EXCEPT ![s] = "accept"]
  /\ server_heartbeat' = [server_heartbeat EXCEPT ![s] = "running"]
  /\ UNCHANGED <<conn, job_done, listVars, jobVars, saved, stopped, nodeVars, events,
                 kills, asked>>

(* Everything else, with a record of who is given what.                    *)
GivenOut(s) ==
  {given \in ChunkIdx \X NodeIDs :
     LET c == given[1]
         id == given[2]
     IN  /\ chunk_list'[s][c] # chunk_list[s][c]
         /\ chunk_list'[s][c] = set_processing(chunk_list[s][c], id)}

Proceed ==
  /\ Next
  /\ asked' = [s \in Servers |-> asked[s] \cup GivenOut(s)]
  /\ UNCHANGED <<killed, kills>>

RestartNext ==
  \/ Proceed
  \/ \E s \in Servers : Kill(s) \/ Restart(s)

RestartSpec == RestartInit /\ [][RestartNext]_allVars

-----------------------------------------------------------------------------
(* Nothing a node has computed for the first life of a server gets into    *)
(* the image of the second, unless its sender has been given that chunk    *)
(* again (process_data_from_node): results and requests travel on          *)
(* connections of their own, and nodes do not notice the change.           *)
OnlyAskedFor ==
  \A s \in Servers, c \in ChunkIdx :
    image[s][c] # None => <<c, image[s][c]>> \in asked[s]

(* A job ends with its image saved, the server and all nodes gone, if one  *)
(* node crashes, and also if it is the server that is killed and started   *)
(* again: nodes of the first life finish the job of the second, although   *)
(* they never register with it, unless all of them have run out of retries *)
(* while there was no server (nc_node.rs:442).  Nobody tells the nodes     *)
(* that the job is over: both their threads run out of retries then.       *)
Complete(s) == main_loop[s] = "exited" /\ saved[s] # None /\ \A c \in ChunkIdx : saved[s][c] # None

AllEnds ==
  <>(\/ (\A s \in Servers : Complete(s)) /\ \A n \in Nodes : ~Alive(n)
     \/ kills > 0 /\ \A n \in Nodes : node_loop[n] \in {"exited", "failed", "crashed"})
=============================================================================
