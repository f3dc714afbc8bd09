------------------------------- MODULE JobProofs -------------------------------
(***************************************************************************)
(* What a server does about its job: the results are written once, the     *)
(* image that is saved is complete, and each server implements JobSpec.    *)
(* The same of a server that is killed and started again, whose image      *)
(* holds nothing it has not asked for in this life.  At the end: as long   *)
(* as the living are heard in time, no chunk is computed by two of them.   *)
(***************************************************************************)
EXTENDS NodeCrunchProofs, ServerRestart

-----------------------------------------------------------------------------
(* The job of a server.                                                    *)

(* The book-keeping list and the image agree.                              *)
ListMatchesImage ==
  \A s \in Servers, c \in ChunkIdx :
    chunk_list[s][c].status = "Finished" <=> image[s][c] # None

(* Whoever is about to set the flag, or has set it, has seen the last      *)
(* chunk finished or was told to stop; what was seen stays true.           *)
ShutDownJustified ==
  \A k \in Conns :
    conn[k] # None /\ conn[k].step = "shut_down" => AllDelivered(conn[k].server)

DoneJustified ==
  \A s \in Servers : job_done[s] => stopped[s] \/ AllDelivered(s)

(* The job is saved once, after the accept loop has seen the flag.         *)
SavedLast ==
  \A s \in Servers :
    /\ main_loop[s] \in {"accept", "check", "finish"} => saved[s] = None
    /\ main_loop[s] = "finish" => job_done[s]

JobInv ==
  /\ ListMatchesImage
  /\ ShutDownJustified
  /\ DoneJustified
  /\ SavedLast
  /\ SavedImageComplete

-----------------------------------------------------------------------------
(* No stream gets to "shut_down" but those that are there already.         *)

NoNewShutDown ==
  \A k \in Conns :
    conn'[k] # None /\ conn'[k].step = "shut_down" =>
      conn[k] # None /\ conn[k].step = "shut_down" /\ conn'[k].server = conn[k].server

LEMMA StreamUpdates ==
  ASSUME TypeInv, NEW k \in Conns
  PROVE  /\ conn[k] # None /\ Drop(k) => NoNewShutDown
         /\ \A m : conn[k] # None /\ Answer(k, m) => NoNewShutDown
         /\ \A s, m, open : Send(k, s, m, open) => NoNewShutDown
         /\ conn' = [conn EXCEPT ![k] = None] => NoNewShutDown
<1>1. conn \in [Conns -> Stream \cup {None}]
  BY DEF TypeInv, TypeOK, NCConnectionTypeOK
<1>2. ASSUME NEW x, x # None => x.step # "shut_down",
             conn' = [conn EXCEPT ![k] = x]
      PROVE  NoNewShutDown
  BY <1>1, <1>2 DEF NoNewShutDown
<1>3. ASSUME conn[k] # None
      PROVE  /\ Dropped(conn[k]) # None => Dropped(conn[k]).step # "shut_down"
             /\ \A m : Answered(conn[k], m) # None => Answered(conn[k], m).step # "shut_down"
  BY <1>1, <1>3 DEF Dropped, Answered, Stream
<1>4. \A s, m, open : NewStream(s, m, open).step # "shut_down"
  BY DEF NewStream
<1>5. conn[k] # None /\ Drop(k) => NoNewShutDown
  BY <1>2, <1>3 DEF Drop
<1>6. \A m : conn[k] # None /\ Answer(k, m) => NoNewShutDown
  BY <1>2, <1>3 DEF Answer
<1>7. ASSUME NEW s, NEW m, NEW open, Send(k, s, m, open)
      PROVE  NoNewShutDown
  <2>1. conn' = [conn EXCEPT ![k] = NewStream(s, m, open)]
    BY <1>7 DEF Send
  <2> QED BY <1>2, <1>4, <2>1
<1>8. conn' = [conn EXCEPT ![k] = None] => NoNewShutDown
  BY <1>2
<1> QED BY <1>5, <1>6, <1>7, <1>8

LEMMA StreamContinues ==
  ASSUME TypeInv, NEW k \in Conns, conn[k] # None, NEW step, step # "shut_down",
         \/ Continue(k, step)
         \/ \E nodes : conn' = [conn EXCEPT ![k].nodes = nodes, ![k].step = step]
  PROVE  NoNewShutDown
<1>1. conn \in [Conns -> Stream \cup {None}] /\ conn[k] \in Stream
  BY DEF TypeInv, TypeOK, NCConnectionTypeOK
<1>2. CASE Continue(k, step)
  <2>1. [conn[k] EXCEPT !.step = step].step = step
    BY <1>1 DEF Stream
  <2> QED BY <1>1, <1>2, <2>1 DEF Continue, NoNewShutDown
<1>3. ASSUME NEW nodes, conn' = [conn EXCEPT ![k].nodes = nodes, ![k].step = step]
      PROVE  NoNewShutDown
  <2>1. [[conn[k] EXCEPT !.nodes = nodes] EXCEPT !.step = step].step = step
    BY <1>1 DEF Stream
  <2>2. conn' = [conn EXCEPT ![k] = [[conn[k] EXCEPT !.nodes = nodes] EXCEPT !.step = step]]
    BY <1>1, <1>3
  <2> QED BY <1>1, <2>1, <2>2 DEF NoNewShutDown
<1> QED BY <1>2, <1>3

(* The steps that leave the job alone.                                     *)
JobVars == <<main_loop, jobVars, doneVars, saved>>

JobUntouched == NoNewShutDown /\ UNCHANGED JobVars

LEMMA UntouchedKeeps ==
  ASSUME TypeInv, JobInv, JobUntouched
  PROVE  JobInv'
<1> USE DEF JobUntouched, JobVars, jobVars, doneVars, JobInv
<1>2. ListMatchesImage' /\ DoneJustified' /\ SavedLast' /\ SavedImageComplete'
  BY DEF ListMatchesImage, DoneJustified, SavedLast, SavedImageComplete, AllDelivered
<1>3. ShutDownJustified'
  BY DEF ShutDownJustified, NoNewShutDown, AllDelivered
<1> QED BY <1>2, <1>3

QuietHandler(s, k) ==
  \/ HandlerFails(s, k)       \/ HandleRegister(s, k)
  \/ HandleNeedsData(s, k)    \/ HandleLeavingNode(s, k)
  \/ HandleUnknownNode(s, k)  \/ SendCustomMessage(s, k)
  \/ NoCustomMessage(s, k)    \/ PrepareWaiting(s, k)
  \/ HandleHeartBeat(s, k)    \/ RejectResult(s, k)
  \/ HandleCheckHeartbeat(s, k) \/ HandleNewServer(s, k)
  \/ HandleNodeMigrated(s, k) \/ HandleCustomMessage(s, k)

(* The steps that do not.                                                  *)
JobHandler(s, k) ==
  \/ PrepareUnfinished(s, k) \/ PrepareFinished(s, k) \/ HandleFinished(s, k)
  \/ AcceptResult(s, k)      \/ HeartbeatTimeout(s, k) \/ HandleShutDown(s, k)

JobStep ==
  \E s \in Servers :
    \/ CheckJobDone(s) \/ FinishJob(s) \/ JoinThreads(s)
    \/ \E k \in Conns : Accept(s, k) \/ JobHandler(s, k)

LEMMA QuietHandlers ==
  ASSUME TypeInv, NEW s \in Servers, NEW k \in Conns, QuietHandler(s, k)
  PROVE  JobUntouched
<1> USE DEF JobVars, threadVars, listVars, jobVars, doneVars, serverVars
<1>1. UNCHANGED JobVars
  BY DEF QuietHandler, HandlerFails, HandleRegister, HandleNeedsData, HandleLeavingNode,
         HandleUnknownNode, SendCustomMessage, NoCustomMessage, PrepareWaiting,
         HandleHeartBeat, RejectResult, HandleCheckHeartbeat, HandleNewServer,
         HandleNodeMigrated, HandleCustomMessage
<1>2. conn[k] # None
  BY DEF QuietHandler, HandlerFails, HandleRegister, HandleNeedsData, HandleLeavingNode,
         HandleUnknownNode, SendCustomMessage, NoCustomMessage, PrepareWaiting,
         HandleHeartBeat, RejectResult, HandleCheckHeartbeat, HandleNewServer,
         HandleNodeMigrated, HandleCustomMessage, Received, At
<1>3. \/ Drop(k)
      \/ \E m : Answer(k, m)
      \/ Continue(k, "messages")
      \/ Continue(k, "prepare")
      \/ conn' = [conn EXCEPT ![k].nodes = check_heartbeat(node_list[s]),
                              ![k].step = "timeout"]
  BY DEF QuietHandler, HandlerFails, HandleRegister, HandleNeedsData, HandleLeavingNode,
         HandleUnknownNode, SendCustomMessage, NoCustomMessage, PrepareWaiting,
         HandleHeartBeat, RejectResult, HandleCheckHeartbeat, HandleNewServer,
         HandleNodeMigrated, HandleCustomMessage
<1>4. NoNewShutDown
  BY <1>2, <1>3, StreamUpdates, StreamContinues
<1> QED BY <1>1, <1>4 DEF JobUntouched

(* What the processes of the nodes do to the streams.                      *)
LEMMA QuietNodes ==
  ASSUME TypeInv, NEW n \in Nodes,
         main_thread(n) \/ MainThreadRefused(n) \/ HeartBeat(n) \/ HeartBeatRefused(n)
  PROVE  NoNewShutDown
<1> USE DEF connVars, SendAndWait, Close
<1>1. CASE UNCHANGED conn
  BY <1>1 DEF NoNewShutDown
<1>2. CASE \E k \in Conns : \E s, m, open : Send(k, s, m, open)
  BY <1>2, StreamUpdates
<1>3. CASE AwaitsReply(n) /\ Close(n)
  BY <1>3, StreamUpdates DEF TypeInv, NodeOK
<1>4. CASE main_thread(n)
  BY <1>2, <1>3, <1>4 DEF main_thread, SendRegister, GetInitialData, RegisterLost,
       SendNeedsData, NeedsDataLost, GetUnfinished, GetNoWork, GetNewServer,
       SendNodeMigrated, SendHasData, AwaitsReply
<1>5. CASE MainThreadRefused(n) \/ HeartBeat(n) \/ HeartBeatRefused(n)
  BY <1>1, <1>2, <1>5 DEF MainThreadRefused, RegisterRefused, NeedsDataRefused,
       NodeMigratedRefused, WorkFails, HeartBeat, HeartBeatRefused
<1> QED BY <1>4, <1>5

LEMMA QuietCrash ==
  ASSUME TypeInv, NEW n \in Nodes, Crash(n)
  PROVE  NoNewShutDown
<1>1. CASE sock[n] = None
  BY <1>1 DEF Crash, NoNewShutDown
<1>2. CASE sock[n] # None
  <2>1. /\ conn \in [Conns -> Stream \cup {None}]
        /\ sock[n] \in Conns /\ conn[sock[n]] \in Stream
        /\ conn' = [conn EXCEPT ![sock[n]] = Abandoned(conn[sock[n]])]
    BY <1>2 DEF Crash, TypeInv, TypeOK, NCConnectionTypeOK, NodeOK
  <2>2. Abandoned(conn[sock[n]]) # None =>
          /\ Abandoned(conn[sock[n]]).step = conn[sock[n]].step
          /\ Abandoned(conn[sock[n]]).server = conn[sock[n]].server
    BY <2>1 DEF Abandoned, Stream
  <2> QED BY <2>1, <2>2, NCConnectionAssumption DEF NoNewShutDown
<1> QED BY <1>1, <1>2

LEMMA QuietEnvironment ==
  ASSUME TypeInv, NEW k \in Conns,
         LoseRequest(k) \/ LoseReply(k) \/ \E s, m, open : Send(k, s, m, open)
  PROVE  NoNewShutDown
<1>1. CASE LoseRequest(k)
  BY <1>1, StreamUpdates DEF LoseRequest
<1>2. CASE LoseReply(k)
  BY <1>2, StreamContinues DEF LoseReply, Continue
<1>3. CASE \E s, m, open : Send(k, s, m, open)
  BY <1>3, StreamUpdates
<1> QED BY <1>1, <1>2, <1>3

(* Whatever happens is a step of the job or leaves the job alone.          *)
LEMMA StepsOfTheJob ==
  ASSUME TypeInv, [Next]_vars
  PROVE  JobStep \/ JobUntouched
<1> USE DEF JobUntouched, JobVars, jobVars, doneVars, serverVars
<1>1. CASE ServerStep
  <2>1. PICK s \in Servers : \/ ServerMainLoop(s)
                             \/ ServerHeartbeatThread(s)
                             \/ \E k \in Conns : Accept(s, k) \/ handle_node(s, k)
    BY <1>1 DEF ServerStep, NCServerNext
  <2>2. CASE ServerMainLoop(s) \/ \E k \in Conns : Accept(s, k)
    BY <2>2 DEF ServerMainLoop, JobStep
  <2>3. CASE SendCheckHeartbeat(s)
    BY <2>3, QuietEnvironment DEF SendCheckHeartbeat
  <2>4. CASE ServerHeartbeatExits(s)
    BY <2>4 DEF ServerHeartbeatExits, NoNewShutDown, connVars
  <2>5. ASSUME NEW k \in Conns, handle_node(s, k)
        PROVE  JobStep \/ JobUntouched
    <3>1. QuietHandler(s, k) \/ JobHandler(s, k)
      BY <2>5 DEF handle_node, QuietHandler, JobHandler
    <3> QED BY <3>1, QuietHandlers DEF JobStep
  <2> QED BY <2>1, <2>2, <2>3, <2>4, <2>5 DEF ServerHeartbeatThread
<1>2. CASE NodeStep
  BY <1>2, QuietNodes DEF NodeStep, NCNodeNext, NodeMainLoop, NodeHeartbeatThread
<1>3. ASSUME NEW s \in Servers, NEW id \in NodeIDs, Expire(s, id)
      PROVE  JobUntouched
  BY <1>3 DEF Expire, NoNewShutDown, connVars, threadVars
<1>4. CASE (\E s \in Servers : HeartbeatExpires(s)) \/ HeartbeatLate
  BY <1>3, <1>4 DEF HeartbeatExpires, HeartbeatLate
<1>5. CASE NodeCrashes
  BY <1>5, QuietCrash DEF NodeCrashes
<1>6. CASE StreamBreaks
  BY <1>6, QuietEnvironment DEF StreamBreaks
<1>7. CASE ConnectRefused
  BY <1>7, QuietNodes DEF ConnectRefused
<1>8. CASE ProcessDataFails
  BY <1>8, QuietNodes DEF ProcessDataFails, MainThreadRefused
<1>9. CASE OperatorSends
  BY <1>9, QuietEnvironment DEF OperatorSends
<1>10. CASE UNCHANGED vars
  BY <1>10 DEF vars, connVars, NoNewShutDown
<1>11. CASE CheckRefused
  BY <1>11 DEF CheckRefused, ServerHeartbeatExits, NoNewShutDown, connVars, listVars
<1> QED BY <1>1, <1>2, <1>4, <1>5, <1>6, <1>7, <1>8, <1>9, <1>10, <1>11 DEF Next, Terminated

-----------------------------------------------------------------------------
(* The steps of the job, one by one.                                       *)

KeepsResults ==
  \A s \in Servers, c \in ChunkIdx :
    image[s][c] # None =>
      /\ image'[s][c] = image[s][c]
      /\ chunk_list'[s][c] = chunk_list[s][c]

(* Once the results are all there, is_job_done() says so, and only then.   *)
LEMMA JobDoneMeansDelivered ==
  ASSUME TypeInv, ListMatchesImage, NEW s \in Servers, is_job_done(chunk_list[s])
  PROVE  AllDelivered(s)
<1>1. \A c \in ChunkIdx : chunk_list[s][c].status \in ChunkStatus
  BY DEF TypeInv, TypeOK, NCServerTypeOK, Chunk
<1>2. \A c \in ChunkIdx : chunk_list[s][c].status = "Finished"
  BY <1>1 DEF is_job_done, Having, ChunkStatus
<1> QED BY <1>2 DEF ListMatchesImage, AllDelivered

LEMMA MainLoopKeeps ==
  ASSUME TypeInv, JobInv, NEW s \in Servers,
         \/ CheckJobDone(s) \/ FinishJob(s) \/ JoinThreads(s)
         \/ \E k \in Conns : Accept(s, k)
  PROVE  JobInv' /\ KeepsResults
<1> USE DEF JobInv, jobVars, doneVars, connVars
<1>1. /\ main_loop \in [Servers -> {"accept", "check", "finish", "join", "exited"}]
      /\ saved \in [Servers -> Image \cup {None}]
      /\ conn \in [Conns -> Stream \cup {None}]
  BY DEF TypeInv, TypeOK, NCServerTypeOK, NCConnectionTypeOK
<1>2. UNCHANGED <<chunk_list, image, job_done, stopped>>
  BY DEF CheckJobDone, FinishJob, JoinThreads, Accept
<1>3. KeepsResults /\ ListMatchesImage' /\ DoneJustified'
  BY <1>2 DEF KeepsResults, ListMatchesImage, DoneJustified, AllDelivered
<1>4. ShutDownJustified'
  <2>1. NoNewShutDown
    <3>1. CASE UNCHANGED conn
      BY <3>1 DEF NoNewShutDown
    <3>2. CASE FinishJob(s)
      <4>1. \A k \in Conns : conn'[k] = conn[k] \/ (conn[k] # None /\ conn'[k] = Dropped(conn[k]))
        BY <3>2 DEF FinishJob, At
      <4>2. \A k \in Conns : conn[k] # None /\ Dropped(conn[k]) # None
                               => Dropped(conn[k]).step = "dropped"
        BY <1>1 DEF Dropped, Stream
      <4> QED BY <4>1, <4>2 DEF NoNewShutDown
    <3>3. CASE \E k \in Conns : Accept(s, k)
      BY <3>3, StreamContinues DEF Accept, At
    <3> QED BY <3>1, <3>2, <3>3 DEF CheckJobDone, JoinThreads
  <2> QED BY <1>2, <2>1 DEF NoNewShutDown, ShutDownJustified, AllDelivered
<1>5. SavedLast' /\ SavedImageComplete'
  <2>1. CASE FinishJob(s)
    <3>1. saved' = [saved EXCEPT ![s] = image[s]] /\ main_loop' = [main_loop EXCEPT ![s] = "join"]
      BY <2>1 DEF FinishJob
    <3>2. stopped[s] \/ AllDelivered(s)
      BY <2>1 DEF FinishJob, SavedLast, DoneJustified
    <3>3. SavedLast'
      BY <1>1, <1>2, <3>1 DEF SavedLast
    <3>4. SavedImageComplete'
      BY <1>1, <1>2, <3>1, <3>2 DEF SavedImageComplete, AllDelivered
    <3> QED BY <3>3, <3>4
  <2>2. CASE CheckJobDone(s)
    BY <1>1, <1>2, <2>2 DEF CheckJobDone, SavedLast, SavedImageComplete
  <2>3. CASE JoinThreads(s)
    BY <1>1, <1>2, <2>3 DEF JoinThreads, SavedLast, SavedImageComplete
  <2>4. CASE \E k \in Conns : Accept(s, k)
    BY <1>1, <1>2, <2>4 DEF Accept, SavedLast, SavedImageComplete
  <2> QED BY <2>1, <2>2, <2>3, <2>4
<1> QED BY <1>3, <1>4, <1>5

(* PrepareFinished, HandleFinished and HandleShutDown.                     *)
LEMMA FlagKeeps ==
  ASSUME TypeInv, JobInv, NEW s \in Servers, NEW k \in Conns,
         PrepareFinished(s, k) \/ HandleFinished(s, k) \/ HandleShutDown(s, k)
  PROVE  JobInv' /\ KeepsResults
<1> USE DEF JobInv, jobVars, doneVars, threadVars, listVars, serverVars
<1>1. /\ conn \in [Conns -> Stream \cup {None}]
      /\ job_done \in [Servers -> BOOLEAN]
      /\ stopped \in [Servers -> BOOLEAN]
  BY DEF TypeInv, TypeOK, NCServerTypeOK, NCConnectionTypeOK
<1>2. UNCHANGED <<main_loop, saved, chunk_list, image>>
  BY DEF PrepareFinished, HandleFinished, HandleShutDown
<1>3. KeepsResults /\ ListMatchesImage' /\ (\A t \in Servers : AllDelivered(t)' <=> AllDelivered(t))
  BY <1>2 DEF KeepsResults, ListMatchesImage, AllDelivered
<1>4. CASE PrepareFinished(s, k)
  <2>1. AllDelivered(s)
    BY <1>4, JobDoneMeansDelivered DEF PrepareFinished
  <2>2. conn[k] \in Stream /\ conn[k].server = s /\ conn' = [conn EXCEPT ![k].step = "shut_down"]
    BY <1>1, <1>4 DEF PrepareFinished, At, Continue
  <2>3. ShutDownJustified'
    BY <1>1, <1>2, <2>1, <2>2 DEF ShutDownJustified, Stream, AllDelivered
  <2> QED BY <1>2, <1>3, <1>4, <2>3
          DEF PrepareFinished, DoneJustified, SavedLast, SavedImageComplete, AllDelivered
<1>5. CASE HandleFinished(s, k) \/ HandleShutDown(s, k)
  <2>1. conn[k] # None /\ Drop(k)
    BY <1>5 DEF HandleFinished, HandleShutDown, Received, At
  <2>2. ShutDownJustified'
    BY <1>2, <2>1, StreamUpdates DEF NoNewShutDown, ShutDownJustified, AllDelivered
  <2>3. job_done' = [job_done EXCEPT ![s] = TRUE]
    BY <1>5 DEF HandleFinished, HandleShutDown
  <2>4. stopped' = stopped \/ stopped' = [stopped EXCEPT ![s] = TRUE]
    BY <1>5 DEF HandleFinished, HandleShutDown
  <2>5. stopped'[s] \/ AllDelivered(s)
    <3>1. CASE HandleFinished(s, k)
      BY <3>1 DEF HandleFinished, At, ShutDownJustified
    <3>2. CASE HandleShutDown(s, k)
      BY <1>1, <3>2 DEF HandleShutDown
    <3> QED BY <1>5, <3>1, <3>2
  <2>6. DoneJustified'
    BY <1>1, <1>3, <2>3, <2>4, <2>5 DEF DoneJustified
  <2>7. SavedLast' /\ SavedImageComplete'
    BY <1>1, <1>2, <2>3, <2>4 DEF SavedLast, SavedImageComplete
  <2> QED BY <1>3, <2>2, <2>6, <2>7
<1> QED BY <1>4, <1>5

(* PrepareUnfinished, HeartbeatTimeout and AcceptResult change the list,   *)
(* but no chunk that is finished, and at most AcceptResult the image.      *)
LEMMA ListKeeps ==
  ASSUME TypeInv, JobInv, NEW s \in Servers, NEW k \in Conns,
         PrepareUnfinished(s, k) \/ AcceptResult(s, k) \/ HeartbeatTimeout(s, k)
  PROVE  JobInv' /\ KeepsResults
<1> USE DEF JobInv, jobVars, doneVars, threadVars, listVars
<1>1. /\ chunk_list \in [Servers -> [ChunkIdx -> Chunk]]
      /\ image \in [Servers -> Image]
      /\ conn[k] # None
  BY DEF TypeInv, TypeOK, NCServerTypeOK, PrepareUnfinished, AcceptResult,
         HeartbeatTimeout, Received, At
<1>2. UNCHANGED <<main_loop, saved, job_done, stopped>>
  BY DEF PrepareUnfinished, AcceptResult, HeartbeatTimeout
<1>3. NoNewShutDown
  BY <1>1, StreamUpdates DEF PrepareUnfinished, AcceptResult, HeartbeatTimeout
<1>4. KeepsResults /\ ListMatchesImage'
  <2>1. CASE PrepareUnfinished(s, k)
    <3>1. PICK c \in ChunkIdx :
            /\ chunk_list[s][c].status = "Empty"
            /\ chunk_list' = [chunk_list EXCEPT ![s][c] =
                                set_processing(@, conn[k].request.node_id)]
      BY <2>1 DEF PrepareUnfinished, IsNextFree, Having
    <3>2. set_processing(chunk_list[s][c], conn[k].request.node_id).status = "Processing"
      BY DEF set_processing
    <3>3. image' = image
      BY <2>1 DEF PrepareUnfinished
    <3> QED BY <1>1, <3>1, <3>2, <3>3 DEF KeepsResults, ListMatchesImage
  <2>2. CASE AcceptResult(s, k)
    <3> DEFINE c  == conn[k].request.chunk_id
               id == conn[k].request.node_id
    <3>1. c \in ChunkIdx /\ id \in NodeIDs
      BY <2>2, RequestValues DEF AcceptResult
    <3>2. /\ chunk_list[s][c].status = "Processing"
          /\ chunk_list' = [chunk_list EXCEPT ![s][c] = set_finished(@)]
          /\ image' = [image EXCEPT ![s][c] = id]
      BY <2>2 DEF AcceptResult, is_processing
    <3> HIDE DEF c, id
    <3>3. set_finished(chunk_list[s][c]).status = "Finished"
      BY <1>1, <3>1 DEF set_finished, Chunk
    <3>4. id # None
      BY <3>1, NCMessagesAssumption
    <3> QED BY <1>1, <3>1, <3>2, <3>3, <3>4 DEF KeepsResults, ListMatchesImage, Image
  <2>3. CASE HeartbeatTimeout(s, k)
    <3> DEFINE after == heartbeat_timeout(chunk_list[s], conn[k].nodes)
    <3>1. chunk_list' = [chunk_list EXCEPT ![s] = after] /\ image' = image
      BY <2>3 DEF HeartbeatTimeout
    <3>2. \A c \in ChunkIdx :
            \/ after[c] = chunk_list[s][c]
            \/ chunk_list[s][c].status = "Processing" /\ after[c].status = "Empty"
      BY <1>1 DEF heartbeat_timeout, is_processing, set_empty, Chunk
    <3> HIDE DEF after
    <3>3. \A t \in Servers, c \in ChunkIdx :
            /\ image'[t][c] = image[t][c]
            /\ \/ chunk_list'[t][c] = chunk_list[t][c]
               \/ chunk_list[t][c].status = "Processing" /\ chunk_list'[t][c].status = "Empty"
      BY <1>1, <3>1, <3>2
    <3> QED BY <3>3 DEF KeepsResults, ListMatchesImage
  <2> QED BY <2>1, <2>2, <2>3
<1>5. \A t \in Servers : AllDelivered(t) => AllDelivered(t)'
  BY <1>4 DEF KeepsResults, AllDelivered
<1>6. ShutDownJustified'
  <2>1. conn \in [Conns -> Stream \cup {None}]
    BY DEF TypeInv, TypeOK, NCConnectionTypeOK
  <2> QED BY <1>3, <1>5, <2>1 DEF ShutDownJustified, NoNewShutDown, Stream
<1>7. DoneJustified' /\ SavedLast'
  BY <1>2, <1>5 DEF DoneJustified, SavedLast
<1>8. SavedImageComplete'
  <2>1. ASSUME NEW t \in Servers, saved[t] # None, ~stopped[t]
        PROVE  image'[t] = image[t] /\ \A c \in ChunkIdx : saved[t][c] # None
    <3>1. saved[t] = image[t] /\ \A c \in ChunkIdx : image[t][c] # None
      BY <2>1 DEF SavedImageComplete
    <3>2. \A c \in ChunkIdx : image'[t][c] = image[t][c]
      BY <1>4, <3>1 DEF KeepsResults
    <3>3. image'[t] \in Image /\ image[t] \in Image
      BY <1>1, HandlerTypes DEF handle_node, ServerTypes, NCServerTypeOK
    <3> QED BY <3>1, <3>2, <3>3 DEF Image
  <2> QED BY <1>2, <2>1 DEF SavedImageComplete
<1> QED BY <1>4, <1>6, <1>7, <1>8

-----------------------------------------------------------------------------
(* The theorems.                                                           *)

LEMMA JobStepKeeps ==
  ASSUME TypeInv, JobInv, JobStep
  PROVE  JobInv' /\ KeepsResults
BY MainLoopKeeps, FlagKeeps, ListKeeps DEF JobStep, JobHandler

LEMMA NextKeeps ==
  ASSUME TypeInv, JobInv, [Next]_vars
  PROVE  JobInv' /\ KeepsResults
<1>1. CASE JobStep
  BY <1>1, JobStepKeeps
<1>2. CASE JobUntouched
  <2>1. KeepsResults
    BY <1>2 DEF JobUntouched, JobVars, jobVars, KeepsResults
  <2> QED BY <1>2, <2>1, UntouchedKeeps
<1> QED BY <1>1, <1>2, StepsOfTheJob

LEMMA InitJob == Init => JobInv
BY DEF Init, NCConnectionInit, NCServerInit, initialize, JobInv, ListMatchesImage,
       ShutDownJustified, DoneJustified, SavedLast, SavedImageComplete

(* What the list, the image, the handlers about to report the job done,    *)
(* the flag and the main loop know of each other (process_data_from_node,  *)
(* prepare_data_for_node, handle_node, start_main_loop).                   *)
THEOREM JobCorrect == Spec => [](TypeInv /\ JobInv)
<1>1. TypeInv /\ JobInv /\ [Next]_vars => (TypeInv /\ JobInv)'
  BY NextTypes, NextKeeps
<1> QED BY <1>1, InitTypes, InitJob, PTL DEF Spec

(* However handlers, heartbeat checks, crashes and lost streams interleave,*)
(* the image finish_job() saves has a result for every chunk unless an     *)
(* operator has cut the job short (nc_server.rs start_main_loop).          *)
THEOREM SavedImageIsComplete == Spec => []SavedImageComplete
<1>1. JobInv => SavedImageComplete
  BY DEF JobInv
<1> QED BY <1>1, JobCorrect, PTL

(* A result that has been stored is never overwritten and its chunk never  *)
(* given away again (process_data_from_node, heartbeat_timeout).           *)
THEOREM WritesOnce == Spec => WriteOnce
<1>1. TypeInv /\ JobInv /\ [Next]_vars => [KeepsResults]_vars
  BY NextKeeps
<1>2. Spec => [][KeepsResults]_vars
  BY <1>1, JobCorrect, PTL DEF Spec
<1> QED BY <1>2 DEF WriteOnce, KeepsResults

LEMMA StepImplementsJob ==
  ASSUME TypeInv, JobInv, [Next]_vars
  PROVE  [Job!Next]_Job!jobVars
<1> USE DEF Job!jobVars, jobVars, doneVars, threadVars, listVars, serverVars
<1>1. ASSUME NEW s \in Servers, NEW k \in Conns, AcceptResult(s, k)
      PROVE  Job!Deliver(s)
  <2> DEFINE c  == conn[k].request.chunk_id
             id == conn[k].request.node_id
  <2>1. c \in ChunkIdx /\ id \in NodeIDs
    BY <1>1, RequestValues DEF AcceptResult
  <2>2. /\ chunk_list[s][c].status = "Processing"
        /\ image' = [image EXCEPT ![s][c] = id]
        /\ UNCHANGED <<saved, stopped>>
    BY <1>1 DEF AcceptResult, is_processing
  <2> HIDE DEF c, id
  <2>3. image[s][c] = None
    BY <2>1, <2>2 DEF JobInv, ListMatchesImage
  <2> QED BY <2>1, <2>2, <2>3 DEF Job!Deliver
<1>2. ASSUME NEW s \in Servers, NEW k \in Conns, HandleShutDown(s, k)
      PROVE  Job!Cancel(s)
  BY <1>2 DEF HandleShutDown, Job!Cancel
<1>3. ASSUME NEW s \in Servers, FinishJob(s)
      PROVE  Job!Report(s)
  BY <1>3 DEF FinishJob, JobInv, SavedLast, DoneJustified, AllDelivered, Job!Report, Job!Complete
<1>4. ASSUME NEW s \in Servers, NEW k \in Conns,
             \/ Accept(s, k) \/ PrepareUnfinished(s, k) \/ PrepareFinished(s, k)
             \/ HandleFinished(s, k) \/ HeartbeatTimeout(s, k)
      PROVE  UNCHANGED <<image, saved, stopped>>
  BY <1>4 DEF Accept, PrepareUnfinished, PrepareFinished,
              HandleFinished, HeartbeatTimeout
<1>5. ASSUME NEW s \in Servers, CheckJobDone(s) \/ JoinThreads(s)
      PROVE  UNCHANGED <<image, saved, stopped>>
  BY <1>5 DEF CheckJobDone, JoinThreads
<1>6. CASE JobStep
  BY <1>1, <1>2, <1>3, <1>4, <1>5, <1>6 DEF JobStep, JobHandler, Job!Next
<1>7. CASE JobUntouched
  BY <1>7 DEF JobUntouched, JobVars
<1> QED BY <1>6, <1>7, StepsOfTheJob

(* Threads, streams, nodes and their failures forgotten, each server       *)
(* delivers, cancels and reports its job as JobSpec says.                  *)
THEOREM ImplementsJob == Spec => JobImplemented
<1>1. Init => Job!Init
  BY DEF Init, NCServerInit, Job!Init
<1>2. TypeInv /\ JobInv /\ [Next]_vars => [Job!Next]_Job!jobVars
  BY StepImplementsJob
<1> QED BY <1>1, <1>2, JobCorrect, PTL DEF Spec, JobImplemented, Job!Spec

-----------------------------------------------------------------------------
(* A server that is killed and started again.                              *)

(* A server that has been killed had not saved its image.                  *)
KilledUnsaved == \A s \in killed : main_loop[s] = "exited" /\ saved[s] = None

(* The list says of no chunk that it is being processed by an id the       *)
(* server has not given it to in this life.                                *)
ProcessingIsAsked ==
  \A s \in Servers, c \in ChunkIdx :
    chunk_list[s][c].status = "Processing" =>
      <<c, chunk_list[s][c].node_id>> \in asked[s]

HistoryOK ==
  /\ killed \subseteq Servers
  /\ kills \in Nat /\ kills <= events
  /\ asked \in [Servers -> SUBSET (ChunkIdx \X NodeIDs)]

RestartInv ==
  /\ TypeInv
  /\ JobInv
  /\ HistoryOK
  /\ KilledUnsaved
  /\ ProcessingIsAsked
  /\ OnlyAskedFor

(* What the operating system does to the streams of a server leaves the    *)
(* nodes that wait on them something to read or the loss of it.            *)
LEMMA BrokenProgress ==
  ASSUME TypeInv, NEW s \in Servers, conn' = [k \in Conns |-> Broken(s, conn[k])]
  PROVE  StreamsProgress
<1>1. ASSUME NEW k \in Conns
      PROVE  /\ conn'[k] \in Stream \cup {None}
             /\ WellFormed(conn'[k])
             /\ conn[k] # None /\ conn[k].open => conn'[k] # None /\ conn'[k].open
  <2>1. conn[k] \in Stream \cup {None} /\ WellFormed(conn[k])
    BY DEF TypeInv, TypeOK, NCConnectionTypeOK, StreamsOK
  <2>2. conn'[k] = conn[k] \/ (conn[k] # None /\ conn'[k] = Dropped(conn[k]))
    BY DEF Broken
  <2>3. conn[k] # None => /\ Dropped(conn[k]) \in Stream \cup {None}
                          /\ WellFormed(Dropped(conn[k]))
                          /\ conn[k].open => Dropped(conn[k]) # None /\ Dropped(conn[k]).open
    BY <2>1, DroppedStream
  <2> QED BY <2>1, <2>2, <2>3
<1>2. conn' = [k \in Conns |-> conn'[k]]
  OBVIOUS
<1> QED BY <1>1, <1>2 DEF StreamsProgress

LEMMA KillTypes ==
  ASSUME TypeInv, NEW s \in Servers, Kill(s)
  PROVE  TypeInv'
<1> USE DEF TypeInv, TypeOK, NCConnectionTypeOK, NCServerTypeOK
<1>1. StreamsProgress
  BY BrokenProgress DEF Kill
<1>2. initialize \in [ChunkIdx -> Chunk] /\ [c \in ChunkIdx |-> None] \in Image
  BY DEF initialize, Chunk, ChunkStatus, Image
<1>3. Ids(node_list[s]) \subseteq NodeIDs
  <2>1. node_list[s] \in Seq(NCNodeInfo)
    OBVIOUS
  <2>2. \A i \in DOMAIN node_list[s] : node_list[s][i] \in NCNodeInfo
    BY <2>1
  <2> QED BY <2>2 DEF Ids, NCNodeInfo
<1>4. <<>> \in Seq(NCNodeInfo)
  OBVIOUS
<1>5. NCServerTypeOK' /\ listening' \in [Servers -> BOOLEAN]
  <2>1. /\ listening' \in [Servers -> BOOLEAN]
        /\ job_done' \in [Servers -> BOOLEAN]
        /\ poisoned' \in [Servers -> BOOLEAN]
        /\ stopped' \in [Servers -> BOOLEAN]
    BY DEF Kill
  <2>2. /\ main_loop' \in [Servers -> {"accept", "check", "finish", "join", "exited"}]
        /\ server_heartbeat' \in [Servers -> {"running", "exited"}]
    BY DEF Kill
  <2>3. /\ node_list' \in [Servers -> Seq(NCNodeInfo)]
        /\ departed' \subseteq NodeIDs
        /\ new_server' \in [Servers -> Servers \cup {None}]
    BY <1>3, <1>4 DEF Kill
  <2>4. /\ chunk_list' \in [Servers -> [ChunkIdx -> Chunk]]
        /\ image' \in [Servers -> Image]
        /\ saved' \in [Servers -> Image \cup {None}]
    BY <1>2 DEF Kill
  <2> QED BY <2>1, <2>2, <2>3, <2>4
<1>6. UNCHANGED nodeVars /\ events' \in 0 .. MaxEvents
  BY EventCounted DEF Kill
<1> QED BY <1>1, <1>5, <1>6, ServerTypesSuffice DEF ServerTypes

LEMMA KillKeepsJob ==
  ASSUME TypeInv, JobInv, NEW s \in Servers, Kill(s)
  PROVE  JobInv'
<1> USE DEF JobInv
<1>1. /\ conn \in [Conns -> Stream \cup {None}]
      /\ main_loop \in [Servers -> {"accept", "check", "finish", "join", "exited"}]
      /\ job_done \in [Servers -> BOOLEAN]
      /\ stopped \in [Servers -> BOOLEAN]
      /\ chunk_list \in [Servers -> [ChunkIdx -> Chunk]]
      /\ image \in [Servers -> Image]
  BY DEF TypeInv, TypeOK, NCServerTypeOK, NCConnectionTypeOK
<1>2. /\ main_loop'[s] = "exited" /\ job_done'[s] = FALSE
      /\ chunk_list'[s] = initialize /\ image'[s] = [c \in ChunkIdx |-> None]
      /\ saved' = saved /\ saved[s] = None
  BY <1>1 DEF Kill, SavedLast
<1>3. \A t \in Servers \ {s} :
        /\ main_loop'[t] = main_loop[t] /\ job_done'[t] = job_done[t]
        /\ chunk_list'[t] = chunk_list[t] /\ image'[t] = image[t]
        /\ stopped'[t] = stopped[t]
  BY <1>1 DEF Kill
<1>4. ListMatchesImage'
  <2>1. ASSUME NEW t \in Servers, NEW c \in ChunkIdx
        PROVE  chunk_list'[t][c].status = "Finished" <=> image'[t][c] # None
    <3>1. CASE t = s
      BY <1>2, <3>1 DEF initialize
    <3>2. CASE t # s
      BY <1>3, <3>2 DEF ListMatchesImage
    <3> QED BY <3>1, <3>2
  <2> QED BY <2>1 DEF ListMatchesImage
<1>5. ShutDownJustified'
  <2>1. ASSUME NEW k \in Conns, conn'[k] # None, conn'[k].step = "shut_down"
        PROVE  /\ conn'[k] = conn[k]
               /\ conn[k].server # s /\ conn[k].server \in Servers
    <3>1. conn'[k] = Broken(s, conn[k])
      BY DEF Kill
    <3>2. CASE conn[k] # None /\ conn[k].server = s /\ conn[k].step # "replied"
      <4>1. conn[k] \in Stream /\ conn'[k] = Dropped(conn[k])
        BY <1>1, <3>1, <3>2 DEF Broken
      <4>2. conn'[k].step = "dropped"
        BY <2>1, <4>1 DEF Dropped, Stream
      <4> QED BY <2>1, <4>2
    <3>3. CASE ~(conn[k] # None /\ conn[k].server = s /\ conn[k].step # "replied")
      <4>1. conn'[k] = conn[k]
        BY <3>1, <3>3 DEF Broken
      <4> QED BY <1>1, <2>1, <3>3, <4>1 DEF Stream
    <3> QED BY <3>2, <3>3
  <2> QED BY <1>3, <2>1 DEF ShutDownJustified, AllDelivered
<1>6. DoneJustified' /\ SavedLast'
  BY <1>2, <1>3 DEF DoneJustified, SavedLast, AllDelivered
<1>7. SavedImageComplete'
  BY <1>2, <1>3 DEF SavedImageComplete
<1> QED BY <1>4, <1>5, <1>6, <1>7

LEMMA KillKeeps ==
  ASSUME RestartInv, NEW s \in Servers, Kill(s)
  PROVE  RestartInv'
<1> USE DEF RestartInv
<1>1. TypeInv' /\ JobInv'
  BY KillTypes, KillKeepsJob
<1>2. /\ main_loop \in [Servers -> {"accept", "check", "finish", "join", "exited"}]
      /\ chunk_list \in [Servers -> [ChunkIdx -> Chunk]]
      /\ image \in [Servers -> Image]
      /\ events \in Nat
  BY NodeCrunchAssumption DEF TypeInv, TypeOK, NCServerTypeOK
<1>3. HistoryOK'
  BY <1>2 DEF HistoryOK, Kill, Event
<1>4. KilledUnsaved'
  BY <1>2 DEF KilledUnsaved, HistoryOK, Kill, JobInv, SavedLast
<1>5. \A t \in Servers \ {s} : /\ chunk_list'[t] = chunk_list[t] /\ image'[t] = image[t]
                               /\ asked'[t] = asked[t]
  BY <1>2 DEF Kill, HistoryOK
<1>6. chunk_list'[s] = initialize /\ image'[s] = [c \in ChunkIdx |-> None]
  BY <1>2 DEF Kill
<1>7. ProcessingIsAsked'
  <2>1. ASSUME NEW t \in Servers, NEW c \in ChunkIdx, chunk_list'[t][c].status = "Processing"
        PROVE  <<c, chunk_list'[t][c].node_id>> \in asked'[t]
    <3>1. t # s
      BY <1>6, <2>1 DEF initialize
    <3> QED BY <1>5, <2>1, <3>1 DEF ProcessingIsAsked
  <2> QED BY <2>1 DEF ProcessingIsAsked
<1>8. OnlyAskedFor'
  <2>1. ASSUME NEW t \in Servers, NEW c \in ChunkIdx, image'[t][c] # None
        PROVE  <<c, image'[t][c]>> \in asked'[t]
    <3>1. t # s
      BY <1>6, <2>1
    <3> QED BY <1>5, <2>1, <3>1 DEF OnlyAskedFor
  <2> QED BY <2>1 DEF OnlyAskedFor
<1> QED BY <1>1, <1>3, <1>4, <1>7, <1>8

LEMMA RestartKeeps ==
  ASSUME RestartInv, NEW s \in Servers, Restart(s)
  PROVE  RestartInv'
<1> USE DEF RestartInv
<1>1. UNCHANGED <<conn, job_done, node_list, departed, new_server, poisoned, chunk_list,
                  image, saved, stopped, nodeVars, events, kills, asked>>
  BY DEF Restart, listVars, jobVars
<1>2. /\ main_loop' = [main_loop EXCEPT ![s] = "accept"]
      /\ saved[s] = None
  BY DEF Restart, KilledUnsaved
<1>3. TypeInv'
  <2> USE DEF TypeInv, TypeOK, NCConnectionTypeOK, NCServerTypeOK
  <2>1. StreamsProgress
    BY <1>1, StreamsKept
  <2>2. /\ main_loop' \in [Servers -> {"accept", "check", "finish", "join", "exited"}]
        /\ server_heartbeat' \in [Servers -> {"running", "exited"}]
        /\ listening' \in [Servers -> BOOLEAN]
    BY DEF Restart
  <2>3. ServerTypes
    BY <1>1, <2>1, <2>2 DEF ServerTypes
  <2> QED BY <1>1, <2>3, ServerTypesSuffice
<1>4. JobInv'
  <2> USE DEF JobInv
  <2>1. ListMatchesImage' /\ ShutDownJustified' /\ DoneJustified' /\ SavedImageComplete'
    BY <1>1 DEF ListMatchesImage, ShutDownJustified, DoneJustified, SavedImageComplete,
                AllDelivered
  <2>2. SavedLast'
    BY <1>1, <1>2 DEF SavedLast, TypeInv, TypeOK, NCServerTypeOK
  <2> QED BY <2>1, <2>2
<1>5. HistoryOK' /\ ProcessingIsAsked' /\ OnlyAskedFor'
  BY <1>1 DEF HistoryOK, ProcessingIsAsked, OnlyAskedFor, Restart
<1>6. KilledUnsaved'
  BY <1>1, <1>2 DEF KilledUnsaved, HistoryOK, Restart, TypeInv, TypeOK, NCServerTypeOK
<1> QED BY <1>3, <1>4, <1>5, <1>6

(* Everything else: what changes in a list or an image.  A chunk that is   *)
(* being processed now and was not, or not by that id, has just been given *)
(* out; an entry of the image is of the id its chunk was assigned to.      *)
GivenOrKept ==
  \A s \in Servers, c \in ChunkIdx :
    /\ chunk_list'[s][c].status = "Processing" /\ chunk_list'[s][c] # chunk_list[s][c]
         => \E id \in NodeIDs : chunk_list'[s][c] = set_processing(chunk_list[s][c], id)
    /\ image'[s][c] # image[s][c] => is_processing(chunk_list[s][c], image'[s][c])

LEMMA ListStepsGive ==
  ASSUME TypeInv, NEW s \in Servers, NEW k \in Conns,
         PrepareUnfinished(s, k) \/ AcceptResult(s, k) \/ HeartbeatTimeout(s, k)
  PROVE  GivenOrKept
<1> USE DEF jobVars, doneVars, threadVars, listVars
<1>1. /\ chunk_list \in [Servers -> [ChunkIdx -> Chunk]]
      /\ image \in [Servers -> Image]
  BY DEF TypeInv, TypeOK, NCServerTypeOK
<1>2. CASE PrepareUnfinished(s, k)
  <2>1. PICK c \in ChunkIdx, id \in NodeIDs :
          chunk_list' = [chunk_list EXCEPT ![s][c] = set_processing(chunk_list[s][c], id)]
    BY <1>2, RequestValues DEF PrepareUnfinished
  <2>2. image' = image
    BY <1>2 DEF PrepareUnfinished
  <2>3. \A t \in Servers, d \in ChunkIdx :
          \/ chunk_list'[t][d] = chunk_list[t][d]
          \/ chunk_list'[t][d] = set_processing(chunk_list[t][d], id)
    BY <1>1, <2>1
  <2> QED BY <2>2, <2>3 DEF GivenOrKept
<1>3. CASE AcceptResult(s, k)
  <2> DEFINE c  == conn[k].request.chunk_id
             id == conn[k].request.node_id
  <2>1. c \in ChunkIdx /\ id \in NodeIDs
    BY <1>3, RequestValues DEF AcceptResult
  <2>2. /\ is_processing(chunk_list[s][c], id)
        /\ chunk_list' = [chunk_list EXCEPT ![s][c] = set_finished(@)]
        /\ image' = [image EXCEPT ![s][c] = id]
    BY <1>3 DEF AcceptResult
  <2> HIDE DEF c, id
  <2>3. set_finished(chunk_list[s][c]).status = "Finished"
    BY <1>1, <2>1 DEF set_finished, Chunk
  <2>4. \A t \in Servers, d \in ChunkIdx :
          \/ chunk_list'[t][d] = chunk_list[t][d]
          \/ chunk_list'[t][d].status = "Finished"
    BY <1>1, <2>1, <2>2, <2>3
  <2>5. \A t \in Servers, d \in ChunkIdx :
          image'[t][d] # image[t][d] => t = s /\ d = c /\ image'[t][d] = id
    BY <1>1, <2>1, <2>2 DEF Image
  <2> QED BY <2>2, <2>4, <2>5 DEF GivenOrKept
<1>4. CASE HeartbeatTimeout(s, k)
  <2> DEFINE after == heartbeat_timeout(chunk_list[s], conn[k].nodes)
  <2>1. chunk_list' = [chunk_list EXCEPT ![s] = after] /\ image' = image
    BY <1>4 DEF HeartbeatTimeout
  <2>2. \A c \in ChunkIdx : after[c] = chunk_list[s][c] \/ after[c].status = "Empty"
    BY <1>1 DEF heartbeat_timeout, set_empty, Chunk
  <2> HIDE DEF after
  <2>3. \A t \in Servers, c \in ChunkIdx :
          chunk_list'[t][c] = chunk_list[t][c] \/ chunk_list'[t][c].status = "Empty"
    BY <1>1, <2>1, <2>2
  <2> QED BY <2>1, <2>3 DEF GivenOrKept
<1> QED BY <1>2, <1>3, <1>4

LEMMA NextGives ==
  ASSUME TypeInv, [Next]_vars
  PROVE  GivenOrKept
<1> USE DEF jobVars, doneVars, threadVars, listVars, serverVars
<1>1. CASE UNCHANGED jobVars
  BY <1>1 DEF GivenOrKept
<1>2. CASE JobStep
  <2>1. PICK s \in Servers :
          \/ CheckJobDone(s) \/ FinishJob(s) \/ JoinThreads(s)
          \/ \E k \in Conns : Accept(s, k) \/ JobHandler(s, k)
    BY <1>2 DEF JobStep
  <2>2. CASE CheckJobDone(s) \/ FinishJob(s) \/ JoinThreads(s)
    BY <1>1, <2>2 DEF CheckJobDone, FinishJob, JoinThreads
  <2>3. ASSUME NEW k \in Conns,
               Accept(s, k) \/ PrepareFinished(s, k) \/ HandleFinished(s, k)
                 \/ HandleShutDown(s, k)
        PROVE  GivenOrKept
    BY <1>1, <2>3 DEF Accept, PrepareFinished, HandleFinished, HandleShutDown
  <2> QED BY <2>1, <2>2, <2>3, ListStepsGive DEF JobHandler
<1>3. CASE JobUntouched
  BY <1>1, <1>3 DEF JobUntouched, JobVars
<1> QED BY <1>2, <1>3, StepsOfTheJob

(* A server that has exited stays that way, with what it has saved.        *)
ExitIsFinal ==
  \A s \in Servers :
    main_loop[s] = "exited" => main_loop'[s] = "exited" /\ saved'[s] = saved[s]

LEMMA NextExits ==
  ASSUME TypeInv, [Next]_vars
  PROVE  ExitIsFinal
<1> USE DEF jobVars, doneVars, threadVars, listVars, serverVars
<1>1. /\ main_loop \in [Servers -> {"accept", "check", "finish", "join", "exited"}]
      /\ saved \in [Servers -> Image \cup {None}]
  BY DEF TypeInv, TypeOK, NCServerTypeOK
<1>2. CASE UNCHANGED <<main_loop, saved>>
  BY <1>2 DEF ExitIsFinal
<1>3. ASSUME NEW s \in Servers, main_loop[s] # "exited",
             \A t \in Servers \ {s} : main_loop'[t] = main_loop[t] /\ saved'[t] = saved[t]
      PROVE  ExitIsFinal
  BY <1>3 DEF ExitIsFinal
<1>4. CASE JobStep
  <2>1. PICK s \in Servers :
          \/ CheckJobDone(s) \/ FinishJob(s) \/ JoinThreads(s)
          \/ \E k \in Conns : Accept(s, k) \/ JobHandler(s, k)
    BY <1>4 DEF JobStep
  <2>2. CASE CheckJobDone(s) \/ FinishJob(s) \/ JoinThreads(s)
    BY <1>1, <1>3, <2>2 DEF CheckJobDone, FinishJob, JoinThreads
  <2>3. ASSUME NEW k \in Conns, Accept(s, k)
        PROVE  ExitIsFinal
    BY <1>1, <1>3, <2>3 DEF Accept
  <2>4. ASSUME NEW k \in Conns, JobHandler(s, k)
        PROVE  ExitIsFinal
    BY <1>2, <2>4 DEF JobHandler, PrepareUnfinished, PrepareFinished, HandleFinished,
                      AcceptResult, HeartbeatTimeout, HandleShutDown
  <2> QED BY <2>1, <2>2, <2>3, <2>4
<1>5. CASE JobUntouched
  BY <1>2, <1>5 DEF JobUntouched, JobVars
<1> QED BY <1>4, <1>5, StepsOfTheJob

LEMMA EventsGrow ==
  ASSUME TypeInv, [Next]_vars
  PROVE  events' = events \/ events' = events + 1
BY DEF Next, Event, ServerStep, NodeStep, HeartbeatExpires, NodeCrashes, HeartbeatLate,
       StreamBreaks, ConnectRefused, CheckRefused, ProcessDataFails, OperatorSends,
       Terminated, vars

LEMMA GivenOutType ==
  ASSUME NEW s \in Servers
  PROVE  GivenOut(s) \subseteq ChunkIdx \X NodeIDs
BY DEF GivenOut

LEMMA GivenOutHas ==
  ASSUME NEW s \in Servers, NEW c \in ChunkIdx, NEW id \in NodeIDs,
         chunk_list'[s][c] # chunk_list[s][c],
         chunk_list'[s][c] = set_processing(chunk_list[s][c], id)
  PROVE  <<c, id>> \in GivenOut(s)
BY DEF GivenOut

LEMMA ProceedKeeps ==
  ASSUME RestartInv, Proceed
  PROVE  RestartInv'
<1> USE DEF RestartInv
<1>1. [Next]_vars
  BY DEF Proceed
<1>2. TypeInv' /\ JobInv' /\ KeepsResults
  BY <1>1, NextTypes, NextKeeps
<1>3. /\ asked' = [s \in Servers |-> asked[s] \cup GivenOut(s)]
      /\ UNCHANGED <<killed, kills>>
  BY DEF Proceed
<1>4. events \in Nat
  BY NodeCrunchAssumption DEF TypeInv, TypeOK
<1>5. \A s \in Servers : asked'[s] = asked[s] \cup GivenOut(s)
  BY <1>3
<1>6. HistoryOK'
  <2>1. asked' \in [Servers -> SUBSET (ChunkIdx \X NodeIDs)]
    BY <1>3, GivenOutType DEF HistoryOK
  <2> QED BY <1>1, <1>3, <1>4, <2>1, EventsGrow DEF HistoryOK
<1>7. KilledUnsaved'
  BY <1>1, <1>3, NextExits DEF KilledUnsaved, HistoryOK, ExitIsFinal
<1>8. GivenOrKept
  BY <1>1, NextGives
<1>9. ProcessingIsAsked'
  <2>1. ASSUME NEW s \in Servers, NEW c \in ChunkIdx, chunk_list'[s][c].status = "Processing"
        PROVE  <<c, chunk_list'[s][c].node_id>> \in asked'[s]
    <3>1. CASE chunk_list'[s][c] = chunk_list[s][c]
      BY <1>5, <2>1, <3>1 DEF ProcessingIsAsked
    <3>2. CASE chunk_list'[s][c] # chunk_list[s][c]
      <4>1. PICK id \in NodeIDs : chunk_list'[s][c] = set_processing(chunk_list[s][c], id)
        BY <1>8, <2>1, <3>2 DEF GivenOrKept
      <4>2. chunk_list'[s][c].node_id = id
        BY <4>1 DEF set_processing
      <4> QED BY <1>5, <3>2, <4>1, <4>2, GivenOutHas
    <3> QED BY <3>1, <3>2
  <2> QED BY <2>1 DEF ProcessingIsAsked
<1>10. OnlyAskedFor'
  <2>1. ASSUME NEW s \in Servers, NEW c \in ChunkIdx, image'[s][c] # None
        PROVE  <<c, image'[s][c]>> \in asked'[s]
    <3>1. CASE image'[s][c] = image[s][c]
      BY <1>5, <2>1, <3>1 DEF OnlyAskedFor
    <3>2. CASE image'[s][c] # image[s][c]
      <4>1. is_processing(chunk_list[s][c], image'[s][c])
        BY <1>8, <3>2 DEF GivenOrKept
      <4> QED BY <1>5, <4>1 DEF ProcessingIsAsked, is_processing
    <3> QED BY <3>1, <3>2
  <2> QED BY <2>1 DEF OnlyAskedFor
<1> QED BY <1>2, <1>6, <1>7, <1>9, <1>10

LEMMA RestartNextKeeps == RestartInv /\ [RestartNext]_allVars => RestartInv'
<1> SUFFICES ASSUME RestartInv, [RestartNext]_allVars PROVE RestartInv'
  OBVIOUS
<1>1. CASE UNCHANGED allVars
  <2>1. UNCHANGED vars /\ UNCHANGED restartVars
    BY <1>1 DEF allVars
  <2>2. TypeInv' /\ JobInv'
    BY <2>1, NextTypes, NextKeeps DEF RestartInv
  <2> QED BY <2>1, <2>2
          DEF RestartInv, HistoryOK, KilledUnsaved, ProcessingIsAsked, OnlyAskedFor, vars,
              restartVars, serverVars
<1> QED BY <1>1, KillKeeps, RestartKeeps, ProceedKeeps DEF RestartNext

LEMMA RestartInitHolds == RestartInit => RestartInv
<1> SUFFICES ASSUME RestartInit PROVE RestartInv
  OBVIOUS
<1>1. Init /\ killed = {} /\ kills = 0 /\ asked = [s \in Servers |-> {}]
  BY DEF RestartInit
<1>2. TypeInv /\ JobInv
  BY <1>1, InitTypes, InitJob
<1>3. HistoryOK /\ KilledUnsaved
  BY <1>1 DEF HistoryOK, KilledUnsaved, Init
<1>4. ProcessingIsAsked /\ OnlyAskedFor
  BY <1>1 DEF ProcessingIsAsked, OnlyAskedFor, Init, NCServerInit, initialize
<1> QED BY <1>2, <1>3, <1>4 DEF RestartInv

(* All of it holds across the lives of a server (nc_server.rs start,       *)
(* prepare_data_for_node, process_data_from_node).                         *)
THEOREM RestartCorrect == RestartSpec => []RestartInv
BY RestartInitHolds, RestartNextKeeps, PTL DEF RestartSpec

(* Every variable keeps its type also when servers are killed and started  *)
(* again while handlers, nodes and heartbeats of the first life are under  *)
(* way.                                                                    *)
THEOREM RestartTypeCorrect == RestartSpec => []RestartTypeOK
<1>1. RestartInv => RestartTypeOK
  BY NodeCrunchAssumption DEF RestartInv, TypeInv, TypeOK, HistoryOK, RestartTypeOK
<1> QED BY <1>1, RestartCorrect, PTL

(* The image the second life of a server saves is complete: it counts only *)
(* what it has been given itself (nc_server.rs start_main_loop).           *)
THEOREM RestartedImageIsComplete == RestartSpec => []SavedImageComplete
<1>1. RestartInv => SavedImageComplete
  BY DEF RestartInv, JobInv
<1> QED BY <1>1, RestartCorrect, PTL

(* A result for the first life of a server gets into the image of the      *)
(* second only if its sender has been given the chunk again                *)
(* (process_data_from_node).                                               *)
THEOREM OnlyAskedResultsCount == RestartSpec => []OnlyAskedFor
<1>1. RestartInv => OnlyAskedFor
  BY DEF RestartInv
<1> QED BY <1>1, RestartCorrect, PTL

-----------------------------------------------------------------------------
(* Who works on what: what a step may bring to a stream.  It is a request  *)
(* of one of the given types, an answer of one of the given types, a list  *)
(* of nodes that do not beat, or nothing of these.                         *)
Brings(x, y, requests, replies) ==
  \/ y = x
  \/ y = None
  \/ /\ x # None /\ y # None
     /\ y.server = x.server /\ y.request = x.request
     /\ \/ y.step \in {"messages", "prepare", "shut_down", "dropped"}
        \/ y.step = "accepted" /\ x.step = "backlog"
        \/ y.step = "timeout" /\ y.nodes \subseteq check_heartbeat(node_list[y.server])
        \/ y.step = "replied" /\ y.reply.type \in replies
        \/ y.step = x.step /\ y.step # "replied" /\ y.nodes = x.nodes
  \/ x = None /\ y # None /\ y.step = "backlog" /\ y.request.type \in requests

StreamsBring(requests, replies) ==
  \A k \in Conns : Brings(conn[k], conn'[k], requests, replies)

LEMMA BringsFacts ==
  ASSUME NEW x, NEW y, NEW requests, NEW replies, Brings(x, y, requests, replies)
  PROVE  /\ "InitialData" \notin replies => \A id : Grants(y, id) => Grants(x, id)
         /\ "Unfinished" \notin replies => \A id, c : Offers(y, id, c) => Offers(x, id, c)
         /\ "NewServer" \notin replies => (Redirects(y) => Redirects(x))
         /\ "HasData" \notin requests =>
              \A s, id, c : Unread(y, s, ResultFrom(id, c)) => Unread(x, s, ResultFrom(id, c))
         /\ \A s, id : Doubts(y, s, id) =>
              Doubts(x, s, id) \/ id \in check_heartbeat(node_list[s])
         /\ y # None => (x # None /\ y.request = x.request) \/ y.request.type \in requests
<1>1. "InitialData" \notin replies => \A id : Grants(y, id) => Grants(x, id)
  BY DEF Brings, Grants
<1>2. "Unfinished" \notin replies => \A id, c : Offers(y, id, c) => Offers(x, id, c)
  BY DEF Brings, Offers, Asks, Names
<1>3. "NewServer" \notin replies => (Redirects(y) => Redirects(x))
  BY DEF Brings, Redirects
<1>4. ASSUME "HasData" \notin requests, NEW s, NEW id, NEW c, Unread(y, s, ResultFrom(id, c))
      PROVE  Unread(x, s, ResultFrom(id, c))
  <2>1. y.request.type = "HasData"
    BY <1>4 DEF Unread, ResultFrom
  <2> QED BY <1>4, <2>1 DEF Brings, Unread
<1>5. \A s, id : Doubts(y, s, id) => Doubts(x, s, id) \/ id \in check_heartbeat(node_list[s])
  BY DEF Brings, Doubts
<1>6. y # None => (x # None /\ y.request = x.request) \/ y.request.type \in requests
  BY DEF Brings
<1> QED BY <1>1, <1>2, <1>3, <1>4, <1>5, <1>6

(* A step of a server.                                                     *)
LEMMA DroppedBrings ==
  ASSUME NEW x \in Stream, NEW requests, NEW replies
  PROVE  Brings(x, Dropped(x), requests, replies)
<1>1. Dropped(x) # None =>
        /\ Dropped(x).server = x.server /\ Dropped(x).request = x.request
        /\ Dropped(x).step = "dropped"
  BY DEF Dropped, Stream
<1> QED BY <1>1, NCConnectionAssumption DEF Brings

LEMMA AnsweredBrings ==
  ASSUME NEW x \in Stream, NEW requests, NEW replies, NEW m, m.type \in replies
  PROVE  Brings(x, Answered(x, m), requests, replies)
<1>1. Answered(x, m) # None =>
        /\ Answered(x, m).server = x.server /\ Answered(x, m).request = x.request
        /\ Answered(x, m).step = "replied" /\ Answered(x, m).reply = m
  BY DEF Answered, Stream
<1> QED BY <1>1, NCConnectionAssumption DEF Brings

LEMMA StepBrings ==
  ASSUME NEW x \in Stream, NEW requests, NEW replies,
         NEW step \in {"messages", "prepare", "shut_down", "accepted"},
         step = "accepted" => x.step = "backlog",
         NEW y, y = [x EXCEPT !.step = step]
  PROVE  Brings(x, y, requests, replies)
<1>1. y.server = x.server /\ y.request = x.request /\ y.step = step
  BY DEF Stream
<1>2. x # None /\ y # None
  <2>1. y \in Stream
    BY DEF Stream, Step
  <2> QED BY <2>1, NCConnectionAssumption
<1> QED BY <1>1, <1>2 DEF Brings

LEMMA BringsCheck ==
  ASSUME TypeInv, NEW s \in Servers, NEW k \in Conns, HandleCheckHeartbeat(s, k)
  PROVE  StreamsBring({}, {})
<1> DEFINE ids == check_heartbeat(node_list[s])
           y == [[conn[k] EXCEPT !.nodes = ids] EXCEPT !.step = "timeout"]
<1>0. conn \in [Conns -> Stream \cup {None}]
  BY DEF TypeInv, TypeOK, NCConnectionTypeOK
<1>1. conn[k] \in Stream /\ conn[k] # None /\ conn[k].server = s
  BY <1>0 DEF HandleCheckHeartbeat, Received, At
<1>2. conn'[k] = y /\ \A l \in Conns : l # k => conn'[l] = conn[l]
  BY <1>0 DEF HandleCheckHeartbeat
<1>3. /\ y.server = conn[k].server /\ y.request = conn[k].request
      /\ y.step = "timeout" /\ y.nodes = ids
  BY <1>1 DEF Stream
<1>4. Brings(conn[k], y, {}, {})
  <2>1. y.nodes \subseteq check_heartbeat(node_list[y.server])
    BY <1>1, <1>3
  <2> HIDE DEF y
  <2> QED BY <1>1, <1>3, <2>1 DEF Brings
<1> HIDE DEF y
<1> QED BY <1>2, <1>4 DEF StreamsBring, Brings

LEMMA HandlersBring ==
  ASSUME TypeInv, NEW s \in Servers, NEW k \in Conns, handle_node(s, k), ~HandleLeavingNode(s, k)
  PROVE  /\ HandleRegister(s, k) => StreamsBring({}, {"InitialData"})
         /\ PrepareUnfinished(s, k) => StreamsBring({}, {"Unfinished"})
         /\ ~HandleRegister(s, k) /\ ~PrepareUnfinished(s, k) =>
              StreamsBring({}, {"Waiting", "CustomMessage"})
<1>0. conn \in [Conns -> Stream \cup {None}]
  BY DEF TypeInv, TypeOK, NCConnectionTypeOK
<1>1. conn[k] \in Stream /\ \A l \in Conns : l # k => conn'[l] = conn[l]
  BY HandlerLocal
<1>2. ASSUME NEW replies, Brings(conn[k], conn'[k], {}, replies)
      PROVE  StreamsBring({}, replies)
  BY <1>1, <1>2 DEF StreamsBring, Brings
<1>3. ASSUME NEW replies, NEW m, m.type \in replies, Answer(k, m)
      PROVE  StreamsBring({}, replies)
  <2>1. conn'[k] = Answered(conn[k], m)
    BY <1>0, <1>3 DEF Answer
  <2>2. Brings(conn[k], conn'[k], {}, replies)
    BY <1>1, <1>3, <2>1, AnsweredBrings
  <2> QED BY <1>2, <2>2
<1>4. ASSUME HandleRegister(s, k)
      PROVE  StreamsBring({}, {"InitialData"})
  <2>1. PICK id \in NodeIDs : Answer(k, [type |-> "InitialData", node_id |-> id])
    BY <1>4 DEF HandleRegister
  <2> QED BY <1>3, <2>1
<1>5. ASSUME PrepareUnfinished(s, k)
      PROVE  StreamsBring({}, {"Unfinished"})
  <2>1. PICK c \in ChunkIdx : Answer(k, [type |-> "Unfinished", chunk_id |-> c])
    BY <1>5 DEF PrepareUnfinished
  <2> QED BY <1>3, <2>1
<1>6. ASSUME ~HandleRegister(s, k), ~PrepareUnfinished(s, k)
      PROVE  StreamsBring({}, {"Waiting", "CustomMessage"})
  <2> DEFINE replies == {"Waiting", "CustomMessage"}
  <2>1. \/ Drop(k)
        \/ \E message : Answer(k, [type |-> "CustomMessage", message |-> message])
        \/ Answer(k, [type |-> "Waiting"])
        \/ \E step \in {"messages", "prepare", "shut_down"} : Continue(k, step)
        \/ HandleCheckHeartbeat(s, k)
    BY <1>6 DEF handle_node, HandlerFails, HandleNeedsData,
         HandleUnknownNode, SendCustomMessage, NoCustomMessage,
         PrepareWaiting, PrepareFinished, HandleFinished, HandleHeartBeat, AcceptResult,
         RejectResult, HeartbeatTimeout, HandleShutDown,
         HandleNewServer, HandleNodeMigrated, HandleCustomMessage
  <2>2. CASE Drop(k)
    <3>1. conn'[k] = Dropped(conn[k])
      BY <1>0, <2>2 DEF Drop
    <3>2. Brings(conn[k], conn'[k], {}, replies)
      BY <1>1, <3>1, DroppedBrings
    <3> QED BY <1>2, <3>2
  <2>3. CASE \/ \E message : Answer(k, [type |-> "CustomMessage", message |-> message])
             \/ Answer(k, [type |-> "Waiting"])
    <3>1. \A message : [type |-> "CustomMessage", message |-> message].type \in replies
      OBVIOUS
    <3>2. [type |-> "Waiting"].type \in replies
      OBVIOUS
    <3> HIDE DEF replies
    <3>3. StreamsBring({}, replies)
      BY <1>3, <2>3, <3>1, <3>2
    <3> QED BY <3>3 DEF replies
  <2>4. CASE \E step \in {"messages", "prepare", "shut_down"} : Continue(k, step)
    <3>1. PICK step \in {"messages", "prepare", "shut_down"} : Continue(k, step)
      BY <2>4
    <3>2. conn'[k] = [conn[k] EXCEPT !.step = step]
      BY <1>0, <3>1 DEF Continue
    <3> HIDE DEF replies
    <3>3. Brings(conn[k], conn'[k], {}, replies)
      BY <1>1, <3>2, StepBrings
    <3>4. StreamsBring({}, replies)
      BY <1>2, <3>3
    <3> QED BY <3>4 DEF replies
  <2>5. CASE HandleCheckHeartbeat(s, k)
    BY <2>5, BringsCheck DEF StreamsBring, Brings
  <2> QED BY <2>1, <2>2, <2>3, <2>4, <2>5
<1> QED BY <1>4, <1>5, <1>6

LEMMA SendBrings ==
  ASSUME TypeInv, NEW k \in Conns, NEW s, NEW m, NEW open, Send(k, s, m, open),
         NEW requests, m.type \in requests
  PROVE  StreamsBring(requests, {})
<1>1. /\ conn[k] = None
      /\ conn'[k] # None => conn'[k].request = m /\ conn'[k].step = "backlog"
      /\ \A l \in Conns \ {k} : conn'[l] = conn[l]
  BY SendsStream
<1>2. Brings(conn[k], conn'[k], requests, {})
  BY <1>1 DEF Brings
<1>3. \A l \in Conns \ {k} : Brings(conn[l], conn'[l], requests, {})
  BY <1>1 DEF Brings
<1> QED BY <1>2, <1>3 DEF StreamsBring

LEMMA ThreadsBring ==
  ASSUME TypeInv, NEW s \in Servers,
         \/ ServerMainLoop(s) \/ ServerHeartbeatThread(s) \/ \E k \in Conns : Accept(s, k)
  PROVE  StreamsBring({"CheckHeartbeat"}, {})
<1> USE DEF connVars
<1> DEFINE requests == {"CheckHeartbeat"}
<1>0. conn \in [Conns -> Stream \cup {None}]
  BY DEF TypeInv, TypeOK, NCConnectionTypeOK
<1>1. CASE ServerHeartbeatExits(s) \/ CheckJobDone(s) \/ JoinThreads(s)
  BY <1>1 DEF ServerHeartbeatExits, CheckJobDone, JoinThreads, StreamsBring, Brings
<1>2. CASE SendCheckHeartbeat(s)
  <2>1. PICK k \in Conns : Send(k, s, [type |-> "CheckHeartbeat"], FALSE)
    BY <1>2 DEF SendCheckHeartbeat
  <2> DEFINE request == [type |-> "CheckHeartbeat"]
             no == FALSE
  <2>2. Send(k, s, request, no) /\ request.type \in requests
    BY <2>1
  <2> HIDE DEF request, no, requests
  <2>3. StreamsBring(requests, {})
    BY <2>2, SendBrings
  <2> QED BY <2>3 DEF requests
<1>3. CASE FinishJob(s)
  <2>1. ASSUME NEW k \in Conns
        PROVE  Brings(conn[k], conn'[k], requests, {})
    <3>1. conn'[k] = conn[k] \/ (conn[k] # None /\ conn'[k] = Dropped(conn[k]))
      BY <1>3 DEF FinishJob, At
    <3> HIDE DEF requests
    <3>2. CASE conn'[k] = conn[k]
      BY <3>2 DEF Brings
    <3>3. CASE conn[k] # None /\ conn'[k] = Dropped(conn[k])
      BY <1>0, <3>3, DroppedBrings
    <3> QED BY <3>1, <3>2, <3>3
  <2> QED BY <2>1 DEF StreamsBring
<1>4. ASSUME NEW k \in Conns, Accept(s, k)
      PROVE  StreamsBring(requests, {})
  <2>1. conn[k] \in Stream /\ conn[k].step = "backlog"
    BY <1>0, <1>4 DEF Accept, At
  <2>2. /\ conn'[k] = [conn[k] EXCEPT !.step = "accepted"]
        /\ \A l \in Conns : l # k => conn'[l] = conn[l]
    BY <1>0, <1>4 DEF Accept, Continue
  <2> HIDE DEF requests
  <2>3. Brings(conn[k], conn'[k], requests, {})
    <3> DEFINE step == "accepted"
    <3>1. conn'[k] = [conn[k] EXCEPT !.step = step] /\ step \in {"messages", "prepare", "shut_down", "accepted"}
      BY <2>2
    <3> HIDE DEF step
    <3> QED BY <2>1, <3>1, StepBrings
  <2> QED BY <2>2, <2>3 DEF StreamsBring, Brings
<1> QED BY <1>1, <1>2, <1>3, <1>4 DEF ServerMainLoop, ServerHeartbeatThread

-----------------------------------------------------------------------------
(* What the parts of WorkInv need of a step.                               *)
LEMMA NobodyLeaves ==
  ASSUME NEW home, StayInv(home), NEW s \in Servers, NEW k \in Conns
  PROVE  ~HandleLeavingNode(s, k) /\ ~HandleNewServer(s, k) /\ ~HandleShutDown(s, k)
BY DEF StayInv, HandleLeavingNode, HandleNewServer, HandleShutDown, Received, At

LEMMA StayKept ==
  ASSUME NEW home, StayInv(home), KeepsResults, NEW requests, NEW replies,
         StreamsBring(requests, replies), "NewServer" \notin replies,
         requests \cap {"NewServer", "ShutDown"} = {},
         \A s \in Servers : ~listening'[s] => ~listening[s] \/ AllDelivered(s),
         UNCHANGED <<new_server, stopped, server_addr>>
  PROVE  StayInv(home)'
<1>1. \A k \in Conns :
        /\ Redirects(conn'[k]) => Redirects(conn[k])
        /\ conn'[k] # None => \/ conn[k] # None /\ conn'[k].request = conn[k].request
                              \/ conn'[k].request.type \in requests
  BY BringsFacts DEF StreamsBring
<1>2. \A s \in Servers : AllDelivered(s) => AllDelivered(s)'
  BY DEF KeepsResults, AllDelivered
<1>3. \A k \in Conns : conn'[k] # None => conn'[k].request.type \notin {"NewServer", "ShutDown"}
  BY <1>1 DEF StayInv
<1>4. \A k \in Conns : ~Redirects(conn'[k])
  BY <1>1 DEF StayInv
<1>5. \A s \in Servers : ~listening'[s] => AllDelivered(s)'
  BY <1>2 DEF StayInv
<1> QED BY <1>3, <1>4, <1>5 DEF StayInv

LEMMA SuspectKept ==
  ASSUME NEW home \in Servers, SuspectInv(home), NEW requests, NEW replies,
         StreamsBring(requests, replies), "InitialData" \notin replies,
         check_heartbeat(node_list'[home]) \subseteq check_heartbeat(node_list[home]),
         DrawnIds(home) \subseteq DrawnIds(home)',
         listening'[home] => listening[home],
         \A id \in NodeIDs : Living(id)' => Expected(id),
         \A n \in Nodes :
           listening'[home] /\ node_id'[n] # None /\ node_loop'[n] # "crashed"
             => heartbeat'[n] = "running"
  PROVE  SuspectInv(home)'
<1>1. \A k \in Conns :
        /\ \A id : Grants(conn'[k], id) => Grants(conn[k], id)
        /\ \A id : Doubts(conn'[k], home, id) =>
             Doubts(conn[k], home, id) \/ id \in check_heartbeat(node_list[home])
  BY BringsFacts DEF StreamsBring
<1>2. ASSUME NEW id \in NodeIDs, Suspected(home, id)'
      PROVE  Suspected(home, id)
  BY <1>1, <1>2 DEF Suspected
<1>3. ASSUME NEW id \in NodeIDs, Expected(id)'
      PROVE  Expected(id)
  BY <1>1, <1>3 DEF Expected
<1>4. ASSUME NEW id \in NodeIDs, Suspected(home, id)'
      PROVE  id \in DrawnIds(home)' /\ (listening'[home] => ~Expected(id)')
  BY <1>2, <1>3, <1>4 DEF SuspectInv
<1> QED BY <1>4 DEF SuspectInv

LEMMA HoldersLive ==
  ASSUME NEW home, IdInv(home), NEW id \in NodeIDs, NEW c \in ChunkIdx, Holds(id, c)
  PROVE  Living(id)
<1>1. c # None
  BY NCMessagesAssumption DEF ChunkIdx
<1>2. CASE \E n \in Nodes : node_id[n] = id /\ work[n] = c
  BY <1>1, <1>2 DEF IdInv, Leftovers, Living
<1>3. ASSUME NEW k \in Conns, Offers(conn[k], id, c)
      PROVE  Living(id)
  <2>1. Asks(conn[k], id) /\ Names(conn[k], id) /\ conn[k].open
    BY <1>3 DEF Offers, Asks, Names, IdInv, RepliesRead
  <2>2. PICK n \in Nodes : node_id[n] = id /\ node_loop[n] = "waiting"
    BY <2>1 DEF IdInv, RequestsOwned
  <2> QED BY <2>2 DEF Living
<1> QED BY <1>2, <1>3 DEF Holds

LEMMA HoldKept ==
  ASSUME NEW home \in Servers, IdInv(home), HoldInv(home), NEW requests, NEW replies,
         StreamsBring(requests, replies), "HasData" \notin requests, "Unfinished" \notin replies,
         \A n \in Nodes, c \in ChunkIdx : work'[n] = c => Holds(node_id'[n], c),
         \A id \in NodeIDs : Living(id)' => Living(id) \/ \A k \in Conns : ~Names(conn[k], id),
         \A c \in ChunkIdx, id \in NodeIDs :
           /\ is_processing(chunk_list[home][c], id) /\ Living(id)
           /\ Holds(id, c)' \/ \E k \in Conns : Unread(conn'[k], home, ResultFrom(id, c))
           => is_processing(chunk_list'[home][c], id)
  PROVE  HoldInv(home)'
<1>1. \A k \in Conns :
        /\ \A id, c : Offers(conn'[k], id, c) => Offers(conn[k], id, c)
        /\ \A id, c : Unread(conn'[k], home, ResultFrom(id, c)) =>
             Unread(conn[k], home, ResultFrom(id, c))
  BY BringsFacts DEF StreamsBring
<1>2. ASSUME NEW id \in NodeIDs, NEW c \in ChunkIdx, Holds(id, c)'
      PROVE  Holds(id, c)
  BY <1>1, <1>2 DEF Holds
<1>3. ASSUME NEW id \in NodeIDs, NEW c \in ChunkIdx, Holds(id, c)'
      PROVE  is_processing(chunk_list'[home][c], id)
  BY <1>2, <1>3, HoldersLive DEF HoldInv
<1>4. ASSUME NEW id \in NodeIDs, NEW c \in ChunkIdx, NEW k \in Conns,
             Unread(conn'[k], home, ResultFrom(id, c)), Living(id)'
      PROVE  /\ is_processing(chunk_list'[home][c], id)
             /\ ~Holds(id, c)'
             /\ \A l \in Conns : Unread(conn'[l], home, ResultFrom(id, c)) => l = k
  <2>1. Unread(conn[k], home, ResultFrom(id, c))
    BY <1>1, <1>4
  <2>2. Names(conn[k], id)
    BY <2>1 DEF Unread, ResultFrom, Names, WithId
  <2>3. Living(id)
    BY <1>4, <2>2
  <2>4. /\ is_processing(chunk_list[home][c], id)
        /\ ~Holds(id, c)
        /\ \A l \in Conns : Unread(conn[l], home, ResultFrom(id, c)) => l = k
    BY <2>1, <2>3 DEF HoldInv
  <2>5. is_processing(chunk_list'[home][c], id)
    BY <1>4, <2>3, <2>4
  <2> QED BY <1>1, <1>2, <2>4, <2>5
<1> QED BY <1>3, <1>4 DEF HoldInv

-----------------------------------------------------------------------------
(* The steps of a server.                                                  *)
LEMMA HandlersBeat ==
  ASSUME TypeInv, NEW s \in Servers, NEW k \in Conns,
         handle_node(s, k), ~HandleLeavingNode(s, k)
  PROVE  \A t \in Servers : check_heartbeat(node_list'[t]) \subseteq check_heartbeat(node_list[t])
<1> USE DEF threadVars, listVars, jobVars, doneVars, serverVars
<1>0. node_list \in [Servers -> Seq(NCNodeInfo)] /\ node_list[s] \in Seq(NCNodeInfo)
  BY DEF TypeInv, TypeOK, NCServerTypeOK
<1>1. ASSUME NEW new, check_heartbeat(new) \subseteq check_heartbeat(node_list[s]),
             node_list' = [node_list EXCEPT ![s] = new]
      PROVE  \A t \in Servers :
               check_heartbeat(node_list'[t]) \subseteq check_heartbeat(node_list[t])
  <2>1. \A t \in Servers : node_list'[t] = IF t = s THEN new ELSE node_list[t]
    BY <1>0, <1>1
  <2> QED BY <1>1, <2>1
<1>2. CASE HandleRegister(s, k)
  <2>1. PICK id \in NodeIDs : node_list' = [node_list EXCEPT ![s] = register_new_node(@, id)]
    BY <1>2 DEF HandleRegister
  <2>2. check_heartbeat(register_new_node(node_list[s], id)) \subseteq check_heartbeat(node_list[s])
    BY <1>0, EnlistedBeat
  <2> QED BY <1>1, <2>1, <2>2
<1>3. CASE SendCustomMessage(s, k)
  <2>1. PICK i \in DOMAIN node_list[s] : node_list' = [node_list EXCEPT ![s] = pop_message(@, i)]
    BY <1>3 DEF SendCustomMessage
  <2>2. check_heartbeat(pop_message(node_list[s], i)) \subseteq check_heartbeat(node_list[s])
    BY <1>0, ChangesBeat
  <2> QED BY <1>1, <2>1, <2>2
<1>4. CASE HandleHeartBeat(s, k)
  <2> DEFINE id == conn[k].request.node_id
  <2>1. node_list' = [node_list EXCEPT ![s] = update_heartbeat(@, id)]
    BY <1>4 DEF HandleHeartBeat
  <2> HIDE DEF id
  <2>2. check_heartbeat(update_heartbeat(node_list[s], id)) \subseteq check_heartbeat(node_list[s])
    BY <1>0, ChangesBeat
  <2> QED BY <1>1, <2>1, <2>2
<1>5. CASE HandleNodeMigrated(s, k)
  <2>1. conn[k].request.node_id \in NodeIDs
    BY <1>5, RequestValues DEF HandleNodeMigrated
  <2>2. check_heartbeat(migrate_node(node_list[s], conn[k].request.node_id))
          \subseteq check_heartbeat(node_list[s])
    BY <1>0, <2>1, EnlistedBeat
  <2> QED BY <1>1, <1>5, <2>2 DEF HandleNodeMigrated
<1>6. CASE HandleCustomMessage(s, k)
  <2> DEFINE message     == conn[k].request.message
             destination == conn[k].request.destination
             new == IF destination = None THEN add_message_all(node_list[s], message)
                    ELSE add_message(node_list[s], message, destination)
  <2>1. node_list' = [node_list EXCEPT ![s] = new]
    BY <1>6 DEF HandleCustomMessage
  <2>2. check_heartbeat(new) \subseteq check_heartbeat(node_list[s])
    <3> HIDE DEF message, destination
    <3> QED BY <1>0, ChangesBeat
  <2> HIDE DEF new
  <2> QED BY <1>1, <2>1, <2>2
<1>7. CASE UNCHANGED node_list
  BY <1>7
<1>8. \/ UNCHANGED node_list
      \/ HandleRegister(s, k) \/ SendCustomMessage(s, k) \/ HandleHeartBeat(s, k)
      \/ HandleNodeMigrated(s, k) \/ HandleCustomMessage(s, k)
  BY DEF handle_node, HandlerFails, HandleNeedsData, HandleUnknownNode, NoCustomMessage,
         PrepareUnfinished, PrepareWaiting, PrepareFinished, HandleFinished, AcceptResult,
         RejectResult, HandleCheckHeartbeat, HeartbeatTimeout, HandleShutDown, HandleNewServer
<1> QED BY <1>2, <1>3, <1>4, <1>5, <1>6, <1>7, <1>8

(* The accept loop closes the listener when all is delivered.              *)
LEMMA ThreadsWork ==
  ASSUME NEW home \in Servers, TypeInv, IdInv(home), JobInv, WorkInv(home), KeepsResults,
         NEW s \in Servers,
         \/ ServerMainLoop(s) \/ ServerHeartbeatThread(s) \/ \E k \in Conns : Accept(s, k),
         UNCHANGED nodeVars
  PROVE  WorkInv(home)'
<1> USE DEF connVars, serverVars, threadVars, listVars, jobVars, doneVars, nodeVars
<1> DEFINE requests == {"CheckHeartbeat"}
           replies == {}
<1>1. /\ StreamsBring(requests, replies)
      /\ requests \cap {"NewServer", "ShutDown"} = {} /\ "HasData" \notin requests
      /\ \A type \in {"NewServer", "InitialData", "Unfinished"} : type \notin replies
  BY ThreadsBring
<1>2. StillListening
  BY ThreadsCarry
<1>3. UNCHANGED <<new_server, stopped, node_list, departed, chunk_list>>
  BY DEF ServerMainLoop, ServerHeartbeatThread, Accept, CheckJobDone, FinishJob, JoinThreads,
         SendCheckHeartbeat, ServerHeartbeatExits
<1>4. \A t \in Servers : ~listening'[t] => ~listening[t] \/ AllDelivered(t)
  <2>1. CASE FinishJob(s)
    <3>1. job_done[s] /\ ~stopped[s]
      BY <2>1 DEF FinishJob, JobInv, SavedLast, WorkInv, StayInv
    <3>2. AllDelivered(s)
      BY <3>1 DEF JobInv, DoneJustified
    <3>3. \A t \in Servers : t # s => listening'[t] = listening[t]
      BY <2>1 DEF FinishJob, TypeInv, TypeOK, NCConnectionTypeOK
    <3> QED BY <3>2, <3>3
  <2>2. CASE ~FinishJob(s)
    BY <2>2 DEF ServerMainLoop, ServerHeartbeatThread, Accept, CheckJobDone, JoinThreads,
         SendCheckHeartbeat, ServerHeartbeatExits
  <2> QED BY <2>1, <2>2
<1> HIDE DEF requests, replies
<1>5. StayInv(home)'
  BY <1>1, <1>3, <1>4, StayKept DEF WorkInv
<1>6. SuspectInv(home)'
  <2>1. \A id \in NodeIDs : Living(id)' => Expected(id)
    BY DEF Living, Expected
  <2>2. \A n \in Nodes : listening'[home] /\ node_id'[n] # None /\ node_loop'[n] # "crashed"
             => heartbeat'[n] = "running"
    BY <1>2 DEF WorkInv, SuspectInv, StillListening
  <2> QED BY <1>1, <1>2, <1>3, <2>1, <2>2, SuspectKept DEF WorkInv, StillListening, DrawnIds
<1>7. HoldInv(home)'
  <2>1. \A n \in Nodes, c \in ChunkIdx : work'[n] = c => Holds(node_id'[n], c)
    BY DEF Holds
  <2>2. \A id \in NodeIDs : Living(id)' => Living(id)
    BY DEF Living
  <2> QED BY <1>1, <1>3, <2>1, <2>2, HoldKept DEF WorkInv
<1> QED BY <1>5, <1>6, <1>7 DEF WorkInv

(* A handler leaves the chunks of the living alone, except to give one out *)
(* or to take its result.                                                  *)
LEMMA TimeoutSpares ==
  ASSUME NEW home \in Servers, TypeInv, JobInv, WorkInv(home), NEW s \in Servers, NEW k \in Conns,
         HeartbeatTimeout(s, k), NEW c \in ChunkIdx, NEW id \in NodeIDs,
         is_processing(chunk_list[home][c], id), Living(id)
  PROVE  is_processing(chunk_list'[home][c], id)
<1>0. chunk_list \in [Servers -> [ChunkIdx -> Chunk]]
  BY DEF TypeInv, TypeOK, NCServerTypeOK
<1>1. chunk_list' = [chunk_list EXCEPT ![s] = heartbeat_timeout(@, conn[k].nodes)]
  BY DEF HeartbeatTimeout
<1>2. CASE s # home
  BY <1>0, <1>1, <1>2
<1>3. CASE s = home
  <2>1. listening[home]
    <3> SUFFICES ASSUME ~listening[home] PROVE FALSE
      OBVIOUS
    <3>1. chunk_list[home][c].status = "Finished"
      BY DEF WorkInv, StayInv, AllDelivered, JobInv, ListMatchesImage
    <3> QED BY <3>1 DEF is_processing
  <2>2. ASSUME NEW i \in conn[k].nodes, is_processing(chunk_list[home][c], i)
        PROVE  FALSE
    <3>1. i = id
      BY <2>2 DEF is_processing
    <3>2. Suspected(home, id)
      BY <1>3, <2>2, <3>1 DEF Suspected, Doubts, HeartbeatTimeout, At
    <3> QED BY <2>1, <3>2 DEF WorkInv, SuspectInv, Expected
  <2>3. chunk_list'[home][c] = chunk_list[home][c]
    <3> DEFINE nodes == conn[k].nodes
    <3>1. heartbeat_timeout(chunk_list[home], nodes)[c] = chunk_list[home][c]
      BY <2>2 DEF heartbeat_timeout
    <3> HIDE DEF nodes
    <3> QED BY <1>0, <1>1, <1>3, <3>1 DEF nodes
  <2> QED BY <2>3
<1> QED BY <1>2, <1>3

LEMMA ResultFields ==
  ASSUME NEW m \in NCNodeMessage, m.type = "HasData"
  PROVE  m.node_id \in NodeIDs /\ m.chunk_id \in ChunkIdx /\ m = ResultFrom(m.node_id, m.chunk_id)
BY DEF NCNodeMessage, ResultFrom

LEMMA AcceptSpares ==
  ASSUME NEW home \in Servers, TypeInv, IdInv(home), WorkInv(home), NEW s \in Servers, NEW k \in Conns,
         AcceptResult(s, k), NEW c \in ChunkIdx, NEW id \in NodeIDs,
         is_processing(chunk_list[home][c], id), Living(id),
         Holds(id, c) \/ \E l \in Conns : l # k /\ Unread(conn[l], home, ResultFrom(id, c))
  PROVE  is_processing(chunk_list'[home][c], id)
<1>0. chunk_list \in [Servers -> [ChunkIdx -> Chunk]]
  BY DEF TypeInv, TypeOK, NCServerTypeOK
<1> DEFINE d == conn[k].request.chunk_id
           i == conn[k].request.node_id
<1>1. /\ chunk_list' = [chunk_list EXCEPT ![s][d] = set_finished(@)]
      /\ is_processing(chunk_list[s][d], i)
  BY DEF AcceptResult
<1>2. Received(k, s, "HasData")
  BY DEF AcceptResult
<1>3. i \in NodeIDs /\ d \in ChunkIdx /\ Unread(conn[k], s, ResultFrom(i, d))
  <2>1. conn[k].request \in NCNodeMessage /\ conn[k].request.type = "HasData"
    BY <1>2 DEF Received, At, TypeInv, TypeOK, NCConnectionTypeOK, Stream
  <2>2. i \in NodeIDs /\ d \in ChunkIdx /\ conn[k].request = ResultFrom(i, d)
    BY <2>1, ResultFields
  <2> QED BY <1>2, <2>2 DEF Received, At, Unread
<1> HIDE DEF d, i
<1>4. CASE s # home \/ c # d
  BY <1>0, <1>1, <1>3, <1>4
<1>5. CASE s = home /\ c = d
  <2>1. i = id
    BY <1>1, <1>5 DEF is_processing
  <2>2. /\ ~Holds(id, c)
        /\ \A l \in Conns : Unread(conn[l], home, ResultFrom(id, c)) => l = k
    BY <1>3, <1>5, <2>1 DEF WorkInv, HoldInv
  <2> QED BY <2>2
<1> QED BY <1>4, <1>5

(* The handlers of a server.                                               *)
LEMMA HandlersStay ==
  ASSUME NEW home \in Servers, TypeInv, WorkInv(home), KeepsResults,
         NEW s \in Servers, NEW k \in Conns, handle_node(s, k), UNCHANGED nodeVars
  PROVE  StayInv(home)'
<1> USE DEF serverVars, listVars, doneVars, nodeVars
<1>1. ~HandleLeavingNode(s, k) /\ ~HandleNewServer(s, k) /\ ~HandleShutDown(s, k)
  BY NobodyLeaves DEF WorkInv
<1>2. UNCHANGED <<new_server, stopped, server_addr>>
  BY <1>1 DEF handle_node, HandlerFails, HandleRegister, HandleNeedsData, HandleUnknownNode,
         SendCustomMessage, NoCustomMessage, PrepareUnfinished, PrepareWaiting, PrepareFinished,
         HandleFinished, HandleHeartBeat, AcceptResult, RejectResult, HandleCheckHeartbeat,
         HeartbeatTimeout, HandleNodeMigrated, HandleCustomMessage
<1>3. UNCHANGED listening
  BY HandlerLocal
<1>4. PICK replies : StreamsBring({}, replies) /\ "NewServer" \notin replies
  BY <1>1, HandlersBring
<1> DEFINE requests == {}
<1>5. StreamsBring(requests, replies) /\ requests \cap {"NewServer", "ShutDown"} = {}
  BY <1>4
<1> HIDE DEF requests
<1> QED BY <1>2, <1>3, <1>4, <1>5, StayKept DEF WorkInv

LEMMA AnIdIsDrawn ==
  ASSUME NEW home \in Servers, TypeInv, IdInv(home), WorkInv(home),
         NEW s \in Servers, NEW k \in Conns, HandleRegister(s, k), UNCHANGED nodeVars
  PROVE  SuspectInv(home)'
<1> USE DEF nodeVars
<1>0. /\ conn \in [Conns -> Stream \cup {None}]
      /\ handle_node(s, k) /\ ~HandleLeavingNode(s, k)
  BY DEF TypeInv, TypeOK, NCConnectionTypeOK, handle_node, HandleRegister, HandleLeavingNode,
         Received
<1>1. s = home
  BY DEF IdInv, StartAtHome, HandleRegister, Received, At, Registers
<1>2. PICK new \in NodeIDs :
        /\ new \notin DrawnIds(home)
        /\ Answer(k, [type |-> "InitialData", node_id |-> new])
  BY <1>1 DEF HandleRegister, DrawnIds
<1>3. /\ UNCHANGED listening
      /\ check_heartbeat(node_list'[home]) \subseteq check_heartbeat(node_list[home])
      /\ DrawnIds(home) \subseteq DrawnIds(home)'
  BY <1>0, HandlerLocal, HandlersBeat, HandlersGrow DEF ListsGrow, DrawnIds
<1>4. ASSUME NEW id \in NodeIDs, Suspected(home, id)'
      PROVE  Suspected(home, id)
  <2> DEFINE requests == {}
             replies == {"InitialData"}
  <2>1. StreamsBring(requests, replies)
    BY <1>0, HandlersBring
  <2> HIDE DEF requests, replies
  <2>2. \A l \in Conns : Doubts(conn'[l], home, id) =>
          Doubts(conn[l], home, id) \/ id \in check_heartbeat(node_list[home])
    BY <2>1, BringsFacts DEF StreamsBring
  <2> QED BY <1>3, <1>4, <2>2 DEF Suspected
<1>5. ASSUME NEW id \in NodeIDs, Expected(id)', id \in DrawnIds(home)
      PROVE  Expected(id)
  <2>1. ASSUME NEW l \in Conns, Grants(conn'[l], id)
        PROVE  Grants(conn[l], id)
    <3>1. conn'[l] = IF l = k THEN Answered(conn[k], [type |-> "InitialData", node_id |-> new])
                     ELSE conn[l]
      BY <1>0, <1>2 DEF Answer
    <3>2. CASE l = k
      <4>1. conn[k] \in Stream
        BY <1>0, HandlerLocal
      <4>2. conn'[l].reply = [type |-> "InitialData", node_id |-> new]
        BY <2>1, <3>1, <3>2, <4>1 DEF Answered, Grants, Stream
      <4> QED BY <1>2, <1>5, <2>1, <4>2 DEF Grants
    <3> QED BY <2>1, <3>1, <3>2
  <2> QED BY <1>5, <2>1 DEF Expected, Living
<1>6. ASSUME NEW id \in NodeIDs, Suspected(home, id)'
      PROVE  id \in DrawnIds(home)' /\ (listening'[home] => ~Expected(id)')
  BY <1>3, <1>4, <1>5, <1>6 DEF WorkInv, SuspectInv
<1> QED BY <1>3, <1>6 DEF WorkInv, SuspectInv

LEMMA HandlersSuspect ==
  ASSUME NEW home \in Servers, TypeInv, IdInv(home), WorkInv(home),
         NEW s \in Servers, NEW k \in Conns, handle_node(s, k), UNCHANGED nodeVars
  PROVE  SuspectInv(home)'
<1> USE DEF nodeVars
<1>1. ~HandleLeavingNode(s, k)
  BY NobodyLeaves DEF WorkInv
<1>2. CASE HandleRegister(s, k)
  BY <1>2, AnIdIsDrawn
<1>3. CASE ~HandleRegister(s, k)
  <2>1. /\ UNCHANGED listening
        /\ check_heartbeat(node_list'[home]) \subseteq check_heartbeat(node_list[home])
        /\ DrawnIds(home) \subseteq DrawnIds(home)'
    BY <1>1, HandlerLocal, HandlersBeat, HandlersGrow DEF ListsGrow, DrawnIds
  <2>2. PICK replies : StreamsBring({}, replies) /\ "InitialData" \notin replies
    BY <1>1, <1>3, HandlersBring
  <2> DEFINE requests == {}
  <2>3. StreamsBring(requests, replies)
    BY <2>2
  <2> HIDE DEF requests
  <2>4. /\ \A id \in NodeIDs : Living(id)' => Expected(id)
        /\ \A n \in Nodes : listening'[home] /\ node_id'[n] # None /\ node_loop'[n] # "crashed"
             => heartbeat'[n] = "running"
    BY <2>1 DEF Living, Expected, WorkInv, SuspectInv
  <2> QED BY <2>1, <2>2, <2>3, <2>4, SuspectKept DEF WorkInv
<1> QED BY <1>2, <1>3

(* A handler other than that of a free chunk touches what the living hold  *)
(* only to take a result.                                                  *)
LEMMA HandlersSpare ==
  ASSUME NEW home \in Servers, TypeInv, IdInv(home), JobInv, WorkInv(home),
         NEW s \in Servers, NEW k \in Conns, handle_node(s, k), ~PrepareUnfinished(s, k),
         UNCHANGED nodeVars,
         NEW c \in ChunkIdx, NEW id \in NodeIDs,
         is_processing(chunk_list[home][c], id), Living(id),
         Holds(id, c)' \/ \E l \in Conns : Unread(conn'[l], home, ResultFrom(id, c))
  PROVE  is_processing(chunk_list'[home][c], id)
<1> USE DEF nodeVars, jobVars, serverVars
<1>0. conn \in [Conns -> Stream \cup {None}]
  BY DEF TypeInv, TypeOK, NCConnectionTypeOK
<1>1. ~HandleLeavingNode(s, k) /\ ~HandleNewServer(s, k) /\ ~HandleShutDown(s, k)
  BY NobodyLeaves DEF WorkInv
<1>2. CASE HeartbeatTimeout(s, k)
  BY <1>2, TimeoutSpares
<1>3. CASE AcceptResult(s, k)
  <2>1. PICK replies : StreamsBring({}, replies) /\ "Unfinished" \notin replies
    BY <1>1, HandlersBring
  <2> DEFINE requests == {}
  <2>2. StreamsBring(requests, replies) /\ "HasData" \notin requests
    BY <2>1
  <2> HIDE DEF requests
  <2>3. \A l \in Conns :
          /\ Offers(conn'[l], id, c) => Offers(conn[l], id, c)
          /\ Unread(conn'[l], home, ResultFrom(id, c)) => Unread(conn[l], home, ResultFrom(id, c))
    BY <2>1, <2>2, BringsFacts DEF StreamsBring
  <2>4. ~Unread(conn'[k], home, ResultFrom(id, c))
    <3>1. conn'[k] = Dropped(conn[k]) /\ conn[k] \in Stream
      BY <1>0, <1>3, HandlerLocal DEF AcceptResult, Drop
    <3> QED BY <3>1 DEF Dropped, Unread, Stream
  <2>5. Holds(id, c) \/ \E l \in Conns : l # k /\ Unread(conn[l], home, ResultFrom(id, c))
    BY <2>3, <2>4 DEF Holds
  <2> QED BY <1>3, <2>5, AcceptSpares
<1>4. CASE ~HeartbeatTimeout(s, k) /\ ~AcceptResult(s, k)
  <2>1. UNCHANGED chunk_list
    BY <1>1, <1>4 DEF handle_node, HandlerFails, HandleRegister, HandleNeedsData,
         HandleUnknownNode, SendCustomMessage, NoCustomMessage, PrepareWaiting, PrepareFinished,
         HandleFinished, HandleHeartBeat, RejectResult, HandleCheckHeartbeat,
         HandleNodeMigrated, HandleCustomMessage
  <2> QED BY <2>1
<1> QED BY <1>2, <1>3, <1>4

LEMMA AChunkIsGiven ==
  ASSUME NEW home \in Servers, TypeInv, IdInv(home), WorkInv(home),
         NEW s \in Servers, NEW k \in Conns, PrepareUnfinished(s, k), UNCHANGED nodeVars
  PROVE  HoldInv(home)'
<1> USE DEF nodeVars
<1>0. /\ conn \in [Conns -> Stream \cup {None}]
      /\ chunk_list \in [Servers -> [ChunkIdx -> Chunk]]
      /\ handle_node(s, k) /\ ~HandleLeavingNode(s, k)
      /\ At(k, s, "prepare")
  BY DEF TypeInv, TypeOK, NCConnectionTypeOK, NCServerTypeOK, handle_node, PrepareUnfinished,
         HandleLeavingNode, Received, At
<1> DEFINE i == conn[k].request.node_id
<1>1. i \in NodeIDs /\ Asks(conn[k], i)
  BY <1>0, RequestValues, HandlerRequest DEF Asks, Names, WithId
<1>2. s = home
  BY <1>0, <1>1 DEF IdInv, RequestsOwned, WorkInv, StayInv, Asks, At
<1>3. PICK d \in ChunkIdx :
        /\ chunk_list[home][d].status = "Empty"
        /\ chunk_list' = [chunk_list EXCEPT ![home][d] = set_processing(@, i)]
        /\ Answer(k, [type |-> "Unfinished", chunk_id |-> d])
  BY <1>2 DEF PrepareUnfinished, IsNextFree, Having
<1>4. \A c \in ChunkIdx, id \in NodeIDs :
        is_processing(chunk_list'[home][c], id) <=>
          IF c = d THEN id = i ELSE is_processing(chunk_list[home][c], id)
  BY <1>0, <1>3 DEF is_processing, set_processing
<1>5. \A l \in Conns, id \in NodeIDs, c \in ChunkIdx :
        Unread(conn'[l], home, ResultFrom(id, c)) => Unread(conn[l], home, ResultFrom(id, c))
  <2> DEFINE requests == {}
             replies == {"Unfinished"}
  <2>1. StreamsBring(requests, replies) /\ "HasData" \notin requests
    BY <1>0, HandlersBring
  <2> HIDE DEF requests, replies
  <2> QED BY <2>1, BringsFacts DEF StreamsBring
<1>6. \A l \in Conns, id \in NodeIDs, c \in ChunkIdx :
        Offers(conn'[l], id, c) => Offers(conn[l], id, c) \/ (id = i /\ c = d)
  <2>1. SUFFICES ASSUME NEW l \in Conns, NEW id \in NodeIDs, NEW c \in ChunkIdx,
                        Offers(conn'[l], id, c)
                 PROVE  Offers(conn[l], id, c) \/ (id = i /\ c = d)
    OBVIOUS
  <2>2. conn'[l] = IF l = k THEN Answered(conn[k], [type |-> "Unfinished", chunk_id |-> d])
                   ELSE conn[l]
    BY <1>0, <1>3 DEF Answer
  <2>3. CASE l = k
    <3>1. conn[k] \in Stream
      BY <1>0, HandlerLocal
    <3>2. /\ conn'[l].reply = [type |-> "Unfinished", chunk_id |-> d]
          /\ conn'[l].request = conn[k].request
      BY <2>1, <2>2, <2>3, <3>1 DEF Answered, Offers, Asks, Names, Stream
    <3> QED BY <2>1, <3>2 DEF Offers, Asks, Names
  <2> QED BY <2>1, <2>2, <2>3
<1> HIDE DEF i
(* Nobody held the free chunk and no result for it was on its way.         *)
<1>7. ASSUME NEW id \in NodeIDs, NEW c \in ChunkIdx, Holds(id, c)'
      PROVE  \/ Holds(id, c) /\ c # d
             \/ id = i /\ c = d
  <2>1. Holds(id, c) \/ (id = i /\ c = d)
    BY <1>6, <1>7 DEF Holds
  <2>2. ~Holds(id, d)
    BY <1>3 DEF WorkInv, HoldInv, is_processing
  <2> QED BY <2>1, <2>2
<1>8. ASSUME NEW id \in NodeIDs, NEW c \in ChunkIdx, NEW l \in Conns,
             Unread(conn'[l], home, ResultFrom(id, c)), Living(id)'
      PROVE  /\ c # d
             /\ is_processing(chunk_list[home][c], id)
             /\ ~Holds(id, c)
             /\ \A m \in Conns : Unread(conn[m], home, ResultFrom(id, c)) => m = l
  <2>1. Unread(conn[l], home, ResultFrom(id, c)) /\ Living(id)
    BY <1>5, <1>8 DEF Living
  <2> QED BY <1>3, <2>1 DEF WorkInv, HoldInv, is_processing
<1>9. ASSUME NEW id \in NodeIDs, NEW c \in ChunkIdx, Holds(id, c)'
      PROVE  is_processing(chunk_list'[home][c], id)
  BY <1>4, <1>7, <1>9 DEF WorkInv, HoldInv
<1>10. ASSUME NEW id \in NodeIDs, NEW c \in ChunkIdx, NEW l \in Conns,
              Unread(conn'[l], home, ResultFrom(id, c)), Living(id)'
       PROVE  /\ is_processing(chunk_list'[home][c], id)
              /\ ~Holds(id, c)'
              /\ \A m \in Conns : Unread(conn'[m], home, ResultFrom(id, c)) => m = l
  BY <1>4, <1>5, <1>7, <1>8, <1>10
<1> QED BY <1>9, <1>10 DEF HoldInv

LEMMA ServerWork ==
  ASSUME NEW home \in Servers, TypeInv, IdInv(home), JobInv, WorkInv(home), KeepsResults,
         ServerStep
  PROVE  WorkInv(home)'
<1>1. UNCHANGED nodeVars
  BY DEF ServerStep
<1>2. PICK s \in Servers : \/ ServerMainLoop(s) \/ ServerHeartbeatThread(s)
                           \/ \E k \in Conns : Accept(s, k) \/ handle_node(s, k)
  BY DEF ServerStep, NCServerNext
<1>3. CASE ServerMainLoop(s) \/ ServerHeartbeatThread(s) \/ \E k \in Conns : Accept(s, k)
  BY <1>1, <1>3, ThreadsWork
<1>4. ASSUME NEW k \in Conns, handle_node(s, k)
      PROVE  WorkInv(home)'
  <2>1. StayInv(home)' /\ SuspectInv(home)'
    BY <1>1, <1>4, HandlersStay, HandlersSuspect
  <2>2. CASE PrepareUnfinished(s, k)
    BY <1>1, <2>1, <2>2, AChunkIsGiven DEF WorkInv
  <2>3. CASE ~PrepareUnfinished(s, k)
    <3>1. ~HandleLeavingNode(s, k)
      BY NobodyLeaves DEF WorkInv
    <3>2. PICK replies : StreamsBring({}, replies) /\ "Unfinished" \notin replies
      BY <1>4, <2>3, <3>1, HandlersBring
    <3> DEFINE requests == {}
    <3>3. StreamsBring(requests, replies) /\ "HasData" \notin requests
      BY <3>2
    <3> HIDE DEF requests
    <3>4. /\ \A n \in Nodes, c \in ChunkIdx : work'[n] = c => Holds(node_id'[n], c)
          /\ \A id \in NodeIDs : Living(id)' => Living(id)
      BY <1>1 DEF nodeVars, Holds, Living
    <3>5. \A c \in ChunkIdx, id \in NodeIDs :
           /\ is_processing(chunk_list[home][c], id) /\ Living(id)
           /\ Holds(id, c)' \/ \E l \in Conns : Unread(conn'[l], home, ResultFrom(id, c))
           => is_processing(chunk_list'[home][c], id)
      BY <1>1, <1>4, <2>3, HandlersSpare
    <3>6. HoldInv(home)'
      BY <3>2, <3>3, <3>4, <3>5, HoldKept DEF WorkInv
    <3> QED BY <2>1, <3>6 DEF WorkInv
  <2> QED BY <2>2, <2>3
<1> QED BY <1>2, <1>3, <1>4

(* The steps of a node.                                                    *)
LEMMA NodesStay ==
  ASSUME NEW home \in Servers, WorkInv(home), KeepsResults, NEW requests, NEW replies,
         StreamsBring(requests, replies), "NewServer" \notin replies,
         requests \cap {"NewServer", "ShutDown"} = {},
         UNCHANGED <<listening, serverVars, server_addr>>
  PROVE  StayInv(home)'
<1>1. UNCHANGED <<new_server, stopped>>
  BY DEF serverVars
<1> QED BY <1>1, StayKept DEF WorkInv

LEMMA NodesSuspect ==
  ASSUME NEW home \in Servers, WorkInv(home), NEW requests, NEW replies,
         StreamsBring(requests, replies), "InitialData" \notin replies,
         UNCHANGED <<listening, serverVars>>,
         \A id \in NodeIDs : Living(id)' => Expected(id),
         \A n \in Nodes :
           listening[home] /\ node_id'[n] # None /\ node_loop'[n] # "crashed"
             => heartbeat'[n] = "running"
  PROVE  SuspectInv(home)'
<1>1. UNCHANGED <<node_list, departed>>
  BY DEF serverVars
<1> QED BY <1>1, SuspectKept DEF WorkInv, DrawnIds

LEMMA NodesHold ==
  ASSUME NEW home \in Servers, IdInv(home), WorkInv(home), NEW requests, NEW replies,
         StreamsBring(requests, replies), "HasData" \notin requests, "Unfinished" \notin replies,
         UNCHANGED serverVars,
         \A n \in Nodes, c \in ChunkIdx : work'[n] = c => Holds(node_id'[n], c),
         \A id \in NodeIDs : Living(id)' => Living(id) \/ \A k \in Conns : ~Names(conn[k], id)
  PROVE  HoldInv(home)'
<1>1. UNCHANGED chunk_list
  BY DEF serverVars
<1> QED BY <1>1, HoldKept DEF WorkInv

(* A node keeps its id and does not come back from the dead, nor does its  *)
(* heartbeat thread end before the server.                                 *)
Lasting(home) ==
  \A n \in Nodes :
    /\ node_id'[n] = node_id[n]
    /\ node_loop'[n] # "crashed" => node_loop[n] # "crashed"
    /\ listening[home] /\ node_loop'[n] # "crashed" => heartbeat'[n] = heartbeat[n]

LEMMA LastingSuspect ==
  ASSUME NEW home \in Servers, WorkInv(home), NEW requests, NEW replies,
         StreamsBring(requests, replies), "InitialData" \notin replies,
         UNCHANGED <<listening, serverVars>>, Lasting(home)
  PROVE  SuspectInv(home)'
<1>1. \A id \in NodeIDs : Living(id)' => Expected(id)
  BY DEF Lasting, Living, Expected
<1>2. \A n \in Nodes : listening[home] /\ node_id'[n] # None /\ node_loop'[n] # "crashed"
        => heartbeat'[n] = "running"
  BY DEF Lasting, WorkInv, SuspectInv
<1> QED BY <1>1, <1>2, NodesSuspect

LEMMA LastingWork ==
  ASSUME NEW home \in Servers, IdInv(home), WorkInv(home), KeepsResults, NEW requests, NEW replies,
         StreamsBring(requests, replies),
         \A type \in {"NewServer", "InitialData", "Unfinished"} : type \notin replies,
         requests \cap {"NewServer", "ShutDown", "HasData"} = {},
         UNCHANGED <<listening, serverVars, server_addr>>, Lasting(home),
         \A n \in Nodes, c \in ChunkIdx : work'[n] = c => Holds(node_id[n], c)
  PROVE  WorkInv(home)'
<1>1. StayInv(home)'
  BY NodesStay
<1>2. SuspectInv(home)'
  BY LastingSuspect
<1>3. HoldInv(home)'
  <2>1. \A id \in NodeIDs : Living(id)' => Living(id)
    BY DEF Lasting, Living
  <2>2. \A n \in Nodes, c \in ChunkIdx : work'[n] = c => Holds(node_id'[n], c)
    BY DEF Lasting
  <2> QED BY <2>1, <2>2, NodesHold
<1> QED BY <1>1, <1>2, <1>3 DEF WorkInv

(* What a node does with its place in the main loop.                       *)
LEMMA GotoLasts ==
  ASSUME NEW home, TypeInv, NEW n \in Nodes, node_loop[n] # "crashed",
         UNCHANGED <<node_id, heartbeat>>, NEW place, Goto(n, place)
  PROVE  Lasting(home)
BY DEF Goto, Lasting, TypeInv, TypeOK, NCNodeTypeOK

LEMMA RoundEnds ==
  ASSUME NEW n, NextRound(n) \/ RoundFails(n)
  PROVE  \E place \in {"request", "exited"} : Goto(n, place)
BY DEF NextRound, RoundFails

LEMMA WorkIsHeld ==
  ASSUME NEW work1, \A n \in Nodes : work1[n] = work[n] \/ work1[n] = None
  PROVE  \A n \in Nodes, c \in ChunkIdx : work1[n] = c => Holds(node_id[n], c)
BY NCMessagesAssumption DEF Holds, ChunkIdx

LEMMA CloseBrings ==
  ASSUME TypeInv, NEW n \in Nodes, AwaitsReply(n), Close(n), NEW requests, NEW replies
  PROVE  StreamsBring(requests, replies)
<1>1. conn' = [conn EXCEPT ![sock[n]] = None] /\ conn \in [Conns -> Stream \cup {None}]
  BY DEF Close, TypeInv, TypeOK, NCConnectionTypeOK
<1>2. \A k \in Conns : conn'[k] = conn[k] \/ conn'[k] = None
  BY <1>1
<1> QED BY <1>2 DEF StreamsBring, Brings

LEMMA SameBrings ==
  ASSUME UNCHANGED conn, NEW requests, NEW replies
  PROVE  StreamsBring(requests, replies)
BY DEF StreamsBring, Brings

(* The node opens a stream, for anything but a result.                     *)
LEMMA AskingWork ==
  ASSUME NEW home \in Servers, TypeInv, IdInv(home), WorkInv(home), KeepsResults, NEW n \in Nodes,
         SendRegister(n) \/ SendNeedsData(n) \/ SendNodeMigrated(n) \/ HeartBeat(n),
         UNCHANGED <<listening, serverVars>>
  PROVE  WorkInv(home)'
<1> USE DEF hbVars
<1> DEFINE requests == {"Register", "NeedsData", "NodeMigrated", "HeartBeat"}
           replies == {}
           yes == TRUE
           no == FALSE
           register == [type |-> "Register"]
           needs_data == [type |-> "NeedsData", node_id |-> node_id[n]]
           node_migrated == [type |-> "NodeMigrated", node_id |-> node_id[n]]
           heart_beat == [type |-> "HeartBeat", node_id |-> node_id[n]]
<1>1. PICK k \in Conns :
        \/ Send(k, server_addr[n], register, yes)
        \/ Send(k, server_addr[n], needs_data, yes)
        \/ Send(k, server_addr[n], node_migrated, no)
        \/ Send(k, server_addr[n], heart_beat, no)
  BY DEF SendRegister, SendNeedsData, SendNodeMigrated, HeartBeat, SendAndWait
<1>2. /\ register.type \in requests /\ needs_data.type \in requests
      /\ node_migrated.type \in requests /\ heart_beat.type \in requests
      /\ \A type \in {"NewServer", "InitialData", "Unfinished"} : type \notin replies
      /\ requests \cap {"NewServer", "ShutDown", "HasData"} = {}
  OBVIOUS
<1> HIDE DEF register, needs_data, node_migrated, heart_beat, yes, no, requests
<1>3. StreamsBring(requests, replies)
  BY <1>1, <1>2, SendBrings
<1>4. /\ UNCHANGED <<node_id, server_addr, work, heartbeat>>
      /\ \/ UNCHANGED node_loop
         \/ node_loop[n] # "crashed" /\ \E place : Goto(n, place)
  BY RoundEnds DEF SendRegister, SendNeedsData, SendNodeMigrated, HeartBeat
<1>5. Lasting(home)
  <2>1. CASE UNCHANGED node_loop
    BY <1>4, <2>1 DEF Lasting
  <2>2. CASE ~UNCHANGED node_loop
    BY <1>4, <2>2, GotoLasts
  <2> QED BY <2>1, <2>2
<1>6. \A m \in Nodes, c \in ChunkIdx : work'[m] = c => Holds(node_id[m], c)
  BY <1>4 DEF Holds
<1> HIDE DEF replies
<1> QED BY <1>2, <1>3, <1>4, <1>5, <1>6, LastingWork

(* The node gets no answer, or one that gives it nothing.                  *)
LEMMA NothingGotWork ==
  ASSUME NEW home \in Servers, TypeInv, IdInv(home), WorkInv(home), KeepsResults, NEW n \in Nodes,
         \/ RegisterLost(n) \/ NeedsDataLost(n) \/ GetNoWork(n) \/ MainThreadRefused(n),
         UNCHANGED <<listening, serverVars>>
  PROVE  WorkInv(home)'
<1> USE DEF hbVars, connVars
<1> DEFINE requests == {}
           replies == {}
<1>1. StreamsBring(requests, replies)
  <2>1. CASE MainThreadRefused(n)
    BY <2>1, SameBrings
       DEF MainThreadRefused, RegisterRefused, NeedsDataRefused, NodeMigratedRefused, WorkFails
  <2>2. CASE RegisterLost(n) \/ NeedsDataLost(n) \/ GetNoWork(n)
    BY <2>2, CloseBrings DEF RegisterLost, NeedsDataLost, GetNoWork, AwaitsReply
  <2> QED BY <2>1, <2>2
<1>2. /\ \A type \in {"NewServer", "InitialData", "Unfinished"} : type \notin replies
      /\ requests \cap {"NewServer", "ShutDown", "HasData"} = {}
  OBVIOUS
<1> HIDE DEF requests, replies
<1>3. UNCHANGED <<node_id, server_addr, heartbeat>>
  BY DEF RegisterLost, NeedsDataLost, GetNoWork, MainThreadRefused, RegisterRefused,
     NeedsDataRefused, NodeMigratedRefused, WorkFails
<1>4. node_loop[n] # "crashed" /\ \E place : Goto(n, place)
  <2>1. CASE RegisterLost(n) \/ RegisterRefused(n)
    BY <2>1 DEF RegisterLost, RegisterRefused
  <2>2. CASE ~(RegisterLost(n) \/ RegisterRefused(n))
    BY <2>2, RoundEnds DEF NeedsDataLost, GetNoWork, MainThreadRefused,
       NeedsDataRefused, NodeMigratedRefused, WorkFails
  <2> QED BY <2>1, <2>2
<1>5. work' = work \/ work' = [work EXCEPT ![n] = None]
  BY DEF RegisterLost, NeedsDataLost, GetNoWork, MainThreadRefused, RegisterRefused,
     NeedsDataRefused, NodeMigratedRefused, WorkFails
<1>6. Lasting(home)
  BY <1>3, <1>4, GotoLasts
<1>7. \A m \in Nodes, c \in ChunkIdx : work'[m] = c => Holds(node_id[m], c)
  <2>1. \A m \in Nodes : work'[m] = work[m] \/ work'[m] = None
    BY <1>5 DEF TypeInv, TypeOK, NCNodeTypeOK
  <2> QED BY <2>1, WorkIsHeld
<1> QED BY <1>1, <1>2, <1>3, <1>6, <1>7, LastingWork

(* The heartbeat thread ends with the server only.                         *)
LEMMA HeartbeatRefusedWork ==
  ASSUME NEW home \in Servers, TypeInv, IdInv(home), WorkInv(home), KeepsResults, NEW n \in Nodes,
         HeartBeatRefused(n), ~listening[server_addr[n]], UNCHANGED <<listening, serverVars>>
  PROVE  WorkInv(home)'
<1> DEFINE requests == {}
           replies == {}
<1>1. /\ StreamsBring(requests, replies)
      /\ \A type \in {"NewServer", "InitialData", "Unfinished"} : type \notin replies
      /\ requests \cap {"NewServer", "ShutDown", "HasData"} = {}
  BY SameBrings DEF HeartBeatRefused, connVars
<1> HIDE DEF requests, replies
<1>2. ~listening[home]
  BY DEF WorkInv, StayInv
<1>3. Lasting(home)
  BY <1>2 DEF HeartBeatRefused, Lasting
<1>4. UNCHANGED <<server_addr, work, node_id>>
  BY DEF HeartBeatRefused
<1>5. \A m \in Nodes, c \in ChunkIdx : work'[m] = c => Holds(node_id[m], c)
  BY <1>4 DEF Holds
<1> QED BY <1>1, <1>3, <1>4, <1>5, LastingWork

(* The node takes its chunk, whose offer it has been waiting for.          *)
LEMMA ChunkTakenWork ==
  ASSUME NEW home \in Servers, TypeInv, IdInv(home), WorkInv(home), KeepsResults, NEW n \in Nodes,
         GetUnfinished(n), UNCHANGED <<listening, serverVars>>
  PROVE  WorkInv(home)'
<1> DEFINE requests == {}
           replies == {}
<1>1. /\ StreamsBring(requests, replies)
      /\ \A type \in {"NewServer", "InitialData", "Unfinished"} : type \notin replies
      /\ requests \cap {"NewServer", "ShutDown", "HasData"} = {}
  BY CloseBrings DEF GetUnfinished, AwaitsReply
<1> HIDE DEF requests, replies
<1>2. UNCHANGED <<node_id, server_addr, heartbeat>> /\ node_loop[n] # "crashed" /\ Goto(n, "working")
  BY DEF GetUnfinished, hbVars
<1>3. Lasting(home)
  BY <1>2, GotoLasts
<1>4. ASSUME NEW m \in Nodes, NEW c \in ChunkIdx, work'[m] = c
      PROVE  Holds(node_id[m], c)
  <2>1. work' = [work EXCEPT ![n] = conn[sock[n]].reply.chunk_id]
        /\ work \in [Nodes -> ChunkIdx \cup {None}]
    BY DEF GetUnfinished, TypeInv, TypeOK, NCNodeTypeOK
  <2>2. CASE m # n
    BY <1>4, <2>1, <2>2 DEF Holds
  <2>3. CASE m = n
    <3>1. c = conn[sock[n]].reply.chunk_id
      BY <1>4, <2>1, <2>3
    <3>2. Asks(conn[sock[n]], node_id[n]) /\ sock[n] \in Conns
      BY DEF GetUnfinished, IdInv, Waits, AwaitsReply, TypeInv, NodeOK
    <3>3. Offers(conn[sock[n]], node_id[n], c)
      BY <3>1, <3>2 DEF Offers, GetUnfinished, Replied
    <3> QED BY <2>3, <3>2, <3>3 DEF Holds
  <2> QED BY <2>2, <2>3
<1> QED BY <1>1, <1>2, <1>3, <1>4, LastingWork

(* The node dies, and what it computed with it.                            *)
LEMMA CrashWork ==
  ASSUME NEW home \in Servers, TypeInv, IdInv(home), WorkInv(home), KeepsResults, NEW n \in Nodes,
         Crash(n), UNCHANGED <<listening, serverVars>>
  PROVE  WorkInv(home)'
<1> DEFINE requests == {}
           replies == {}
<1>1. /\ \A type \in {"NewServer", "InitialData", "Unfinished"} : type \notin replies
      /\ requests \cap {"NewServer", "ShutDown", "HasData"} = {}
  OBVIOUS
<1> HIDE DEF requests, replies
<1>2. StreamsBring(requests, replies)
  <2>1. CASE sock[n] = None
    BY <2>1, SameBrings DEF Crash
  <2>2. CASE sock[n] # None
    <3>1. conn[sock[n]] \in Stream /\ sock[n] \in Conns
      BY <2>2 DEF TypeInv, TypeOK, NCConnectionTypeOK, NodeOK
    <3>2. /\ conn'[sock[n]] = Abandoned(conn[sock[n]])
          /\ \A k \in Conns : k # sock[n] => conn'[k] = conn[k]
      BY <2>2, <3>1 DEF Crash, TypeInv, TypeOK, NCConnectionTypeOK
    <3>3. Abandoned(conn[sock[n]]) # None =>
            /\ Abandoned(conn[sock[n]]).server = conn[sock[n]].server
            /\ Abandoned(conn[sock[n]]).request = conn[sock[n]].request
            /\ Abandoned(conn[sock[n]]).step = conn[sock[n]].step
            /\ Abandoned(conn[sock[n]]).nodes = conn[sock[n]].nodes
            /\ conn[sock[n]].step # "replied"
      BY <3>1 DEF Abandoned, Stream
    <3>4. Brings(conn[sock[n]], conn'[sock[n]], requests, replies)
      BY <3>1, <3>2, <3>3, NCConnectionAssumption DEF Brings
    <3> QED BY <3>2, <3>4 DEF StreamsBring, Brings
  <2> QED BY <2>1, <2>2
<1>3. /\ UNCHANGED <<node_id, server_addr>>
      /\ node_loop'[n] = "crashed" /\ work'[n] = None
      /\ \A m \in Nodes \ {n} : /\ node_loop'[m] = node_loop[m] /\ work'[m] = work[m]
                                /\ heartbeat'[m] = heartbeat[m]
  BY DEF Crash, Goto, TypeInv, TypeOK, NCNodeTypeOK
<1>4. Lasting(home)
  BY <1>3 DEF Lasting
<1>5. \A m \in Nodes, c \in ChunkIdx : work'[m] = c => Holds(node_id[m], c)
  <2>1. \A m \in Nodes : work'[m] = work[m] \/ work'[m] = None
    BY <1>3
  <2> QED BY <2>1, WorkIsHeld
<1> QED BY <1>1, <1>2, <1>3, <1>4, <1>5, LastingWork

(* The node learns its id, that was granted to it, and starts to beat.     *)
LEMMA IdTakenWork ==
  ASSUME NEW home \in Servers, TypeInv, IdInv(home), WorkInv(home), KeepsResults, NEW n \in Nodes,
         GetInitialData(n), UNCHANGED <<listening, serverVars>>
  PROVE  WorkInv(home)'
<1> DEFINE requests == {}
           replies == {}
<1>1. /\ StreamsBring(requests, replies)
      /\ \A type \in {"NewServer", "InitialData", "Unfinished"} : type \notin replies
      /\ requests \cap {"NewServer", "ShutDown"} = {} /\ "HasData" \notin requests
  BY CloseBrings DEF GetInitialData, AwaitsReply
<1> HIDE DEF requests, replies
<1>2. PICK id \in NodeIDs : id = conn[sock[n]].reply.node_id
  BY ReplyValues DEF GetInitialData, AwaitsReply
<1>3. /\ sock[n] \in Conns
      /\ conn[sock[n]] # None
  BY DEF TypeInv, NodeOK, GetInitialData, AwaitsReply
<1>4. Grants(conn[sock[n]], id)
  BY <1>2, <1>3 DEF Grants, GetInitialData, Replied
<1>5. /\ node_id[n] = None /\ work[n] = None
      /\ \A k \in Conns : ~Names(conn[k], id)
  <2>1. node_id[n] = None /\ work[n] = None
    BY DEF GetInitialData, IdInv, StartAtHome, Leftovers
  <2>2. \A m \in Nodes : node_id[m] # id
    BY <1>3, <1>4 DEF IdInv, GrantsOK
  <2> QED BY <2>1, <2>2 DEF IdInv, RequestsOwned
<1>6. /\ UNCHANGED <<server_addr, work>>
      /\ node_id'[n] = id /\ heartbeat'[n] = "running" /\ node_loop'[n] = "request"
      /\ \A m \in Nodes \ {n} : /\ node_loop'[m] = node_loop[m] /\ node_id'[m] = node_id[m]
                                /\ heartbeat'[m] = heartbeat[m]
  BY <1>2 DEF GetInitialData, Goto, TypeInv, TypeOK, NCNodeTypeOK
<1>7. StayInv(home)'
  BY <1>1, <1>6, NodesStay
<1>8. SuspectInv(home)'
  <2>1. \A i \in NodeIDs : Living(i)' => Expected(i)
    BY <1>3, <1>4, <1>6 DEF Living, Expected
  <2>2. \A m \in Nodes : listening[home] /\ node_id'[m] # None /\ node_loop'[m] # "crashed"
          => heartbeat'[m] = "running"
    BY <1>6 DEF WorkInv, SuspectInv
  <2> QED BY <1>1, <2>1, <2>2, NodesSuspect
<1>9. HoldInv(home)'
  <2>1. \A i \in NodeIDs : Living(i)' => Living(i) \/ \A k \in Conns : ~Names(conn[k], i)
    BY <1>5, <1>6 DEF Living
  <2>2. \A m \in Nodes, c \in ChunkIdx : work'[m] = c => Holds(node_id'[m], c)
    <3>1. None \notin ChunkIdx
      BY NCMessagesAssumption DEF ChunkIdx
    <3> QED BY <1>5, <1>6, <3>1 DEF Holds
  <2> QED BY <1>1, <2>1, <2>2, NodesHold
<1> QED BY <1>7, <1>8, <1>9 DEF WorkInv

LEMMA ResultNames ==
  ASSUME NEW id, NEW c, NEW i, NEW d, ResultFrom(id, c) = ResultFrom(i, d)
  PROVE  id = i /\ c = d
<1>1. /\ ResultFrom(id, c).node_id = id /\ ResultFrom(id, c).chunk_id = c
      /\ ResultFrom(i, d).node_id = i /\ ResultFrom(i, d).chunk_id = d
  BY DEF ResultFrom
<1> QED BY <1>1

(* The node sends its result: from now on it is on its way, once.          *)
LEMMA ResultSentWork ==
  ASSUME NEW home \in Servers, TypeInv, IdInv(home), WorkInv(home), KeepsResults, NEW n \in Nodes,
         SendHasData(n), UNCHANGED <<listening, serverVars>>
  PROVE  WorkInv(home)'
<1> DEFINE requests == {"HasData"}
           replies == {}
           no == FALSE
           i == node_id[n]
           d == work[n]
           request == ResultFrom(i, d)
<1>1. PICK k \in Conns : Send(k, server_addr[n], request, no)
  BY DEF SendHasData, ResultFrom
<1>2. /\ request.type \in requests
      /\ \A type \in {"NewServer", "InitialData", "Unfinished"} : type \notin replies
      /\ requests \cap {"NewServer", "ShutDown"} = {}
  BY DEF ResultFrom
<1>3. i \in NodeIDs /\ d \in ChunkIdx
  BY DEF SendHasData, TypeInv, NodeOK
<1> HIDE DEF requests, replies, no, request
<1>4. StreamsBring(requests, {})
  BY <1>1, <1>2, SendBrings
<1>5. StreamsBring(requests, replies)
  BY <1>4 DEF replies
<1>6. /\ UNCHANGED <<node_id, server_addr, heartbeat>>
      /\ node_loop[n] = "working" /\ Goto(n, "request")
      /\ work'[n] = None /\ \A m \in Nodes \ {n} : work'[m] = work[m]
  BY DEF SendHasData, NextRound, hbVars, TypeInv, TypeOK, NCNodeTypeOK
<1>7. Lasting(home)
  BY <1>6, GotoLasts
<1>8. StayInv(home)' /\ SuspectInv(home)'
  BY <1>2, <1>5, <1>6, <1>7, NodesStay, LastingSuspect
<1>9. /\ conn[k] = None
      /\ conn'[k] # None => conn'[k].request = request /\ conn'[k].step = "backlog"
      /\ \A l \in Conns \ {k} : conn'[l] = conn[l]
  BY <1>1, SendsStream
<1>10. Holds(i, d) /\ Living(i)
  BY <1>6 DEF Holds, Living
<1> HIDE DEF i, d
<1>11. UNCHANGED chunk_list /\ None \notin ChunkIdx
  BY NCMessagesAssumption DEF serverVars, ChunkIdx
(* The node waits for nothing while it works: it holds its chunk no more.  *)
<1>12. ASSUME NEW id \in NodeIDs, NEW c \in ChunkIdx, Holds(id, c)'
       PROVE  Holds(id, c) /\ ~(id = i /\ c = d)
  <2>1. \A l \in Conns : Offers(conn'[l], id, c) => Offers(conn[l], id, c)
    BY <1>9 DEF Offers, Asks, Names
  <2>2. \A m \in Nodes : node_id'[m] = id /\ work'[m] = c => m # n /\ node_id[m] = id /\ work[m] = c
    BY <1>6, <1>11
  <2>3. Holds(id, c)
    BY <1>12, <2>1, <2>2 DEF Holds
  <2>4. ASSUME id = i
        PROVE  FALSE
    <3>1. \A m \in Nodes : node_id[m] = id => m = n
      BY <1>3, <2>4, NCMessagesAssumption DEF IdInv, OwnIds, i
    <3>2. PICK l \in Conns : Offers(conn[l], id, c)
      BY <1>12, <2>1, <2>2, <3>1 DEF Holds
    <3>3. Names(conn[l], id) /\ Asks(conn[l], id) /\ conn[l].open
      BY <3>2 DEF Offers, Asks, Names, IdInv, RepliesRead
    <3>4. PICK m \in Nodes : node_id[m] = id /\ node_loop[m] = "waiting"
      BY <3>3 DEF IdInv, RequestsOwned
    <3> QED BY <1>6, <3>1, <3>4
  <2> QED BY <2>3, <2>4
<1>13. ASSUME NEW id \in NodeIDs, NEW c \in ChunkIdx, NEW l \in Conns,
              Unread(conn'[l], home, ResultFrom(id, c)), Living(id)'
       PROVE  /\ is_processing(chunk_list[home][c], id)
              /\ ~Holds(id, c)'
              /\ \A m \in Conns : Unread(conn'[m], home, ResultFrom(id, c)) => m = l
  <2>1. Living(id)
    BY <1>7, <1>13 DEF Lasting, Living
  <2>2. CASE id = i /\ c = d
    <3>1. \A m \in Conns : ~Unread(conn[m], home, ResultFrom(id, c))
      BY <1>10, <2>2, <1>3 DEF WorkInv, HoldInv
    <3>2. \A m \in Conns : Unread(conn'[m], home, ResultFrom(id, c)) => m = k
      BY <1>9, <3>1
    <3>3. is_processing(chunk_list[home][c], id)
      BY <1>10, <2>2 DEF WorkInv, HoldInv
    <3> QED BY <1>12, <1>13, <2>2, <3>2, <3>3
  <2>3. CASE ~(id = i /\ c = d)
    <3>1. \A m \in Conns : Unread(conn'[m], home, ResultFrom(id, c)) =>
            m # k /\ Unread(conn[m], home, ResultFrom(id, c))
      <4>1. ~Unread(conn'[k], home, ResultFrom(id, c))
        BY <1>9, <2>3, ResultNames DEF Unread, request
      <4> QED BY <1>9, <4>1
    <3>2. /\ is_processing(chunk_list[home][c], id)
          /\ ~Holds(id, c)
          /\ \A m \in Conns : Unread(conn[m], home, ResultFrom(id, c)) => m = l
      BY <1>13, <2>1, <3>1 DEF WorkInv, HoldInv
    <3> QED BY <1>12, <3>1, <3>2
  <2> QED BY <2>2, <2>3
<1>14. ASSUME NEW id \in NodeIDs, NEW c \in ChunkIdx, Holds(id, c)'
       PROVE  is_processing(chunk_list[home][c], id)
  BY <1>12, <1>14 DEF WorkInv, HoldInv
<1>15. HoldInv(home)'
  BY <1>11, <1>13, <1>14 DEF HoldInv
<1> QED BY <1>8, <1>15 DEF WorkInv

LEMMA NodeWork ==
  ASSUME NEW home \in Servers, TypeInv, IdInv(home), WorkInv(home), KeepsResults, NodeStep
  PROVE  WorkInv(home)'
<1>1. PICK n \in Nodes : NodeMainLoop(n) \/ NodeHeartbeatThread(n)
  BY DEF NodeStep, NCNodeNext
<1>2. UNCHANGED <<listening, serverVars>>
  BY <1>1, NodesDoNotListen DEF NodeStep, NodeMainLoop, NodeHeartbeatThread
<1>3. ~GetNewServer(n)
  <2>1. SUFFICES ASSUME GetNewServer(n) PROVE FALSE
    OBVIOUS
  <2>2. sock[n] \in Conns /\ conn[sock[n]] # None
    BY <2>1 DEF GetNewServer, AwaitsReply, TypeInv, NodeOK
  <2>3. Redirects(conn[sock[n]])
    BY <2>1, <2>2 DEF GetNewServer, Replied, Redirects
  <2> QED BY <2>2, <2>3 DEF WorkInv, StayInv
<1> QED BY <1>1, <1>2, <1>3, AskingWork, NothingGotWork, HeartbeatRefusedWork, ChunkTakenWork,
         IdTakenWork, ResultSentWork DEF NodeMainLoop, NodeHeartbeatThread, main_thread

(* The rest of the world.                                                  *)
LEMMA ExpireWork ==
  ASSUME NEW home \in Servers, TypeInv, IdInv(home), WorkInv(home), KeepsResults,
         NEW s \in Servers, NEW old \in NodeIDs, ~Beating(s, old), Expire(s, old)
  PROVE  WorkInv(home)'
<1> USE DEF connVars, threadVars, jobVars, doneVars, nodeVars
<1>0. node_list \in [Servers -> Seq(NCNodeInfo)]
  BY DEF TypeInv, TypeOK, NCServerTypeOK
<1>1. PICK j \in DOMAIN node_list[s] :
        /\ node_list[s][j].node_id = old
        /\ node_list' = [node_list EXCEPT ![s][j].stale = TRUE]
  BY DEF Expire
<1>2. UNCHANGED <<listening, conn, departed, new_server, stopped, chunk_list, nodeVars>>
  BY DEF Expire
<1> DEFINE requests == {}
           replies == {}
<1>3. /\ StreamsBring(requests, replies)
      /\ \A type \in {"NewServer", "InitialData", "Unfinished"} : type \notin replies
      /\ requests \cap {"NewServer", "ShutDown"} = {} /\ "HasData" \notin requests
  BY <1>2, SameBrings
<1> HIDE DEF requests, replies
<1>4. StayInv(home)'
  BY <1>2, <1>3, StayKept DEF WorkInv
<1>5. HoldInv(home)'
  <2>1. /\ \A n \in Nodes, c \in ChunkIdx : work'[n] = c => Holds(node_id'[n], c)
        /\ \A id \in NodeIDs : Living(id)' => Living(id)
    BY <1>2 DEF Holds, Living
  <2> QED BY <1>2, <1>3, <2>1, HoldKept DEF WorkInv
<1>6. Ids(node_list'[home]) = Ids(node_list[home])
  <2> DEFINE list == node_list[s]
             new == [list EXCEPT ![j].stale = TRUE]
  <2>1. node_list'[home] = IF home = s THEN new ELSE node_list[home]
    BY <1>0, <1>1
  <2>2. Ids(new) = Ids(list)
    BY <1>0, <1>1, ExpireIds
  <2> HIDE DEF new
  <2> QED BY <2>1, <2>2
<1>7. \A id \in check_heartbeat(node_list'[home]) :
        id \in check_heartbeat(node_list[home]) \/ (s = home /\ id = old)
  <2> DEFINE list == node_list[s]
             new == [list EXCEPT ![j].stale = TRUE]
  <2>1. node_list'[home] = IF home = s THEN new ELSE node_list[home]
    BY <1>0, <1>1
  <2>2. /\ DOMAIN new = DOMAIN list
        /\ \A i \in DOMAIN list : i # j => new[i] = list[i]
        /\ new[j].node_id = old
    <3>1. list[j] \in NCNodeInfo
      BY <1>0, <1>1
    <3> QED BY <1>1, <3>1 DEF NCNodeInfo
  <2> HIDE DEF new
  <2>3. \A id \in check_heartbeat(new) : id \in check_heartbeat(list) \/ id = old
    BY <2>2 DEF check_heartbeat
  <2> QED BY <2>1, <2>3
(* A node that lives beats while the server listens, one that is going to  *)
(* learn its id will.                                                      *)
<1>8. listening[home] /\ s = home => ~Expected(old)
  <2>1. SUFFICES ASSUME listening[home], s = home, Expected(old) PROVE FALSE
    OBVIOUS
  <2>2. CASE Living(old)
    <3>1. PICK n \in Nodes : node_id[n] = old /\ node_loop[n] # "crashed"
      BY <2>2 DEF Living
    <3>2. heartbeat[n] = "running" /\ server_addr[n] = s
      BY <2>1, <3>1, NCMessagesAssumption DEF WorkInv, SuspectInv, StayInv
    <3> QED BY <3>1, <3>2 DEF Beating
  <2>3. ASSUME NEW l \in Conns, Grants(conn[l], old)
        PROVE  FALSE
    <3>1. At(l, s, "replied")
      BY <2>1, <2>3 DEF Grants, IdInv, GrantsOK, StartAtHome, At
    <3>2. conn[l].reply \in NCServerMessage
      BY <3>1 DEF At, TypeInv, StreamsOK, WellFormed
    <3>3. conn[l].reply = [type |-> "InitialData", node_id |-> old]
      BY <2>3, <3>2 DEF Grants, NCServerMessage
    <3> QED BY <3>1, <3>3 DEF Beating
  <2> QED BY <2>1, <2>2, <2>3 DEF Expected
<1>9. /\ \A id \in NodeIDs : Expected(id)' => Expected(id)
      /\ \A id \in NodeIDs : Suspected(home, id)' => Suspected(home, id) \/ (s = home /\ id = old)
  BY <1>2, <1>7 DEF Expected, Living, Suspected
<1>10. s = home => old \in DrawnIds(home)
  BY <1>1 DEF DrawnIds, Ids
<1>11. DrawnIds(home)' = DrawnIds(home)
  BY <1>2, <1>6 DEF DrawnIds
<1>12. ASSUME NEW id \in NodeIDs, Suspected(home, id)'
       PROVE  id \in DrawnIds(home)' /\ (listening'[home] => ~Expected(id)')
  BY <1>2, <1>8, <1>9, <1>10, <1>11, <1>12 DEF WorkInv, SuspectInv
<1>13. SuspectInv(home)'
  BY <1>2, <1>12 DEF WorkInv, SuspectInv
<1> QED BY <1>4, <1>5, <1>13 DEF WorkInv

LEMMA StreamsOnlyWork ==
  ASSUME NEW home \in Servers, IdInv(home), WorkInv(home), KeepsResults, NEW requests, NEW replies,
         StreamsBring(requests, replies),
         \A type \in {"NewServer", "InitialData", "Unfinished"} : type \notin replies,
         requests \cap {"NewServer", "ShutDown", "HasData"} = {},
         UNCHANGED <<listening, serverVars, nodeVars>>
  PROVE  WorkInv(home)'
<1>1. Lasting(home) /\ UNCHANGED <<server_addr, work>>
  BY DEF nodeVars, Lasting
<1>2. \A n \in Nodes, c \in ChunkIdx : work'[n] = c => Holds(node_id[n], c)
  BY <1>1 DEF Holds
<1> QED BY <1>1, <1>2, LastingWork

LEMMA BreaksWork ==
  ASSUME NEW home \in Servers, TypeInv, IdInv(home), WorkInv(home), KeepsResults, StreamBreaks
  PROVE  WorkInv(home)'
<1>0. conn \in [Conns -> Stream \cup {None}]
  BY DEF TypeInv, TypeOK, NCConnectionTypeOK
<1> DEFINE requests == {}
           replies == {}
<1>1. /\ \A type \in {"NewServer", "InitialData", "Unfinished"} : type \notin replies
      /\ requests \cap {"NewServer", "ShutDown", "HasData"} = {}
  OBVIOUS
<1> HIDE DEF requests, replies
<1>2. PICK k \in Conns : LoseRequest(k) \/ LoseReply(k)
  BY DEF StreamBreaks
<1>3. conn[k] \in Stream /\ \A l \in Conns : l # k => conn'[l] = conn[l]
  BY <1>0, <1>2 DEF LoseRequest, LoseReply, Drop
<1>4. Brings(conn[k], conn'[k], requests, replies)
  <2>1. CASE LoseRequest(k)
    <3>1. conn'[k] = Dropped(conn[k])
      BY <1>0, <2>1 DEF LoseRequest, Drop
    <3> QED BY <1>3, <3>1, DroppedBrings
  <2>2. CASE LoseReply(k)
    <3>1. conn'[k] = [conn[k] EXCEPT !.step = "dropped"]
      BY <1>0, <2>2 DEF LoseReply
    <3>2. /\ conn'[k].server = conn[k].server /\ conn'[k].request = conn[k].request
          /\ conn'[k].step = "dropped" /\ conn'[k] \in Stream
      BY <1>3, <3>1 DEF Stream, Step
    <3> QED BY <1>3, <3>2, NCConnectionAssumption DEF Brings
  <2> QED BY <1>2, <2>1, <2>2
<1>5. StreamsBring(requests, replies)
  BY <1>3, <1>4 DEF StreamsBring, Brings
<1>6. UNCHANGED <<listening, serverVars, nodeVars>>
  BY DEF StreamBreaks, LoseRequest, LoseReply
<1> QED BY <1>1, <1>5, <1>6, StreamsOnlyWork

LEMMA OperatorWork ==
  ASSUME NEW home \in Servers, Steady(home), TypeInv, IdInv(home), WorkInv(home), KeepsResults,
         OperatorSends
  PROVE  WorkInv(home)'
<1> DEFINE requests == {"CustomMessage"}
           replies == {}
           no == FALSE
<1>1. PICK k \in Conns, r \in AdminRequests : Send(k, r[1], r[2], no)
  BY DEF OperatorSends
<1>2. /\ r[2].type \in requests
      /\ \A type \in {"NewServer", "InitialData", "Unfinished"} : type \notin replies
      /\ requests \cap {"NewServer", "ShutDown", "HasData"} = {}
  BY DEF Steady
<1> HIDE DEF requests, no
<1>3. StreamsBring(requests, replies)
  BY <1>1, <1>2, SendBrings
<1> HIDE DEF replies
<1>4. UNCHANGED <<listening, serverVars, nodeVars>>
  BY DEF OperatorSends
<1> QED BY <1>2, <1>3, <1>4, StreamsOnlyWork

LEMMA SteadyHome ==
  ASSUME NEW home, Steady(home)
  PROVE  OneHome(home)
BY DEF Steady, OneHome, OperatorRequests

LEMMA NextWork ==
  ASSUME NEW home \in Servers, Steady(home), TypeInv, IdInv(home), JobInv, WorkInv(home), [Next]_vars
  PROVE  WorkInv(home)'
<1> USE DEF connVars, serverVars, nodeVars, threadVars, listVars, jobVars, doneVars
<1>0. KeepsResults
  BY NextKeeps
<1>1. CASE ServerStep
  BY <1>0, <1>1, ServerWork
<1>2. CASE NodeStep
  BY <1>0, <1>2, NodeWork
<1>3. CASE \E s \in Servers : HeartbeatExpires(s)
  BY <1>0, <1>3, ExpireWork DEF HeartbeatExpires
<1>4. CASE NodeCrashes
  <2>1. PICK n \in Nodes : Crash(n)
    BY <1>4 DEF NodeCrashes
  <2>2. UNCHANGED <<listening, serverVars>>
    BY <1>4, <2>1, NodesDoNotListen DEF NodeCrashes
  <2> QED BY <1>0, <2>1, <2>2, CrashWork
<1>5. CASE StreamBreaks
  BY <1>0, <1>5, BreaksWork
<1>6. CASE ProcessDataFails
  <2>1. PICK n \in Nodes : WorkFails(n)
    BY <1>6 DEF ProcessDataFails
  <2>2. UNCHANGED <<listening, serverVars>>
    BY <1>6, <2>1 DEF ProcessDataFails, WorkFails
  <2> QED BY <1>0, <2>1, <2>2, NothingGotWork DEF MainThreadRefused
<1>7. CASE OperatorSends
  BY <1>0, <1>7, OperatorWork
<1>8. ~HeartbeatLate /\ ~ConnectRefused /\ ~CheckRefused
  BY DEF Steady, HeartbeatLate, ConnectRefused, CheckRefused, Event
<1>9. CASE UNCHANGED vars
  <2> DEFINE requests == {}
             replies == {}
  <2>1. /\ StreamsBring(requests, replies)
        /\ \A type \in {"NewServer", "InitialData", "Unfinished"} : type \notin replies
        /\ requests \cap {"NewServer", "ShutDown", "HasData"} = {}
    BY <1>9, SameBrings DEF vars
  <2> HIDE DEF requests, replies
  <2>2. UNCHANGED <<listening, serverVars, nodeVars>>
    BY <1>9 DEF vars
  <2> QED BY <1>0, <2>1, <2>2, StreamsOnlyWork
<1> QED BY <1>1, <1>2, <1>3, <1>4, <1>5, <1>6, <1>7, <1>8, <1>9 DEF Next, Terminated

LEMMA InitWork ==
  ASSUME NEW home \in Servers, Steady(home), Init
  PROVE  WorkInv(home)
<1>1. /\ \A k \in Conns : conn[k] = None
      /\ \A s \in Servers : /\ listening[s] /\ ~stopped[s] /\ new_server[s] = None
                            /\ node_list[s] = <<>>
      /\ \A n \in Nodes : /\ server_addr[n] = home /\ node_id[n] = None /\ work[n] = None
  BY DEF Init, NCConnectionInit, NCServerInit, NCNodeInit, Steady
<1>2. StayInv(home)
  BY <1>1 DEF StayInv, Redirects
<1>3. SuspectInv(home)
  <2>1. check_heartbeat(node_list[home]) = {}
    BY <1>1 DEF check_heartbeat
  <2> QED BY <1>1, <2>1 DEF SuspectInv, Suspected, Doubts
<1>4. HoldInv(home)
  BY <1>1, NCMessagesAssumption DEF HoldInv, Holds, Offers, Asks, Names, Unread, ChunkIdx
<1> QED BY <1>2, <1>3, <1>4 DEF WorkInv

(* Who holds what, and who is suspected: what a living node holds is       *)
(* assigned to it, until its result has been read, and while the server    *)
(* listens no node that lives is on a list of timed out nodes (nc_server.rs*)
(* handle_node, mandel1/src/server.rs heartbeat_timeout).                  *)
THEOREM WorkIsAssigned ==
  ASSUME NEW home \in Servers, Steady(home)
  PROVE  Spec => []WorkInv(home)
<1> DEFINE IInv == TypeInv /\ IdInv(home) /\ JobInv /\ WorkInv(home)
<1>1. Init => IInv
  BY InitTypes, InitIds, InitJob, InitWork, SteadyHome
<1>2. IInv /\ [Next]_vars => IInv'
  BY NextTypes, NextKeepsIds, NextKeeps, NextWork, SteadyHome
<1> QED BY <1>1, <1>2, PTL DEF Spec

(* As long as heartbeats are in time, the server refuses no connection     *)
(* while it listens, and nobody is sent elsewhere or told to stop early,   *)
(* two nodes never compute the same chunk, whoever crashes, whatever is    *)
(* lost and whatever computation fails.                                    *)
THEOREM ExclusiveWorkHolds ==
  ASSUME NEW home \in Servers, Steady(home)
  PROVE  Spec => []ExclusiveWork
<1>1. TypeInv /\ IdInv(home) /\ WorkInv(home) => ExclusiveWork
  <2>1. SUFFICES ASSUME TypeInv, IdInv(home), WorkInv(home),
                        NEW m \in Nodes, NEW n \in Nodes,
                        m # n, work[m] # None, work[m] = work[n]
                 PROVE  FALSE
    BY DEF ExclusiveWork
  <2>2. PICK c \in ChunkIdx : work[m] = c /\ work[n] = c
    BY <2>1 DEF TypeInv, TypeOK, NCNodeTypeOK
  <2>3. node_id[m] \in NodeIDs /\ node_id[n] \in NodeIDs
    BY <2>1 DEF TypeInv, NodeOK, IdInv, Leftovers
  <2>4. Holds(node_id[m], c) /\ Holds(node_id[n], c)
    BY <2>2 DEF Holds
  <2>5. node_id[m] = node_id[n]
    BY <2>1, <2>3, <2>4 DEF WorkInv, HoldInv, is_processing
  <2> QED BY <2>1, <2>3, <2>5, NCMessagesAssumption DEF IdInv, OwnIds
<1> QED BY <1>1, JobCorrect, IdsAreUnique, WorkIsAssigned, SteadyHome, PTL
=============================================================================
