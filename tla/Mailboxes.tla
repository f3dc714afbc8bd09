------------------------------ MODULE Mailboxes ------------------------------
(***************************************************************************)
(* Custom messages from the operator's request to the node that processes  *)
(* them: the queues in the node list of one server (nc_node_info.rs), the  *)
(* handlers that fill and empty them (nc_server.rs), the streams on which  *)
(* messages leave, and the nodes that ask, ask again when a stream breaks, *)
(* leave for another server and come from one (nc_node.rs).                *)
(*                                                                         *)
(* Only what concerns messages is here; every other answer to NeedsData    *)
(* leaves no trace.  A message is the number of its post: the n-th that    *)
(* reaches the server is n.                                                *)
(***************************************************************************)
EXTENDS NCNodeList, FiniteSets

CONSTANTS
  Streams,      \* slots for the streams of NeedsData requests
  MaxAbandoned  \* bound: so many of them whose node has gone, at one time

(* A stream: whose request it carries, whether the node still reads from   *)
(* it, how far its handler is, and the answer (a message or a server).     *)
Stream == [node_id : NodeIDs, open : BOOLEAN,
           step : {"request", "messages", "message", "new_server"},
           message : Messages \cup {None}]

ASSUME MailboxesAssumption ==
  /\ Messages \subseteq Nat
  /\ MaxAbandoned \in Nat
  /\ None \notin Stream \cup Seq(Messages)

VARIABLES
  node_list,    \* NCServerProcess.node_list
  new_server,   \* NCServerProcess.new_server, whether there is one
  poisoned,     \* a handler has panicked with the mutex of node_list
  stream,       \* slot -> None or a stream
  place,        \* node id -> where its node is
  migrating,    \* ids whose NodeMigrated request is under way
  posted,       \* history: how many messages have reached the server
  addressed,    \* history: id -> the messages for it since it is on the list
  lost,         \* history: id -> those of them that were lost with a stream
  received      \* history: id -> what process_custom_message() was called with

serverVars == <<node_list, new_server, poisoned>>
historyVars == <<posted, addressed, lost, received>>
vars == <<serverVars, stream, place, migrating, historyVars>>

TypeOK ==
  /\ node_list \in Seq(NCNodeInfo)
  /\ \A i \in DOMAIN node_list : Len(node_list[i].message_queue) <= QueueLimit
  /\ new_server \in BOOLEAN
  /\ poisoned \in BOOLEAN
  /\ stream \in [Streams -> Stream \cup {None}]
  /\ place \in [NodeIDs -> {"none", "here", "elsewhere"}]
  /\ migrating \subseteq NodeIDs
  /\ posted \in Nat
  /\ addressed \in [NodeIDs -> SUBSET Messages]
  /\ lost \in [NodeIDs -> SUBSET Messages]
  /\ received \in [NodeIDs -> Seq(Messages)]

Init ==
  /\ node_list = <<>>
  /\ new_server = FALSE
  /\ poisoned = FALSE
  /\ stream = [k \in Streams |-> None]
  /\ place = [id \in NodeIDs |-> "none"]
  /\ migrating = {}
  /\ posted = 0
  /\ addressed = [id \in NodeIDs |-> {}]
  /\ lost = [id \in NodeIDs |-> {}]
  /\ received = [id \in NodeIDs |-> <<>>]

Queue(id) == node_list[CHOOSE i \in DOMAIN node_list : IsFirst(node_list, i, id)].message_queue

At(k, step) == stream[k] # None /\ stream[k].step = step

OpenStreams(id) == {k \in Streams : stream[k] # None /\ stream[k].open /\ stream[k].node_id = id}

-----------------------------------------------------------------------------
(* The nodes.                                                              *)

(* NeedsData, from a main loop that waits for nothing else.                *)
SendNeedsData(k, id) ==
  /\ place[id] = "here"
  /\ OpenStreams(id) = {}
  /\ stream[k] = None
  /\ stream' = [stream EXCEPT ![k] = [node_id |-> id, open |-> TRUE, step |-> "request",
                                      message |-> None]]
  /\ UNCHANGED <<serverVars, place, migrating, historyVars>>

GetCustomMessage(k) ==
  /\ At(k, "message")
  /\ received' = [received EXCEPT ![stream[k].node_id] = Append(@, stream[k].message)]
  /\ stream' = [stream EXCEPT ![k] = None]
  /\ UNCHANGED <<serverVars, place, migrating, posted, addressed, lost>>

GetNewServer(k) ==
  /\ At(k, "new_server")
  /\ place' = [place EXCEPT ![stream[k].node_id] = "elsewhere"]
  /\ stream' = [stream EXCEPT ![k] = None]
  /\ UNCHANGED <<serverVars, migrating, historyVars>>

Abandoned == {k \in Streams : stream[k] # None /\ ~stream[k].open}

(* The stream breaks and the node will ask again; a handler that is at it  *)
(* goes on, an answer is gone.                                             *)
StreamBreaks(k) ==
  /\ stream[k] # None
  /\ stream[k].open
  /\ Cardinality(Abandoned) < MaxAbandoned
  /\ stream' = [stream EXCEPT ![k] =
       IF @.step \in {"message", "new_server"} THEN None ELSE [@ EXCEPT !.open = FALSE]]
  /\ lost' = IF stream[k].step = "message"
             THEN [lost EXCEPT ![stream[k].node_id] = @ \cup {stream[k].message}] ELSE lost
  /\ UNCHANGED <<serverVars, place, migrating, posted, addressed, received>>

(* Another server has sent the node here; it asks for work on one stream   *)
(* and has told this server about itself on another.                       *)
Migrate(id) ==
  /\ place[id] # "here"
  /\ place' = [place EXCEPT ![id] = "here"]
  /\ migrating' = migrating \cup {id}
  /\ UNCHANGED <<serverVars, stream, historyVars>>

-----------------------------------------------------------------------------
(* The handlers; none gets past a poisoned mutex.                          *)

Handles(k, step) == At(k, step) /\ ~poisoned

HandlerFails(k) ==
  /\ poisoned
  /\ At(k, "request") \/ At(k, "messages")
  /\ stream' = [stream EXCEPT ![k] = None]
  /\ UNCHANGED <<serverVars, place, migrating, historyVars>>

(* Whoever registers gets an id nobody had, as in NCServer.                *)
HandleRegister(id) ==
  /\ ~poisoned
  /\ place[id] = "none"
  /\ node_list' = register_new_node(node_list, id)
  /\ place' = [place EXCEPT ![id] = "here"]
  /\ addressed' = [addressed EXCEPT ![id] = {}]
  /\ UNCHANGED <<new_server, poisoned, stream, migrating, posted, lost, received>>

HandleNodeMigrated(id) ==
  /\ ~poisoned
  /\ id \in migrating
  /\ node_list' = migrate_node(node_list, id)
  /\ migrating' = migrating \ {id}
  /\ addressed' = [addressed EXCEPT ![id] = {}]
  /\ UNCHANGED <<new_server, poisoned, stream, place, posted, lost, received>>

HandleNewServer ==
  /\ ~poisoned
  /\ new_server' = TRUE
  /\ UNCHANGED <<node_list, poisoned, stream, place, migrating, historyVars>>

HandleNeedsData(k) ==
  /\ Handles(k, "request")
  /\ ~new_server
  /\ stream' = [stream EXCEPT ![k].step = "messages"]
  /\ UNCHANGED <<serverVars, place, migrating, historyVars>>

(* What the server writes when nobody reads it any more is gone.           *)
Answered(k, step, message) ==
  stream' = [stream EXCEPT ![k] =
    IF @.open THEN [@ EXCEPT !.step = step, !.message = message] ELSE None]

HandleLeavingNode(k) ==
  /\ Handles(k, "request")
  /\ new_server
  /\ \E i \in DOMAIN node_list :
       /\ IsFirst(node_list, i, stream[k].node_id)
       /\ node_list' = swap_remove(node_list, i)
  /\ Answered(k, "new_server", None)
  /\ UNCHANGED <<new_server, poisoned, place, migrating, historyVars>>

HandleUnknownNode(k) ==
  /\ Handles(k, "request")
  /\ new_server
  /\ stream[k].node_id \notin Ids(node_list)
  /\ poisoned' = TRUE
  /\ stream' = [stream EXCEPT ![k] = None]
  /\ UNCHANGED <<node_list, new_server, place, migrating, historyVars>>

(* Mutant: a message that could not be sent is queued again.               *)
SendCustomMessageAgain(k) ==
  /\ Handles(k, "messages")
  /\ \E i \in DOMAIN node_list :
       /\ IsFirst(node_list, i, stream[k].node_id)
       /\ node_list[i].message_queue # <<>>
       /\ LET message == Head(node_list[i].message_queue)
          IN  /\ node_list' = IF stream[k].open THEN pop_message(node_list, i)
                              ELSE add_message(pop_message(node_list, i), message,
                                               stream[k].node_id)
              /\ Answered(k, "message", message)
  /\ UNCHANGED <<new_server, poisoned, place, migrating, historyVars>>

SendCustomMessage(k) ==
  /\ Handles(k, "messages")
  /\ \E i \in DOMAIN node_list :
       /\ IsFirst(node_list, i, stream[k].node_id)
       /\ node_list[i].message_queue # <<>>
       /\ node_list' = pop_message(node_list, i)
       /\ Answered(k, "message", Head(node_list[i].message_queue))
       /\ lost' = IF stream[k].open THEN lost
                  ELSE [lost EXCEPT ![stream[k].node_id] =
                          @ \cup {Head(node_list[i].message_queue)}]
  /\ UNCHANGED <<new_server, poisoned, place, migrating, posted, addressed, received>>

(* No message: what the node gets instead is not looked at here.           *)
NoCustomMessage(k) ==
  /\ Handles(k, "messages")
  /\ \A i \in DOMAIN node_list :
       IsFirst(node_list, i, stream[k].node_id) => node_list[i].message_queue = <<>>
  /\ stream' = [stream EXCEPT ![k] = None]
  /\ UNCHANGED <<serverVars, place, migrating, historyVars>>

(* Bound: Messages.                                                        *)
HandleCustomMessage(destination) ==
  /\ ~poisoned
  /\ posted + 1 \in Messages
  /\ posted' = posted + 1
  /\ node_list' = IF destination = None
                  THEN add_message_all(node_list, posted')
                  ELSE add_message(node_list, posted', destination)
  /\ addressed' = [id \in NodeIDs |->
       IF id \in Ids(node_list) /\ destination \in {id, None}
       THEN addressed[id] \cup {posted'} ELSE addressed[id]]
  /\ UNCHANGED <<new_server, poisoned, stream, place, migrating, lost, received>>

-----------------------------------------------------------------------------
Next ==
  \/ \E k \in Streams :
       \/ \E id \in NodeIDs : SendNeedsData(k, id)
       \/ GetCustomMessage(k) \/ GetNewServer(k) \/ StreamBreaks(k)
       \/ HandlerFails(k) \/ HandleNeedsData(k) \/ HandleLeavingNode(k) \/ HandleUnknownNode(k)
       \/ SendCustomMessage(k) \/ NoCustomMessage(k)
  \/ \E id \in NodeIDs : Migrate(id) \/ HandleRegister(id) \/ HandleNodeMigrated(id)
  \/ HandleNewServer
  \/ \E destination \in NodeIDs \cup {None} : HandleCustomMessage(destination)

Spec == Init /\ [][Next]_vars

-----------------------------------------------------------------------------
(* Messages on the way to a node: at most one, on the stream it reads.     *)
OnTheWay(id) == {stream[k].message : k \in {j \in OpenStreams(id) : stream[j].step = "message"}}

Increasing(s) == \A i, j \in DOMAIN s : i < j => s[i] < s[j]

(* A node processes messages in the order they were posted, none twice,    *)
(* and what it still can get is newer than all it has had; whatever        *)
(* streams break, and although old requests empty its queue too            *)
(* (get_message, add_message).                                             *)
MessagesInOrder ==
  \A id \in NodeIDs :
    /\ Increasing(received[id])
    /\ id \in Ids(node_list) => Increasing(Queue(id))
    /\ \A i \in DOMAIN received[id] :
         /\ \A message \in OnTheWay(id) : received[id][i] < message
         /\ id \in Ids(node_list) =>
              \A j \in DOMAIN Queue(id) : received[id][i] < Queue(id)[j]
    /\ id \in Ids(node_list) =>
         \A message \in OnTheWay(id), j \in DOMAIN Queue(id) : message < Queue(id)[j]

Got(id) == {received[id][i] : i \in DOMAIN received[id]}
Waiting(id) == {Queue(id)[i] : i \in DOMAIN Queue(id)}

(* No message for a node on the list is missing without a reason: the node *)
(* has it or will get it, it was lost with a stream, or as many newer ones *)
(* came for this node as its queue holds (nc_node_info.rs:71).             *)
NothingForgotten ==
  \A id \in Ids(node_list) : \A message \in addressed[id] :
    \/ message \in Got(id) \cup OnTheWay(id) \cup Waiting(id) \cup lost[id]
    \/ Cardinality({newer \in addressed[id] : newer > message}) >= QueueLimit

(* The list, its queues and the streams are an abstract mailbox per id.    *)
box == [id \in NodeIDs |-> IF id \in Ids(node_list) THEN Queue(id) ELSE None]

asking == [k \in Streams |->
             IF At(k, "request") \/ At(k, "messages") THEN stream[k].node_id ELSE None]

carried == [id \in NodeIDs |->
              IF OnTheWay(id) = {} THEN None ELSE CHOOSE message \in OnTheWay(id) : TRUE]

Box == INSTANCE MailboxSpec WITH
  Owners <- NodeIDs, Letters <- Messages, Limit <- QueueLimit, Slots <- Streams,
  Nothing <- None, delivered <- received

MailboxImplemented == Box!Spec
=============================================================================
