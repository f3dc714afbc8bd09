----------------------------- MODULE NCConnection ----------------------------
(***************************************************************************)
(* What server and nodes see of TCP and of the communicator: one stream    *)
(* per request.  Connecting succeeds as long as the server's listener      *)
(* exists, even before the main loop accepts the stream, and the request   *)
(* is written at once.  A stream lives in a slot of conn until both ends   *)
(* are through with it.                                                    *)
(*                                                                         *)
(* Conns bounds how many streams exist at one time.  A stream the client   *)
(* does not read from (nc_send_data) is not open: the client has closed it *)
(* and never learns what became of the request.                            *)
(***************************************************************************)
EXTENDS NCMessages

CONSTANT Conns          \* the stream slots

VARIABLES
  listening,            \* server -> its TcpListener exists
  conn                  \* slot -> None or a stream

connVars == <<listening, conn>>

(* How far a stream has come: in the listener's backlog, given to a pool   *)
(* thread, between two locks of its handler (messages, prepare, timeout,   *)
(* shut_down), answered, or closed by the server without an answer.        *)
Step == {"backlog", "accepted", "messages", "prepare", "timeout", "shut_down",
         "replied", "dropped"}

(* nodes is the handler's local list of timed out nodes.                   *)
Stream == [server : Servers, open : BOOLEAN, request : NCNodeMessage, step : Step,
           reply : NCServerMessage \cup {None}, nodes : SUBSET NodeIDs]

(* A slot that holds None holds no stream, and None is no slot.            *)
ASSUME NCConnectionAssumption == None \notin Conns \cup Stream

NCConnectionTypeOK ==
  /\ listening \in [Servers -> BOOLEAN]
  /\ conn \in [Conns -> Stream \cup {None}]

NCConnectionInit ==
  /\ listening = [s \in Servers |-> TRUE]
  /\ conn = [k \in Conns |-> None]

NewStream(s, message, open) ==
  [server |-> s, open |-> open, request |-> message, step |-> "backlog",
   reply |-> None, nodes |-> {}]

(* TcpStream::connect followed by nc_send_data2, on a free slot.           *)
Send(k, s, message, open) ==
  /\ listening[s]
  /\ conn[k] = None
  /\ conn' = [conn EXCEPT ![k] = NewStream(s, message, open)]

(* What is left of a stream when the server writes its answer: if the      *)
(* client is gone nobody will read it.                                     *)
Answered(stream, message) ==
  IF stream.open THEN [stream EXCEPT !.step = "replied", !.reply = message] ELSE None

(* ... and when the server drops the stream: read_exact fails.             *)
Dropped(stream) ==
  IF stream.open THEN [stream EXCEPT !.step = "dropped"] ELSE None

(* ... and when the client goes away: the handler does not notice.         *)
Abandoned(stream) ==
  IF stream.step \in {"replied", "dropped"} THEN None
  ELSE [stream EXCEPT !.open = FALSE]

Answer(k, message) == conn' = [conn EXCEPT ![k] = Answered(@, message)]

Drop(k) == conn' = [conn EXCEPT ![k] = Dropped(@)]

Continue(k, step) == conn' = [conn EXCEPT ![k].step = step]

(* Slot k holds a stream of server s that has come to the given step.      *)
At(k, s, step) ==
  /\ conn[k] # None
  /\ conn[k].server = s
  /\ conn[k].step = step

(* A request of this type has reached a pool thread of server s.           *)
Received(k, s, type) == At(k, s, "accepted") /\ conn[k].request.type = type

(* Network faults: a stream breaks before its request is read, or before   *)
(* the client has read the reply.                                          *)
LoseRequest(k) ==
  /\ conn[k] # None
  /\ conn[k].step \in {"backlog", "accepted"}
  /\ Drop(k)
  /\ UNCHANGED listening

LoseReply(k) ==
  /\ conn[k] # None
  /\ conn[k].step = "replied"
  /\ conn' = [conn EXCEPT ![k].step = "dropped"]
  /\ UNCHANGED listening
=============================================================================
