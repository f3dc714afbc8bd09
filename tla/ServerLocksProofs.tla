-------------------------- MODULE ServerLocksProofs --------------------------
(***************************************************************************)
(* The server's mutexes for any number of peers and threads: nobody waits  *)
(* in a circle (NobodyWaitsInACircle), and the statistics are in order     *)
(* although they are read in two parts (StatisticsAreInOrder).             *)
(***************************************************************************)
EXTENDS ServerLocks, NodeListLemmas

(* A guard that is kept over a step is kept at these steps only.           *)
KeptAt(lock) ==
  CASE lock = "nc_communicator" -> {"reading"}
    [] lock = "node_list" -> {"send"}
    [] lock = "new_server" -> {"leave", "send"}

HoldersAtWork ==
  \A l \in Locks : \A p \in Peers :
    holder[l] = p => conn[p] # None /\ conn[p].step \in KeptAt(l)

(* A handler is at a step of its own request.                              *)
RightSteps ==
  \A p \in Peers : conn[p] # None =>
    /\ conn[p].step \in {"register", "leave", "list", "set_new_server"} =>
         conn[p].request.type # "GetStatistics"
    /\ conn[p].step \in {"new_server", "leave", "messages", "prepare"} =>
         conn[p].request.type = "NeedsData"
    /\ conn[p].step = "list" => conn[p].request.type \in
         {"HeartBeat", "CheckHeartbeat", "NodeMigrated", "CustomMessage"}
    /\ conn[p].step = "set_new_server" => conn[p].request.type = "NewServer"

(* Only nodes that are sent away are taken off the list, so between the    *)
(* two reads it can only grow.                                             *)
ListGrows ==
  /\ \A p \in Peers : AtStep(p, "leave") => new_server # None
  /\ \A p \in Peers : AtStep(p, "stamps") /\ new_server = None
       => conn[p].num_of_nodes <= Len(node_list)

(* The pool's queue holds each accepted connection once.                   *)
QueueOK ==
  /\ \A i \in DOMAIN jobs : AtStep(jobs[i], "queued")
  /\ \A i, j \in DOMAIN jobs : jobs[i] = jobs[j] => i = j

Inv == TypeOK /\ QueueOK /\ HoldersAtWork /\ RightSteps /\ ListGrows /\ StatisticsInOrder

-----------------------------------------------------------------------------
(* Guards alone rule out circles.                                          *)
LEMMA NoCircle ==
  ASSUME TypeOK, HoldersAtWork
  PROVE  NoCircularWait
<1> SUFFICES ASSUME NEW circle \in (SUBSET Peers) \ {{}}
             PROVE  \E p \in circle : \A q \in circle : ~Waits(p, q)
  BY DEF NoCircularWait
<1> SUFFICES ASSUME \A p \in circle : \E q \in circle : Waits(p, q)
             PROVE  FALSE
  OBVIOUS
<1>0. /\ KeptAt("nc_communicator") = {"reading"}
      /\ KeptAt("node_list") = {"send"}
      /\ KeptAt("new_server") = {"leave", "send"}
      /\ Wanted("reading") = None
      /\ Wanted("send") = "nc_communicator"
      /\ Wanted("leave") = "node_list"
      /\ None \notin Locks
  BY ServerLocksAssumption DEF KeptAt, Wanted
<1>1. ASSUME NEW p \in circle
      PROVE  \E q \in circle :
               /\ conn[p] # None /\ conn[q] # None
               /\ Wanted(conn[p].step) \in Locks /\ Wanted(conn[q].step) \in Locks
               /\ conn[q].step \in KeptAt(Wanted(conn[p].step))
  <2>1. \A r \in circle : conn[r] # None /\ Wanted(conn[r].step) \in Locks
    BY DEF Waits, Wanted, Locks
  <2>2. PICK q \in circle : Waits(p, q) OBVIOUS
  <2> QED BY <2>1, <2>2 DEF HoldersAtWork, Waits
<1>2. \A p \in circle : conn[p].step # "reading"
  BY <1>0, <1>1
<1>3. \A p \in circle : Wanted(conn[p].step) # "nc_communicator"
  BY <1>0, <1>1, <1>2
<1>4. \A p \in circle : conn[p].step # "send"
  BY <1>0, <1>3
<1>5. \A p \in circle : Wanted(conn[p].step) = "new_server"
  <2> SUFFICES ASSUME NEW p \in circle, Wanted(conn[p].step) # "new_server" PROVE FALSE
    OBVIOUS
  <2>1. Wanted(conn[p].step) = "node_list" BY <1>1, <1>3 DEF Locks
  <2> QED BY <1>0, <1>1, <1>4, <2>1
<1>6. \A p \in circle : conn[p].step # "leave"
  BY <1>0, <1>5
<1>7. circle # {} OBVIOUS
<1>8. PICK p \in circle : TRUE BY <1>7
<1> QED BY <1>0, <1>1, <1>4, <1>5, <1>6, <1>8

-----------------------------------------------------------------------------
LEMMA InvInit == Init => Inv
<1> SUFFICES ASSUME Init PROVE Inv OBVIOUS
<1>1. TypeOK
  <2>1. jobs \in Seq(Peers) /\ node_list \in Seq(NCNodeInfo) BY DEF Init
  <2>2. /\ holder \in [Locks -> Peers \cup {None}]
        /\ conn \in [Peers -> Conn \cup {None}]
    BY DEF Init
  <2>3. /\ main_loop \in {"accept", "check", "finish", "join", "exited"}
        /\ job_done \in BOOLEAN
        /\ new_server \in Servers \cup {None}
        /\ poisoned \subseteq Locks
        /\ issued \subseteq NodeIDs
    BY DEF Init
  <2> QED BY <2>1, <2>2, <2>3 DEF TypeOK
<1>2. HoldersAtWork /\ RightSteps /\ ListGrows /\ StatisticsInOrder /\ QueueOK
  BY ServerLocksAssumption DEF Init, HoldersAtWork, RightSteps, ListGrows, StatisticsInOrder,
     AtStep, Locks, QueueOK
<1> QED BY <1>1, <1>2 DEF Inv

(* No record is None, so a connection stays one when it moves on.          *)
LEMMA StepTypes ==
  ASSUME TypeOK, NEW p \in Peers, conn[p] # None, NEW step \in Step
  PROVE  /\ conn[p] \in Conn
         /\ [conn[p] EXCEPT !.step = step] \in Conn
         /\ [conn[p] EXCEPT !.step = step] # None
         /\ \A wire \in {"quiet", "sent", "gone", "hung"} :
              /\ [conn[p] EXCEPT !.wire = wire] \in Conn
              /\ [conn[p] EXCEPT !.wire = wire] # None
BY ServerLocksAssumption DEF TypeOK, Conn

(* A handler ends: its guards are dropped, the others keep theirs.         *)
LEMMA ReturnKeeps ==
  ASSUME Inv, NEW p \in Peers, Return(p)
  PROVE  /\ conn' \in [Peers -> Conn \cup {None}]
         /\ holder' \in [Locks -> Peers \cup {None}]
         /\ HoldersAtWork' /\ RightSteps'
         /\ \A q \in Peers : conn'[q] = None \/ conn'[q] = conn[q]
<1> USE DEF Inv
<1>1. /\ conn' \in [Peers -> Conn \cup {None}]
      /\ holder' \in [Locks -> Peers \cup {None}]
      /\ \A q \in Peers : conn'[q] = IF q = p THEN None ELSE conn[q]
      /\ \A l \in Locks : holder'[l] = IF holder[l] = p THEN None ELSE holder[l]
  BY DEF Return, TypeOK
<1>2. HoldersAtWork'
  BY <1>1, ServerLocksAssumption DEF HoldersAtWork
<1>3. RightSteps' BY <1>1 DEF RightSteps
<1> QED BY <1>1, <1>2, <1>3

(* A handler goes on to a step of its request; a guard it takes is one it  *)
(* keeps there, a guard it drops is gone.                                  *)
LEMMA GotoKeeps ==
  ASSUME Inv, NEW p \in Peers, conn[p] # None, NEW step \in Step,
         conn' = [conn EXCEPT ![p].step = step],
         holder' \in [Locks -> Peers \cup {None}],
         \A l \in Locks : \/ holder'[l] = None
                          \/ holder'[l] = p /\ step \in KeptAt(l)
                          \/ holder'[l] = holder[l] /\ holder[l] # p,
         step \in {"register", "list", "set_new_server", "new_server", "leave",
                   "messages", "prepare"} =>
           \/ step = FirstStep(conn[p].request.type)
           \/ conn[p].request.type = "NeedsData" /\ step \in {"leave", "messages", "prepare"}
  PROVE  /\ conn' \in [Peers -> Conn \cup {None}]
         /\ HoldersAtWork' /\ RightSteps'
         /\ \A q \in Peers \ {p} : conn'[q] = conn[q]
         /\ conn'[p] # None /\ conn'[p] = [conn[p] EXCEPT !.step = step]
<1> USE DEF Inv
<1>1. /\ conn[p] \in Conn /\ [conn[p] EXCEPT !.step = step] \in Conn
      /\ [conn[p] EXCEPT !.step = step] # None
  BY StepTypes
<1>2. conn'[p] = [conn[p] EXCEPT !.step = step] /\ \A q \in Peers \ {p} : conn'[q] = conn[q]
  BY DEF TypeOK
<1>3. conn' \in [Peers -> Conn \cup {None}] BY <1>1, <1>2 DEF TypeOK
<1>4. conn'[p].step = step /\ conn'[p].request = conn[p].request BY <1>1, <1>2 DEF Conn
<1>5. HoldersAtWork'
  <2> SUFFICES ASSUME NEW l \in Locks, NEW q \in Peers, holder'[l] = q
               PROVE  conn'[q] # None /\ conn'[q].step \in KeptAt(l)
    BY DEF HoldersAtWork, KeptAt
  <2>1. CASE q = p BY <2>1, <1>1, <1>2, <1>4, ServerLocksAssumption
  <2>2. CASE q # p BY <2>2, <1>2, ServerLocksAssumption DEF HoldersAtWork
  <2> QED BY <2>1, <2>2
<1>6. RightSteps'
  <2> SUFFICES ASSUME NEW q \in Peers, conn'[q] # None
               PROVE  /\ conn'[q].step \in {"register", "leave", "list", "set_new_server"} =>
                           conn'[q].request.type # "GetStatistics"
                      /\ conn'[q].step \in {"new_server", "leave", "messages", "prepare"} =>
                           conn'[q].request.type = "NeedsData"
                      /\ conn'[q].step = "list" => conn'[q].request.type \in
                           {"HeartBeat", "CheckHeartbeat", "NodeMigrated", "CustomMessage"}
                      /\ conn'[q].step = "set_new_server" =>
                           conn'[q].request.type = "NewServer"
    BY DEF RightSteps
  <2>1. CASE q # p BY <2>1, <1>2 DEF RightSteps
  <2>2. CASE q = p
    <3>1. conn[p].request.type \in
            {"Register", "NeedsData", "HeartBeat", "CheckHeartbeat", "NodeMigrated",
             "CustomMessage", "HasData", "GetStatistics", "ShutDown", "NewServer"}
      BY <1>1 DEF Conn, AnyRequest, NCNodeMessage
    <3> QED BY <2>2, <1>4, <3>1 DEF FirstStep
  <2> QED BY <2>1, <2>2
<1> QED BY <1>1, <1>2, <1>3, <1>5, <1>6
-----------------------------------------------------------------------------
(* What must be seen to when the list changes or a server is set.          *)
ListStep ==
  /\ UNCHANGED poolVars
  /\ node_list' \in Seq(NCNodeInfo)
  /\ new_server' \in Servers \cup {None}
  /\ poisoned' \subseteq Locks
  /\ issued' \subseteq NodeIDs
  /\ new_server' = new_server \/ new_server' # None
  /\ new_server' = None => Len(node_list') >= Len(node_list)

LEMMA ListStays ==
  ASSUME Inv, UNCHANGED <<poolVars, listVars>>
  PROVE  ListStep
BY DEF Inv, TypeOK, ListStep, listVars

LEMMA QueueKept ==
  ASSUME Inv, jobs' = jobs,
         \A q \in Peers : AtStep(q, "queued") => conn'[q] = conn[q]
  PROVE  QueueOK'
<1>1. \A i \in DOMAIN jobs : jobs[i] \in Peers BY DEF Inv, TypeOK
<1> QED BY <1>1 DEF Inv, QueueOK, AtStep

LEMMA OrderKept ==
  ASSUME Inv, ListStep,
         \A q \in Peers :
           \/ conn'[q] = None
           \/ conn'[q] = conn[q]
           \/ /\ conn'[q].step \notin {"leave", "stamps"}
              /\ conn'[q].step = "send" => conn'[q].request.type # "GetStatistics"
           \/ conn'[q].step = "leave" /\ new_server # None
  PROVE  ListGrows' /\ StatisticsInOrder'
<1> USE DEF Inv, ListStep
<1>1. \A q \in Peers : AtStep(q, "leave")' => new_server' # None
  BY DEF ListGrows, AtStep
<1>2. ASSUME NEW q \in Peers, AtStep(q, "stamps")', new_server' = None
      PROVE  conn'[q].num_of_nodes <= Len(node_list')
  <2>1. conn'[q] = conn[q] /\ new_server = None BY <1>2 DEF AtStep
  <2>2. conn[q].num_of_nodes <= Len(node_list) /\ conn[q].num_of_nodes \in Nat
    BY <1>2, <2>1 DEF ListGrows, AtStep, TypeOK, Conn
  <2>3. Len(node_list) \in Nat /\ Len(node_list') \in Nat BY DEF TypeOK
  <2> QED BY <1>2, <2>1, <2>2, <2>3
<1>3. StatisticsInOrder'
  <2> SUFFICES ASSUME NEW q \in Peers, AtStep(q, "send")',
                      conn'[q].request.type = "GetStatistics", new_server' = None
               PROVE  conn'[q].num_of_nodes <= Len(conn'[q].hb_time_stamps)
    BY DEF StatisticsInOrder
  <2>1. conn'[q] = conn[q] /\ new_server = None BY DEF AtStep
  <2> QED BY <2>1 DEF StatisticsInOrder, AtStep
<1> QED BY <1>1, <1>2, <1>3 DEF ListGrows

(* A handler that ends, and one that goes on, keep the invariant.          *)
LEMMA ReturnStep ==
  ASSUME Inv, NEW p \in Peers, Return(p), ListStep, ~ AtStep(p, "queued")
  PROVE  Inv'
<1>1. /\ conn' \in [Peers -> Conn \cup {None}]
      /\ holder' \in [Locks -> Peers \cup {None}]
      /\ HoldersAtWork' /\ RightSteps'
      /\ \A q \in Peers : conn'[q] = None \/ conn'[q] = conn[q]
  BY ReturnKeeps
<1>2. TypeOK' BY <1>1 DEF TypeOK, Inv, ListStep, poolVars
<1>3. ListGrows' /\ StatisticsInOrder' BY <1>1, OrderKept
<1>4. \A q \in Peers : AtStep(q, "queued") => conn'[q] = conn[q]
  BY DEF Return, Inv, TypeOK
<1>5. QueueOK' BY <1>4, QueueKept DEF ListStep, poolVars
<1> QED BY <1>1, <1>2, <1>3, <1>5 DEF Inv

LEMMA GotoStep ==
  ASSUME Inv, NEW p \in Peers, conn[p] # None, conn[p].step # "queued", NEW step \in Step,
         conn' = [conn EXCEPT ![p].step = step],
         holder' \in [Locks -> Peers \cup {None}],
         \A l \in Locks : \/ holder'[l] = None
                          \/ holder'[l] = p /\ step \in KeptAt(l)
                          \/ holder'[l] = holder[l] /\ holder[l] # p,
         step \in {"register", "list", "set_new_server", "new_server", "leave",
                   "messages", "prepare"} =>
           \/ step = FirstStep(conn[p].request.type)
           \/ conn[p].request.type = "NeedsData" /\ step \in {"leave", "messages", "prepare"},
         step # "stamps",
         step = "leave" => new_server # None,
         step = "send" => conn[p].request.type # "GetStatistics",
         ListStep
  PROVE  Inv'
<1>1. /\ conn' \in [Peers -> Conn \cup {None}]
      /\ HoldersAtWork' /\ RightSteps'
      /\ \A q \in Peers \ {p} : conn'[q] = conn[q]
      /\ conn'[p] # None /\ conn'[p] = [conn[p] EXCEPT !.step = step]
  BY GotoKeeps
<1>2. TypeOK' BY <1>1 DEF TypeOK, Inv, ListStep, poolVars
<1>3. conn'[p].step = step /\ conn'[p].request = conn[p].request
  BY <1>1, StepTypes DEF Inv, Conn
<1>4. ListGrows' /\ StatisticsInOrder' BY <1>1, <1>3, OrderKept
<1>5. QueueOK' BY <1>1, QueueKept DEF ListStep, poolVars, AtStep
<1> QED BY <1>1, <1>2, <1>4, <1>5 DEF Inv
-----------------------------------------------------------------------------
(* One lemma per action, or per group that leaves the list alone.          *)

LEMMA WantedLocks ==
  /\ Wanted("receive") = "nc_communicator" /\ Wanted("send") = "nc_communicator"
  /\ Wanted("new_server") = "new_server" /\ Wanted("set_new_server") = "new_server"
  /\ \A step \in {"leave", "messages", "list", "register", "count", "stamps"} :
       Wanted(step) = "node_list"
  /\ KeptAt("nc_communicator") = {"reading"}
  /\ KeptAt("node_list") = {"send"}
  /\ KeptAt("new_server") = {"leave", "send"}
BY DEF Wanted, KeptAt

(* A peer whose step is none a guard is kept at holds nothing.             *)
LEMMA HoldsNothing ==
  ASSUME Inv, NEW p \in Peers,
         conn[p] = None \/ conn[p].step \notin {"reading", "send", "leave"}
  PROVE  \A l \in Locks : holder[l] # p
BY WantedLocks DEF Inv, HoldersAtWork, Locks

LEMMA HandlerReturns ==
  ASSUME Inv, NEW p \in Peers,
         \/ LockFails(p) \/ ReadFails(p) \/ Send(p) \/ RemoveNodePanics(p)
         \/ Process(p) \/ ShutDown(p)
  PROVE  Inv'
<1>1. CASE LockFails(p)
  <2>1. ~ AtStep(p, "queued")
    BY <1>1, ServerLocksAssumption DEF LockFails, AtStep, Wanted, Inv, TypeOK
  <2> QED BY <1>1, <2>1, ReturnStep, ListStays DEF LockFails
<1>2. CASE ReadFails(p) \/ Send(p) \/ Process(p)
  BY <1>2, ReturnStep, ListStays DEF ReadFails, Send, Process, Locked, AtStep
<1>3. CASE RemoveNodePanics(p)
  <2>1. ListStep
    BY <1>3 DEF RemoveNodePanics, ListStep, Inv, TypeOK, Locks
  <2> QED BY <1>3, <2>1, ReturnStep DEF RemoveNodePanics, Locked, AtStep
<1>4. CASE ShutDown(p)
  <2>1. /\ conn' \in [Peers -> Conn \cup {None}]
        /\ holder' \in [Locks -> Peers \cup {None}]
        /\ HoldersAtWork' /\ RightSteps'
        /\ \A q \in Peers : conn'[q] = None \/ conn'[q] = conn[q]
    BY <1>4, ReturnKeeps DEF ShutDown
  <2>2. TypeOK' BY <1>4, <2>1 DEF ShutDown, listVars, TypeOK, Inv
  <2>3. \A q \in Peers : AtStep(q, "queued") => conn'[q] = conn[q]
    BY <1>4 DEF ShutDown, Return, Inv, TypeOK, AtStep
  <2>4. QueueOK' BY <1>4, <2>3, QueueKept DEF ShutDown
  <2>5. ListGrows' /\ StatisticsInOrder'
    BY <1>4, <2>1 DEF ShutDown, listVars, ListGrows, StatisticsInOrder, AtStep, Inv
  <2> QED BY <2>1, <2>2, <2>4, <2>5 DEF Inv
<1> QED BY <1>1, <1>2, <1>3, <1>4

LEMMA HandlerReads ==
  ASSUME Inv, NEW p \in Peers, Receive(p) \/ Read(p)
  PROVE  Inv'
<1>1. CASE Receive(p)
  <2>1. /\ conn[p] # None /\ conn[p].step = "receive"
        /\ holder' = [holder EXCEPT !["nc_communicator"] = p]
        /\ conn' = [conn EXCEPT ![p].step = "reading"]
    BY <1>1 DEF Receive, Locked, AtStep, GotoWith
  <2>2. \A l \in Locks : holder[l] # p BY <2>1, HoldsNothing
  <2>3. \A l \in Locks : \/ holder'[l] = p /\ "reading" \in KeptAt(l)
                         \/ holder'[l] = holder[l] /\ holder[l] # p
    BY <2>1, <2>2, WantedLocks DEF Inv, TypeOK
  <2>4. holder' \in [Locks -> Peers \cup {None}] BY <2>1 DEF Inv, TypeOK
  <2> QED BY <1>1, <2>1, <2>3, <2>4, GotoStep, ListStays DEF Receive, Step
<1>2. CASE Read(p)
  <2> DEFINE step == FirstStep(conn[p].request.type)
  <2>1. /\ conn[p] # None /\ conn[p].step = "reading"
        /\ holder' = [holder EXCEPT !["nc_communicator"] = None]
        /\ conn' = [conn EXCEPT ![p].step = step]
    BY <1>2 DEF Read, AtStep
  <2>2. conn[p].request.type \in
          {"Register", "NeedsData", "HeartBeat", "CheckHeartbeat", "NodeMigrated",
           "CustomMessage", "HasData", "GetStatistics", "ShutDown", "NewServer"}
    BY <2>1 DEF Inv, TypeOK, Conn, AnyRequest, NCNodeMessage
  <2>3. step \in Step \ {"stamps", "leave", "send"} BY <2>2 DEF FirstStep, Step
  <2>4. \A l \in Locks : holder'[l] = None \/ (holder'[l] = holder[l] /\ holder[l] # p)
    <3>1. \A l \in Locks \ {"nc_communicator"} : holder[l] # p
      BY <2>1, WantedLocks DEF Inv, HoldersAtWork, Locks
    <3> QED BY <2>1, <3>1 DEF Inv, TypeOK
  <2>5. holder' \in [Locks -> Peers \cup {None}] BY <2>1 DEF Inv, TypeOK
  <2>6. ListStep BY <1>2, ListStays DEF Read
  <2> HIDE DEF step
  <2> QED BY <2>1, <2>3, <2>4, <2>5, <2>6, GotoStep DEF step
<1> QED BY <1>1, <1>2

(* NeedsData: from one "if let" to the next.                               *)
LEMMA HandlerNeedsData ==
  ASSUME Inv, NEW p \in Peers,
         \/ NoNewServer(p) \/ NewServerFound(p) \/ RemoveNode(p)
         \/ GetMessage(p) \/ NoMessage(p) \/ Prepare(p)
  PROVE  Inv'
<1> DEFINE type == conn[p].request.type
<1>1. /\ conn[p] # None
      /\ conn[p].step \in {"new_server", "leave", "messages", "prepare"}
  BY DEF NoNewServer, NewServerFound, RemoveNode, GetMessage, NoMessage, Prepare, Locked, AtStep
<1>2. type = "NeedsData" BY <1>1 DEF Inv, RightSteps
<1>3. CASE NoNewServer(p) \/ NoMessage(p) \/ Prepare(p)
  <2>1. PICK step \in {"messages", "prepare", "send", "shut_down"} :
          conn' = [conn EXCEPT ![p].step = step] /\ holder' = holder
    BY <1>3 DEF NoNewServer, NoMessage, Prepare, Goto
  <2>2. \A l \in Locks : holder[l] # p
    BY <1>3, HoldsNothing DEF NoNewServer, NoMessage, Prepare, Locked, AtStep
  <2>3. ListStep BY <1>3, ListStays DEF NoNewServer, NoMessage, Prepare
  <2>4. holder' \in [Locks -> Peers \cup {None}] BY <2>1 DEF Inv, TypeOK
  <2>5. /\ step \in Step /\ step \notin {"stamps", "leave"} /\ conn[p].step # "queued"
        /\ step \in {"register", "list", "set_new_server", "new_server", "leave",
                     "messages", "prepare"} => step \in {"leave", "messages", "prepare"}
    BY <1>1 DEF Step
  <2>6. \A l \in Locks : holder'[l] = holder[l] /\ holder[l] # p
    BY <2>1, <2>2
  <2> QED BY <1>1, <1>2, <2>1, <2>3, <2>4, <2>5, <2>6, GotoStep
<1>4. CASE NewServerFound(p)
  <2>1. /\ conn' = [conn EXCEPT ![p].step = "leave"]
        /\ holder' = [holder EXCEPT !["new_server"] = p]
        /\ new_server # None /\ conn[p].step = "new_server"
    BY <1>4 DEF NewServerFound, GotoWith, Locked, AtStep
  <2>2. \A l \in Locks : holder[l] # p BY <2>1, HoldsNothing
  <2>3. \A l \in Locks : \/ holder'[l] = p /\ "leave" \in KeptAt(l)
                         \/ holder'[l] = holder[l] /\ holder[l] # p
    BY <2>1, <2>2, WantedLocks DEF Inv, TypeOK
  <2>4. holder' \in [Locks -> Peers \cup {None}] BY <2>1 DEF Inv, TypeOK
  <2> QED BY <1>1, <1>2, <1>4, <2>1, <2>3, <2>4, GotoStep, ListStays DEF NewServerFound, Step
<1>5. CASE RemoveNode(p)
  <2>1. /\ conn' = [conn EXCEPT ![p].step = "send"] /\ holder' = holder
        /\ conn[p].step = "leave"
    BY <1>5 DEF RemoveNode, Goto, Locked, AtStep
  <2>2. new_server # None BY <1>1, <2>1 DEF Inv, ListGrows, AtStep
  <2>3. node_list' \in Seq(NCNodeInfo)
    <3>1. PICK i \in DOMAIN node_list : node_list' = swap_remove(node_list, i)
      BY <1>5 DEF RemoveNode
    <3>2. conn[p].request \in NCNodeMessage
      BY <1>1, <1>2 DEF Inv, TypeOK, Conn, AnyRequest
    <3>3. conn[p].request.node_id \in NodeIDs BY <1>2, <3>2, RequestFields
    <3> QED BY <3>1, <3>3, NodeListTypes DEF Inv, TypeOK
  <2>4. ListStep
    BY <1>5, <2>2, <2>3 DEF RemoveNode, ListStep, Inv, TypeOK
  <2>5. \A l \in Locks : \/ holder'[l] = p /\ "send" \in KeptAt(l)
                         \/ holder'[l] = holder[l] /\ holder[l] # p
    BY <2>1, WantedLocks DEF Inv, HoldersAtWork, Locks
  <2>6. holder' \in [Locks -> Peers \cup {None}] BY <2>1 DEF Inv, TypeOK
  <2>7. "send" \in Step BY DEF Step
  <2>8. type # "GetStatistics" BY <1>2
  <2> QED BY <1>1, <2>1, <2>4, <2>5, <2>6, <2>7, <2>8, GotoStep
<1>6. CASE GetMessage(p)
  <2>1. /\ conn' = [conn EXCEPT ![p].step = "send"]
        /\ holder' = [holder EXCEPT !["node_list"] = p]
        /\ conn[p].step = "messages"
    BY <1>6 DEF GetMessage, GotoWith, Locked, AtStep
  <2>2. \A l \in Locks : holder[l] # p BY <2>1, HoldsNothing
  <2>3. \A l \in Locks : \/ holder'[l] = p /\ "send" \in KeptAt(l)
                         \/ holder'[l] = holder[l] /\ holder[l] # p
    BY <2>1, <2>2, WantedLocks DEF Inv, TypeOK
  <2>4. PICK i \in DOMAIN node_list :
          node_list[i].message_queue # <<>> /\ node_list' = pop_message(node_list, i)
    BY <1>6 DEF GetMessage
  <2>5. node_list' \in Seq(NCNodeInfo) /\ Len(node_list') = Len(node_list)
    BY <2>4, PopMessageType, PopMessageLength DEF Inv, TypeOK
  <2>6. ListStep BY <1>6, <2>5 DEF GetMessage, ListStep, Inv, TypeOK
  <2>7. holder' \in [Locks -> Peers \cup {None}] BY <2>1 DEF Inv, TypeOK
  <2> QED BY <1>1, <1>2, <2>1, <2>3, <2>6, <2>7, GotoStep DEF Step
<1> QED BY <1>3, <1>4, <1>5, <1>6

LEMMA HandlerUsesList ==
  ASSUME Inv, NEW p \in Peers, UseList(p)
  PROVE  Inv'
<1> DEFINE request == conn[p].request
<1>1. /\ conn[p] # None /\ conn[p].step = "list" /\ Return(p)
      /\ node_list' = ListAfter(request)
      /\ issued' = issued \cup IF request.type = "NodeMigrated" THEN {request.node_id} ELSE {}
      /\ UNCHANGED <<poolVars, new_server, poisoned>>
  BY DEF UseList, Locked, AtStep
<1>2. request.type \in {"HeartBeat", "CheckHeartbeat", "NodeMigrated", "CustomMessage"}
  BY <1>1 DEF Inv, RightSteps
<1>3. request \in NCNodeMessage
  BY <1>1, <1>2 DEF Inv, TypeOK, Conn, AnyRequest
<1>4. node_list \in Seq(NCNodeInfo) /\ Len(node_list) \in Nat BY DEF Inv, TypeOK
<1> HIDE DEF request
<1>5. /\ node_list' \in Seq(NCNodeInfo)
      /\ Len(node_list') >= Len(node_list)
      /\ issued' \subseteq NodeIDs
  <2>1. CASE request.type = "HeartBeat"
    <3>1. request.node_id \in NodeIDs BY <1>3, <2>1, RequestFields
    <3>2. node_list' = update_heartbeat(node_list, request.node_id)
      BY <1>1, <2>1 DEF ListAfter
    <3>3. node_list' \in Seq(NCNodeInfo) BY <1>4, <3>1, <3>2, NodeListTypes
    <3>4. Len(node_list') = Len(node_list) BY <1>4, <3>2, HeartbeatLength
    <3> QED BY <1>1, <1>4, <2>1, <3>3, <3>4 DEF Inv, TypeOK
  <2>2. CASE request.type = "CheckHeartbeat"
    BY <1>1, <1>4, <2>2 DEF ListAfter, Inv, TypeOK
  <2>3. CASE request.type = "NodeMigrated"
    <3>1. request.node_id \in NodeIDs BY <1>3, <2>3, RequestFields
    <3>2. node_list' = migrate_node(node_list, request.node_id)
      BY <1>1, <2>3 DEF ListAfter
    <3>3. node_list' \in Seq(NCNodeInfo) BY <1>4, <3>1, <3>2, NodeListTypes
    <3>4. NewNodeInfo(request.node_id) \in NCNodeInfo
      BY <3>1 DEF NewNodeInfo, NCNodeInfo
    <3>5. Len(node_list') = Len(node_list) + 1 BY <1>4, <3>2, <3>4 DEF migrate_node
    <3> QED BY <1>1, <1>4, <2>3, <3>1, <3>3, <3>5 DEF Inv, TypeOK
  <2>4. CASE request.type = "CustomMessage"
    <3>1. /\ request.message \in Messages
          /\ request.destination \in NodeIDs \cup {None}
      BY <1>3, <2>4, RequestFields
    <3>2. node_list' = IF request.destination = None
                       THEN add_message_all(node_list, request.message)
                       ELSE add_message(node_list, request.message, request.destination)
      BY <1>1, <2>4 DEF ListAfter
    <3>3. node_list' \in Seq(NCNodeInfo) BY <1>4, <3>1, <3>2, MessageQueueTypes
    <3>4. Len(node_list') = Len(node_list) BY <1>4, <3>1, <3>2, ListLengths
    <3> QED BY <1>1, <1>4, <2>4, <3>3, <3>4 DEF Inv, TypeOK
  <2> QED BY <1>2, <2>1, <2>2, <2>3, <2>4
<1>6. ListStep BY <1>1, <1>5 DEF ListStep, poolVars, Inv, TypeOK
<1> QED BY <1>1, <1>6, ReturnStep DEF AtStep

LEMMA HandlerSetsServer ==
  ASSUME Inv, NEW p \in Peers, SetNewServer(p)
  PROVE  Inv'
<1>1. /\ conn[p] # None /\ conn[p].step = "set_new_server" /\ Return(p)
      /\ new_server' = conn[p].request.server
      /\ UNCHANGED <<poolVars, node_list, poisoned, issued>>
  BY DEF SetNewServer, Locked, AtStep
<1>2. conn[p].request.type = "NewServer" BY <1>1 DEF Inv, RightSteps
<1>3. conn[p].request \in NCNodeMessage
  BY <1>1, <1>2 DEF Inv, TypeOK, Conn, AnyRequest
<1>4. new_server' \in Servers /\ new_server' # None
  BY <1>1, <1>2, <1>3, RequestFields, NCMessagesAssumption
<1>5. ListStep BY <1>1, <1>4 DEF ListStep, poolVars, Inv, TypeOK
<1> QED BY <1>1, <1>5, ReturnStep DEF AtStep

LEMMA HandlerRegisters ==
  ASSUME Inv, NEW p \in Peers, RegisterNode(p)
  PROVE  Inv'
<1>1. /\ conn[p] # None /\ conn[p].step = "register" /\ holder' = holder
      /\ conn' = [conn EXCEPT ![p].step = "send"]
      /\ UNCHANGED <<poolVars, new_server, poisoned>>
  BY DEF RegisterNode, Locked, AtStep, Goto
<1>2. PICK id \in NodeIDs \ Spoken : /\ node_list' = register_new_node(node_list, id)
                                     /\ issued' = issued \cup {id}
  BY DEF RegisterNode
<1>3. node_list \in Seq(NCNodeInfo) /\ Len(node_list) \in Nat BY DEF Inv, TypeOK
<1>4. node_list' \in Seq(NCNodeInfo) BY <1>2, <1>3, NodeListTypes
<1>5. Len(node_list') = Len(node_list) + 1
  <2>1. NewNodeInfo(id) \in NCNodeInfo BY DEF NewNodeInfo, NCNodeInfo
  <2> QED BY <1>2, <1>3, <2>1 DEF register_new_node
<1>6. ListStep BY <1>1, <1>2, <1>3, <1>4, <1>5 DEF ListStep, poolVars, Inv, TypeOK
<1>7. \A l \in Locks : holder'[l] = holder[l] /\ holder[l] # p
  BY <1>1, HoldsNothing
<1>8. conn[p].request.type # "GetStatistics" BY <1>1 DEF Inv, RightSteps
<1>9. "send" \in Step /\ holder' \in [Locks -> Peers \cup {None}]
  BY <1>1 DEF Step, Inv, TypeOK
<1>10. /\ conn[p] # None /\ conn[p].step # "queued"
       /\ conn' = [conn EXCEPT ![p].step = "send"]
  BY <1>1
<1>11. "send" \notin {"register", "list", "set_new_server", "new_server", "leave",
                     "messages", "prepare", "stamps"}
  OBVIOUS
<1> DEFINE step == "send"
<1>12. /\ step \in Step /\ step # "stamps" /\ step # "leave"
       /\ step \notin {"register", "list", "set_new_server", "new_server", "leave",
                       "messages", "prepare"}
       /\ conn' = [conn EXCEPT ![p].step = step]
  BY <1>9, <1>10, <1>11
<1> HIDE DEF step
<1> QED BY <1>6, <1>7, <1>8, <1>9, <1>10, <1>12, GotoStep

(* The two reads of GetStatistics.                                         *)
LEMMA HandlerCounts ==
  ASSUME Inv, NEW p \in Peers,
         GetStatistics(p, "count", "stamps") \/ GetStatistics(p, "stamps", "send")
  PROVE  Inv'
<1> USE DEF Inv
<1>1. /\ conn[p] # None /\ conn[p].step \in {"count", "stamps"} /\ conn[p] \in Conn
      /\ UNCHANGED <<poolVars, listVars, holder>>
  BY DEF GetStatistics, Locked, AtStep, TypeOK
<1>2. \A l \in Locks : holder[l] # p BY <1>1, HoldsNothing
<1>3. /\ node_list \in Seq(NCNodeInfo) /\ Len(node_list) \in Nat
      /\ [i \in DOMAIN node_list |-> node_list[i].node_id] \in [DOMAIN node_list -> NodeIDs]
  <2>1. node_list \in Seq(NCNodeInfo) BY DEF TypeOK
  <2>2. \A i \in DOMAIN node_list : node_list[i] \in NCNodeInfo BY <2>1
  <2>3. \A i \in DOMAIN node_list : node_list[i].node_id \in NodeIDs
    BY <2>2 DEF NCNodeInfo
  <2> QED BY <2>1, <2>3
<1>4. /\ [i \in DOMAIN node_list |-> node_list[i].node_id] \in Seq(NodeIDs)
      /\ Len([i \in DOMAIN node_list |-> node_list[i].node_id]) = Len(node_list)
  <2>1. DOMAIN node_list = 1 .. Len(node_list) BY <1>3
  <2> QED BY <1>3, <2>1
<1>5. CASE GetStatistics(p, "count", "stamps")
  <2>1. /\ conn'[p] = [conn[p] EXCEPT !.step = "stamps", !.num_of_nodes = Len(node_list)]
        /\ \A q \in Peers \ {p} : conn'[q] = conn[q]
        /\ DOMAIN conn' = Peers
        /\ conn[p].step = "count"
    BY <1>5 DEF GetStatistics, StatisticsRead, TypeOK, Locked, AtStep
  <2>2. /\ conn'[p] \in Conn /\ conn'[p].step = "stamps"
        /\ conn'[p].num_of_nodes = Len(node_list)
    BY <1>1, <1>3, <2>1 DEF Conn, Step
  <2>3. conn' \in [Peers -> Conn \cup {None}]
    BY <2>1, <2>2, <1>5 DEF TypeOK, GetStatistics
  <2>4. TypeOK' BY <1>1, <2>3 DEF TypeOK, poolVars, listVars
  <2>5. HoldersAtWork' BY <1>1, <1>2, <2>1 DEF HoldersAtWork
  <2>6. RightSteps'
    <3> SUFFICES ASSUME NEW q \in Peers, conn'[q] # None
                 PROVE  RightSteps!(q)'
      BY DEF RightSteps
    <3>1. CASE q = p BY <2>2, <3>1
    <3>2. CASE q # p BY <2>1, <3>2 DEF RightSteps
    <3> QED BY <3>1, <3>2
  <2>7. ListGrows'
    <3>1. Len(node_list') = conn'[p].num_of_nodes /\ node_list' = node_list
          /\ new_server' = new_server
      BY <1>1, <2>2 DEF listVars
    <3>2. \A q \in Peers : AtStep(q, "leave")' => AtStep(q, "leave")
      BY <2>1, <2>2 DEF AtStep
    <3>3. ASSUME NEW q \in Peers, AtStep(q, "stamps")', new_server' = None
          PROVE  conn'[q].num_of_nodes <= Len(node_list')
      <4>1. CASE q = p BY <4>1, <1>3, <3>1
      <4>2. CASE q # p BY <4>2, <3>1, <3>3, <2>1 DEF ListGrows, AtStep
      <4> QED BY <4>1, <4>2
    <3> QED BY <3>1, <3>2, <3>3 DEF ListGrows
  <2>8. StatisticsInOrder'
    BY <1>1, <2>1, <2>2 DEF StatisticsInOrder, AtStep, listVars
  <2>9. QueueOK' BY <1>1, <2>1, QueueKept DEF poolVars, AtStep
  <2> QED BY <2>4, <2>5, <2>6, <2>7, <2>8, <2>9
<1>6. CASE GetStatistics(p, "stamps", "send")
  <2> DEFINE ids == [i \in DOMAIN node_list |-> node_list[i].node_id]
  <2>1. /\ conn'[p] = [conn[p] EXCEPT !.step = "send", !.hb_time_stamps = ids]
        /\ \A q \in Peers \ {p} : conn'[q] = conn[q]
        /\ DOMAIN conn' = Peers
        /\ conn[p].step = "stamps"
    BY <1>6 DEF GetStatistics, StatisticsRead, TypeOK, Locked, AtStep
  <2> HIDE DEF ids
  <2>2. /\ conn'[p] \in Conn /\ conn'[p].step = "send"
        /\ conn'[p].num_of_nodes = conn[p].num_of_nodes
        /\ conn'[p].hb_time_stamps = ids
    BY <1>1, <1>4, <2>1 DEF Conn, Step, ids
  <2>3. conn' \in [Peers -> Conn \cup {None}]
    BY <2>1, <2>2, <1>6 DEF TypeOK, GetStatistics
  <2>4. TypeOK' BY <1>1, <2>3 DEF TypeOK, poolVars, listVars
  <2>5. HoldersAtWork' BY <1>1, <1>2, <2>1 DEF HoldersAtWork
  <2>6. RightSteps'
    <3> SUFFICES ASSUME NEW q \in Peers, conn'[q] # None
                 PROVE  RightSteps!(q)'
      BY DEF RightSteps
    <3>1. CASE q = p BY <2>2, <3>1
    <3>2. CASE q # p BY <2>1, <3>2 DEF RightSteps
    <3> QED BY <3>1, <3>2
  <2>7. ListGrows' BY <1>1, <2>1, <2>2 DEF ListGrows, AtStep, listVars
  <2>8. new_server = None => conn[p].num_of_nodes <= Len(ids)
    BY <1>1, <1>4, <2>1 DEF ListGrows, AtStep, ids
  <2>9. StatisticsInOrder'
    BY <1>1, <2>1, <2>2, <2>8 DEF StatisticsInOrder, AtStep, listVars
  <2>10. QueueOK' BY <1>1, <2>1, QueueKept DEF poolVars, AtStep
  <2> QED BY <2>4, <2>5, <2>6, <2>7, <2>9, <2>10
<1> QED BY <1>5, <1>6

-----------------------------------------------------------------------------
(* Peers and pool: connections change that no handler has, or only in what *)
(* is on the wire.                                                         *)
LEMMA OutsideHandlers ==
  ASSUME Inv, UNCHANGED <<listVars, holder>>,
         \A q \in Peers :
           \/ conn'[q] = conn[q]
           \/ /\ conn[q] = None \/ conn[q].step \in {"backlog", "queued"}
              /\ conn'[q] = None \/ conn'[q].step \in {"backlog", "queued", "receive"}
           \/ /\ conn[q] # None /\ conn'[q] # None
              /\ conn'[q].step = conn[q].step
              /\ conn'[q].request = conn[q].request
              /\ conn'[q].num_of_nodes = conn[q].num_of_nodes
              /\ conn'[q].hb_time_stamps = conn[q].hb_time_stamps
  PROVE  HoldersAtWork' /\ RightSteps' /\ ListGrows' /\ StatisticsInOrder'
<1> USE DEF Inv
<1>1. HoldersAtWork'
  <2> SUFFICES ASSUME NEW l \in Locks, NEW q \in Peers, holder[l] = q
               PROVE  conn'[q] # None /\ conn'[q].step \in KeptAt(l)
    BY DEF HoldersAtWork, KeptAt
  <2>1. conn[q] # None /\ conn[q].step \in KeptAt(l) BY DEF HoldersAtWork
  <2>2. conn[q].step \notin {"backlog", "queued"} BY <2>1, WantedLocks DEF Locks
  <2> QED BY <2>1, <2>2
<1>2. RightSteps' BY DEF RightSteps
<1>3. ListGrows' BY DEF ListGrows, AtStep, listVars
<1>4. StatisticsInOrder' BY DEF StatisticsInOrder, AtStep, listVars
<1> QED BY <1>1, <1>2, <1>3, <1>4

LEMMA PeerSteps ==
  ASSUME Inv, NEW p \in Peers, Connect(p) \/ SendOrClose(p) \/ Hang(p) \/ Accept(p)
  PROVE  Inv'
<1> USE DEF Inv
<1>1. CASE Connect(p)
  <2>1. PICK request \in Requests :
          conn' = [conn EXCEPT ![p] = [request |-> request, wire |-> "quiet",
                     step |-> "backlog", num_of_nodes |-> 0, hb_time_stamps |-> <<>>]]
    BY <1>1 DEF Connect
  <2>2. /\ conn[p] = None /\ UNCHANGED <<poolVars, listVars, holder>>
        /\ request \in AnyRequest
    BY <1>1, ServerLocksAssumption DEF Connect
  <2>3. /\ conn'[p] \in Conn /\ conn'[p].step = "backlog"
        /\ \A q \in Peers \ {p} : conn'[q] = conn[q]
    BY <2>1, <2>2 DEF Conn, Step, TypeOK
  <2>4. conn' \in [Peers -> Conn \cup {None}] BY <2>1, <2>3 DEF TypeOK
  <2>5. TypeOK' BY <2>2, <2>4 DEF TypeOK, poolVars, listVars
  <2>6. QueueOK' BY <2>2, <2>3, QueueKept DEF poolVars, AtStep
  <2> QED BY <2>2, <2>3, <2>5, <2>6, OutsideHandlers
<1>2. CASE SendOrClose(p) \/ Hang(p)
  <2>1. PICK wire \in {"sent", "gone", "hung"} : Becomes(p, wire)
    BY <1>2 DEF SendOrClose, Hang
  <2>2. /\ conn[p] # None /\ conn[p] \in Conn
        /\ conn' = [conn EXCEPT ![p].wire = wire]
        /\ UNCHANGED <<poolVars, listVars, holder>>
    BY <2>1 DEF Becomes, TypeOK
  <2>3. /\ conn'[p] = [conn[p] EXCEPT !.wire = wire]
        /\ \A q \in Peers \ {p} : conn'[q] = conn[q]
    BY <2>2 DEF TypeOK
  <2>4. /\ conn'[p] \in Conn /\ conn'[p] # None
        /\ conn'[p].step = conn[p].step /\ conn'[p].request = conn[p].request
        /\ conn'[p].num_of_nodes = conn[p].num_of_nodes
        /\ conn'[p].hb_time_stamps = conn[p].hb_time_stamps
    BY <2>2, <2>3, ServerLocksAssumption DEF Conn
  <2>5. TypeOK' BY <2>2, <2>3, <2>4 DEF TypeOK, poolVars, listVars
  <2>6. QueueOK' BY <2>2, <2>3, <2>4 DEF QueueOK, AtStep, TypeOK, poolVars
  <2> QED BY <2>2, <2>3, <2>4, <2>5, <2>6, OutsideHandlers
<1>3. CASE Accept(p)
  <2>1. /\ conn[p] # None /\ conn[p] \in Conn /\ conn[p].step = "backlog"
        /\ conn' = [conn EXCEPT ![p].step = "queued"]
        /\ jobs' = Append(jobs, p) /\ main_loop' = "check"
        /\ UNCHANGED <<job_done, listVars, holder>>
    BY <1>3 DEF Accept, AtStep, TypeOK
  <2>2. /\ conn'[p] = [conn[p] EXCEPT !.step = "queued"]
        /\ \A q \in Peers \ {p} : conn'[q] = conn[q]
    BY <2>1 DEF TypeOK
  <2>3. "queued" \in Step BY DEF Step
  <2>4. conn'[p] \in Conn /\ conn'[p] # None /\ conn'[p].step = "queued"
    <3>1. conn'[p] \in Conn BY <2>1, <2>2, <2>3 DEF Conn
    <3>2. conn'[p] # None BY <3>1, ServerLocksAssumption
    <3>3. conn'[p].step = "queued" BY <2>1, <2>2 DEF Conn
    <3> QED BY <3>1, <3>2, <3>3
  <2>5. TypeOK'
    <3>1. conn' \in [Peers -> Conn \cup {None}] BY <2>1, <2>4 DEF TypeOK
    <3>2. jobs' \in Seq(Peers) BY <2>1 DEF TypeOK
    <3> QED BY <2>1, <3>1, <3>2 DEF TypeOK, listVars
  <2>6. /\ jobs \in Seq(Peers) /\ Len(jobs) \in Nat
        /\ \A i \in DOMAIN jobs : jobs[i] \in Peers /\ jobs[i] # p
        /\ DOMAIN jobs = 1 .. Len(jobs)
    BY <2>1 DEF TypeOK, QueueOK, AtStep
  <2>7. /\ DOMAIN jobs' = 1 .. Len(jobs) + 1 /\ jobs'[Len(jobs) + 1] = p
        /\ \A i \in 1 .. Len(jobs) : jobs'[i] = jobs[i]
    BY <2>1, <2>6
  <2>8. QueueOK'
    <3>1. ASSUME NEW i \in 1 .. Len(jobs) + 1
          PROVE  conn'[jobs'[i]] # None /\ conn'[jobs'[i]].step = "queued"
      <4>1. CASE i = Len(jobs) + 1 BY <4>1, <2>4, <2>7
      <4>2. CASE i # Len(jobs) + 1
        <5>1. i \in DOMAIN jobs /\ jobs'[i] = jobs[i] BY <4>2, <2>6, <2>7
        <5>2. AtStep(jobs[i], "queued") BY <5>1 DEF QueueOK
        <5> QED BY <2>2, <2>6, <5>1, <5>2 DEF AtStep
      <4> QED BY <4>1, <4>2
    <3>2. ASSUME NEW i \in 1 .. Len(jobs) + 1, NEW j \in 1 .. Len(jobs) + 1,
                 jobs'[i] = jobs'[j]
          PROVE  i = j
      <4>1. \A k \in 1 .. Len(jobs) + 1 : k = Len(jobs) + 1 \/ k \in DOMAIN jobs
        BY <2>6
      <4> QED BY <2>6, <2>7, <3>2, <4>1 DEF QueueOK
    <3> QED BY <2>7, <3>1, <3>2 DEF QueueOK, AtStep
  <2> QED BY <2>1, <2>2, <2>4, <2>5, <2>8, OutsideHandlers
<1> QED BY <1>1, <1>2, <1>3

LEMMA PoolSteps ==
  ASSUME Inv, MainLoop \/ TakeJob
  PROVE  Inv'
<1> USE DEF Inv
<1>1. CASE CheckJobDone \/ JoinThreads
  <2>1. UNCHANGED <<jobs, job_done, listVars, holder, conn>>
        /\ main_loop' \in {"accept", "finish", "exited"}
    BY <1>1 DEF CheckJobDone, JoinThreads
  <2>2. TypeOK' BY <2>1 DEF TypeOK, listVars
  <2>3. QueueOK' BY <2>1, QueueKept
  <2> QED BY <2>1, <2>2, <2>3, OutsideHandlers
<1>2. CASE FinishJob
  <2>1. /\ main_loop' = "join" /\ UNCHANGED <<jobs, job_done, listVars, holder>>
        /\ conn' = [p \in Peers |-> IF AtStep(p, "backlog") THEN None ELSE conn[p]]
    BY <1>2 DEF FinishJob
  <2>2. TypeOK' BY <2>1 DEF TypeOK, listVars
  <2>3. QueueOK' BY <2>1, QueueKept DEF AtStep
  <2> QED BY <2>1, <2>2, <2>3, OutsideHandlers DEF AtStep
<1>3. CASE TakeJob
  <2> DEFINE p == Head(jobs)
  <2>1. /\ jobs # <<>> /\ jobs' = Tail(jobs)
        /\ conn' = [conn EXCEPT ![p].step = "receive"]
        /\ UNCHANGED <<main_loop, job_done, listVars, holder>>
    BY <1>3 DEF TakeJob
  <2>2. /\ jobs \in Seq(Peers) /\ Len(jobs) \in Nat /\ DOMAIN jobs = 1 .. Len(jobs)
        /\ Len(jobs) >= 1 /\ p = jobs[1]
        /\ jobs' \in Seq(Peers) /\ Len(jobs') = Len(jobs) - 1
        /\ DOMAIN jobs' = 1 .. Len(jobs) - 1
        /\ \A i \in 1 .. Len(jobs) - 1 : jobs'[i] = jobs[i + 1]
    BY <2>1 DEF TypeOK
  <2> HIDE DEF p
  <2>3. p \in Peers /\ conn[p] # None /\ conn[p] \in Conn /\ conn[p].step = "queued"
    BY <2>2 DEF TypeOK, QueueOK, AtStep
  <2>4. /\ conn'[p] = [conn[p] EXCEPT !.step = "receive"]
        /\ \A q \in Peers \ {p} : conn'[q] = conn[q]
    BY <2>1, <2>3 DEF TypeOK
  <2>5. "receive" \in Step BY DEF Step
  <2>6. conn'[p] \in Conn /\ conn'[p] # None /\ conn'[p].step = "receive"
    BY <2>3, <2>4, <2>5, ServerLocksAssumption DEF Conn
  <2>7. TypeOK' BY <2>1, <2>2, <2>3, <2>4, <2>6 DEF TypeOK, listVars
  <2>8. QueueOK'
    <3>1. \A i \in 1 .. Len(jobs) - 1 : i + 1 \in DOMAIN jobs /\ jobs'[i] = jobs[i + 1]
      BY <2>2
    <3>2. \A i \in 1 .. Len(jobs) - 1 : jobs[i + 1] \in Peers /\ jobs[i + 1] # p
      BY <2>2, <3>1 DEF QueueOK
    <3>3. ASSUME NEW i \in 1 .. Len(jobs) - 1
          PROVE  conn'[jobs'[i]] # None /\ conn'[jobs'[i]].step = "queued"
      <4>1. jobs'[i] \in Peers /\ jobs'[i] # p /\ jobs'[i] = jobs[i + 1]
            /\ i + 1 \in DOMAIN jobs
        BY <3>1, <3>2
      <4>2. AtStep(jobs[i + 1], "queued") BY <4>1 DEF QueueOK
      <4> QED BY <2>4, <4>1, <4>2 DEF AtStep
    <3>4. ASSUME NEW i \in 1 .. Len(jobs) - 1, NEW j \in 1 .. Len(jobs) - 1,
                 jobs'[i] = jobs'[j]
          PROVE  i = j
      <4>1. i + 1 = j + 1 BY <3>1, <3>4 DEF QueueOK
      <4> QED BY <2>2, <4>1
    <3> QED BY <2>2, <3>3, <3>4 DEF QueueOK, AtStep
  <2> QED BY <2>1, <2>3, <2>4, <2>6, <2>7, <2>8, OutsideHandlers
<1> QED BY <1>1, <1>2, <1>3 DEF MainLoop

-----------------------------------------------------------------------------
LEMMA InvNext == Inv /\ [Next]_vars => Inv'
<1> SUFFICES ASSUME Inv, [Next]_vars PROVE Inv' OBVIOUS
<1>1. CASE UNCHANGED vars
  BY <1>1 DEF vars, poolVars, listVars, Inv, TypeOK, QueueOK, HoldersAtWork, RightSteps,
     ListGrows, StatisticsInOrder, AtStep
<1>2. CASE MainLoop \/ TakeJob BY <1>2, PoolSteps
<1>3. ASSUME NEW p \in Peers, Connect(p) \/ SendOrClose(p) \/ Hang(p) \/ Accept(p)
      PROVE  Inv'
  BY <1>3, PeerSteps
<1>4. ASSUME NEW p \in Peers, handle_node(p) PROVE Inv'
  BY <1>4, HandlerReturns, HandlerReads, HandlerNeedsData, HandlerUsesList,
     HandlerSetsServer, HandlerRegisters, HandlerCounts DEF handle_node
<1> QED BY <1>1, <1>2, <1>3, <1>4 DEF Next

LEMMA Invariant == Spec => []Inv
<1>1. Init => Inv BY InvInit
<1>2. Inv /\ [Next]_vars => Inv' BY InvNext
<1> QED BY <1>1, <1>2, PTL DEF Spec

(* However many peers connect and whatever they do, also when they hang:   *)
(* no handlers of the server wait for each other's mutexes in a circle.    *)
THEOREM NobodyWaitsInACircle == Spec => []NoCircularWait
<1>1. Inv => NoCircularWait BY NoCircle DEF Inv
<1> QED BY <1>1, Invariant, PTL

(* The two reads of GetStatistics agree as long as nobody is sent away:    *)
(* at least as many time stamps as nodes counted.                          *)
THEOREM StatisticsAreInOrder == Spec => []StatisticsInOrder
<1>1. Inv => StatisticsInOrder BY DEF Inv
<1> QED BY <1>1, Invariant, PTL
=============================================================================
