---------------------------- MODULE NodeListLemmas ---------------------------
(***************************************************************************)
(* What the operations of the node list (NCNodeList) return, and which     *)
(* fields a request has.                                                   *)
(***************************************************************************)
EXTENDS NCNodeList, TLAPS

(* Which fields a request has.                                             *)
LEMMA RequestFields ==
  ASSUME NEW m \in NCNodeMessage
  PROVE  /\ m.type \in {"NeedsData", "HeartBeat", "NodeMigrated", "HasData"}
              => m.node_id \in NodeIDs
         /\ m.type = "HasData" => m.chunk_id \in ChunkIdx
         /\ m.type = "NewServer" => m.server \in Servers
         /\ m.type = "CustomMessage" => /\ m.message \in Messages
                                        /\ m.destination \in NodeIDs \cup {None}
BY DEF NCNodeMessage

(* The operations of the node list return node lists.                      *)

LEMMA SameShape ==
  ASSUME NEW S, NEW list \in Seq(S), NEW f \in [DOMAIN list -> S]
  PROVE  f \in Seq(S) /\ Len(f) = Len(list)
<1>1. DOMAIN list = 1 .. Len(list) /\ Len(list) \in Nat
  OBVIOUS
<1>2. f \in Seq(S) /\ DOMAIN f = 1 .. Len(list)
  BY <1>1
<1> QED BY <1>1, <1>2

LEMMA EnqueueType ==
  ASSUME NEW queue \in Seq(Messages), NEW message \in Messages
  PROVE  enqueue(queue, message) \in Seq(Messages)
<1>1. Append(queue, message) \in Seq(Messages)
  OBVIOUS
<1>2. Append(queue, message) # <<>>
  <2>1. Len(Append(queue, message)) = Len(queue) + 1 /\ Len(queue) \in Nat
    OBVIOUS
  <2>2. Len(<<>>) = 0
    OBVIOUS
  <2> QED BY <2>1, <2>2
<1>3. Tail(Append(queue, message)) \in Seq(Messages)
  BY <1>1, <1>2
<1> QED BY <1>1, <1>3 DEF enqueue

LEMMA NodeListTypes ==
  ASSUME NEW list \in Seq(NCNodeInfo), NEW id \in NodeIDs
  PROVE  /\ register_new_node(list, id) \in Seq(NCNodeInfo)
         /\ migrate_node(list, id) \in Seq(NCNodeInfo)
         /\ update_heartbeat(list, id) \in Seq(NCNodeInfo)
         /\ \A i \in DOMAIN list : swap_remove(list, i) \in Seq(NCNodeInfo)
<1>1. NewNodeInfo(id) \in NCNodeInfo
  BY DEF NewNodeInfo, NCNodeInfo
<1>2. \A i \in DOMAIN list : list[i] \in NCNodeInfo
  OBVIOUS
<1>3. register_new_node(list, id) \in Seq(NCNodeInfo)
  BY <1>1 DEF register_new_node
<1>4. migrate_node(list, id) \in Seq(NCNodeInfo)
  BY <1>1 DEF migrate_node
<1>5. update_heartbeat(list, id) \in Seq(NCNodeInfo)
  <2>1. update_heartbeat(list, id) \in [DOMAIN list -> NCNodeInfo]
    BY <1>2 DEF update_heartbeat, NCNodeInfo
  <2> QED BY <2>1, SameShape
<1>6. ASSUME NEW i \in DOMAIN list
      PROVE  swap_remove(list, i) \in Seq(NCNodeInfo)
  <2>1. Len(list) \in Nat /\ DOMAIN list = 1 .. Len(list) /\ Len(list) - 1 \in Nat
    OBVIOUS
  <2>2. swap_remove(list, i) \in [1 .. Len(list) - 1 -> NCNodeInfo]
    BY <1>2, <2>1 DEF swap_remove
  <2> QED BY <2>1, <2>2
<1> QED BY <1>3, <1>4, <1>5, <1>6

LEMMA CheckHeartbeatType ==
  ASSUME NEW list \in Seq(NCNodeInfo)
  PROVE  check_heartbeat(list) \in SUBSET NodeIDs
<1>1. \A i \in DOMAIN list : list[i] \in NCNodeInfo
  OBVIOUS
<1> QED BY <1>1 DEF check_heartbeat, NCNodeInfo

LEMMA MessageQueueTypes ==
  ASSUME NEW list \in Seq(NCNodeInfo), NEW message \in Messages
  PROVE  /\ \A id \in NodeIDs : add_message(list, message, id) \in Seq(NCNodeInfo)
         /\ add_message_all(list, message) \in Seq(NCNodeInfo)
<1>1. \A i \in DOMAIN list : list[i] \in NCNodeInfo
  OBVIOUS
<1>2. ASSUME NEW id \in NodeIDs
      PROVE  add_message(list, message, id) \in Seq(NCNodeInfo)
  <2>1. add_message(list, message, id) \in [DOMAIN list -> NCNodeInfo]
    BY <1>1, EnqueueType DEF add_message, NCNodeInfo
  <2> QED BY <2>1, SameShape
<1>3. add_message_all(list, message) \in Seq(NCNodeInfo)
  <2>1. add_message_all(list, message) \in [DOMAIN list -> NCNodeInfo]
    BY <1>1, EnqueueType DEF add_message_all, NCNodeInfo
  <2> QED BY <2>1, SameShape
<1> QED BY <1>2, <1>3

LEMMA PopMessageType ==
  ASSUME NEW list \in Seq(NCNodeInfo), NEW i \in DOMAIN list,
         list[i].message_queue # <<>>
  PROVE  /\ pop_message(list, i) \in Seq(NCNodeInfo)
         /\ Head(list[i].message_queue) \in Messages
<1>1. \A j \in DOMAIN list : list[j] \in NCNodeInfo
  OBVIOUS
<1>2. list[i].message_queue \in Seq(Messages)
  BY <1>1 DEF NCNodeInfo
<1>3. /\ Tail(list[i].message_queue) \in Seq(Messages)
      /\ Head(list[i].message_queue) \in Messages
  BY <1>2
<1>4. pop_message(list, i) \in [DOMAIN list -> NCNodeInfo]
  BY <1>1, <1>3 DEF pop_message, NCNodeInfo
<1> QED BY <1>3, <1>4, SameShape

(* Only registration, migration and removal change the length of a list.   *)
LEMMA HeartbeatLength ==
  ASSUME NEW list \in Seq(NCNodeInfo), NEW id
  PROVE  Len(update_heartbeat(list, id)) = Len(list)
<1>1. \A i \in DOMAIN list : list[i] \in NCNodeInfo
  OBVIOUS
<1>2. update_heartbeat(list, id) \in [DOMAIN list -> NCNodeInfo]
  BY <1>1 DEF update_heartbeat, NCNodeInfo
<1> QED BY <1>2, SameShape

LEMMA ListLengths ==
  ASSUME NEW list \in Seq(NCNodeInfo), NEW id, NEW message \in Messages
  PROVE  /\ Len(add_message(list, message, id)) = Len(list)
         /\ Len(add_message_all(list, message)) = Len(list)
<1>1. \A i \in DOMAIN list : list[i] \in NCNodeInfo
  OBVIOUS
<1>2. add_message(list, message, id) \in [DOMAIN list -> NCNodeInfo]
  BY <1>1, EnqueueType DEF add_message, NCNodeInfo
<1>3. add_message_all(list, message) \in [DOMAIN list -> NCNodeInfo]
  BY <1>1, EnqueueType DEF add_message_all, NCNodeInfo
<1> QED BY <1>2, <1>3, SameShape

LEMMA PopMessageLength ==
  ASSUME NEW list \in Seq(NCNodeInfo), NEW i \in DOMAIN list,
         list[i].message_queue # <<>>
  PROVE  Len(pop_message(list, i)) = Len(list)
<1>1. \A j \in DOMAIN list : list[j] \in NCNodeInfo
  OBVIOUS
<1>2. list[i].message_queue \in Seq(Messages)
  BY <1>1 DEF NCNodeInfo
<1>3. Tail(list[i].message_queue) \in Seq(Messages)
  BY <1>2
<1>4. pop_message(list, i) \in [DOMAIN list -> NCNodeInfo]
  BY <1>1, <1>3 DEF pop_message, NCNodeInfo
<1> QED BY <1>4, SameShape

-----------------------------------------------------------------------------
(* What the operations of the node list leave of the ids in it.            *)
LEMMA EnlistedIds ==
  ASSUME NEW list \in Seq(NCNodeInfo), NEW id \in NodeIDs
  PROVE  /\ Ids(register_new_node(list, id)) = Ids(list) \cup {id}
         /\ Ids(migrate_node(list, id)) = Ids(list) \cup {id}
<1> DEFINE longer == Append(list, NewNodeInfo(id))
<1>1. /\ DOMAIN longer = DOMAIN list \cup {Len(list) + 1}
      /\ \A i \in DOMAIN list : longer[i] = list[i]
      /\ longer[Len(list) + 1] = NewNodeInfo(id)
  OBVIOUS
<1>2. NewNodeInfo(id).node_id = id
  BY DEF NewNodeInfo
<1> HIDE DEF longer
<1>3. Ids(longer) = Ids(list) \cup {id}
  BY <1>1, <1>2 DEF Ids
<1> QED BY <1>3 DEF longer, register_new_node, migrate_node

LEMMA HeartbeatIds ==
  ASSUME NEW list \in Seq(NCNodeInfo), NEW id \in NodeIDs
  PROVE  Ids(update_heartbeat(list, id)) = Ids(list)
<1>1. \A i \in DOMAIN list : list[i] \in NCNodeInfo
  OBVIOUS
<1> DEFINE new == update_heartbeat(list, id)
<1>2. DOMAIN new = DOMAIN list /\ \A i \in DOMAIN list : new[i].node_id = list[i].node_id
  BY <1>1 DEF update_heartbeat, NCNodeInfo
<1> HIDE DEF new
<1>3. Ids(new) = Ids(list)
  BY <1>2 DEF Ids
<1> QED BY <1>3 DEF new

LEMMA MessageIds ==
  ASSUME NEW list \in Seq(NCNodeInfo), NEW message
  PROVE  /\ \A id : Ids(add_message(list, message, id)) = Ids(list)
         /\ Ids(add_message_all(list, message)) = Ids(list)
<1>1. \A i \in DOMAIN list : list[i] \in NCNodeInfo
  OBVIOUS
<1>2. ASSUME NEW new, DOMAIN new = DOMAIN list,
             \A i \in DOMAIN list : new[i].node_id = list[i].node_id
      PROVE  Ids(new) = Ids(list)
  BY <1>2 DEF Ids
<1>3. ASSUME NEW id
      PROVE  Ids(add_message(list, message, id)) = Ids(list)
  <2>1. /\ DOMAIN add_message(list, message, id) = DOMAIN list
        /\ \A i \in DOMAIN list : add_message(list, message, id)[i].node_id = list[i].node_id
    BY <1>1 DEF add_message, NCNodeInfo
  <2> QED BY <1>2, <2>1
<1>4. /\ DOMAIN add_message_all(list, message) = DOMAIN list
      /\ \A i \in DOMAIN list : add_message_all(list, message)[i].node_id = list[i].node_id
  BY <1>1 DEF add_message_all, NCNodeInfo
<1> QED BY <1>2, <1>3, <1>4

LEMMA PopIds ==
  ASSUME NEW list \in Seq(NCNodeInfo), NEW i \in DOMAIN list
  PROVE  Ids(pop_message(list, i)) = Ids(list)
<1>1. \A j \in DOMAIN list : list[j] \in NCNodeInfo
  OBVIOUS
<1> DEFINE new == pop_message(list, i)
<1>2. DOMAIN new = DOMAIN list /\ \A j \in DOMAIN list : new[j].node_id = list[j].node_id
  BY <1>1 DEF pop_message, NCNodeInfo
<1> HIDE DEF new
<1>3. Ids(new) = Ids(list)
  BY <1>2 DEF Ids
<1> QED BY <1>3 DEF new

LEMMA RemoveIds ==
  ASSUME NEW list \in Seq(NCNodeInfo), NEW i \in DOMAIN list
  PROVE  /\ Ids(swap_remove(list, i)) \subseteq Ids(list)
         /\ Ids(list) \subseteq Ids(swap_remove(list, i)) \cup {list[i].node_id}
<1> DEFINE new == swap_remove(list, i)
<1>1. Len(list) \in Nat /\ DOMAIN list = 1 .. Len(list) /\ i \in 1 .. Len(list)
  OBVIOUS
<1>2. DOMAIN new = 1 .. Len(list) - 1
  BY DEF swap_remove
<1>3. \A j \in DOMAIN new : new[j] = IF j = i THEN list[Len(list)] ELSE list[j]
  BY DEF swap_remove
<1> HIDE DEF new
<1>4. Ids(new) \subseteq Ids(list)
  BY <1>1, <1>2, <1>3 DEF Ids
<1>5. ASSUME NEW j \in DOMAIN list, j # i
      PROVE  \E l \in DOMAIN new : new[l] = list[j]
  <2>1. CASE j = Len(list)
    BY <1>1, <1>2, <1>3, <1>5, <2>1
  <2>2. CASE j # Len(list)
    BY <1>1, <1>2, <1>3, <1>5, <2>2
  <2> QED BY <2>1, <2>2
<1>6. Ids(list) \subseteq Ids(new) \cup {list[i].node_id}
  BY <1>5 DEF Ids
<1> QED BY <1>4, <1>6 DEF new

LEMMA ExpireIds ==
  ASSUME NEW list \in Seq(NCNodeInfo), NEW i \in DOMAIN list
  PROVE  Ids([list EXCEPT ![i].stale = TRUE]) = Ids(list)
<1>1. \A j \in DOMAIN list : list[j] \in NCNodeInfo
  OBVIOUS
<1> DEFINE new == [list EXCEPT ![i].stale = TRUE]
<1>2. DOMAIN new = DOMAIN list /\ \A j \in DOMAIN list : new[j].node_id = list[j].node_id
  BY <1>1 DEF NCNodeInfo
<1> HIDE DEF new
<1>3. Ids(new) = Ids(list)
  BY <1>2 DEF Ids
<1> QED BY <1>3 DEF new

-----------------------------------------------------------------------------
(* What the operations of the node list leave of the nodes that do not     *)
(* beat.                                                                   *)
LEMMA StaleAreListed ==
  ASSUME NEW list
  PROVE  check_heartbeat(list) \subseteq Ids(list)
BY DEF check_heartbeat, Ids

LEMMA NoneStaler ==
  ASSUME NEW list, NEW new, DOMAIN new = DOMAIN list,
         \A i \in DOMAIN list : /\ new[i].node_id = list[i].node_id
                                /\ new[i].stale => list[i].stale
  PROVE  check_heartbeat(new) \subseteq check_heartbeat(list)
BY DEF check_heartbeat

LEMMA EnlistedBeat ==
  ASSUME NEW list \in Seq(NCNodeInfo), NEW id \in NodeIDs
  PROVE  /\ check_heartbeat(register_new_node(list, id)) \subseteq check_heartbeat(list)
         /\ check_heartbeat(migrate_node(list, id)) \subseteq check_heartbeat(list)
<1> DEFINE longer == Append(list, NewNodeInfo(id))
<1>1. /\ DOMAIN longer = DOMAIN list \cup {Len(list) + 1}
      /\ \A i \in DOMAIN list : longer[i] = list[i]
      /\ longer[Len(list) + 1] = NewNodeInfo(id)
  OBVIOUS
<1>2. ~NewNodeInfo(id).stale
  BY DEF NewNodeInfo
<1> HIDE DEF longer
<1>3. check_heartbeat(longer) \subseteq check_heartbeat(list)
  BY <1>1, <1>2 DEF check_heartbeat
<1> QED BY <1>3 DEF longer, register_new_node, migrate_node

LEMMA ChangesBeat ==
  ASSUME NEW list \in Seq(NCNodeInfo)
  PROVE  /\ \A id : check_heartbeat(update_heartbeat(list, id)) \subseteq check_heartbeat(list)
         /\ \A id, message :
              check_heartbeat(add_message(list, message, id)) \subseteq check_heartbeat(list)
         /\ \A message :
              check_heartbeat(add_message_all(list, message)) \subseteq check_heartbeat(list)
         /\ \A i \in DOMAIN list :
              check_heartbeat(pop_message(list, i)) \subseteq check_heartbeat(list)
<1>1. \A i \in DOMAIN list : list[i] \in NCNodeInfo
  OBVIOUS
<1>2. ASSUME NEW id
      PROVE  check_heartbeat(update_heartbeat(list, id)) \subseteq check_heartbeat(list)
  <2> DEFINE new == update_heartbeat(list, id)
  <2>1. /\ DOMAIN new = DOMAIN list
        /\ \A i \in DOMAIN list : new[i].node_id = list[i].node_id /\ (new[i].stale => list[i].stale)
    BY <1>1 DEF update_heartbeat, NCNodeInfo
  <2> HIDE DEF new
  <2>2. check_heartbeat(new) \subseteq check_heartbeat(list)
    BY <2>1, NoneStaler
  <2> QED BY <2>2 DEF new
<1>3. ASSUME NEW id, NEW message
      PROVE  check_heartbeat(add_message(list, message, id)) \subseteq check_heartbeat(list)
  <2> DEFINE new == add_message(list, message, id)
  <2>1. /\ DOMAIN new = DOMAIN list
        /\ \A i \in DOMAIN list : new[i].node_id = list[i].node_id /\ (new[i].stale => list[i].stale)
    BY <1>1 DEF add_message, NCNodeInfo
  <2> HIDE DEF new
  <2>2. check_heartbeat(new) \subseteq check_heartbeat(list)
    BY <2>1, NoneStaler
  <2> QED BY <2>2 DEF new
<1>4. ASSUME NEW message
      PROVE  check_heartbeat(add_message_all(list, message)) \subseteq check_heartbeat(list)
  <2> DEFINE new == add_message_all(list, message)
  <2>1. /\ DOMAIN new = DOMAIN list
        /\ \A i \in DOMAIN list : new[i].node_id = list[i].node_id /\ (new[i].stale => list[i].stale)
    BY <1>1 DEF add_message_all, NCNodeInfo
  <2> HIDE DEF new
  <2>2. check_heartbeat(new) \subseteq check_heartbeat(list)
    BY <2>1, NoneStaler
  <2> QED BY <2>2 DEF new
<1>5. ASSUME NEW i \in DOMAIN list
      PROVE  check_heartbeat(pop_message(list, i)) \subseteq check_heartbeat(list)
  <2> DEFINE new == pop_message(list, i)
  <2>1. /\ DOMAIN new = DOMAIN list
        /\ \A j \in DOMAIN list : new[j].node_id = list[j].node_id /\ (new[j].stale => list[j].stale)
    BY <1>1 DEF pop_message, NCNodeInfo
  <2> HIDE DEF new
  <2>2. check_heartbeat(new) \subseteq check_heartbeat(list)
    BY <2>1, NoneStaler
  <2> QED BY <2>2 DEF new
<1> QED BY <1>2, <1>3, <1>4, <1>5
=============================================================================
