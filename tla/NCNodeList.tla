------------------------------ MODULE NCNodeList -----------------------------
(***************************************************************************)
(* The server's list of registered nodes (nc_node_info.rs): a sequence of  *)
(* entries, searched from the front.  Of an entry's time stamp only one    *)
(* bit matters, "stale": the stamp is older than the limit the check uses. *)
(***************************************************************************)
EXTENDS NCMessages, Sequences

CONSTANT QueueLimit     \* messages kept per node, 10 in the code

ASSUME QueueLimitAssumption == QueueLimit \in Nat \ {0}

NCNodeInfo == [node_id : NodeIDs, stale : BOOLEAN, message_queue : Seq(Messages)]

NewNodeInfo(id) == [node_id |-> id, stale |-> FALSE, message_queue |-> <<>>]

Ids(list) == {list[i].node_id : i \in DOMAIN list}

(* The entry a search for id stops at.                                     *)
IsFirst(list, i, id) ==
  /\ i \in DOMAIN list
  /\ list[i].node_id = id
  /\ \A j \in DOMAIN list : list[j].node_id = id => i <= j

(* Mutant: one message too many fits.                                      *)
enqueue_one_more(queue, message) ==
  LET longer == Append(queue, message)
  IN  IF Len(longer) > QueueLimit + 1 THEN Tail(longer) ELSE longer

(* Mutant: a full queue takes no more messages.                            *)
enqueue_until_full(queue, message) ==
  IF Len(queue) >= QueueLimit THEN queue ELSE Append(queue, message)

(* push() with a queue at its limit forgets the oldest message.            *)
enqueue(queue, message) ==
  LET longer == Append(queue, message)
  IN  IF Len(longer) > QueueLimit THEN Tail(longer) ELSE longer

(* register_new_node() draws ids until one is not in the list.             *)
register_new_node(list, id) == Append(list, NewNodeInfo(id))

(* migrate_node() takes the id as it comes.                                *)
migrate_node(list, id) == Append(list, NewNodeInfo(id))

update_heartbeat(list, id) ==
  [i \in DOMAIN list |->
     IF IsFirst(list, i, id) THEN [list[i] EXCEPT !.stale = FALSE] ELSE list[i]]

add_message(list, message, id) ==
  [i \in DOMAIN list |->
     IF IsFirst(list, i, id)
     THEN [list[i] EXCEPT !.message_queue = enqueue(@, message)] ELSE list[i]]

add_message_all(list, message) ==
  [i \in DOMAIN list |->
     [list[i] EXCEPT !.message_queue = enqueue(@, message)]]

(* get_message() pops the front of entry i's queue.                        *)
pop_message(list, i) == [list EXCEPT ![i].message_queue = Tail(@)]

(* Mutant: the last entry goes instead.                                    *)
remove_last(list, i) == [j \in 1 .. Len(list) - 1 |-> list[j]]

(* Vec::swap_remove(i): the last entry takes the place of the removed one. *)
swap_remove(list, i) ==
  [j \in 1 .. Len(list) - 1 |-> IF j = i THEN list[Len(list)] ELSE list[j]]

(* Mutant: the age of the time stamps is not looked at.                    *)
check_heartbeat_everyone(list) == Ids(list)

check_heartbeat(list) ==
  {list[i].node_id : i \in {j \in DOMAIN list : list[j].stale}}
=============================================================================
