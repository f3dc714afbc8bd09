--------------------------- MODULE MailboxProofs ----------------------------
(***************************************************************************)
(* Proofs about Mailboxes: for any nodes, streams, messages and queue      *)
(* limit, what a node gets comes in order, nothing is missing without a    *)
(* reason, and list, queues and streams together are the mailboxes of      *)
(* MailboxSpec.  The inductive invariant Inv speaks of each node's         *)
(* messages as sets: what it has got, what is on the way to it, what waits *)
(* in its queue and what has been addressed to it.                         *)
(***************************************************************************)
EXTENDS Mailboxes, NodeListLemmas, FiniteSetTheorems

-----------------------------------------------------------------------------
(* The node list, seen as a queue for each id on it.                       *)

(* No id is on the list twice.                                             *)
Distinct(list) ==
  \A i, j \in DOMAIN list : list[i].node_id = list[j].node_id => i = j

QueueIn(list, id) == list[CHOOSE i \in DOMAIN list : IsFirst(list, i, id)].message_queue

(* A search for an id stops at its entry.                                  *)
LEMMA QueueOfEntry ==
  ASSUME NEW list \in Seq(NCNodeInfo), Distinct(list), NEW i \in DOMAIN list
  PROVE  /\ IsFirst(list, i, list[i].node_id)
         /\ QueueIn(list, list[i].node_id) = list[i].message_queue
<1>1. IsFirst(list, i, list[i].node_id)
  <2>1. i \in 1 .. Len(list) /\ Len(list) \in Nat OBVIOUS
  <2>2. \A j \in DOMAIN list : list[j].node_id = list[i].node_id => j = i BY DEF Distinct
  <2> QED BY <2>1, <2>2 DEF IsFirst
<1>2. \A j \in DOMAIN list : IsFirst(list, j, list[i].node_id) => j = i
  BY DEF IsFirst, Distinct
<1>3. (CHOOSE j \in DOMAIN list : IsFirst(list, j, list[i].node_id)) = i BY <1>1, <1>2
<1> QED BY <1>1, <1>3 DEF QueueIn

(* And it finds everyone.                                                  *)
LEMMA EntryOfId ==
  ASSUME NEW list \in Seq(NCNodeInfo), Distinct(list), NEW id \in Ids(list)
  PROVE  /\ \E i \in DOMAIN list :
              /\ IsFirst(list, i, id) /\ list[i].node_id = id
              /\ QueueIn(list, id) = list[i].message_queue
         /\ id \in NodeIDs
         /\ QueueIn(list, id) \in Seq(Messages)
<1>1. PICK i \in DOMAIN list : list[i].node_id = id BY DEF Ids
<1>2. IsFirst(list, i, id) /\ QueueIn(list, id) = list[i].message_queue
  BY <1>1, QueueOfEntry
<1>3. list[i] \in NCNodeInfo BY <1>1
<1> QED BY <1>1, <1>2, <1>3 DEF NCNodeInfo

(* An operation that changes entries in place changes nobody's place.      *)
LEMMA InPlace ==
  ASSUME NEW list \in Seq(NCNodeInfo), NEW new \in Seq(NCNodeInfo), Distinct(list),
         Len(new) = Len(list), \A i \in DOMAIN list : new[i].node_id = list[i].node_id
  PROVE  /\ Distinct(new) /\ Ids(new) = Ids(list)
         /\ \A i \in DOMAIN list : QueueIn(new, list[i].node_id) = new[i].message_queue
<1>1. DOMAIN new = DOMAIN list OBVIOUS
<1>2. Distinct(new) BY <1>1 DEF Distinct
<1>3. Ids(new) = Ids(list) BY <1>1 DEF Ids
<1>4. \A i \in DOMAIN list : QueueIn(new, new[i].node_id) = new[i].message_queue
  BY <1>1, <1>2, QueueOfEntry
<1> QED BY <1>2, <1>3, <1>4

(* Who is new has an empty queue.                                          *)
LEMMA Enlisted ==
  ASSUME NEW list \in Seq(NCNodeInfo), Distinct(list), NEW id \in NodeIDs, id \notin Ids(list),
         NEW new, new = register_new_node(list, id)
  PROVE  /\ new \in Seq(NCNodeInfo) /\ Distinct(new) /\ Ids(new) = Ids(list) \cup {id}
         /\ QueueIn(new, id) = <<>>
         /\ \A other \in Ids(list) : QueueIn(new, other) = QueueIn(list, other)
<1> DEFINE n == Len(list)
<1>1. /\ n \in Nat /\ DOMAIN list = 1 .. n
      /\ \A i \in 1 .. n : list[i] \in NCNodeInfo OBVIOUS
<1>2. NewNodeInfo(id) \in NCNodeInfo BY DEF NewNodeInfo, NCNodeInfo
<1>3. /\ new \in Seq(NCNodeInfo) /\ DOMAIN new = 1 .. n + 1
      /\ new[n + 1] = NewNodeInfo(id) /\ \A i \in 1 .. n : new[i] = list[i]
  BY <1>2 DEF register_new_node
<1>4. new[n + 1].node_id = id /\ new[n + 1].message_queue = <<>> BY <1>3 DEF NewNodeInfo
<1>5. \A i \in 1 .. n : new[i].node_id \in Ids(list) BY <1>1, <1>3 DEF Ids
<1> HIDE DEF n
<1>6. \A i \in DOMAIN new : i \in 1 .. n \/ i = n + 1 BY <1>1, <1>3
<1>7. Distinct(new)
  <2> SUFFICES ASSUME NEW i \in DOMAIN new, NEW j \in DOMAIN new,
                      new[i].node_id = new[j].node_id
               PROVE  i = j BY DEF Distinct
  <2>1. CASE i \in 1 .. n /\ j \in 1 .. n BY <1>1, <1>3, <2>1 DEF Distinct
  <2>2. CASE i = n + 1 \/ j = n + 1 BY <1>4, <1>5, <1>6, <2>2
  <2> QED BY <1>6, <2>1, <2>2
<1>8. Ids(new) = Ids(list) \cup {id}
  <2>1. n + 1 \in DOMAIN new /\ \A i \in 1 .. n : i \in DOMAIN new BY <1>1, <1>3
  <2> QED BY <1>1, <1>3, <1>4, <1>6, <2>1 DEF Ids
<1>9. QueueIn(new, id) = <<>>
  <2>1. n + 1 \in DOMAIN new BY <1>1, <1>3
  <2> QED BY <1>3, <1>4, <1>7, <2>1, QueueOfEntry
<1>10. ASSUME NEW other \in Ids(list) PROVE QueueIn(new, other) = QueueIn(list, other)
  <2>1. PICK i \in 1 .. n : list[i].node_id = other BY <1>1 DEF Ids
  <2>2. i \in DOMAIN new BY <1>1, <1>3
  <2>3. QueueIn(list, other) = list[i].message_queue BY <1>1, <2>1, QueueOfEntry
  <2>4. QueueIn(new, other) = new[i].message_queue BY <1>3, <1>7, <2>1, <2>2, QueueOfEntry
  <2> QED BY <1>3, <2>3, <2>4
<1> QED BY <1>3, <1>7, <1>8, <1>9, <1>10

(* Who leaves takes nobody's queue along.                                  *)
LEMMA Removed ==
  ASSUME NEW list \in Seq(NCNodeInfo), Distinct(list), NEW i \in DOMAIN list,
         NEW new, new = swap_remove(list, i)
  PROVE  /\ new \in Seq(NCNodeInfo) /\ Distinct(new)
         /\ Ids(new) = Ids(list) \ {list[i].node_id}
         /\ \A other \in Ids(new) : QueueIn(new, other) = QueueIn(list, other)
<1> DEFINE n == Len(list)
           At0(j) == IF j = i THEN n ELSE j
<1>1. /\ n \in Nat /\ DOMAIN list = 1 .. n /\ i \in 1 .. n
      /\ \A j \in 1 .. n : list[j] \in NCNodeInfo OBVIOUS
<1>2. /\ new = [j \in 1 .. n - 1 |-> new[j]]
      /\ \A j \in 1 .. n - 1 : new[j] = list[At0(j)]
  <2>1. new = [j \in 1 .. n - 1 |-> IF j = i THEN list[n] ELSE list[j]] BY DEF swap_remove
  <2>2. \A j \in 1 .. n - 1 : new[j] = IF j = i THEN list[n] ELSE list[j] BY <2>1
  <2> HIDE DEF n
  <2> QED BY <2>1, <2>2
<1> HIDE DEF n
<1>3. n - 1 \in Nat /\ \A j \in 1 .. n - 1 : At0(j) \in 1 .. n \ {i} BY <1>1
<1>4. \A j, l \in 1 .. n - 1 : At0(j) = At0(l) => j = l BY <1>1
<1>5. ASSUME NEW j \in 1 .. n \ {i} PROVE \E l \in 1 .. n - 1 : At0(l) = j
  <2>1. CASE j = n
    <3>1. i \in 1 .. n - 1 BY <1>1, <2>1
    <3> QED BY <2>1, <3>1
  <2>2. CASE j # n
    <3>1. j \in 1 .. n - 1 BY <1>1, <2>2
    <3> QED BY <3>1
  <2> QED BY <2>1, <2>2
<1>6. new \in [1 .. n - 1 -> NCNodeInfo]
  BY <1>1, <1>2, <1>3
<1>7. new \in Seq(NCNodeInfo) /\ DOMAIN new = 1 .. n - 1 BY <1>3, <1>6
<1>8. \A j \in 1 .. n - 1 : new[j] = list[At0(j)] BY <1>2
<1> HIDE DEF At0
<1>9. Distinct(new) BY <1>1, <1>3, <1>4, <1>7, <1>8 DEF Distinct
<1>10. Ids(new) = Ids(list) \ {list[i].node_id}
  <2>1. ASSUME NEW j \in DOMAIN new PROVE new[j].node_id \in Ids(list) \ {list[i].node_id}
    <3>1. At0(j) \in 1 .. n \ {i} /\ new[j] = list[At0(j)] BY <1>3, <1>7, <1>8
    <3>2. list[At0(j)].node_id # list[i].node_id BY <1>1, <3>1 DEF Distinct
    <3> QED BY <1>1, <3>1, <3>2 DEF Ids
  <2>2. ASSUME NEW j \in DOMAIN list, list[j].node_id # list[i].node_id
        PROVE  list[j].node_id \in Ids(new)
    <3>1. PICK l \in 1 .. n - 1 : At0(l) = j BY <1>1, <1>5, <2>2
    <3> QED BY <1>7, <1>8, <3>1 DEF Ids
  <2> QED BY <2>1, <2>2 DEF Ids
<1>11. ASSUME NEW other \in Ids(new) PROVE QueueIn(new, other) = QueueIn(list, other)
  <2>1. PICK j \in DOMAIN new : new[j].node_id = other BY DEF Ids
  <2>2. At0(j) \in DOMAIN list /\ new[j] = list[At0(j)] BY <1>1, <1>3, <1>7, <1>8
  <2>3. QueueIn(new, other) = new[j].message_queue BY <1>7, <1>9, <2>1, QueueOfEntry
  <2>4. QueueIn(list, other) = list[At0(j)].message_queue BY <2>1, <2>2, QueueOfEntry
  <2> QED BY <2>2, <2>3, <2>4
<1> QED BY <1>7, <1>9, <1>10, <1>11

(* One queue loses its first message.                                      *)
LEMMA Popped ==
  ASSUME NEW list \in Seq(NCNodeInfo), Distinct(list), NEW i \in DOMAIN list,
         list[i].message_queue # <<>>, NEW new, new = pop_message(list, i)
  PROVE  /\ new \in Seq(NCNodeInfo) /\ Distinct(new) /\ Ids(new) = Ids(list)
         /\ \A other \in Ids(list) : QueueIn(new, other) =
              IF other = list[i].node_id THEN Tail(list[i].message_queue)
              ELSE QueueIn(list, other)
<1>1. \A j \in DOMAIN list : list[j] \in NCNodeInfo OBVIOUS
<1>2. new \in Seq(NCNodeInfo) /\ Len(new) = Len(list) BY PopMessageType, PopMessageLength
<1>3. \A j \in DOMAIN list :
        /\ new[j].node_id = list[j].node_id
        /\ new[j].message_queue = IF j = i THEN Tail(list[i].message_queue)
                                  ELSE list[j].message_queue
  BY <1>1 DEF pop_message, NCNodeInfo
<1>4. /\ Distinct(new) /\ Ids(new) = Ids(list)
      /\ \A j \in DOMAIN list : QueueIn(new, list[j].node_id) = new[j].message_queue
  BY <1>2, <1>3, InPlace
<1>5. ASSUME NEW other \in Ids(list)
      PROVE  QueueIn(new, other) = IF other = list[i].node_id THEN Tail(list[i].message_queue)
                                   ELSE QueueIn(list, other)
  <2>1. PICK j \in DOMAIN list : list[j].node_id = other BY DEF Ids
  <2>2. QueueIn(new, other) = new[j].message_queue BY <1>4, <2>1
  <2>3. QueueIn(list, other) = list[j].message_queue BY <2>1, QueueOfEntry
  <2>4. j = i <=> other = list[i].node_id BY <2>1 DEF Distinct
  <2> QED BY <1>3, <2>2, <2>3, <2>4
<1> QED BY <1>2, <1>4, <1>5

(* Those a message is for have it in their queue, the others have not.     *)
LEMMA Added ==
  ASSUME NEW list \in Seq(NCNodeInfo), Distinct(list), NEW message \in Messages,
         NEW destination \in NodeIDs \cup {None}, NEW new,
         new = IF destination = None THEN add_message_all(list, message)
               ELSE add_message(list, message, destination)
  PROVE  /\ new \in Seq(NCNodeInfo) /\ Distinct(new) /\ Ids(new) = Ids(list)
         /\ \A other \in Ids(list) : QueueIn(new, other) =
              IF destination \in {other, None} THEN enqueue(QueueIn(list, other), message)
              ELSE QueueIn(list, other)
<1>1. \A j \in DOMAIN list : list[j] \in NCNodeInfo OBVIOUS
<1>2. new \in Seq(NCNodeInfo) /\ Len(new) = Len(list) BY MessageQueueTypes, ListLengths
<1>3. \A j \in DOMAIN list : IsFirst(list, j, destination) <=> list[j].node_id = destination
  BY QueueOfEntry DEF IsFirst
<1>4. \A j \in DOMAIN list :
        /\ new[j].node_id = list[j].node_id
        /\ new[j].message_queue =
             IF destination \in {list[j].node_id, None} THEN enqueue(list[j].message_queue, message)
             ELSE list[j].message_queue
  <2>1. CASE destination = None BY <1>1, <2>1 DEF add_message_all, NCNodeInfo
  <2>2. CASE destination # None BY <1>1, <1>3, <2>2 DEF add_message, NCNodeInfo
  <2> QED BY <2>1, <2>2
<1>5. /\ Distinct(new) /\ Ids(new) = Ids(list)
      /\ \A j \in DOMAIN list : QueueIn(new, list[j].node_id) = new[j].message_queue
  BY <1>2, <1>4, InPlace
<1>6. ASSUME NEW other \in Ids(list)
      PROVE  QueueIn(new, other) =
               IF destination \in {other, None} THEN enqueue(QueueIn(list, other), message)
               ELSE QueueIn(list, other)
  <2>1. PICK j \in DOMAIN list : list[j].node_id = other BY DEF Ids
  <2>2. QueueIn(new, other) = new[j].message_queue BY <1>5, <2>1
  <2>3. QueueIn(list, other) = list[j].message_queue BY <2>1, QueueOfEntry
  <2> QED BY <1>4, <2>1, <2>2, <2>3
<1> QED BY <1>2, <1>5, <1>6

-----------------------------------------------------------------------------
(* The inductive invariant.                                                *)

(* Slot k has a message for node id.                                       *)
Carries(k, id) ==
  stream[k] # None /\ stream[k].open /\ stream[k].node_id = id /\ stream[k].step = "message"

(* Who is on the list is here, and on its way here is nobody from the      *)
(* list.                                                                   *)
ListInv ==
  /\ Distinct(node_list)
  /\ \A id \in Ids(node_list) : place[id] = "here" /\ id \notin migrating
  /\ \A id \in migrating : place[id] = "here"

(* A node reads from one stream at most, and who is told to leave is on    *)
(* the list no more.                                                       *)
StreamInv ==
  \A k \in Streams : stream[k] # None =>
    /\ stream[k].open =>
         /\ place[stream[k].node_id] = "here"
         /\ \A j \in OpenStreams(stream[k].node_id) : j = k
    /\ stream[k].step \in {"message", "new_server"} => stream[k].open
    /\ stream[k].step = "new_server" => stream[k].node_id \notin Ids(node_list) \cup migrating
    /\ stream[k].step = "message" => stream[k].message \in Messages

Before(S, T) == \A a \in S, b \in T : a < b

(* Where a message is, or why it is nowhere.                               *)
Explained(id, message) ==
  \/ message \in Got(id) \cup OnTheWay(id) \cup Waiting(id) \cup lost[id]
  \/ Cardinality({newer \in addressed[id] : newer > message}) >= QueueLimit

(* What a node has got, is to get next and will get, in this order.        *)
OrderInv(id) ==
  /\ Increasing(received[id])
  /\ Before(Got(id), OnTheWay(id))
  /\ \A message \in Got(id) \cup OnTheWay(id) \cup addressed[id] : message <= posted
  /\ id \in Ids(node_list) =>
       /\ Increasing(Queue(id))
       /\ Before(Got(id) \cup OnTheWay(id), Waiting(id))
       /\ Waiting(id) \subseteq addressed[id]
       /\ \A message \in addressed[id] : Explained(id, message)

Inv == TypeOK /\ ListInv /\ StreamInv /\ \A id \in NodeIDs : OrderInv(id)

(* What a sequence holds.                                                  *)
Elems(s) == {s[i] : i \in DOMAIN s}

(* The rest of an increasing queue is newer than its head.                 *)
LEMMA TailOfIncreasing ==
  ASSUME NEW s \in Seq(Messages), s # <<>>, Increasing(s)
  PROVE  /\ Tail(s) \in Seq(Messages) /\ Head(s) \in Messages
         /\ Len(Tail(s)) = Len(s) - 1
         /\ Increasing(Tail(s))
         /\ Elems(s) = Elems(Tail(s)) \cup {Head(s)}
         /\ \A m \in Elems(Tail(s)) : Head(s) < m
<1> DEFINE n == Len(s)
           t == Tail(s)
<1>1. /\ n \in Nat /\ n >= 1 /\ DOMAIN s = 1 .. n
      /\ t \in Seq(Messages) /\ Len(t) = n - 1 /\ DOMAIN t = 1 .. n - 1
      /\ Head(s) = s[1] /\ \A i \in 1 .. n - 1 : t[i] = s[i + 1]
      /\ Head(s) \in Messages
  OBVIOUS
<1> HIDE DEF n, t
<1>2. \A i \in 1 .. n - 1 : i + 1 \in 1 .. n /\ 1 \in 1 .. n /\ 1 < i + 1 BY <1>1
<1>3. Increasing(t)
  <2> SUFFICES ASSUME NEW i \in 1 .. n - 1, NEW j \in 1 .. n - 1, i < j PROVE t[i] < t[j]
    BY <1>1 DEF Increasing
  <2>1. i + 1 \in 1 .. n /\ j + 1 \in 1 .. n /\ i + 1 < j + 1 BY <1>1
  <2>2. s[i + 1] < s[j + 1] BY <1>1, <2>1 DEF Increasing
  <2> QED BY <1>1, <2>2
<1>4. Elems(s) = Elems(t) \cup {Head(s)}
  <2>1. \A i \in 1 .. n : i = 1 \/ (i - 1 \in 1 .. n - 1 /\ i = (i - 1) + 1) BY <1>1
  <2>2. \A i \in 1 .. n : s[i] \in Elems(t) \cup {Head(s)}
    <3> SUFFICES ASSUME NEW i \in 1 .. n, i # 1 PROVE s[i] \in Elems(t) BY <1>1
    <3>1. i - 1 \in 1 .. n - 1 /\ t[i - 1] = s[(i - 1) + 1] BY <1>1, <2>1
    <3> QED BY <1>1, <2>1, <3>1 DEF Elems
  <2>3. Elems(t) \subseteq Elems(s) BY <1>1, <1>2 DEF Elems
  <2>4. Head(s) \in Elems(s) BY <1>1 DEF Elems
  <2>5. Elems(s) \subseteq Elems(t) \cup {Head(s)} BY <1>1, <2>2 DEF Elems
  <2> QED BY <2>3, <2>4, <2>5
<1>5. \A m \in Elems(t) : Head(s) < m BY <1>1, <1>2 DEF Increasing, Elems
<1> QED BY <1>1, <1>3, <1>4, <1>5 DEF n, t

(* A newer message goes to the end.                                        *)
LEMMA AppendToIncreasing ==
  ASSUME NEW s \in Seq(Messages), NEW m \in Messages, Increasing(s),
         \A a \in Elems(s) : a < m
  PROVE  /\ Append(s, m) \in Seq(Messages) /\ Len(Append(s, m)) = Len(s) + 1
         /\ Append(s, m) # <<>>
         /\ Increasing(Append(s, m))
         /\ Elems(Append(s, m)) = Elems(s) \cup {m}
<1> DEFINE n == Len(s)
           t == Append(s, m)
<1>1. /\ n \in Nat /\ DOMAIN s = 1 .. n
      /\ t \in Seq(Messages) /\ Len(t) = n + 1 /\ DOMAIN t = 1 .. n + 1
      /\ t[n + 1] = m /\ \A i \in 1 .. n : t[i] = s[i]
  OBVIOUS
<1>2. t # <<>>
  <2>1. Len(<<>>) = 0 OBVIOUS
  <2> HIDE DEF t
  <2> QED BY <1>1, <2>1
<1> HIDE DEF n, t
<1>3. \A i \in 1 .. n + 1 : i \in 1 .. n \/ i = n + 1 BY <1>1
<1>4. \A i \in 1 .. n : i \in 1 .. n + 1 /\ ~ n + 1 < i BY <1>1
<1>5. n + 1 \in 1 .. n + 1 /\ ~ n + 1 < n + 1 BY <1>1
<1>6. \A i \in 1 .. n : s[i] < m BY <1>1 DEF Elems
<1>7. Increasing(t)
  <2> SUFFICES ASSUME NEW i \in 1 .. n + 1, NEW j \in 1 .. n + 1, i < j PROVE t[i] < t[j]
    BY <1>1 DEF Increasing
  <2>1. i \in 1 .. n BY <1>1
  <2>2. CASE j \in 1 .. n BY <1>1, <2>1, <2>2 DEF Increasing
  <2>3. CASE j = n + 1 BY <1>1, <1>6, <2>1, <2>3
  <2> QED BY <1>3, <2>2, <2>3
<1>8. Elems(t) = Elems(s) \cup {m} BY <1>1, <1>3, <1>4, <1>5 DEF Elems
<1> QED BY <1>1, <1>2, <1>7, <1>8 DEF n, t

(* An increasing sequence has as many elements as its length says.         *)
LEMMA IncreasingCardinality ==
  ASSUME NEW s \in Seq(Messages), Increasing(s)
  PROVE  IsFiniteSet(Elems(s)) /\ Cardinality(Elems(s)) = Len(s)
<1> DEFINE n == Len(s)
<1>1. /\ n \in Nat /\ DOMAIN s = 1 .. n /\ s \in [1 .. n -> Messages] OBVIOUS
<1>2. s \in Bijection(1 .. n, Elems(s))
  <2>1. s \in [1 .. n -> Elems(s)]
    <3>1. \A i \in 1 .. n : s[i] \in Elems(s) BY <1>1 DEF Elems
    <3> QED BY <1>1, <3>1
  <2>2. \A i, j \in 1 .. n : i # j => s[i] # s[j]
    <3> SUFFICES ASSUME NEW i \in 1 .. n, NEW j \in 1 .. n, i # j PROVE s[i] # s[j] OBVIOUS
    <3>1. s[i] \in Nat /\ s[j] \in Nat BY <1>1, MailboxesAssumption
    <3>2. i < j \/ j < i BY <1>1
    <3>3. i < j => s[i] < s[j] BY <1>1 DEF Increasing
    <3>4. j < i => s[j] < s[i] BY <1>1 DEF Increasing
    <3> HIDE DEF n
    <3> QED BY <3>1, <3>2, <3>3, <3>4
  <2>3. \A m \in Elems(s) : \E i \in 1 .. n : s[i] = m BY <1>1 DEF Elems
  <2> HIDE DEF n
  <2> QED BY <2>1, <2>2, <2>3 DEF Bijection, Injection, Surjection, IsInjective
<1>3. IsFiniteSet(1 .. n) /\ Cardinality(1 .. n) = n BY <1>1, FS_Interval
<1>4. ExistsBijection(1 .. n, Elems(s)) BY <1>2 DEF ExistsBijection
<1> HIDE DEF n
<1> QED BY <1>3, <1>4, FS_Bijection, FS_CountingElements DEF n

(* A queue at its limit forgets its oldest message, and all the others     *)
(* are newer than that one.                                                *)
LEMMA Enqueued ==
  ASSUME NEW q \in Seq(Messages), NEW m \in Messages, Increasing(q),
         \A a \in Elems(q) : a < m, Len(q) <= QueueLimit,
         NEW new, new = enqueue(q, m)
  PROVE  /\ new \in Seq(Messages) /\ Len(new) <= QueueLimit
         /\ Increasing(new)
         /\ Elems(new) \subseteq Elems(q) \cup {m}
         /\ \A a \in Elems(q) \cup {m} :
              \/ a \in Elems(new)
              \/ Len(new) = QueueLimit /\ \A b \in Elems(new) : a < b
<1> DEFINE longer == Append(q, m)
<1>1. QueueLimit \in Nat \ {0} BY QueueLimitAssumption
<1>2. /\ longer \in Seq(Messages) /\ Len(longer) = Len(q) + 1 /\ longer # <<>>
      /\ Increasing(longer) /\ Elems(longer) = Elems(q) \cup {m}
  BY AppendToIncreasing
<1>3. Len(q) \in Nat OBVIOUS
<1>4. new = IF Len(longer) > QueueLimit THEN Tail(longer) ELSE longer BY DEF enqueue
<1> HIDE DEF longer
<1>5. CASE Len(longer) > QueueLimit
  <2>1. Len(longer) = QueueLimit + 1 BY <1>1, <1>2, <1>3, <1>5
  <2>2. /\ Tail(longer) \in Seq(Messages) /\ Len(Tail(longer)) = Len(longer) - 1
        /\ Increasing(Tail(longer))
        /\ Elems(longer) = Elems(Tail(longer)) \cup {Head(longer)}
        /\ \A b \in Elems(Tail(longer)) : Head(longer) < b
    BY <1>2, TailOfIncreasing
  <2>3. Len(new) = QueueLimit BY <1>1, <1>4, <1>5, <2>1, <2>2
  <2>4. new = Tail(longer) BY <1>4, <1>5
  <2> QED BY <1>1, <1>2, <2>2, <2>3, <2>4
<1>6. CASE ~ Len(longer) > QueueLimit
  <2>1. new = longer /\ Len(new) <= QueueLimit BY <1>1, <1>2, <1>3, <1>4, <1>6
  <2> QED BY <1>2, <2>1
<1> QED BY <1>5, <1>6

-----------------------------------------------------------------------------
(* What a step changes, and what it does not.                              *)

(* A queue is within its limit if all queues are.                          *)
LEMMA QueuesWithinLimit ==
  ASSUME NEW list \in Seq(NCNodeInfo), Distinct(list)
  PROVE  (\A i \in DOMAIN list : Len(list[i].message_queue) <= QueueLimit)
           <=> (\A id \in Ids(list) : Len(QueueIn(list, id)) <= QueueLimit)
<1>1. \A i \in DOMAIN list : list[i].node_id \in Ids(list) BY DEF Ids
<1>2. \A id \in Ids(list) : \E i \in DOMAIN list : list[i].node_id = id BY DEF Ids
<1>3. \A i \in DOMAIN list : QueueIn(list, list[i].node_id) = list[i].message_queue
  BY QueueOfEntry
<1> QED BY <1>1, <1>2, <1>3

(* At most one message is on the way to a node.                            *)
LEMMA WayIs ==
  ASSUME StreamInv, NEW id
  PROVE  /\ \A k \in Streams : Carries(k, id) => OnTheWay(id) = {stream[k].message}
         /\ \A k \in Streams : stream[k] # None /\ stream[k].open /\ stream[k].node_id = id
                               /\ stream[k].step # "message" => OnTheWay(id) = {}
         /\ (\A k \in Streams : ~ Carries(k, id)) => OnTheWay(id) = {}
         /\ OpenStreams(id) = {} => OnTheWay(id) = {}
<1>1. ASSUME NEW k \in Streams, stream[k] # None, stream[k].open, stream[k].node_id = id
      PROVE  OpenStreams(id) = {k}
  BY <1>1 DEF StreamInv, OpenStreams
<1>2. \A k \in Streams : Carries(k, id) => OnTheWay(id) = {stream[k].message}
  BY <1>1 DEF Carries, OnTheWay
<1>3. \A k \in Streams : stream[k] # None /\ stream[k].open /\ stream[k].node_id = id
                         /\ stream[k].step # "message" => OnTheWay(id) = {}
  BY <1>1 DEF OnTheWay
<1>4. (\A k \in Streams : ~ Carries(k, id)) => OnTheWay(id) = {}
  BY DEF Carries, OnTheWay, OpenStreams
<1>5. OpenStreams(id) = {} => OnTheWay(id) = {} BY DEF OnTheWay
<1> QED BY <1>2, <1>3, <1>4, <1>5

(* What is on the way stays so as long as the streams carry the same.      *)
LEMMA WayKept ==
  ASSUME NEW id,
         \A k \in Streams : /\ Carries(k, id)' <=> Carries(k, id)
                            /\ Carries(k, id) => stream'[k].message = stream[k].message
  PROVE  OnTheWay(id)' = OnTheWay(id)
<1>1. OnTheWay(id) = {stream[k].message : k \in {j \in Streams : Carries(j, id)}}
  BY DEF OnTheWay, OpenStreams, Carries
<1>2. OnTheWay(id)' = {stream'[k].message : k \in {j \in Streams : Carries(j, id)'}}
  BY DEF OnTheWay, OpenStreams, Carries
<1> QED BY <1>1, <1>2

(* A node nothing happens to.                                              *)
LEMMA OrderKept ==
  ASSUME NEW id \in NodeIDs, OrderInv(id), posted' = posted, addressed'[id] = addressed[id],
         received'[id] = received[id], OnTheWay(id)' = OnTheWay(id), lost[id] \subseteq lost'[id],
         id \in Ids(node_list') => /\ id \in Ids(node_list)
                                   /\ QueueIn(node_list', id) = QueueIn(node_list, id)
  PROVE  OrderInv(id)'
<1>1. Got(id)' = Got(id) BY DEF Got
<1>2. id \in Ids(node_list)' => /\ id \in Ids(node_list)
                                /\ Queue(id)' = Queue(id) /\ Waiting(id)' = Waiting(id)
  BY DEF Queue, QueueIn, Waiting
<1>3. \A message : id \in Ids(node_list)' /\ Explained(id, message) => Explained(id, message)'
  BY <1>1, <1>2 DEF Explained
<1> QED BY <1>1, <1>2, <1>3 DEF OrderInv

(* Streams, one of which has changed.                                      *)
LEMMA StreamsKept ==
  ASSUME StreamInv, NEW k \in Streams,
         \A j \in Streams \ {k} :
           /\ stream'[j] = stream[j]
           /\ stream[j] # None =>
                /\ stream[j].open => place'[stream[j].node_id] = "here"
                /\ stream[j].step = "new_server" =>
                     stream[j].node_id \notin Ids(node_list') \cup migrating',
         stream'[k] # None =>
           /\ stream'[k].open =>
                /\ place'[stream'[k].node_id] = "here"
                /\ \A j \in Streams \ {k} : stream[j] # None /\ stream[j].open =>
                     stream[j].node_id # stream'[k].node_id
           /\ stream'[k].step \in {"message", "new_server"} => stream'[k].open
           /\ stream'[k].step = "new_server" =>
                stream'[k].node_id \notin Ids(node_list') \cup migrating'
           /\ stream'[k].step = "message" => stream'[k].message \in Messages
  PROVE  StreamInv'
<1> SUFFICES ASSUME NEW j \in Streams, stream'[j] # None
             PROVE  /\ stream'[j].open =>
                         /\ place'[stream'[j].node_id] = "here"
                         /\ \A l \in Streams : stream'[l] # None /\ stream'[l].open
                              /\ stream'[l].node_id = stream'[j].node_id => l = j
                    /\ stream'[j].step \in {"message", "new_server"} => stream'[j].open
                    /\ stream'[j].step = "new_server" =>
                         stream'[j].node_id \notin Ids(node_list') \cup migrating'
                    /\ stream'[j].step = "message" => stream'[j].message \in Messages
  BY DEF StreamInv, OpenStreams
<1>1. CASE j = k BY <1>1
<1>2. CASE j # k
  <2>1. stream'[j] = stream[j] BY <1>2
  <2>2. ASSUME stream[j].open, NEW l \in Streams, stream'[l] # None, stream'[l].open,
               stream'[l].node_id = stream[j].node_id
        PROVE  l = j
    <3>1. l # k BY <1>2, <2>1, <2>2
    <3>2. stream'[l] = stream[l] BY <3>1
    <3> QED BY <2>1, <2>2, <3>2 DEF StreamInv, OpenStreams
  <2> QED BY <1>2, <2>1, <2>2 DEF StreamInv
<1> QED BY <1>1, <1>2

(* No stream has changed.                                                  *)
LEMMA SameStreams ==
  ASSUME StreamInv, stream' = stream,
         \A j \in Streams : stream[j] # None =>
           /\ stream[j].open => place'[stream[j].node_id] = "here"
           /\ stream[j].step = "new_server" =>
                stream[j].node_id \notin Ids(node_list') \cup migrating'
  PROVE  StreamInv' /\ \A id : OnTheWay(id)' = OnTheWay(id)
<1>1. \A id : OnTheWay(id)' = OnTheWay(id) BY DEF OnTheWay, OpenStreams
<1>2. StreamInv' BY DEF StreamInv, OpenStreams
<1> QED BY <1>1, <1>2

(* The old streams, seen from slot k.                                      *)
LEMMA OpenElsewhere ==
  ASSUME StreamInv, NEW k \in Streams, stream[k] # None, stream[k].open
  PROVE  \A j \in Streams \ {k} : stream[j] # None /\ stream[j].open =>
           stream[j].node_id # stream[k].node_id
BY DEF StreamInv, OpenStreams

(* Fields of a stream that a step replaces.                                *)
LEMMA StreamFields ==
  ASSUME NEW s \in Stream
  PROVE  /\ \A step \in {"request", "messages", "message", "new_server"},
               message \in Messages \cup {None} :
              [s EXCEPT !.step = step, !.message = message] \in Stream
         /\ \A step \in {"request", "messages", "message", "new_server"} :
              [s EXCEPT !.step = step] \in Stream
         /\ \A open \in BOOLEAN : [s EXCEPT !.open = open] \in Stream
<1>1. ASSUME NEW step \in {"request", "messages", "message", "new_server"},
             NEW message \in Messages \cup {None}
      PROVE  [s EXCEPT !.step = step, !.message = message] \in Stream BY DEF Stream
<1>2. ASSUME NEW step \in {"request", "messages", "message", "new_server"}
      PROVE  [s EXCEPT !.step = step] \in Stream BY DEF Stream
<1>3. ASSUME NEW open \in BOOLEAN PROVE [s EXCEPT !.open = open] \in Stream BY DEF Stream
<1> QED BY <1>1, <1>2, <1>3

-----------------------------------------------------------------------------
(* Each action keeps the invariant.                                        *)

(* A stream, or none, in one slot.                                         *)
LEMMA SlotSet ==
  ASSUME TypeOK, NEW k \in Streams, NEW v \in Stream \cup {None},
         stream' = [stream EXCEPT ![k] = v]
  PROVE  /\ stream' \in [Streams -> Stream \cup {None}]
         /\ stream'[k] = v
         /\ \A j \in Streams \ {k} : stream'[j] = stream[j]
BY DEF TypeOK

(* A slot that carries no message, before or after.                        *)
LEMMA NoMessageAt ==
  ASSUME NEW k \in Streams, \A j \in Streams \ {k} : stream'[j] = stream[j],
         NEW id, ~ Carries(k, id), ~ Carries(k, id)'
  PROVE  OnTheWay(id)' = OnTheWay(id)
<1>1. ASSUME NEW j \in Streams
      PROVE  /\ Carries(j, id)' <=> Carries(j, id)
             /\ Carries(j, id) => stream'[j].message = stream[j].message
  <2>1. CASE j = k BY <2>1
  <2>2. CASE j # k BY <2>2 DEF Carries
  <2> QED BY <2>1, <2>2
<1> QED BY <1>1, WayKept

(* Nothing is on the way any more when the slot that carried it is empty.  *)
LEMMA EmptiedAt ==
  ASSUME StreamInv, NEW k \in Streams, \A j \in Streams \ {k} : stream'[j] = stream[j],
         NEW id, Carries(k, id), ~ Carries(k, id)'
  PROVE  OnTheWay(id)' = {}
<1>1. ASSUME NEW j \in Streams, Carries(j, id)' PROVE FALSE
  <2>1. j # k BY <1>1
  <2>2. Carries(j, id) BY <1>1, <2>1 DEF Carries
  <2> QED BY <2>1, <2>2 DEF StreamInv, Carries, OpenStreams
<1> QED BY <1>1 DEF OnTheWay, OpenStreams, Carries

(* At first there is nobody and nothing.                                   *)
LEMMA MBInit == Init => Inv
<1> SUFFICES ASSUME Init PROVE Inv OBVIOUS
<1>1. TypeOK
  <2>1. node_list \in Seq(NCNodeInfo) /\ DOMAIN node_list = {} BY DEF Init
  <2>2. received \in [NodeIDs -> Seq(Messages)] BY DEF Init
  <2>3. lost \in [NodeIDs -> SUBSET Messages] /\ addressed \in [NodeIDs -> SUBSET Messages]
    BY DEF Init
  <2> QED BY <2>1, <2>2, <2>3 DEF Init, TypeOK
<1>2. Ids(node_list) = {} /\ Distinct(node_list) BY DEF Init, Ids, Distinct
<1>3. ListInv BY <1>2 DEF Init, ListInv
<1>4. StreamInv BY DEF Init, StreamInv
<1>5. ASSUME NEW id \in NodeIDs PROVE OrderInv(id)
  <2>1. OnTheWay(id) = {} BY DEF Init, OnTheWay, OpenStreams
  <2>2. Got(id) = {} /\ Increasing(received[id]) BY DEF Init, Got, Increasing
  <2>3. addressed[id] = {} BY DEF Init
  <2> QED BY <1>2, <2>1, <2>2, <2>3 DEF OrderInv, Before
<1> QED BY <1>1, <1>3, <1>4, <1>5 DEF Inv

(* A node that asks reads from no other stream.                            *)
LEMMA SendNeedsDataKeeps ==
  ASSUME Inv, NEW k \in Streams, NEW id \in NodeIDs, SendNeedsData(k, id)
  PROVE  Inv' /\ \A other : OnTheWay(other)' = OnTheWay(other)
<1> DEFINE v == [node_id |-> id, open |-> TRUE, step |-> "request", message |-> None]
<1>1. /\ place[id] = "here" /\ OpenStreams(id) = {} /\ stream[k] = None
      /\ stream' = [stream EXCEPT ![k] = v]
      /\ UNCHANGED <<node_list, new_server, poisoned, place, migrating,
                     posted, addressed, lost, received>>
  BY DEF SendNeedsData, serverVars, historyVars
<1>2. v \in Stream BY DEF Stream
<1>3. v.open /\ v.node_id = id /\ v.step = "request" OBVIOUS
<1> HIDE DEF v
<1>4. /\ stream' \in [Streams -> Stream \cup {None}] /\ stream'[k] = v
      /\ \A j \in Streams \ {k} : stream'[j] = stream[j] BY <1>1, <1>2, SlotSet DEF Inv
<1>5. TypeOK' BY <1>1, <1>4 DEF Inv, TypeOK
<1>6. ListInv' BY <1>1 DEF Inv, ListInv
<1>7. StreamInv'
  <2>1. \A j \in Streams \ {k} : stream[j] # None /\ stream[j].open => stream[j].node_id # id
    BY <1>1 DEF OpenStreams
  <2>2. \A j \in Streams \ {k} : stream[j] # None =>
           /\ stream[j].open => place'[stream[j].node_id] = "here"
           /\ stream[j].step = "new_server" =>
                stream[j].node_id \notin Ids(node_list') \cup migrating'
    BY <1>1 DEF Inv, StreamInv
  <2> QED BY <1>1, <1>3, <1>4, <2>1, <2>2, StreamsKept DEF Inv
<1>8. \A other : OnTheWay(other)' = OnTheWay(other)
  <2>1. \A other : ~ Carries(k, other) /\ ~ Carries(k, other)' BY <1>1, <1>3, <1>4 DEF Carries
  <2> QED BY <1>4, <2>1, NoMessageAt
<1>9. \A other \in NodeIDs : OrderInv(other)' BY <1>1, <1>8, OrderKept DEF Inv
<1> QED BY <1>5, <1>6, <1>7, <1>8, <1>9 DEF Inv

(* What is on the way is newer than all the node has had.                  *)
LEMMA GetCustomMessageKeeps ==
  ASSUME Inv, NEW k \in Streams, GetCustomMessage(k)
  PROVE  /\ Inv'
         /\ \E id \in NodeIDs, m \in Messages :
              /\ id = stream[k].node_id /\ m = stream[k].message
              /\ OnTheWay(id) = {m} /\ OnTheWay(id)' = {}
              /\ \A other : other # id => OnTheWay(other)' = OnTheWay(other)
<1>0. PICK id, m : id = stream[k].node_id /\ m = stream[k].message OBVIOUS
<1>1. /\ stream[k] # None /\ stream[k].step = "message"
      /\ received' = [received EXCEPT ![id] = Append(received[id], m)]
      /\ stream' = [stream EXCEPT ![k] = None]
      /\ UNCHANGED <<node_list, new_server, poisoned, place, migrating, posted, addressed, lost>>
  BY <1>0 DEF GetCustomMessage, serverVars, At, Inv, TypeOK
<1>2. stream[k].open /\ m \in Messages /\ stream[k] \in Stream /\ id \in NodeIDs
  BY <1>0, <1>1 DEF Inv, StreamInv, TypeOK, Stream
<1>3. /\ stream' \in [Streams -> Stream \cup {None}] /\ stream'[k] = None
      /\ \A j \in Streams \ {k} : stream'[j] = stream[j] BY <1>1, SlotSet DEF Inv
<1>4. Carries(k, id) /\ \A other : other # id => ~ Carries(k, other) BY <1>0, <1>1, <1>2 DEF Carries
<1>5. \A other : ~ Carries(k, other)' BY <1>3 DEF Carries
<1>6. OnTheWay(id) = {m} /\ OnTheWay(id)' = {} BY <1>0, <1>3, <1>4, <1>5, WayIs, EmptiedAt DEF Inv
<1>7. \A other : other # id => OnTheWay(other)' = OnTheWay(other)
  BY <1>3, <1>4, <1>5, NoMessageAt
<1>8. /\ received[id] \in Seq(Messages) /\ received \in [NodeIDs -> Seq(Messages)]
      /\ Increasing(received[id]) /\ Got(id) = Elems(received[id])
      /\ \A a \in Elems(received[id]) : a < m
  <2>1. OrderInv(id) BY <1>2 DEF Inv
  <2> QED BY <1>2, <1>6, <2>1 DEF Inv, TypeOK, OrderInv, Before, Got, Elems
<1>9. /\ Append(received[id], m) \in Seq(Messages)
      /\ Increasing(Append(received[id], m))
      /\ Elems(Append(received[id], m)) = Elems(received[id]) \cup {m}
  BY <1>2, <1>8, AppendToIncreasing
<1>10. /\ received' \in [NodeIDs -> Seq(Messages)] /\ received'[id] = Append(received[id], m)
       /\ \A other \in NodeIDs \ {id} : received'[other] = received[other]
  BY <1>1, <1>2, <1>8, <1>9
<1>11. TypeOK' BY <1>1, <1>3, <1>10 DEF Inv, TypeOK
<1>12. ListInv' BY <1>1 DEF Inv, ListInv
<1>13. StreamInv'
  <2>1. \A j \in Streams \ {k} : stream[j] # None =>
           /\ stream[j].open => place'[stream[j].node_id] = "here"
           /\ stream[j].step = "new_server" =>
                stream[j].node_id \notin Ids(node_list') \cup migrating'
    BY <1>1 DEF Inv, StreamInv
  <2> QED BY <1>3, <2>1, StreamsKept DEF Inv
<1>14. ASSUME NEW other \in NodeIDs PROVE OrderInv(other)'
  <2>1. CASE other # id BY <1>1, <1>7, <1>10, <2>1, OrderKept DEF Inv
  <2>2. CASE other = id
    <3>1. OrderInv(id) BY <1>2 DEF Inv
    <3>2. Got(id)' = Got(id) \cup {m} BY <1>8, <1>9, <1>10 DEF Got, Elems
    <3>3. /\ Ids(node_list)' = Ids(node_list) /\ Queue(id)' = Queue(id)
          /\ Waiting(id)' = Waiting(id) BY <1>1 DEF Queue, Waiting
    <3>4. \A message : Explained(id, message) => Explained(id, message)'
      BY <1>1, <1>6, <3>2, <3>3 DEF Explained
    <3>5. OrderInv(id)'
      BY <1>1, <1>6, <1>9, <1>10, <3>1, <3>2, <3>3, <3>4 DEF OrderInv, Before
    <3> QED BY <2>2, <3>5
  <2> QED BY <2>1, <2>2
<1>15. Inv' BY <1>11, <1>12, <1>13, <1>14 DEF Inv
<1> QED BY <1>0, <1>2, <1>6, <1>7, <1>15

(* Who has been sent away is not on the list, nor on its way there.        *)
LEMMA GetNewServerKeeps ==
  ASSUME Inv, NEW k \in Streams, GetNewServer(k)
  PROVE  Inv' /\ \A other : OnTheWay(other)' = OnTheWay(other)
<1> DEFINE id == stream[k].node_id
<1>1. /\ stream[k] # None /\ stream[k].step = "new_server"
      /\ place' = [place EXCEPT ![id] = "elsewhere"]
      /\ stream' = [stream EXCEPT ![k] = None]
      /\ UNCHANGED <<node_list, new_server, poisoned, migrating,
                     posted, addressed, lost, received>>
  BY DEF GetNewServer, serverVars, historyVars, At
<1>2. stream[k].open /\ stream[k] \in Stream /\ id \in NodeIDs
      /\ id \notin Ids(node_list) \cup migrating
  BY <1>1 DEF Inv, StreamInv, TypeOK, Stream
<1>3. /\ stream' \in [Streams -> Stream \cup {None}] /\ stream'[k] = None
      /\ \A j \in Streams \ {k} : stream'[j] = stream[j] BY <1>1, SlotSet DEF Inv
<1>4. /\ place' \in [NodeIDs -> {"none", "here", "elsewhere"}]
      /\ \A other \in NodeIDs : other # id => place'[other] = place[other]
  BY <1>1 DEF Inv, TypeOK
<1>5. TypeOK' BY <1>1, <1>3, <1>4 DEF Inv, TypeOK
<1>6. ListInv'
  <2>1. Ids(node_list) \subseteq NodeIDs BY EntryOfId DEF Inv, TypeOK, ListInv
  <2>2. migrating \subseteq NodeIDs BY DEF Inv, TypeOK
  <2> HIDE DEF id
  <2> QED BY <1>1, <1>2, <1>4, <2>1, <2>2 DEF Inv, ListInv
<1>7. StreamInv'
  <2>1. ASSUME NEW j \in Streams \ {k}, stream[j] # None
        PROVE  /\ stream[j].open => place'[stream[j].node_id] = "here"
               /\ stream[j].step = "new_server" =>
                    stream[j].node_id \notin Ids(node_list') \cup migrating'
    <3>1. stream[j].node_id \in NodeIDs BY <2>1 DEF Inv, TypeOK, Stream
    <3>2. stream[j].open => stream[j].node_id # id BY <1>1, <1>2, <2>1, OpenElsewhere DEF Inv
    <3> QED BY <1>1, <1>4, <2>1, <3>1, <3>2 DEF Inv, StreamInv
  <2> QED BY <1>3, <2>1, StreamsKept DEF Inv
<1>8. \A other : OnTheWay(other)' = OnTheWay(other)
  <2>1. \A other : ~ Carries(k, other) /\ ~ Carries(k, other)' BY <1>1, <1>3 DEF Carries
  <2> QED BY <1>3, <2>1, NoMessageAt
<1>9. \A other \in NodeIDs : OrderInv(other)' BY <1>1, <1>8, OrderKept DEF Inv
<1> QED BY <1>5, <1>6, <1>7, <1>8, <1>9 DEF Inv

(* A request stays with its handler, an answer is lost.                    *)
LEMMA StreamBreaksKeeps ==
  ASSUME Inv, NEW k \in Streams, StreamBreaks(k)
  PROVE  /\ Inv'
         /\ \A other : ~ Carries(k, other) => OnTheWay(other)' = OnTheWay(other)
         /\ \A other : Carries(k, other) => /\ OnTheWay(other) = {stream[k].message}
                                          /\ OnTheWay(other)' = {}
         /\ \A step \in {"request", "messages"} :
              /\ At(k, step)' <=> At(k, step)
              /\ At(k, step) => stream'[k].node_id = stream[k].node_id
<1>0. PICK id, m : id = stream[k].node_id /\ m = stream[k].message OBVIOUS
<1>1. /\ stream[k] # None /\ stream[k].open
      /\ stream' = [stream EXCEPT ![k] =
           IF stream[k].step \in {"message", "new_server"} THEN None
           ELSE [stream[k] EXCEPT !.open = FALSE]]
      /\ lost' = IF stream[k].step = "message"
                 THEN [lost EXCEPT ![id] = lost[id] \cup {m}] ELSE lost
      /\ UNCHANGED <<node_list, new_server, poisoned, place, migrating,
                     posted, addressed, received>>
  BY <1>0 DEF StreamBreaks, serverVars, Inv, TypeOK
<1>2. /\ stream[k] \in Stream /\ id \in NodeIDs
      /\ stream[k].step = "message" => m \in Messages
  BY <1>0, <1>1 DEF Inv, StreamInv, TypeOK, Stream
<1>3. PICK v \in Stream \cup {None} :
        /\ stream' = [stream EXCEPT ![k] = v]
        /\ v # None => /\ ~v.open /\ v.node_id = id
                       /\ v.step = stream[k].step /\ v.step \notin {"message", "new_server"}
        /\ stream[k].step \notin {"message", "new_server"} => v # None
  <2> DEFINE closed == FALSE
             new == [stream[k] EXCEPT !.open = closed]
  <2>1. closed \in BOOLEAN /\ ~closed OBVIOUS
  <2>2. stream' = [stream EXCEPT ![k] =
           IF stream[k].step \in {"message", "new_server"} THEN None ELSE new] BY <1>1
  <2> HIDE DEF closed
  <2>3. new \in Stream /\ new # None
    <3>1. new \in Stream BY <1>2, <2>1, StreamFields
    <3> QED BY <3>1, MailboxesAssumption
  <2>4. new.open = closed /\ new.node_id = id /\ new.step = stream[k].step
    BY <1>0, <1>2 DEF Stream
  <2> HIDE DEF new
  <2>5. CASE stream[k].step \in {"message", "new_server"} BY <2>2, <2>5
  <2>6. CASE stream[k].step \notin {"message", "new_server"} BY <2>1, <2>2, <2>3, <2>4, <2>6
  <2> QED BY <2>5, <2>6
<1>4. /\ stream' \in [Streams -> Stream \cup {None}] /\ stream'[k] = v
      /\ \A j \in Streams \ {k} : stream'[j] = stream[j] BY <1>3, SlotSet DEF Inv
<1>5. /\ lost \in [NodeIDs -> SUBSET Messages] /\ lost' \in [NodeIDs -> SUBSET Messages]
      /\ \A other \in NodeIDs : lost[other] \subseteq lost'[other]
      /\ stream[k].step = "message" => lost'[id] = lost[id] \cup {m}
  <2>1. lost \in [NodeIDs -> SUBSET Messages] BY DEF Inv, TypeOK
  <2>2. CASE stream[k].step = "message" BY <1>1, <1>2, <2>1, <2>2
  <2>3. CASE stream[k].step # "message" BY <1>1, <2>1, <2>3
  <2> QED BY <2>1, <2>2, <2>3
<1>6. TypeOK' BY <1>1, <1>4, <1>5 DEF Inv, TypeOK
<1>7. ListInv' BY <1>1 DEF Inv, ListInv
<1>8. StreamInv'
  <2>1. \A j \in Streams \ {k} : stream[j] # None =>
           /\ stream[j].open => place'[stream[j].node_id] = "here"
           /\ stream[j].step = "new_server" =>
                stream[j].node_id \notin Ids(node_list') \cup migrating'
    BY <1>1 DEF Inv, StreamInv
  <2> QED BY <1>3, <1>4, <2>1, StreamsKept DEF Inv
<1>9. \A other : ~ Carries(k, other)' BY <1>3, <1>4 DEF Carries
<1>10. ASSUME NEW other \in NodeIDs PROVE OrderInv(other)'
  <2>1. CASE ~ Carries(k, other)
    <3>1. OnTheWay(other)' = OnTheWay(other) BY <1>4, <1>9, <2>1, NoMessageAt
    <3> QED BY <1>1, <1>5, <3>1, OrderKept DEF Inv
  <2>2. CASE Carries(k, other)
    <3>1. other = id /\ stream[k].step = "message" BY <1>0, <2>2 DEF Carries
    <3>2. OnTheWay(id) = {m} /\ OnTheWay(id)' = {}
      BY <1>0, <1>4, <1>9, <2>2, <3>1, WayIs, EmptiedAt DEF Inv
    <3>3. OrderInv(id) BY <1>2 DEF Inv
    <3>4. /\ Ids(node_list)' = Ids(node_list) /\ Queue(id)' = Queue(id)
          /\ Waiting(id)' = Waiting(id) /\ Got(id)' = Got(id)
      BY <1>1 DEF Queue, Waiting, Got
    <3>5. \A message : Explained(id, message) => Explained(id, message)'
      BY <1>1, <1>5, <3>1, <3>2, <3>4 DEF Explained
    <3> QED BY <1>1, <3>1, <3>2, <3>3, <3>4, <3>5 DEF OrderInv, Before
  <2> QED BY <2>1, <2>2
<1>11. Inv' BY <1>6, <1>7, <1>8, <1>10 DEF Inv
<1>12. \A other : ~ Carries(k, other) => OnTheWay(other)' = OnTheWay(other)
  BY <1>4, <1>9, NoMessageAt
<1>13. ASSUME NEW other, Carries(k, other)
       PROVE  OnTheWay(other) = {stream[k].message} /\ OnTheWay(other)' = {}
  BY <1>4, <1>9, <1>13, WayIs, EmptiedAt DEF Inv
<1>14. \A step \in {"request", "messages"} :
         /\ At(k, step)' <=> At(k, step)
         /\ At(k, step) => stream'[k].node_id = stream[k].node_id
  BY <1>0, <1>1, <1>3, <1>4 DEF At
<1> QED BY <1>11, <1>12, <1>13, <1>14

(* Who comes is not on the list: it has been sent away by this server, or  *)
(* was never here.                                                         *)
LEMMA MigrateKeeps ==
  ASSUME Inv, NEW id \in NodeIDs, Migrate(id)
  PROVE  Inv' /\ \A other : OnTheWay(other)' = OnTheWay(other)
<1>1. /\ place[id] # "here" /\ place' = [place EXCEPT ![id] = "here"]
      /\ migrating' = migrating \cup {id}
      /\ UNCHANGED <<node_list, new_server, poisoned, stream, posted, addressed, lost, received>>
  BY DEF Migrate, serverVars, historyVars
<1>2. /\ place' \in [NodeIDs -> {"none", "here", "elsewhere"}] /\ place'[id] = "here"
      /\ \A other \in NodeIDs : other # id => place'[other] = place[other]
      /\ \A other \in NodeIDs : place[other] = "here" => place'[other] = "here"
  BY <1>1 DEF Inv, TypeOK
<1>3. id \notin Ids(node_list) BY <1>1 DEF Inv, ListInv
<1>4. /\ migrating \subseteq NodeIDs /\ migrating' \subseteq NodeIDs
      /\ Ids(node_list) \subseteq NodeIDs
  BY <1>1, EntryOfId DEF Inv, TypeOK, ListInv
<1>5. TypeOK' BY <1>1, <1>2, <1>4 DEF Inv, TypeOK
<1>6. ListInv' BY <1>1, <1>2, <1>3, <1>4 DEF Inv, ListInv
<1>7. StreamInv' /\ \A other : OnTheWay(other)' = OnTheWay(other)
  <2>1. ASSUME NEW j \in Streams, stream[j] # None
        PROVE  /\ stream[j].open => place'[stream[j].node_id] = "here"
               /\ stream[j].step = "new_server" =>
                    stream[j].node_id \notin Ids(node_list') \cup migrating'
    <3>1. stream[j].node_id \in NodeIDs BY <2>1 DEF Inv, TypeOK, Stream
    <3> QED BY <1>1, <1>2, <2>1, <3>1 DEF Inv, StreamInv
  <2> QED BY <1>1, <2>1, SameStreams DEF Inv
<1>8. \A other \in NodeIDs : OrderInv(other)' BY <1>1, <1>7, OrderKept DEF Inv
<1> QED BY <1>5, <1>6, <1>7, <1>8 DEF Inv

(* A handler that ends, or is not yet at the queue.                        *)
LEMMA HandlerStepKeeps ==
  ASSUME Inv, NEW k \in Streams, At(k, "request") \/ At(k, "messages"),
         stream' = [stream EXCEPT ![k] = None]
           \/ stream' = [stream EXCEPT ![k] = [stream[k] EXCEPT !.step = "messages"]],
         poisoned' \in BOOLEAN,
         UNCHANGED <<node_list, new_server, place, migrating, historyVars>>
  PROVE  /\ Inv'
         /\ \A other : OnTheWay(other)' = OnTheWay(other)
<1>1. /\ stream[k] # None /\ stream[k].step \notin {"message", "new_server"}
      /\ stream[k] \in Stream
      /\ UNCHANGED <<node_list, new_server, place, migrating, posted, addressed, lost, received>>
  BY DEF historyVars, At, Inv, TypeOK
<1>2. PICK v \in Stream \cup {None} :
        /\ stream' = [stream EXCEPT ![k] = v]
        /\ v # None => /\ v.open = stream[k].open /\ v.node_id = stream[k].node_id
                       /\ v.step = "messages"
  <2> DEFINE new == [stream[k] EXCEPT !.step = "messages"]
  <2>1. new \in Stream BY <1>1, StreamFields
  <2>2. /\ new.open = stream[k].open /\ new.node_id = stream[k].node_id
        /\ new.step = "messages" BY <1>1 DEF Stream
  <2>3. stream' = [stream EXCEPT ![k] = None] \/ stream' = [stream EXCEPT ![k] = new] OBVIOUS
  <2> HIDE DEF new
  <2> QED BY <2>1, <2>2, <2>3
<1>3. /\ stream' \in [Streams -> Stream \cup {None}] /\ stream'[k] = v
      /\ \A j \in Streams \ {k} : stream'[j] = stream[j] BY <1>2, SlotSet DEF Inv
<1>4. TypeOK' BY <1>1, <1>3 DEF Inv, TypeOK
<1>5. ListInv' BY <1>1 DEF Inv, ListInv
<1>6. StreamInv'
  <2>1. \A j \in Streams \ {k} : stream[j] # None =>
           /\ stream[j].open => place'[stream[j].node_id] = "here"
           /\ stream[j].step = "new_server" =>
                stream[j].node_id \notin Ids(node_list') \cup migrating'
    BY <1>1 DEF Inv, StreamInv
  <2>2. v # None /\ v.open =>
          /\ place'[v.node_id] = "here"
          /\ \A j \in Streams \ {k} : stream[j] # None /\ stream[j].open =>
               stream[j].node_id # v.node_id
    BY <1>1, <1>2, OpenElsewhere DEF Inv, StreamInv
  <2> QED BY <1>2, <1>3, <2>1, <2>2, StreamsKept DEF Inv
<1>7. \A other : OnTheWay(other)' = OnTheWay(other)
  <2>1. \A other : ~ Carries(k, other) /\ ~ Carries(k, other)'
    BY <1>1, <1>2, <1>3 DEF Carries
  <2> QED BY <1>3, <2>1, NoMessageAt
<1>8. \A other \in NodeIDs : OrderInv(other)' BY <1>1, <1>7, OrderKept DEF Inv
<1> QED BY <1>4, <1>5, <1>6, <1>7, <1>8 DEF Inv

(* A node that is put on the list starts with an empty queue and no        *)
(* messages addressed to it.                                               *)
LEMMA EnlistKeeps ==
  ASSUME Inv, NEW id \in NodeIDs, id \notin Ids(node_list),
         node_list' = register_new_node(node_list, id),
         place' \in [NodeIDs -> {"none", "here", "elsewhere"}], place'[id] = "here",
         \A other \in NodeIDs : other # id => place'[other] = place[other],
         migrating' = migrating \ {id},
         \A j \in Streams : stream[j] # None /\ stream[j].step = "new_server" =>
           stream[j].node_id # id,
         addressed' = [addressed EXCEPT ![id] = {}],
         UNCHANGED <<new_server, poisoned, stream, posted, lost, received>>
  PROVE  /\ Inv' /\ \A other : OnTheWay(other)' = OnTheWay(other)
         /\ Ids(node_list') = Ids(node_list) \cup {id}
         /\ QueueIn(node_list', id) = <<>>
         /\ \A other \in Ids(node_list) : QueueIn(node_list', other) = QueueIn(node_list, other)
<1>1. node_list \in Seq(NCNodeInfo) /\ Distinct(node_list) BY DEF Inv, TypeOK, ListInv
<1>2. /\ node_list' \in Seq(NCNodeInfo) /\ Distinct(node_list')
      /\ Ids(node_list') = Ids(node_list) \cup {id}
      /\ QueueIn(node_list', id) = <<>>
      /\ \A other \in Ids(node_list) : QueueIn(node_list', other) = QueueIn(node_list, other)
  BY <1>1, Enlisted
<1>3. /\ addressed' \in [NodeIDs -> SUBSET Messages] /\ addressed'[id] = {}
      /\ \A other \in NodeIDs : other # id => addressed'[other] = addressed[other]
  BY DEF Inv, TypeOK
<1>4. TypeOK'
  <2>1. Len(<<>>) = 0 /\ QueueLimit \in Nat /\ 0 <= QueueLimit BY QueueLimitAssumption
  <2>2. \A other \in Ids(node_list) : Len(QueueIn(node_list, other)) <= QueueLimit
    BY <1>1, QueuesWithinLimit DEF Inv, TypeOK
  <2>3. \A other \in Ids(node_list') : Len(QueueIn(node_list', other)) <= QueueLimit
    BY <1>2, <2>1, <2>2
  <2>4. \A i \in DOMAIN node_list' : Len(node_list'[i].message_queue) <= QueueLimit
    BY <1>2, <2>3, QueuesWithinLimit
  <2>5. migrating' \subseteq NodeIDs BY DEF Inv, TypeOK
  <2> QED BY <1>2, <1>3, <2>4, <2>5 DEF Inv, TypeOK
<1>5. ListInv'
  <2>1. Ids(node_list) \subseteq NodeIDs /\ migrating \subseteq NodeIDs
    BY <1>1, EntryOfId DEF Inv, TypeOK
  <2> QED BY <1>2, <2>1 DEF Inv, ListInv
<1>6. StreamInv' /\ \A other : OnTheWay(other)' = OnTheWay(other)
  <2>1. ASSUME NEW j \in Streams, stream[j] # None
        PROVE  /\ stream[j].open => place'[stream[j].node_id] = "here"
               /\ stream[j].step = "new_server" =>
                    stream[j].node_id \notin Ids(node_list') \cup migrating'
    <3>1. stream[j].node_id \in NodeIDs BY <2>1 DEF Inv, TypeOK, Stream
    <3> QED BY <1>2, <2>1, <3>1 DEF Inv, StreamInv
  <2> QED BY <2>1, SameStreams DEF Inv
<1>7. ASSUME NEW other \in NodeIDs PROVE OrderInv(other)'
  <2>1. CASE other # id BY <1>2, <1>3, <1>6, <2>1, OrderKept DEF Inv
  <2>2. CASE other = id
    <3>1. OrderInv(id) BY DEF Inv
    <3>2. Got(id)' = Got(id) /\ OnTheWay(id)' = OnTheWay(id) BY <1>6 DEF Got
    <3>3. Queue(id)' = <<>> BY <1>2 DEF Queue, QueueIn
    <3>4. Waiting(id)' = {} /\ Increasing(Queue(id))' BY <3>3 DEF Waiting, Increasing
    <3> QED BY <1>3, <2>2, <3>1, <3>2, <3>4 DEF OrderInv, Before
  <2> QED BY <2>1, <2>2
<1>8. Inv' BY <1>4, <1>5, <1>6, <1>7 DEF Inv
<1> QED BY <1>2, <1>6, <1>8

(* Who registers was never here, so nothing of it is here either.          *)
LEMMA HandleRegisterKeeps ==
  ASSUME Inv, NEW id \in NodeIDs, HandleRegister(id)
  PROVE  /\ Inv' /\ id \notin Ids(node_list)
         /\ \A other : OnTheWay(other)' = OnTheWay(other)
         /\ Ids(node_list') = Ids(node_list) \cup {id}
         /\ QueueIn(node_list', id) = <<>>
         /\ \A other \in Ids(node_list) : QueueIn(node_list', other) = QueueIn(node_list, other)
<1>1. /\ place[id] = "none" /\ node_list' = register_new_node(node_list, id)
      /\ place' = [place EXCEPT ![id] = "here"] /\ addressed' = [addressed EXCEPT ![id] = {}]
      /\ UNCHANGED <<new_server, poisoned, stream, migrating, posted, lost, received>>
  BY DEF HandleRegister
<1>2. id \notin Ids(node_list) /\ id \notin migrating /\ migrating' = migrating \ {id}
  BY <1>1 DEF Inv, ListInv
<1>3. /\ place' \in [NodeIDs -> {"none", "here", "elsewhere"}] /\ place'[id] = "here"
      /\ \A other \in NodeIDs : other # id => place'[other] = place[other]
  BY <1>1 DEF Inv, TypeOK
<1>4. \A j \in Streams : stream[j] # None /\ stream[j].step = "new_server" =>
        stream[j].node_id # id BY <1>1 DEF Inv, StreamInv
<1> QED BY <1>1, <1>2, <1>3, <1>4, EnlistKeeps

(* Who has migrated is not on the list, as it is under way only once.      *)
LEMMA HandleNodeMigratedKeeps ==
  ASSUME Inv, NEW id \in NodeIDs, HandleNodeMigrated(id)
  PROVE  /\ Inv' /\ id \notin Ids(node_list)
         /\ \A other : OnTheWay(other)' = OnTheWay(other)
         /\ Ids(node_list') = Ids(node_list) \cup {id}
         /\ QueueIn(node_list', id) = <<>>
         /\ \A other \in Ids(node_list) : QueueIn(node_list', other) = QueueIn(node_list, other)
<1>1. /\ id \in migrating /\ node_list' = register_new_node(node_list, id)
      /\ migrating' = migrating \ {id} /\ addressed' = [addressed EXCEPT ![id] = {}]
      /\ UNCHANGED <<new_server, poisoned, stream, place, posted, lost, received>>
  BY DEF HandleNodeMigrated, migrate_node, register_new_node
<1>2. id \notin Ids(node_list) /\ place[id] = "here" BY <1>1 DEF Inv, ListInv
<1>3. \A j \in Streams : stream[j] # None /\ stream[j].step = "new_server" =>
        stream[j].node_id # id BY <1>1 DEF Inv, StreamInv
<1>4. place' \in [NodeIDs -> {"none", "here", "elsewhere"}] BY <1>1 DEF Inv, TypeOK
<1> QED BY <1>1, <1>2, <1>3, <1>4, EnlistKeeps

(* That there is a new server concerns nobody yet.                         *)
LEMMA HandleNewServerKeeps ==
  ASSUME Inv, HandleNewServer
  PROVE  Inv' /\ \A other : OnTheWay(other)' = OnTheWay(other)
<1>1. /\ new_server' = TRUE
      /\ UNCHANGED <<node_list, poisoned, stream, place, migrating,
                     posted, addressed, lost, received>>
  BY DEF HandleNewServer, historyVars
<1>2. TypeOK' BY <1>1 DEF Inv, TypeOK
<1>3. ListInv' BY <1>1 DEF Inv, ListInv
<1>4. StreamInv' /\ \A other : OnTheWay(other)' = OnTheWay(other)
  <2>1. \A j \in Streams : stream[j] # None =>
           /\ stream[j].open => place'[stream[j].node_id] = "here"
           /\ stream[j].step = "new_server" =>
                stream[j].node_id \notin Ids(node_list') \cup migrating'
    BY <1>1 DEF Inv, StreamInv
  <2> QED BY <1>1, <2>1, SameStreams DEF Inv
<1>5. \A other \in NodeIDs : OrderInv(other)' BY <1>1, <1>4, OrderKept DEF Inv
<1> QED BY <1>2, <1>3, <1>4, <1>5 DEF Inv

(* Who leaves is taken off the list before it is told where to go.         *)
LEMMA HandleLeavingNodeKeeps ==
  ASSUME Inv, NEW k \in Streams, HandleLeavingNode(k)
  PROVE  /\ Inv' /\ \A other : OnTheWay(other)' = OnTheWay(other)
         /\ stream[k].node_id \in Ids(node_list)
         /\ Ids(node_list') = Ids(node_list) \ {stream[k].node_id}
         /\ \A other \in Ids(node_list') : QueueIn(node_list', other) = QueueIn(node_list, other)
         /\ ~ At(k, "request")' /\ ~ At(k, "messages")'
<1>0. PICK id : id = stream[k].node_id OBVIOUS
<1>1. /\ stream[k] # None /\ stream[k].step = "request"
      /\ \E i \in DOMAIN node_list :
           IsFirst(node_list, i, id) /\ node_list' = swap_remove(node_list, i)
      /\ stream' = [stream EXCEPT ![k] =
           IF stream[k].open THEN [stream[k] EXCEPT !.step = "new_server", !.message = None]
           ELSE None]
      /\ UNCHANGED <<new_server, poisoned, place, migrating, posted, addressed, lost, received>>
  BY <1>0 DEF HandleLeavingNode, Handles, At, Answered, historyVars, Inv, TypeOK
<1>2. stream[k] \in Stream /\ id \in NodeIDs BY <1>0, <1>1 DEF Inv, TypeOK, Stream
<1>3. node_list \in Seq(NCNodeInfo) /\ Distinct(node_list) BY DEF Inv, TypeOK, ListInv
<1>4. /\ node_list' \in Seq(NCNodeInfo) /\ Distinct(node_list')
      /\ Ids(node_list') = Ids(node_list) \ {id} /\ id \in Ids(node_list)
      /\ \A other \in Ids(node_list') : QueueIn(node_list', other) = QueueIn(node_list, other)
  <2>1. PICK i \in DOMAIN node_list :
          IsFirst(node_list, i, id) /\ node_list' = swap_remove(node_list, i) BY <1>1
  <2>2. node_list[i].node_id = id BY <2>1 DEF IsFirst
  <2>3. id \in Ids(node_list) BY <2>2 DEF Ids
  <2> QED BY <1>3, <2>1, <2>2, <2>3, Removed
<1>5. PICK v \in Stream \cup {None} :
        /\ stream' = [stream EXCEPT ![k] = v]
        /\ v # None => /\ v.open /\ stream[k].open /\ v.node_id = id /\ v.step = "new_server"
  <2> DEFINE new == [stream[k] EXCEPT !.step = "new_server", !.message = None]
  <2>1. new \in Stream BY <1>2, StreamFields
  <2>2. /\ new.open = stream[k].open /\ new.node_id = id
        /\ new.step = "new_server" BY <1>0, <1>2 DEF Stream
  <2>3. stream' = [stream EXCEPT ![k] = IF stream[k].open THEN new ELSE None] BY <1>1
  <2> HIDE DEF new
  <2>4. CASE stream[k].open BY <2>1, <2>2, <2>3, <2>4
  <2>5. CASE ~stream[k].open BY <2>3, <2>5
  <2> QED BY <2>4, <2>5
<1>6. /\ stream' \in [Streams -> Stream \cup {None}] /\ stream'[k] = v
      /\ \A j \in Streams \ {k} : stream'[j] = stream[j] BY <1>5, SlotSet DEF Inv
<1>7. TypeOK'
  <2>1. \A other \in Ids(node_list) : Len(QueueIn(node_list, other)) <= QueueLimit
    BY <1>3, QueuesWithinLimit DEF Inv, TypeOK
  <2>2. \A other \in Ids(node_list') : Len(QueueIn(node_list', other)) <= QueueLimit
    BY <1>4, <2>1
  <2>3. \A i \in DOMAIN node_list' : Len(node_list'[i].message_queue) <= QueueLimit
    BY <1>4, <2>2, QueuesWithinLimit
  <2> QED BY <1>1, <1>4, <1>6, <2>3 DEF Inv, TypeOK
<1>8. ListInv' BY <1>1, <1>4 DEF Inv, ListInv
<1>9. StreamInv'
  <2>1. \A j \in Streams \ {k} : stream[j] # None =>
           /\ stream[j].open => place'[stream[j].node_id] = "here"
           /\ stream[j].step = "new_server" =>
                stream[j].node_id \notin Ids(node_list') \cup migrating'
    BY <1>1, <1>4 DEF Inv, StreamInv
  <2>2. id \notin Ids(node_list') \cup migrating' BY <1>1, <1>4 DEF Inv, ListInv
  <2>3. v # None =>
          /\ place'[v.node_id] = "here"
          /\ \A j \in Streams \ {k} : stream[j] # None /\ stream[j].open =>
               stream[j].node_id # v.node_id
    BY <1>0, <1>1, <1>5, OpenElsewhere DEF Inv, StreamInv
  <2> QED BY <1>5, <1>6, <2>1, <2>2, <2>3, StreamsKept DEF Inv
<1>10. \A other : OnTheWay(other)' = OnTheWay(other)
  <2>1. \A other : ~ Carries(k, other) /\ ~ Carries(k, other)'
    BY <1>1, <1>5, <1>6 DEF Carries
  <2> QED BY <1>6, <2>1, NoMessageAt
<1>11. \A other \in NodeIDs : OrderInv(other)' BY <1>1, <1>4, <1>10, OrderKept DEF Inv
<1>12. ~ At(k, "request")' /\ ~ At(k, "messages")' BY <1>5, <1>6 DEF At
<1> QED BY <1>0, <1>4, <1>7, <1>8, <1>9, <1>10, <1>11, <1>12 DEF Inv

(* The oldest message leaves the queue, for the node or for nobody.        *)
LEMMA SendCustomMessageKeeps ==
  ASSUME Inv, NEW k \in Streams, SendCustomMessage(k)
  PROVE  /\ Inv'
         /\ ~ At(k, "request")' /\ ~ At(k, "messages")'
         /\ \E id \in Ids(node_list) :
              /\ id = stream[k].node_id /\ Queue(id) # <<>>
              /\ Ids(node_list') = Ids(node_list)
              /\ \A other \in Ids(node_list) : QueueIn(node_list', other) =
                   IF other = id THEN Tail(Queue(id)) ELSE QueueIn(node_list, other)
              /\ \A other : other # id => OnTheWay(other)' = OnTheWay(other)
              /\ \/ OnTheWay(id)' = OnTheWay(id)
                 \/ OnTheWay(id) = {} /\ OnTheWay(id)' = {Head(Queue(id))}
<1>0. PICK id : id = stream[k].node_id OBVIOUS
<1>1. /\ stream[k] # None /\ stream[k].step = "messages"
      /\ UNCHANGED <<new_server, poisoned, place, migrating, posted, addressed, received>>
  BY DEF SendCustomMessage, Handles, At
<1>2. PICK i \in DOMAIN node_list :
        /\ IsFirst(node_list, i, id) /\ node_list[i].message_queue # <<>>
        /\ node_list' = pop_message(node_list, i)
        /\ stream' = [stream EXCEPT ![k] =
             IF stream[k].open
             THEN [stream[k] EXCEPT !.step = "message",
                                    !.message = Head(node_list[i].message_queue)]
             ELSE None]
        /\ lost' = IF stream[k].open THEN lost
                   ELSE [lost EXCEPT ![id] = lost[id] \cup {Head(node_list[i].message_queue)}]
  BY <1>0 DEF SendCustomMessage, Answered, Inv, TypeOK
<1>3. stream[k] \in Stream /\ id \in NodeIDs BY <1>0, <1>1 DEF Inv, TypeOK, Stream
<1>4. node_list \in Seq(NCNodeInfo) /\ Distinct(node_list) BY DEF Inv, TypeOK, ListInv
<1>5. PICK q, m : q = node_list[i].message_queue /\ m = Head(q) OBVIOUS
<1>6. /\ node_list[i].node_id = id /\ id \in Ids(node_list)
      /\ QueueIn(node_list, id) = q /\ Queue(id) = q /\ Waiting(id) = Elems(q)
      /\ q \in Seq(Messages) /\ Len(q) <= QueueLimit /\ q # <<>>
  <2>1. node_list[i].node_id = id BY <1>2 DEF IsFirst
  <2>2. id \in Ids(node_list) BY <2>1 DEF Ids
  <2>3. QueueIn(node_list, id) = q BY <1>4, <1>5, <2>1, QueueOfEntry
  <2>4. q \in Seq(Messages) BY <1>4, <2>2, <2>3, EntryOfId
  <2>5. Queue(id) = q BY <2>3 DEF Queue, QueueIn
  <2>6. Len(q) <= QueueLimit BY <1>5 DEF Inv, TypeOK
  <2> QED BY <1>2, <1>5, <2>1, <2>2, <2>3, <2>4, <2>5, <2>6 DEF Waiting, Elems
<1>7. OrderInv(id) BY <1>3 DEF Inv
<1>8. /\ Tail(q) \in Seq(Messages) /\ m \in Messages
      /\ Len(Tail(q)) = Len(q) - 1 /\ Increasing(Tail(q))
      /\ Elems(q) = Elems(Tail(q)) \cup {m}
      /\ \A a \in Elems(Tail(q)) : m < a
  <2>1. Increasing(q) BY <1>6, <1>7 DEF OrderInv
  <2> QED BY <1>5, <1>6, <2>1, TailOfIncreasing
<1>9. /\ node_list' \in Seq(NCNodeInfo) /\ Distinct(node_list')
      /\ Ids(node_list') = Ids(node_list)
      /\ \A other \in Ids(node_list) : QueueIn(node_list', other) =
           IF other = id THEN Tail(q) ELSE QueueIn(node_list, other)
  BY <1>2, <1>4, <1>5, <1>6, Popped
<1>10. PICK v \in Stream \cup {None} :
         /\ stream' = [stream EXCEPT ![k] = v]
         /\ stream[k].open => /\ v # None /\ v.open /\ v.node_id = id
                              /\ v.step = "message" /\ v.message = m
         /\ ~stream[k].open => v = None
  <2> DEFINE new == [stream[k] EXCEPT !.step = "message", !.message = m]
  <2>1. new \in Stream BY <1>3, <1>8, StreamFields
  <2>2. /\ new.open = stream[k].open /\ new.node_id = id
        /\ new.step = "message" /\ new.message = m BY <1>0, <1>3 DEF Stream
  <2>3. stream' = [stream EXCEPT ![k] = IF stream[k].open THEN new ELSE None] BY <1>2, <1>5
  <2>4. new # None BY <2>1, MailboxesAssumption
  <2> HIDE DEF new
  <2>5. CASE stream[k].open BY <2>1, <2>2, <2>3, <2>4, <2>5
  <2>6. CASE ~stream[k].open BY <2>3, <2>6
  <2> QED BY <2>5, <2>6
<1>11. /\ stream' \in [Streams -> Stream \cup {None}] /\ stream'[k] = v
       /\ \A j \in Streams \ {k} : stream'[j] = stream[j] BY <1>10, SlotSet DEF Inv
<1>12. /\ lost' \in [NodeIDs -> SUBSET Messages]
       /\ \A other \in NodeIDs : lost[other] \subseteq lost'[other]
       /\ ~stream[k].open => m \in lost'[id]
  <2>1. lost \in [NodeIDs -> SUBSET Messages] BY DEF Inv, TypeOK
  <2>2. CASE stream[k].open BY <1>2, <2>1, <2>2
  <2>3. CASE ~stream[k].open
    <3>1. lost' = [lost EXCEPT ![id] = lost[id] \cup {m}] BY <1>2, <1>5, <2>3
    <3> QED BY <1>3, <1>8, <2>1, <3>1
  <2> QED BY <2>2, <2>3
<1>13. TypeOK'
  <2>1. \A other \in Ids(node_list) : Len(QueueIn(node_list, other)) <= QueueLimit
    BY <1>4, QueuesWithinLimit DEF Inv, TypeOK
  <2>2. Len(Tail(q)) <= QueueLimit
    <3>1. Len(q) \in Nat /\ QueueLimit \in Nat BY <1>6, QueueLimitAssumption
    <3> QED BY <1>6, <1>8, <3>1
  <2>3. \A other \in Ids(node_list') : Len(QueueIn(node_list', other)) <= QueueLimit
    BY <1>9, <2>1, <2>2
  <2>4. \A j \in DOMAIN node_list' : Len(node_list'[j].message_queue) <= QueueLimit
    BY <1>9, <2>3, QueuesWithinLimit
  <2> QED BY <1>1, <1>9, <1>11, <1>12, <2>4 DEF Inv, TypeOK
<1>14. ListInv' BY <1>1, <1>9 DEF Inv, ListInv
<1>15. StreamInv'
  <2>1. \A j \in Streams \ {k} : stream[j] # None =>
           /\ stream[j].open => place'[stream[j].node_id] = "here"
           /\ stream[j].step = "new_server" =>
                stream[j].node_id \notin Ids(node_list') \cup migrating'
    BY <1>1, <1>9 DEF Inv, StreamInv
  <2>2. v # None =>
          /\ place'[v.node_id] = "here"
          /\ \A j \in Streams \ {k} : stream[j] # None /\ stream[j].open =>
               stream[j].node_id # v.node_id
    BY <1>0, <1>1, <1>10, OpenElsewhere DEF Inv, StreamInv
  <2>3. v # None => v.open /\ v.step = "message" /\ v.message \in Messages BY <1>8, <1>10
  <2> QED BY <1>11, <2>1, <2>2, <2>3, StreamsKept DEF Inv
<1>16. ~ At(k, "request")' /\ ~ At(k, "messages")' BY <1>10, <1>11 DEF At
<1>17. \A other : ~ Carries(k, other) /\ (other # id => ~ Carries(k, other)')
  BY <1>1, <1>10, <1>11 DEF Carries
<1>18. \A other : other # id => OnTheWay(other)' = OnTheWay(other)
  BY <1>11, <1>17, NoMessageAt
<1>19. ~stream[k].open => OnTheWay(id)' = OnTheWay(id)
  <2> SUFFICES ASSUME ~stream[k].open PROVE OnTheWay(id)' = OnTheWay(id) OBVIOUS
  <2>1. ~ Carries(k, id)' BY <1>10, <1>11 DEF Carries
  <2> QED BY <1>11, <1>17, <2>1, NoMessageAt
<1>20. stream[k].open => OnTheWay(id) = {} /\ OnTheWay(id)' = {m}
  <2> SUFFICES ASSUME stream[k].open PROVE OnTheWay(id) = {} /\ OnTheWay(id)' = {m} OBVIOUS
  <2>1. OnTheWay(id) = {} BY <1>0, <1>1, WayIs DEF Inv
  <2>2. \A j \in Streams \ {k} : stream[j] # None /\ stream[j].open => stream[j].node_id # id
    BY <1>0, <1>1, OpenElsewhere DEF Inv
  <2>3. {j \in OpenStreams(id)' : stream'[j].step = "message"} = {k}
    BY <1>10, <1>11, <2>2 DEF OpenStreams
  <2>4. stream'[k].message = m BY <1>10, <1>11
  <2>5. OnTheWay(id)' = {stream'[j].message :
                          j \in {l \in OpenStreams(id)' : stream'[l].step = "message"}}
    BY DEF OnTheWay
  <2> QED BY <2>1, <2>3, <2>4, <2>5
<1>21. ASSUME NEW other \in NodeIDs PROVE OrderInv(other)'
  <2>1. CASE other # id BY <1>1, <1>9, <1>12, <1>18, <2>1, OrderKept DEF Inv
  <2>2. CASE other = id
    <3>1. Got(id)' = Got(id) /\ (Increasing(received[id])' <=> Increasing(received[id]))
      BY <1>1 DEF Got
    <3>2. Queue(id)' = Tail(q) BY <1>6, <1>9 DEF Queue, QueueIn
    <3>3. Waiting(id)' = Elems(Tail(q)) BY <3>2 DEF Waiting, Elems
    <3>4. m \in Waiting(id) /\ Waiting(id)' \subseteq Waiting(id) BY <1>6, <1>8, <3>3
    <3>5. m \in addressed[id] /\ m <= posted BY <1>6, <1>7, <3>4 DEF OrderInv
    <3>6. OnTheWay(id)' \subseteq OnTheWay(id) \cup {m} BY <1>19, <1>20
    <3>7. Before(Got(id), OnTheWay(id)')
      BY <1>6, <1>7, <3>4, <3>6 DEF OrderInv, Before
    <3>8. Before(Got(id) \cup OnTheWay(id)', Waiting(id)')
      BY <1>6, <1>7, <1>8, <3>3, <3>4, <3>6 DEF OrderInv, Before
    <3>9. \A message : Explained(id, message) => Explained(id, message)'
      <4> SUFFICES ASSUME NEW message, Explained(id, message) PROVE Explained(id, message)'
        OBVIOUS
      <4>1. CASE message \in Waiting(id)
        <5>1. message \in Waiting(id)' \/ message = m BY <1>6, <1>8, <3>3, <4>1
        <5>2. m \in OnTheWay(id)' \cup lost'[id] BY <1>12, <1>20
        <5> QED BY <5>1, <5>2 DEF Explained
      <4>2. CASE message \in Got(id) \cup OnTheWay(id) \cup lost[id]
        BY <1>3, <1>12, <1>19, <1>20, <3>1, <4>2 DEF Explained
      <4>3. CASE Cardinality({newer \in addressed[id] : newer > message}) >= QueueLimit
        BY <1>1, <4>3 DEF Explained
      <4> QED BY <4>1, <4>2, <4>3 DEF Explained
    <3>10. \A message \in Got(id)' \cup OnTheWay(id)' \cup addressed'[id] : message <= posted'
      BY <1>1, <1>7, <3>1, <3>5, <3>6 DEF OrderInv
    <3>11. \A message \in addressed[id] : Explained(id, message)'
      BY <1>6, <1>7, <3>9 DEF OrderInv
    <3>12. Waiting(id)' \subseteq addressed'[id] BY <1>1, <1>6, <1>7, <3>4 DEF OrderInv
    <3>13. OrderInv(id)'
      BY <1>1, <1>7, <1>8, <3>1, <3>2, <3>7, <3>8, <3>10, <3>11, <3>12 DEF OrderInv
    <3> QED BY <2>2, <3>13
  <2> QED BY <2>1, <2>2
<1>22. \/ OnTheWay(id)' = OnTheWay(id)
       \/ OnTheWay(id) = {} /\ OnTheWay(id)' = {Head(Queue(id))}
  BY <1>5, <1>6, <1>19, <1>20
<1>23. Inv' BY <1>13, <1>14, <1>15, <1>21 DEF Inv
<1> QED BY <1>0, <1>6, <1>9, <1>16, <1>18, <1>22, <1>23

(* A message that leaves a full queue leaves as many newer ones behind as  *)
(* the queue holds.                                                        *)
LEMMA HandleCustomMessageKeeps ==
  ASSUME Inv, NEW destination \in NodeIDs \cup {None}, HandleCustomMessage(destination)
  PROVE  /\ Inv' /\ \A other : OnTheWay(other)' = OnTheWay(other)
         /\ posted' \in Messages
         /\ Ids(node_list') = Ids(node_list)
         /\ \A other \in Ids(node_list) : QueueIn(node_list', other) =
              IF destination \in {other, None} THEN enqueue(QueueIn(node_list, other), posted')
              ELSE QueueIn(node_list, other)
<1>1. /\ UNCHANGED <<new_server, poisoned, stream, place, migrating, lost, received>>
      /\ addressed' = [id \in NodeIDs |->
           IF id \in Ids(node_list) /\ destination \in {id, None}
           THEN addressed[id] \cup {posted'} ELSE addressed[id]]
      /\ node_list' = IF destination = None THEN add_message_all(node_list, posted')
                      ELSE add_message(node_list, posted', destination)
  BY DEF HandleCustomMessage
<1>2. PICK m : m = posted' OBVIOUS
<1>3. m \in Messages /\ m \in Nat /\ posted \in Nat /\ posted < m
  <2>1. posted' = posted + 1 /\ posted + 1 \in Messages BY DEF HandleCustomMessage
  <2>2. posted \in Nat BY DEF Inv, TypeOK
  <2> QED BY <1>2, <2>1, <2>2
<1>4. node_list \in Seq(NCNodeInfo) /\ Distinct(node_list) BY DEF Inv, TypeOK, ListInv
<1>5. /\ node_list' \in Seq(NCNodeInfo) /\ Distinct(node_list')
      /\ Ids(node_list') = Ids(node_list)
      /\ \A other \in Ids(node_list) : QueueIn(node_list', other) =
           IF destination \in {other, None} THEN enqueue(QueueIn(node_list, other), m)
           ELSE QueueIn(node_list, other)
  <2>1. PICK list, new : list = node_list /\ new = node_list' OBVIOUS
  <2>2. list \in Seq(NCNodeInfo) /\ Distinct(list) BY <1>4, <2>1
  <2>3. new = IF destination = None THEN add_message_all(list, m)
              ELSE add_message(list, m, destination) BY <1>1, <1>2, <2>1
  <2>4. /\ new \in Seq(NCNodeInfo) /\ Distinct(new) /\ Ids(new) = Ids(list)
        /\ \A other \in Ids(list) : QueueIn(new, other) =
             IF destination \in {other, None} THEN enqueue(QueueIn(list, other), m)
             ELSE QueueIn(list, other)
    BY <1>3, <2>2, <2>3, Added
  <2> QED BY <2>1, <2>4
<1>6. /\ addressed \in [NodeIDs -> SUBSET Messages] /\ addressed' \in [NodeIDs -> SUBSET Messages]
      /\ \A id \in NodeIDs : addressed'[id] =
           IF id \in Ids(node_list) /\ destination \in {id, None}
           THEN addressed[id] \cup {m} ELSE addressed[id]
  <2>1. addressed \in [NodeIDs -> SUBSET Messages] BY DEF Inv, TypeOK
  <2>2. \A id \in NodeIDs : addressed[id] \in SUBSET Messages BY <2>1
  <2>3. addressed' = [id \in NodeIDs |->
           IF id \in Ids(node_list) /\ destination \in {id, None}
           THEN addressed[id] \cup {m} ELSE addressed[id]] BY <1>1, <1>2
  <2>4. \A id \in NodeIDs :
           (IF id \in Ids(node_list) /\ destination \in {id, None}
            THEN addressed[id] \cup {m} ELSE addressed[id]) \in SUBSET Messages BY <1>3, <2>2
  <2> QED BY <2>1, <2>3, <2>4
<1>7. Ids(node_list) \subseteq NodeIDs BY <1>4, EntryOfId
<1>8. \A other \in Ids(node_list) : Len(QueueIn(node_list, other)) <= QueueLimit
  BY <1>4, QueuesWithinLimit DEF Inv, TypeOK
<1>9. ASSUME NEW id \in Ids(node_list), destination \in {id, None}
      PROVE  /\ QueueIn(node_list', id) \in Seq(Messages)
             /\ Len(QueueIn(node_list', id)) <= QueueLimit
             /\ Increasing(QueueIn(node_list', id))
             /\ Elems(QueueIn(node_list', id)) \subseteq Waiting(id) \cup {m}
             /\ \A a \in Waiting(id) \cup {m} :
                  \/ a \in Elems(QueueIn(node_list', id))
                  \/ /\ Len(QueueIn(node_list', id)) = QueueLimit
                     /\ \A b \in Elems(QueueIn(node_list', id)) : a < b
  <2>1. PICK q, new : q = QueueIn(node_list, id) /\ new = enqueue(q, m) OBVIOUS
  <2>2. new = QueueIn(node_list', id) BY <1>5, <1>9, <2>1
  <2>3. q = Queue(id) /\ Waiting(id) = Elems(q) BY <2>1 DEF Queue, QueueIn, Waiting, Elems
  <2>4. q \in Seq(Messages) /\ Len(q) <= QueueLimit BY <1>4, <1>8, <2>1, EntryOfId
  <2>5. OrderInv(id) BY <1>7 DEF Inv
  <2>6. Increasing(q) BY <2>3, <2>5 DEF OrderInv
  <2>7. \A a \in Elems(q) : a < m
    <3> SUFFICES ASSUME NEW a \in Elems(q) PROVE a < m OBVIOUS
    <3>1. a <= posted /\ a \in Messages
      BY <1>6, <1>7, <2>3, <2>5 DEF OrderInv
    <3>2. a \in Nat BY <3>1, MailboxesAssumption
    <3> QED BY <1>3, <3>1, <3>2
  <2>8. /\ new \in Seq(Messages) /\ Len(new) <= QueueLimit /\ Increasing(new)
        /\ Elems(new) \subseteq Elems(q) \cup {m}
        /\ \A a \in Elems(q) \cup {m} :
             \/ a \in Elems(new)
             \/ Len(new) = QueueLimit /\ \A b \in Elems(new) : a < b
    BY <1>3, <2>1, <2>4, <2>6, <2>7, Enqueued
  <2> QED BY <2>2, <2>3, <2>8
<1>10. TypeOK'
  <2>1. \A other \in Ids(node_list') : Len(QueueIn(node_list', other)) <= QueueLimit
    BY <1>5, <1>8, <1>9
  <2>2. \A j \in DOMAIN node_list' : Len(node_list'[j].message_queue) <= QueueLimit
    BY <1>5, <2>1, QueuesWithinLimit
  <2> QED BY <1>1, <1>2, <1>3, <1>5, <1>6, <2>2 DEF Inv, TypeOK
<1>11. ListInv' BY <1>1, <1>5 DEF Inv, ListInv
<1>12. StreamInv' /\ \A other : OnTheWay(other)' = OnTheWay(other)
  <2>1. \A j \in Streams : stream[j] # None =>
           /\ stream[j].open => place'[stream[j].node_id] = "here"
           /\ stream[j].step = "new_server" =>
                stream[j].node_id \notin Ids(node_list') \cup migrating'
    BY <1>1, <1>5 DEF Inv, StreamInv
  <2> QED BY <1>1, <2>1, SameStreams DEF Inv
<1>13. ASSUME NEW id \in NodeIDs PROVE OrderInv(id)'
  <2>1. OrderInv(id) BY DEF Inv
  <2>2. /\ Got(id)' = Got(id) /\ OnTheWay(id)' = OnTheWay(id) /\ lost'[id] = lost[id]
        /\ received'[id] = received[id] BY <1>1, <1>12 DEF Got
  <2>3. \A message \in Got(id) \cup OnTheWay(id) \cup addressed[id] :
          message \in Nat /\ message <= posted /\ message < m
    <3>1. Got(id) \subseteq Messages
      <4>1. received[id] \in Seq(Messages) BY DEF Inv, TypeOK
      <4> QED BY <4>1 DEF Got
    <3>2. OnTheWay(id) \subseteq Messages BY DEF OnTheWay, OpenStreams, Inv, StreamInv
    <3>3. addressed[id] \subseteq Messages BY <1>6
    <3>4. \A message \in Got(id) \cup OnTheWay(id) \cup addressed[id] : message \in Nat
      BY <3>1, <3>2, <3>3, MailboxesAssumption
    <3>5. \A message \in Got(id) \cup OnTheWay(id) \cup addressed[id] : message <= posted
      BY <2>1 DEF OrderInv
    <3> QED BY <1>3, <3>4, <3>5
  <2>4. \A message \in Got(id)' \cup OnTheWay(id)' \cup addressed'[id] : message <= posted'
    <3>1. addressed'[id] \subseteq addressed[id] \cup {m} BY <1>6
    <3>2. \A message \in Got(id) \cup OnTheWay(id) \cup addressed[id] \cup {m} : message <= m
      BY <1>3, <2>3
    <3> QED BY <1>2, <2>2, <3>1, <3>2
  <2>5. CASE ~ (id \in Ids(node_list) /\ destination \in {id, None})
    <3>1. addressed'[id] = addressed[id] BY <1>6, <2>5
    <3>2. id \in Ids(node_list') => /\ id \in Ids(node_list)
                                    /\ QueueIn(node_list', id) = QueueIn(node_list, id)
      BY <1>5, <2>5
    <3>3. id \in Ids(node_list)' => /\ id \in Ids(node_list)
                                    /\ Queue(id)' = Queue(id) /\ Waiting(id)' = Waiting(id)
      BY <3>2 DEF Queue, QueueIn, Waiting
    <3>4. \A message : id \in Ids(node_list)' /\ Explained(id, message) => Explained(id, message)'
      BY <2>2, <3>1, <3>3 DEF Explained
    <3> QED BY <2>1, <2>2, <2>4, <3>1, <3>3, <3>4 DEF OrderInv, Before, Increasing
  <2>6. CASE id \in Ids(node_list) /\ destination \in {id, None}
    <3>1. addressed'[id] = addressed[id] \cup {m} BY <1>6, <2>6
    <3>2. PICK new : new = QueueIn(node_list', id) OBVIOUS
    <3>3. /\ new \in Seq(Messages) /\ Increasing(new)
          /\ Elems(new) \subseteq Waiting(id) \cup {m}
          /\ \A a \in Waiting(id) \cup {m} :
               \/ a \in Elems(new)
               \/ Len(new) = QueueLimit /\ \A b \in Elems(new) : a < b
      BY <1>9, <2>6, <3>2
    <3>4. Queue(id)' = new /\ Waiting(id)' = Elems(new) BY <3>2 DEF Queue, QueueIn, Waiting, Elems
    <3>5. Waiting(id) \subseteq addressed[id] /\ Before(Got(id) \cup OnTheWay(id), Waiting(id))
      BY <2>1, <2>6 DEF OrderInv
    <3>6. Waiting(id)' \subseteq addressed'[id] BY <3>1, <3>3, <3>4, <3>5
    <3>7. \A a \in Got(id)' \cup OnTheWay(id)', b \in Waiting(id)' : a < b
      BY <2>2, <2>3, <3>3, <3>4, <3>5 DEF Before
    <3>8. IsFiniteSet(addressed'[id])
      <4>1. addressed'[id] \subseteq 0 .. m BY <1>3, <2>3, <3>1
      <4>2. IsFiniteSet(0 .. m) BY <1>3, FS_Interval
      <4> QED BY <4>1, <4>2, FS_Subset
    <3>9. ASSUME NEW message \in addressed'[id] PROVE Explained(id, message)'
      <4>1. CASE message \in Waiting(id) \cup {m}
        <5>1. CASE message \in Elems(new) BY <3>4, <5>1 DEF Explained
        <5>2. CASE Len(new) = QueueLimit /\ \A b \in Elems(new) : message < b
          <6>1. Elems(new) \subseteq {newer \in addressed'[id] : newer > message}
            BY <3>4, <3>6, <5>2
          <6>2. Cardinality(Elems(new)) = QueueLimit BY <3>3, <5>2, IncreasingCardinality
          <6>3. IsFiniteSet({newer \in addressed'[id] : newer > message}) BY <3>8, FS_Subset
          <6>4. QueueLimit <= Cardinality({newer \in addressed'[id] : newer > message})
            BY <6>1, <6>2, <6>3, FS_Subset
          <6>5. /\ QueueLimit \in Nat
                /\ Cardinality({newer \in addressed'[id] : newer > message}) \in Nat
            BY <6>3, FS_CardinalityType, QueueLimitAssumption
          <6> QED BY <6>4, <6>5 DEF Explained
        <5> QED BY <3>3, <4>1, <5>1, <5>2
      <4>2. CASE message \notin Waiting(id) \cup {m}
        <5>1. Explained(id, message) BY <2>1, <2>6, <3>1, <4>2 DEF OrderInv
        <5>2. CASE message \in Got(id) \cup OnTheWay(id) \cup lost[id]
          BY <2>2, <5>2 DEF Explained
        <5>3. CASE Cardinality({newer \in addressed[id] : newer > message}) >= QueueLimit
          <6>1. {newer \in addressed[id] : newer > message}
                  \subseteq {newer \in addressed'[id] : newer > message} BY <3>1
          <6>2. IsFiniteSet({newer \in addressed'[id] : newer > message}) BY <3>8, FS_Subset
          <6>3. /\ IsFiniteSet({newer \in addressed[id] : newer > message})
                /\ Cardinality({newer \in addressed[id] : newer > message})
                     <= Cardinality({newer \in addressed'[id] : newer > message})
            BY <6>1, <6>2, FS_Subset
          <6>4. /\ QueueLimit \in Nat
                /\ Cardinality({newer \in addressed[id] : newer > message}) \in Nat
                /\ Cardinality({newer \in addressed'[id] : newer > message}) \in Nat
            BY <6>2, <6>3, FS_CardinalityType, QueueLimitAssumption
          <6>5. Cardinality({newer \in addressed'[id] : newer > message}) >= QueueLimit
            BY <5>3, <6>3, <6>4
          <6> QED BY <6>5 DEF Explained
        <5> QED BY <4>2, <5>1, <5>2, <5>3 DEF Explained
      <4> QED BY <4>1, <4>2
    <3> QED BY <2>1, <2>2, <2>4, <3>3, <3>4, <3>6, <3>7, <3>9 DEF OrderInv, Before, Increasing
  <2> QED BY <2>5, <2>6
<1>14. Inv' BY <1>10, <1>11, <1>12, <1>13 DEF Inv
<1> QED BY <1>2, <1>3, <1>5, <1>12, <1>14

(* A step of something else.                                               *)
LEMMA UnchangedKeeps ==
  ASSUME Inv, UNCHANGED vars
  PROVE  Inv'
<1>1. UNCHANGED <<node_list, new_server, poisoned, stream, place, migrating,
                  posted, addressed, lost, received>>
  BY DEF vars, serverVars, historyVars
<1>2. TypeOK' BY <1>1 DEF Inv, TypeOK
<1>3. ListInv' BY <1>1 DEF Inv, ListInv
<1>4. StreamInv' /\ \A other : OnTheWay(other)' = OnTheWay(other)
  <2>1. \A j \in Streams : stream[j] # None =>
           /\ stream[j].open => place'[stream[j].node_id] = "here"
           /\ stream[j].step = "new_server" =>
                stream[j].node_id \notin Ids(node_list') \cup migrating'
    BY <1>1 DEF Inv, StreamInv
  <2> QED BY <1>1, <2>1, SameStreams DEF Inv
<1>5. \A other \in NodeIDs : OrderInv(other)' BY <1>1, <1>4, OrderKept DEF Inv
<1> QED BY <1>2, <1>3, <1>4, <1>5 DEF Inv

(* The handlers that end, or go on, without touching the list.             *)
LEMMA EndedRequest ==
  ASSUME Inv, NEW k \in Streams,
         HandlerFails(k) \/ HandleUnknownNode(k) \/ NoCustomMessage(k)
  PROVE  /\ Inv' /\ \A other : OnTheWay(other)' = OnTheWay(other)
         /\ At(k, "request") \/ At(k, "messages")
         /\ UNCHANGED <<node_list, received>>
         /\ stream' = [stream EXCEPT ![k] = None]
<1>1. /\ At(k, "request") \/ At(k, "messages")
      /\ stream' = [stream EXCEPT ![k] = None]
      /\ UNCHANGED <<node_list, new_server, place, migrating, historyVars>>
  BY DEF HandlerFails, HandleUnknownNode, NoCustomMessage, Handles, serverVars
<1>2. poisoned' \in BOOLEAN
  <2>1. CASE HandlerFails(k) \/ NoCustomMessage(k)
    <3>1. UNCHANGED poisoned BY <2>1 DEF HandlerFails, NoCustomMessage, serverVars
    <3> QED BY <3>1 DEF Inv, TypeOK
  <2>2. CASE HandleUnknownNode(k) BY <2>2 DEF HandleUnknownNode
  <2> QED BY <2>1, <2>2
<1> QED BY <1>1, <1>2, HandlerStepKeeps DEF historyVars

(* A handler that goes on to the queue.                                    *)
LEMMA HandleNeedsDataKeeps ==
  ASSUME Inv, NEW k \in Streams, HandleNeedsData(k)
  PROVE  Inv' /\ \A other : OnTheWay(other)' = OnTheWay(other)
<1>1. /\ At(k, "request")
      /\ UNCHANGED <<node_list, new_server, poisoned, place, migrating, historyVars>>
      /\ stream' = [stream EXCEPT ![k] = [stream[k] EXCEPT !.step = "messages"]]
  BY DEF HandleNeedsData, Handles, serverVars, At, Inv, TypeOK
<1>2. poisoned' \in BOOLEAN BY <1>1 DEF Inv, TypeOK
<1> QED BY <1>1, <1>2, HandlerStepKeeps

(* The invariant is inductive.                                             *)
LEMMA MBNext == Inv /\ [Next]_vars => Inv'
<1> SUFFICES ASSUME Inv, [Next]_vars PROVE Inv' OBVIOUS
<1>1. CASE UNCHANGED vars BY <1>1, UnchangedKeeps
<1>2. ASSUME NEW k \in Streams, NEW id \in NodeIDs, SendNeedsData(k, id) PROVE Inv'
  BY <1>2, SendNeedsDataKeeps
<1>3. ASSUME NEW k \in Streams, GetCustomMessage(k) PROVE Inv' BY <1>3, GetCustomMessageKeeps
<1>4. ASSUME NEW k \in Streams, GetNewServer(k) PROVE Inv' BY <1>4, GetNewServerKeeps
<1>5. ASSUME NEW k \in Streams, StreamBreaks(k) PROVE Inv' BY <1>5, StreamBreaksKeeps
<1>6. ASSUME NEW k \in Streams, HandlerFails(k) \/ HandleUnknownNode(k) \/ NoCustomMessage(k)
      PROVE  Inv' BY <1>6, EndedRequest
<1>7. ASSUME NEW k \in Streams, HandleNeedsData(k) PROVE Inv' BY <1>7, HandleNeedsDataKeeps
<1>8. ASSUME NEW k \in Streams, HandleLeavingNode(k) PROVE Inv' BY <1>8, HandleLeavingNodeKeeps
<1>9. ASSUME NEW k \in Streams, SendCustomMessage(k) PROVE Inv' BY <1>9, SendCustomMessageKeeps
<1>10. ASSUME NEW id \in NodeIDs, Migrate(id) PROVE Inv' BY <1>10, MigrateKeeps
<1>11. ASSUME NEW id \in NodeIDs, HandleRegister(id) PROVE Inv' BY <1>11, HandleRegisterKeeps
<1>12. ASSUME NEW id \in NodeIDs, HandleNodeMigrated(id) PROVE Inv'
  BY <1>12, HandleNodeMigratedKeeps
<1>13. CASE HandleNewServer BY <1>13, HandleNewServerKeeps
<1>14. ASSUME NEW destination \in NodeIDs \cup {None}, HandleCustomMessage(destination)
       PROVE  Inv' BY <1>14, HandleCustomMessageKeeps
<1>15. CASE Next
  BY <1>2, <1>3, <1>4, <1>5, <1>6, <1>7, <1>8, <1>9, <1>10, <1>11, <1>12, <1>13, <1>14, <1>15
     DEF Next
<1> QED BY <1>1, <1>15

-----------------------------------------------------------------------------
(* The theorems.                                                           *)

(* What the list, its queues, the streams and the nodes know of each       *)
(* other.                                                                  *)
THEOREM Invariant == Spec => []Inv
<1> QED BY MBInit, MBNext, PTL DEF Spec

(* Every variable has its type, and no queue ever holds more than the      *)
(* limit (nc_node_info.rs add_message, add_message_all).                   *)
THEOREM TypeCorrect == Spec => []TypeOK
<1>1. Inv => TypeOK BY DEF Inv
<1> QED BY <1>1, Invariant, PTL

(* Whatever streams break and nodes move, a node processes its messages in *)
(* the order of their posts, none twice (nc_server.rs                      *)
(* prepare_data_for_node, nc_node_info.rs get_message).                    *)
THEOREM MessagesAreInOrder == Spec => []MessagesInOrder
<1>1. Inv => MessagesInOrder
  <2> SUFFICES ASSUME Inv, NEW id \in NodeIDs
      PROVE  /\ Increasing(received[id])
             /\ id \in Ids(node_list) => Increasing(Queue(id))
             /\ \A i \in DOMAIN received[id] :
                  /\ \A message \in OnTheWay(id) : received[id][i] < message
                  /\ id \in Ids(node_list) =>
                       \A j \in DOMAIN Queue(id) : received[id][i] < Queue(id)[j]
             /\ id \in Ids(node_list) =>
                  \A message \in OnTheWay(id), j \in DOMAIN Queue(id) : message < Queue(id)[j]
    BY DEF MessagesInOrder
  <2>1. OrderInv(id) BY DEF Inv
  <2>2. /\ \A i \in DOMAIN received[id] : received[id][i] \in Got(id)
        /\ \A j \in DOMAIN Queue(id) : Queue(id)[j] \in Waiting(id)
    BY DEF Got, Waiting
  <2> QED BY <2>1, <2>2 DEF OrderInv, Before
<1> QED BY <1>1, Invariant, PTL

(* A message a node never gets was lost with a stream or pushed out by as  *)
(* many newer ones as a queue holds (nc_node_info.rs add_message).         *)
THEOREM NothingIsForgotten == Spec => []NothingForgotten
<1>1. Inv => NothingForgotten
  <2> SUFFICES ASSUME Inv PROVE NothingForgotten OBVIOUS
  <2>1. \A id \in Ids(node_list) : id \in NodeIDs BY EntryOfId DEF Inv, TypeOK, ListInv
  <2>2. \A id \in Ids(node_list) : \A message \in addressed[id] : Explained(id, message)
    BY <2>1 DEF Inv, OrderInv
  <2> QED BY <2>2 DEF NothingForgotten, Explained
<1> QED BY <1>1, Invariant, PTL

-----------------------------------------------------------------------------
(* The refinement: what MailboxSpec sees of this system.                   *)

(* The boxes are the queues of those on the list.                          *)
LEMMA BoxIs ==
  /\ box = [id \in NodeIDs |-> IF id \in Ids(node_list) THEN QueueIn(node_list, id) ELSE None]
  /\ box' = [id \in NodeIDs |->
               IF id \in Ids(node_list') THEN QueueIn(node_list', id) ELSE None]
BY DEF box, Queue, QueueIn

(* What is carried is what is on the way.                                  *)
LEMMA CarriedIs ==
  /\ carried = [id \in NodeIDs |-> carried[id]]
  /\ carried' = [id \in NodeIDs |-> carried'[id]]
  /\ \A id \in NodeIDs :
       /\ OnTheWay(id) = {} => carried[id] = None
       /\ OnTheWay(id)' = {} => carried'[id] = None
       /\ \A m : OnTheWay(id) = {m} => carried[id] = m
       /\ \A m : OnTheWay(id)' = {m} => carried'[id] = m
       /\ OnTheWay(id)' = OnTheWay(id) => carried'[id] = carried[id]
<1>1. /\ carried = [id \in NodeIDs |-> carried[id]]
      /\ \A id \in NodeIDs : carried[id] =
           IF OnTheWay(id) = {} THEN None ELSE CHOOSE message \in OnTheWay(id) : TRUE
  BY DEF carried
<1>2. /\ carried' = [id \in NodeIDs |-> carried'[id]]
      /\ \A id \in NodeIDs : carried'[id] =
           IF OnTheWay(id)' = {} THEN None ELSE CHOOSE message \in OnTheWay(id)' : TRUE
  BY DEF carried
<1>3. ASSUME NEW id \in NodeIDs
      PROVE  /\ OnTheWay(id) = {} => carried[id] = None
             /\ OnTheWay(id)' = {} => carried'[id] = None
             /\ OnTheWay(id)' = OnTheWay(id) => carried'[id] = carried[id]
  BY <1>1, <1>2
<1>4. ASSUME NEW id \in NodeIDs, NEW m
      PROVE  /\ OnTheWay(id) = {m} => carried[id] = m
             /\ OnTheWay(id)' = {m} => carried'[id] = m
  <2>1. \A S : S = {m} => S # {} /\ (CHOOSE message \in S : TRUE) = m OBVIOUS
  <2> QED BY <1>1, <1>2, <2>1
<1> QED BY <1>1, <1>2, <1>3, <1>4

(* Whose request a slot holds.                                             *)
LEMMA AskingIs ==
  /\ asking = [k \in Streams |-> asking[k]]
  /\ asking' = [k \in Streams |-> asking'[k]]
  /\ \A k \in Streams :
       /\ At(k, "request") \/ At(k, "messages") => asking[k] = stream[k].node_id
       /\ ~ At(k, "request") /\ ~ At(k, "messages") => asking[k] = None
       /\ At(k, "request")' \/ At(k, "messages")' => asking'[k] = stream'[k].node_id
       /\ ~ At(k, "request")' /\ ~ At(k, "messages")' => asking'[k] = None
<1>1. /\ asking = [k \in Streams |-> asking[k]]
      /\ \A k \in Streams : asking[k] =
           IF At(k, "request") \/ At(k, "messages") THEN stream[k].node_id ELSE None
  BY DEF asking
<1>2. /\ asking' = [k \in Streams |-> asking'[k]]
      /\ \A k \in Streams : asking'[k] =
           IF At(k, "request")' \/ At(k, "messages")' THEN stream'[k].node_id ELSE None
  BY DEF asking
<1> QED BY <1>1, <1>2

(* The boxes are the same if the queues are.                               *)
LEMMA SameBox ==
  ASSUME Ids(node_list') = Ids(node_list),
         \A id \in Ids(node_list) : QueueIn(node_list', id) = QueueIn(node_list, id)
  PROVE  box' = box
BY BoxIs

(* And so is what they have handed out.                                    *)
LEMMA SameCarried ==
  ASSUME \A id \in NodeIDs : OnTheWay(id)' = OnTheWay(id)
  PROVE  carried' = carried
BY CarriedIs

(* One slot answers, or asks.                                              *)
LEMMA AskingAt ==
  ASSUME TypeOK, NEW k \in Streams, \A j \in Streams \ {k} : stream'[j] = stream[j]
  PROVE  /\ asking' = [asking EXCEPT ![k] = asking'[k]]
         /\ asking'[k] = asking[k] => asking' = asking
<1>1. \A j \in Streams \ {k} : asking'[j] = asking[j]
  <2> SUFFICES ASSUME NEW j \in Streams \ {k} PROVE asking'[j] = asking[j] OBVIOUS
  <2>1. \A step : At(j, step)' <=> At(j, step) BY DEF At
  <2> QED BY <2>1, AskingIs
<1> QED BY <1>1, AskingIs

(* A slot that leaves its request as it is.                                *)
LEMMA SameAsking ==
  ASSUME TypeOK, NEW k \in Streams, \A j \in Streams \ {k} : stream'[j] = stream[j],
         \/ ~ At(k, "request") /\ ~ At(k, "messages")
              /\ ~ At(k, "request")' /\ ~ At(k, "messages")'
         \/ /\ At(k, "request") \/ At(k, "messages")
            /\ At(k, "request")' \/ At(k, "messages")'
            /\ stream'[k].node_id = stream[k].node_id
  PROVE  asking' = asking
<1>1. asking'[k] = asking[k] BY AskingIs
<1> QED BY <1>1, AskingAt

(* A slot whose request is answered.                                       *)
LEMMA AnsweredAt ==
  ASSUME TypeOK, NEW k \in Streams, \A j \in Streams \ {k} : stream'[j] = stream[j],
         At(k, "request") \/ At(k, "messages"),
         ~ At(k, "request")' /\ ~ At(k, "messages")'
  PROVE  Box!Answered(k) /\ asking[k] = stream[k].node_id /\ asking[k] \in NodeIDs
<1>1. asking[k] = stream[k].node_id /\ asking'[k] = None BY AskingIs
<1>2. stream[k].node_id \in NodeIDs BY DEF At, TypeOK, Stream
<1>3. asking[k] # None BY <1>1, <1>2, NCMessagesAssumption
<1>4. asking' = [asking EXCEPT ![k] = None] BY <1>1, AskingAt
<1> QED BY <1>1, <1>2, <1>3, <1>4 DEF Box!Answered

(* The slots of a step that changes one of them.                           *)
LEMMA OtherSlots ==
  ASSUME TypeOK, NEW k \in Streams, NEW v, stream' = [stream EXCEPT ![k] = v]
  PROVE  /\ stream'[k] = v /\ \A j \in Streams \ {k} : stream'[j] = stream[j]
         /\ v = None => \A step : ~ At(k, step)'
<1>1. stream'[k] = v /\ \A j \in Streams \ {k} : stream'[j] = stream[j] BY DEF TypeOK
<1> QED BY <1>1 DEF At

(* NeedsData is a request for a letter.                                    *)
LEMMA SendNeedsDataAsks ==
  ASSUME Inv, NEW k \in Streams, NEW id \in NodeIDs, SendNeedsData(k, id)
  PROVE  Box!Ask(k)
<1>1. PICK v : v = [node_id |-> id, open |-> TRUE, step |-> "request", message |-> None] OBVIOUS
<1>2. /\ stream[k] = None /\ stream' = [stream EXCEPT ![k] = v]
      /\ v.node_id = id /\ v.step = "request"
      /\ UNCHANGED <<node_list, received>>
  BY <1>1 DEF SendNeedsData, serverVars, historyVars
<1>3. v # None
  <2>1. v \in Stream BY <1>1 DEF Stream
  <2> QED BY <2>1, MailboxesAssumption
<1>4. stream'[k] = v /\ \A j \in Streams \ {k} : stream'[j] = stream[j]
  BY <1>2, OtherSlots DEF Inv
<1>5. asking[k] = None /\ asking'[k] = id
  <2>1. ~ At(k, "request") /\ ~ At(k, "messages") BY <1>2 DEF At
  <2>2. At(k, "request")' /\ stream'[k].node_id = id BY <1>2, <1>3, <1>4 DEF At
  <2> QED BY <2>1, <2>2, AskingIs
<1>6. asking' = [asking EXCEPT ![k] = id] BY <1>4, <1>5, AskingAt DEF Inv
<1>7. box' = box BY <1>2, SameBox
<1>8. carried' = carried BY SendNeedsDataKeeps, SameCarried
<1> QED BY <1>2, <1>5, <1>6, <1>7, <1>8 DEF Box!Ask

(* The node reads the answer: the letter arrives.                          *)
LEMMA GetCustomMessageArrives ==
  ASSUME Inv, NEW k \in Streams, GetCustomMessage(k)
  PROVE  \E id \in NodeIDs : Box!Arrive(id)
<1>1. PICK id \in NodeIDs, m \in Messages :
        /\ id = stream[k].node_id /\ m = stream[k].message
        /\ OnTheWay(id) = {m} /\ OnTheWay(id)' = {}
        /\ \A other : other # id => OnTheWay(other)' = OnTheWay(other)
  BY GetCustomMessageKeeps
<1>2. /\ At(k, "message") /\ stream' = [stream EXCEPT ![k] = None] /\ node_list' = node_list
      /\ received' = [received EXCEPT ![id] = Append(received[id], m)]
  BY <1>1 DEF GetCustomMessage, serverVars, Inv, TypeOK
<1>3. carried[id] = m /\ m # None /\ carried' = [carried EXCEPT ![id] = None]
  <2>1. carried[id] = m /\ carried'[id] = None BY <1>1, CarriedIs
  <2>2. \A other \in NodeIDs \ {id} : carried'[other] = carried[other] BY <1>1, CarriedIs
  <2> QED BY <2>1, <2>2, CarriedIs, NCMessagesAssumption
<1>4. box' = box BY <1>2, SameBox
<1>5. asking' = asking
  <2>1. ~ At(k, "request") /\ ~ At(k, "messages") BY <1>2 DEF At
  <2> QED BY <1>2, <2>1, OtherSlots, SameAsking DEF Inv
<1>6. Box!Arrive(id) BY <1>2, <1>3, <1>4, <1>5 DEF Box!Arrive
<1> QED BY <1>6

(* A broken stream loses the letter it carries, if it carries one.         *)
LEMMA StreamBreaksLoses ==
  ASSUME Inv, NEW k \in Streams, StreamBreaks(k)
  PROVE  (\E id \in NodeIDs : Box!GetLost(id)) \/ UNCHANGED <<box, asking, carried, received>>
<1>1. /\ stream[k] # None /\ stream[k].open /\ UNCHANGED <<node_list, received>>
      /\ \A j \in Streams \ {k} : stream'[j] = stream[j]
  BY OtherSlots DEF StreamBreaks, serverVars, Inv, TypeOK
<1>2. box' = box BY <1>1, SameBox
<1>3. asking' = asking
  <2>1. \A step \in {"request", "messages"} :
          /\ At(k, step)' <=> At(k, step)
          /\ At(k, step) => stream'[k].node_id = stream[k].node_id BY StreamBreaksKeeps
  <2>2. CASE At(k, "request") \/ At(k, "messages") BY <1>1, <2>1, <2>2, SameAsking DEF Inv
  <2>3. CASE ~ At(k, "request") /\ ~ At(k, "messages") BY <1>1, <2>1, <2>3, SameAsking DEF Inv
  <2> QED BY <2>2, <2>3
<1>4. CASE stream[k].step # "message"
  <2>1. \A other : ~ Carries(k, other) BY <1>4 DEF Carries
  <2>2. carried' = carried BY <2>1, StreamBreaksKeeps, SameCarried
  <2> QED BY <1>1, <1>2, <1>3, <2>2
<1>5. CASE stream[k].step = "message"
  <2>1. PICK id, m : id = stream[k].node_id /\ m = stream[k].message OBVIOUS
  <2>2. id \in NodeIDs /\ m \in Messages /\ Carries(k, id)
    BY <1>1, <1>5, <2>1 DEF Inv, StreamInv, TypeOK, Stream, Carries
  <2>3. OnTheWay(id) = {m} /\ OnTheWay(id)' = {} BY <2>1, <2>2, StreamBreaksKeeps
  <2>4. \A other : other # id => OnTheWay(other)' = OnTheWay(other)
    <3>1. \A other : other # id => ~ Carries(k, other) BY <2>1 DEF Carries
    <3> QED BY <3>1, StreamBreaksKeeps
  <2>5. carried[id] = m /\ m # None /\ carried' = [carried EXCEPT ![id] = None]
    <3>1. carried[id] = m /\ carried'[id] = None BY <2>2, <2>3, CarriedIs
    <3>2. \A other \in NodeIDs \ {id} : carried'[other] = carried[other] BY <2>4, CarriedIs
    <3> QED BY <2>2, <3>1, <3>2, CarriedIs, NCMessagesAssumption
  <2>6. Box!GetLost(id) BY <1>1, <1>2, <1>3, <2>5 DEF Box!GetLost
  <2> QED BY <2>2, <2>6
<1> QED BY <1>4, <1>5

(* A handler that ends without a message has no letter for the owner.      *)
LEMMA EndedRequestHasNoLetter ==
  ASSUME Inv, NEW k \in Streams,
         HandlerFails(k) \/ HandleUnknownNode(k) \/ NoCustomMessage(k)
  PROVE  Box!NoLetter(k)
<1>1. /\ \A other : OnTheWay(other)' = OnTheWay(other)
      /\ At(k, "request") \/ At(k, "messages")
      /\ UNCHANGED <<node_list, received>>
      /\ stream' = [stream EXCEPT ![k] = None]
  BY EndedRequest
<1>2. Box!Answered(k) BY <1>1, OtherSlots, AnsweredAt DEF Inv
<1>3. box' = box BY <1>1, SameBox
<1>4. carried' = carried BY <1>1, SameCarried
<1> QED BY <1>1, <1>2, <1>3, <1>4 DEF Box!NoLetter

(* Who must leave finds its box closed.                                    *)
LEMMA HandleLeavingNodeCloses ==
  ASSUME Inv, NEW k \in Streams, HandleLeavingNode(k)
  PROVE  Box!Close(k)
<1>1. PICK id : id = stream[k].node_id OBVIOUS
<1>2. /\ At(k, "request") /\ received' = received
      /\ \A j \in Streams \ {k} : stream'[j] = stream[j]
  BY OtherSlots DEF HandleLeavingNode, Handles, Answered, historyVars, Inv, TypeOK
<1>3. /\ \A other : OnTheWay(other)' = OnTheWay(other)
      /\ id \in Ids(node_list) /\ Ids(node_list') = Ids(node_list) \ {id}
      /\ \A other \in Ids(node_list') : QueueIn(node_list', other) = QueueIn(node_list, other)
      /\ ~ At(k, "request")' /\ ~ At(k, "messages")'
  BY <1>1, HandleLeavingNodeKeeps
<1>4. Box!Answered(k) /\ asking[k] = id /\ id \in NodeIDs
  BY <1>1, <1>2, <1>3, AnsweredAt DEF Inv
<1>5. box[id] # None
  <2>1. box[id] = QueueIn(node_list, id) BY <1>3, <1>4, BoxIs
  <2>2. QueueIn(node_list, id) \in Seq(Messages)
    BY <1>3, EntryOfId DEF Inv, TypeOK, ListInv
  <2> QED BY <2>1, <2>2, MailboxesAssumption
<1>6. box' = [box EXCEPT ![id] = None]
  <2>1. \A other \in NodeIDs : box'[other] = IF other = id THEN None ELSE box[other]
    BY <1>3, BoxIs
  <2>2. box' = [other \in NodeIDs |-> box'[other]] /\ box = [other \in NodeIDs |-> box[other]]
    BY BoxIs
  <2> QED BY <2>1, <2>2
<1>7. carried' = carried BY <1>3, SameCarried
<1> QED BY <1>2, <1>4, <1>5, <1>6, <1>7 DEF Box!Close

(* The oldest letter is taken, whether or not its owner still waits for    *)
(* it.                                                                     *)
LEMMA SendCustomMessageTakes ==
  ASSUME Inv, NEW k \in Streams, SendCustomMessage(k)
  PROVE  Box!Take(k)
<1>1. PICK id \in Ids(node_list) :
        /\ id = stream[k].node_id /\ Queue(id) # <<>>
        /\ Ids(node_list') = Ids(node_list)
        /\ \A other \in Ids(node_list) : QueueIn(node_list', other) =
             IF other = id THEN Tail(Queue(id)) ELSE QueueIn(node_list, other)
        /\ \A other : other # id => OnTheWay(other)' = OnTheWay(other)
        /\ \/ OnTheWay(id)' = OnTheWay(id)
           \/ OnTheWay(id) = {} /\ OnTheWay(id)' = {Head(Queue(id))}
  BY SendCustomMessageKeeps
<1>2. /\ At(k, "messages") /\ received' = received
      /\ \A j \in Streams \ {k} : stream'[j] = stream[j]
  BY OtherSlots DEF SendCustomMessage, Handles, Answered, Inv, TypeOK
<1>3. ~ At(k, "request")' /\ ~ At(k, "messages")' BY SendCustomMessageKeeps
<1>4. Box!Answered(k) /\ asking[k] = id /\ id \in NodeIDs
  BY <1>1, <1>2, <1>3, AnsweredAt DEF Inv
<1>5. Queue(id) = QueueIn(node_list, id) BY DEF Queue, QueueIn
<1>6. box[id] = Queue(id) /\ box[id] \notin {None, <<>>}
  <2>1. box[id] = QueueIn(node_list, id) BY <1>4, BoxIs
  <2>2. QueueIn(node_list, id) \in Seq(Messages)
    BY EntryOfId DEF Inv, TypeOK, ListInv
  <2> QED BY <1>1, <1>5, <2>1, <2>2, MailboxesAssumption
<1>7. box' = [box EXCEPT ![id] = Tail(box[id])]
  <2>1. PICK rest : rest = Tail(box[id]) OBVIOUS
  <2>2. \A other \in NodeIDs : box'[other] = IF other = id THEN rest ELSE box[other]
    BY <1>1, <1>6, <2>1, BoxIs
  <2>3. box' = [other \in NodeIDs |-> box'[other]] /\ box = [other \in NodeIDs |-> box[other]]
    BY BoxIs
  <2> QED BY <2>1, <2>2, <2>3
<1>8. \/ carried[id] = None /\ carried' = [carried EXCEPT ![id] = Head(box[id])]
      \/ carried' = carried
  <2>1. \A other \in NodeIDs \ {id} : carried'[other] = carried[other] BY <1>1, CarriedIs
  <2>2. carried = [other \in NodeIDs |-> carried[other]]
        /\ carried' = [other \in NodeIDs |-> carried'[other]] BY CarriedIs
  <2>3. CASE OnTheWay(id)' = OnTheWay(id)
    <3>1. carried'[id] = carried[id] BY <1>4, <2>3, CarriedIs
    <3> QED BY <2>1, <2>2, <3>1
  <2>4. CASE OnTheWay(id) = {} /\ OnTheWay(id)' = {Head(Queue(id))}
    <3>1. PICK first : first = Head(box[id]) OBVIOUS
    <3>2. carried[id] = None /\ carried'[id] = first BY <1>4, <1>6, <2>4, <3>1, CarriedIs
    <3>3. carried' = [carried EXCEPT ![id] = first] BY <2>1, <2>2, <3>2
    <3> QED BY <3>1, <3>2, <3>3
  <2> QED BY <1>1, <2>3, <2>4
<1> QED BY <1>2, <1>4, <1>6, <1>7, <1>8 DEF Box!Take

(* Registration and migration.                                             *)
LEMMA EnlistedOpens ==
  ASSUME Inv, NEW id \in NodeIDs, HandleRegister(id) \/ HandleNodeMigrated(id)
  PROVE  Box!Open(id)
<1>1. /\ id \notin Ids(node_list)
      /\ \A other : OnTheWay(other)' = OnTheWay(other)
      /\ Ids(node_list') = Ids(node_list) \cup {id}
      /\ QueueIn(node_list', id) = <<>>
      /\ \A other \in Ids(node_list) : QueueIn(node_list', other) = QueueIn(node_list, other)
  <2>1. CASE HandleRegister(id) BY <2>1, HandleRegisterKeeps
  <2>2. CASE HandleNodeMigrated(id) BY <2>2, HandleNodeMigratedKeeps
  <2> QED BY <2>1, <2>2
<1>2. UNCHANGED <<stream, received>> BY DEF HandleRegister, HandleNodeMigrated
<1>3. box[id] = None BY <1>1, BoxIs
<1>4. box' = [box EXCEPT ![id] = <<>>]
  <2>1. \A other \in NodeIDs : box'[other] = IF other = id THEN <<>> ELSE box[other]
    BY <1>1, BoxIs
  <2>2. box' = [other \in NodeIDs |-> box'[other]] /\ box = [other \in NodeIDs |-> box[other]]
    BY BoxIs
  <2> QED BY <2>1, <2>2
<1>5. asking' = asking BY <1>2 DEF asking, At
<1>6. carried' = carried BY <1>1, SameCarried
<1> QED BY <1>2, <1>3, <1>4, <1>5, <1>6 DEF Box!Open

(* A message is a letter for one owner or for all of them.                 *)
LEMMA HandleCustomMessagePosts ==
  ASSUME Inv, NEW destination \in NodeIDs \cup {None}, HandleCustomMessage(destination)
  PROVE  \E letter \in Messages :
           Box!Post(letter, NodeIDs) \/ \E id \in NodeIDs : Box!Post(letter, {id})
<1>1. PICK m \in Messages :
        /\ \A other : OnTheWay(other)' = OnTheWay(other)
        /\ Ids(node_list') = Ids(node_list)
        /\ \A other \in Ids(node_list) : QueueIn(node_list', other) =
             IF destination \in {other, None} THEN enqueue(QueueIn(node_list, other), m)
             ELSE QueueIn(node_list, other)
  <2>1. PICK m : m = posted' OBVIOUS
  <2> QED BY <2>1, HandleCustomMessageKeeps
<1>2. UNCHANGED <<stream, received>> BY DEF HandleCustomMessage
<1>3. asking' = asking BY <1>2 DEF asking, At
<1>4. carried' = carried BY <1>1, SameCarried
<1>5. \A q : Box!Newest(Append(q, m)) = enqueue(q, m) BY DEF Box!Newest, enqueue
<1>6. ASSUME NEW receivers, \A id \in NodeIDs : id \in receivers <=> destination \in {id, None}
      PROVE  Box!Post(m, receivers)
  <2>1. \A id \in NodeIDs : box[id] # None <=> id \in Ids(node_list)
    <3>1. \A id \in Ids(node_list) : QueueIn(node_list, id) # None
      BY EntryOfId, MailboxesAssumption DEF Inv, TypeOK, ListInv
    <3> QED BY <3>1, BoxIs
  <2>2. \A id \in NodeIDs : box'[id] = IF id \in receivers /\ box[id] # None
                                       THEN Box!Newest(Append(box[id], m)) ELSE box[id]
    <3> SUFFICES ASSUME NEW id \in NodeIDs
                 PROVE  box'[id] = IF id \in receivers /\ box[id] # None
                                   THEN Box!Newest(Append(box[id], m)) ELSE box[id] OBVIOUS
    <3>1. CASE id \in Ids(node_list)
      <4>1. box[id] = QueueIn(node_list, id) /\ box'[id] = QueueIn(node_list', id)
        BY <1>1, <3>1, BoxIs
      <4>2. QueueIn(node_list', id) = IF id \in receivers THEN enqueue(box[id], m) ELSE box[id]
        BY <1>1, <1>6, <3>1, <4>1
      <4> QED BY <1>5, <2>1, <3>1, <4>1, <4>2
    <3>2. CASE id \notin Ids(node_list)
      <4>1. box[id] = None /\ box'[id] = None BY <1>1, <3>2, BoxIs
      <4> QED BY <4>1
    <3> QED BY <3>1, <3>2
  <2>3. box' = [id \in NodeIDs |-> box'[id]] BY BoxIs
  <2>4. box' = [id \in NodeIDs |-> IF id \in receivers /\ box[id] # None
                                   THEN Box!Newest(Append(box[id], m)) ELSE box[id]]
    BY <2>2, <2>3
  <2> QED BY <1>2, <1>3, <1>4, <2>4 DEF Box!Post
<1>7. CASE destination = None
  <2>1. Box!Post(m, NodeIDs) BY <1>6, <1>7
  <2> QED BY <2>1
<1>8. CASE destination \in NodeIDs
  <2>1. destination # None BY <1>8, NCMessagesAssumption
  <2>2. Box!Post(m, {destination}) BY <1>6, <2>1
  <2> QED BY <1>8, <2>2
<1> QED BY <1>7, <1>8

(* Steps a mailbox knows nothing of.                                       *)
LEMMA Stutters ==
  ASSUME Inv,
         \/ UNCHANGED vars \/ HandleNewServer
         \/ \E id \in NodeIDs : Migrate(id)
         \/ \E k \in Streams : GetNewServer(k) \/ HandleNeedsData(k)
  PROVE  UNCHANGED <<box, asking, carried, received>>
<1>1. UNCHANGED <<node_list, received>>
  BY DEF vars, serverVars, historyVars, HandleNewServer, Migrate, GetNewServer, HandleNeedsData
<1>2. box' = box BY <1>1, SameBox
<1>3. carried' = carried
  <2>1. CASE UNCHANGED vars
    BY <2>1 DEF vars, carried, OnTheWay, OpenStreams
  <2>2. CASE HandleNewServer BY <2>2, HandleNewServerKeeps, SameCarried
  <2>3. CASE \E id \in NodeIDs : Migrate(id) BY <2>3, MigrateKeeps, SameCarried
  <2>4. ASSUME NEW k \in Streams, GetNewServer(k) PROVE carried' = carried
    BY <2>4, GetNewServerKeeps, SameCarried
  <2>5. ASSUME NEW k \in Streams, HandleNeedsData(k) PROVE carried' = carried
    BY <2>5, HandleNeedsDataKeeps, SameCarried
  <2> QED BY <2>1, <2>2, <2>3, <2>4, <2>5
<1>4. asking' = asking
  <2>1. CASE UNCHANGED stream BY <2>1 DEF asking, At
  <2>2. UNCHANGED vars \/ HandleNewServer \/ (\E id \in NodeIDs : Migrate(id)) => UNCHANGED stream
    BY DEF vars, HandleNewServer, Migrate
  <2>3. ASSUME NEW k \in Streams, GetNewServer(k) PROVE asking' = asking
    <3>1. At(k, "new_server") /\ stream' = [stream EXCEPT ![k] = None]
      BY <2>3 DEF GetNewServer
    <3>2. ~ At(k, "request") /\ ~ At(k, "messages") BY <3>1 DEF At
    <3> QED BY <3>1, <3>2, OtherSlots, SameAsking DEF Inv
  <2>4. ASSUME NEW k \in Streams, HandleNeedsData(k) PROVE asking' = asking
    <3>1. PICK v : v = [stream[k] EXCEPT !.step = "messages"] OBVIOUS
    <3>2. /\ At(k, "request") /\ stream' = [stream EXCEPT ![k] = v] /\ stream[k] \in Stream
      BY <2>4, <3>1 DEF HandleNeedsData, Handles, At, Inv, TypeOK
    <3>3. v.node_id = stream[k].node_id /\ v.step = "messages" /\ v # None
      <4>1. v \in Stream BY <3>1, <3>2, StreamFields
      <4> QED BY <3>1, <3>2, <4>1, MailboxesAssumption DEF Stream
    <3>4. stream'[k] = v /\ \A j \in Streams \ {k} : stream'[j] = stream[j]
      BY <3>2, OtherSlots DEF Inv
    <3>5. At(k, "messages")' /\ stream'[k].node_id = stream[k].node_id BY <3>3, <3>4 DEF At
    <3> QED BY <3>2, <3>4, <3>5, SameAsking DEF Inv
  <2> QED BY <2>1, <2>2, <2>3, <2>4
<1> QED BY <1>1, <1>2, <1>3, <1>4

(* Every step is one of the mailboxes or none of their business.           *)
LEMMA MailboxStep ==
  ASSUME Inv, [Next]_vars
  PROVE  [Box!Next]_Box!boxVars
<1> USE DEF Box!boxVars
<1>1. ASSUME \/ UNCHANGED vars \/ HandleNewServer
             \/ \E id \in NodeIDs : Migrate(id)
             \/ \E k \in Streams : GetNewServer(k) \/ HandleNeedsData(k)
      PROVE  UNCHANGED <<box, asking, carried, received>>
  BY <1>1, Stutters
<1>2. ASSUME NEW k \in Streams, NEW id \in NodeIDs, SendNeedsData(k, id) PROVE Box!Next
  BY <1>2, SendNeedsDataAsks DEF Box!Next
<1>3. ASSUME NEW k \in Streams, GetCustomMessage(k) PROVE Box!Next
  BY <1>3, GetCustomMessageArrives DEF Box!Next
<1>4. ASSUME NEW k \in Streams, StreamBreaks(k)
      PROVE  Box!Next \/ UNCHANGED <<box, asking, carried, received>>
  BY <1>4, StreamBreaksLoses DEF Box!Next
<1>5. ASSUME NEW k \in Streams, HandlerFails(k) \/ HandleUnknownNode(k) \/ NoCustomMessage(k)
      PROVE  Box!Next BY <1>5, EndedRequestHasNoLetter DEF Box!Next
<1>6. ASSUME NEW k \in Streams, HandleLeavingNode(k) PROVE Box!Next
  BY <1>6, HandleLeavingNodeCloses DEF Box!Next
<1>7. ASSUME NEW k \in Streams, SendCustomMessage(k) PROVE Box!Next
  BY <1>7, SendCustomMessageTakes DEF Box!Next
<1>8. ASSUME NEW id \in NodeIDs, HandleRegister(id) \/ HandleNodeMigrated(id) PROVE Box!Next
  BY <1>8, EnlistedOpens DEF Box!Next
<1>9. ASSUME NEW destination \in NodeIDs \cup {None}, HandleCustomMessage(destination)
      PROVE  Box!Next BY <1>9, HandleCustomMessagePosts DEF Box!Next
<1>10. CASE Next
  BY <1>1, <1>2, <1>3, <1>4, <1>5, <1>6, <1>7, <1>8, <1>9, <1>10 DEF Next
<1>11. CASE UNCHANGED vars BY <1>1, <1>11
<1> QED BY <1>10, <1>11

(* Nobody has a box at first.                                              *)
LEMMA MailboxStart == Init => Box!Init
<1> SUFFICES ASSUME Init PROVE Box!Init OBVIOUS
<1>1. box = [id \in NodeIDs |-> None]
  <2>1. Ids(node_list) = {} BY DEF Init, Ids
  <2> QED BY <2>1, BoxIs
<1>2. asking = [k \in Streams |-> None]
  <2>1. \A k \in Streams : ~ At(k, "request") /\ ~ At(k, "messages") BY DEF Init, At
  <2> QED BY <2>1, AskingIs
<1>3. carried = [id \in NodeIDs |-> None]
  <2>1. \A id \in NodeIDs : OnTheWay(id) = {} BY DEF Init, OnTheWay, OpenStreams
  <2> QED BY <2>1, CarriedIs
<1> QED BY <1>1, <1>2, <1>3 DEF Init, Box!Init

(* List, entries, handlers and streams forgotten, the server keeps what    *)
(* MailboxSpec promises: a box for each registered node that keeps its     *)
(* newest messages in order and hands each out at most once.               *)
THEOREM ImplementsMailbox == Spec => MailboxImplemented
<1>1. Inv /\ [Next]_vars => [Box!Next]_Box!boxVars BY MailboxStep
<1> QED BY <1>1, MailboxStart, Invariant, PTL DEF Spec, MailboxImplemented, Box!Spec
=============================================================================
