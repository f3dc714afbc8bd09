------------------------------ MODULE MailboxSpec ----------------------------
(***************************************************************************)
(* What a server promises about custom messages, with no list, no handlers *)
(* and no faults in it: everyone who is registered has a box that keeps    *)
(* the newest messages in the order they came, hands one out whenever its  *)
(* owner asks, and is closed when its owner has asked and must leave.  A   *)
(* message that has left the box may get lost on its way, but is never     *)
(* handed out again.                                                       *)
(***************************************************************************)
EXTENDS Naturals, Sequences

CONSTANTS Owners, Letters, Limit, Slots, Nothing

VARIABLES
  box,          \* owner -> its messages, or Nothing if it is not registered
  asking,       \* slot -> whose request waits to be answered, or Nothing
  carried,      \* owner -> the message on its way, or Nothing
  delivered     \* owner -> the messages it has got

boxVars == <<box, asking, carried, delivered>>

Newest(letters) == IF Len(letters) > Limit THEN Tail(letters) ELSE letters

Init ==
  /\ box = [o \in Owners |-> Nothing]
  /\ asking = [k \in Slots |-> Nothing]
  /\ carried = [o \in Owners |-> Nothing]
  /\ delivered = [o \in Owners |-> <<>>]

Open(o) ==
  /\ box[o] = Nothing
  /\ box' = [box EXCEPT ![o] = <<>>]
  /\ UNCHANGED <<asking, carried, delivered>>

(* One letter for one owner, or a copy for each.                           *)
Post(letter, receivers) ==
  /\ box' = [o \in Owners |-> IF o \in receivers /\ box[o] # Nothing
                              THEN Newest(Append(box[o], letter)) ELSE box[o]]
  /\ UNCHANGED <<asking, carried, delivered>>

Ask(k) ==
  /\ asking[k] = Nothing
  /\ \E o \in Owners : asking' = [asking EXCEPT ![k] = o]
  /\ UNCHANGED <<box, carried, delivered>>

Answered(k) == asking[k] # Nothing /\ asking' = [asking EXCEPT ![k] = Nothing]

NoLetter(k) == Answered(k) /\ UNCHANGED <<box, carried, delivered>>

(* The oldest letter leaves the box, for its owner or for nobody.          *)
Take(k) ==
  LET o == asking[k]
  IN  /\ Answered(k)
      /\ box[o] \notin {Nothing, <<>>}
      /\ box' = [box EXCEPT ![o] = Tail(@)]
      /\ \/ carried[o] = Nothing /\ carried' = [carried EXCEPT ![o] = Head(box[o])]
         \/ UNCHANGED carried
      /\ UNCHANGED delivered

Close(k) ==
  LET o == asking[k]
  IN  /\ Answered(k)
      /\ box[o] # Nothing
      /\ box' = [box EXCEPT ![o] = Nothing]
      /\ UNCHANGED <<carried, delivered>>

Arrive(o) ==
  /\ carried[o] # Nothing
  /\ delivered' = [delivered EXCEPT ![o] = Append(@, carried[o])]
  /\ carried' = [carried EXCEPT ![o] = Nothing]
  /\ UNCHANGED <<box, asking>>

GetLost(o) ==
  /\ carried[o] # Nothing
  /\ carried' = [carried EXCEPT ![o] = Nothing]
  /\ UNCHANGED <<box, asking, delivered>>

Next ==
  \/ \E o \in Owners : Open(o) \/ Arrive(o) \/ GetLost(o)
  \/ \E k \in Slots : Ask(k) \/ NoLetter(k) \/ Take(k) \/ Close(k)
  \/ \E letter \in Letters :
       Post(letter, Owners) \/ \E o \in Owners : Post(letter, {o})

Spec == Init /\ [][Next]_boxVars
=============================================================================
