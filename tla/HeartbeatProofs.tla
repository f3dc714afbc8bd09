--------------------------- MODULE HeartbeatProofs ---------------------------
(***************************************************************************)
(* When a node times out, for every heartbeat, clock and latency: never    *)
(* while it beats in time (NeverGivenUp), and always once it has been      *)
(* silent for long enough (SilenceDetected).                               *)
(*                                                                         *)
(* Both follow from upper bounds on the age of a stamp.  FreshStamps       *)
(* relates it to the node's own clock: how long its thread has slept, or   *)
(* how old a heartbeat under way is.  RecentCheck relates it to the clock  *)
(* of the server's check in the same way.                                  *)
(***************************************************************************)
EXTENDS Heartbeat, TLAPS

(* The largest age that is not yet too old.                                *)
OldestValid == heartbeat * Second + Second - 1

(* How long a node can be silent before the code gives it up.              *)
CodeSilence == OldestValid + CheckPeriod + Slack + Delay

Deadlines ==
  /\ \A n \in Nodes :
       /\ phase[n] = "starting" => slept[n] <= Delay
       /\ phase[n] = "beating" => slept[n] <= NodePeriod + Slack
       /\ \A a \in flight[n] : a <= Delay
  /\ check_slept <= CheckPeriod + Slack
  /\ \A a \in checks : a <= Delay

FreshStamps ==
  \A n \in Nodes :
    /\ phase[n] = "starting" => age[n] <= slept[n] /\ flight[n] = {}
    /\ phase[n] = "beating" /\ ~lost[n] =>
         /\ flight[n] = {} => age[n] <= slept[n] + Delay
         /\ flight[n] # {} =>
              \E a \in flight[n] : age[n] <= a + NodePeriod + Slack + Delay

RecentCheck ==
  \A n \in Registered \ timed_out :
    /\ checks = {} => age[n] <= OldestValid + check_slept
    /\ checks # {} => \E a \in checks : age[n] <= a + OldestValid + CheckPeriod + Slack

(* Before it registers, a node has not sent anything.                      *)
NewNodes == \A n \in Nodes : phase[n] = "new" => flight[n] = {} /\ n \notin timed_out

Inv == TypeOK /\ Deadlines /\ FreshStamps /\ RecentCheck /\ NewNodes

-----------------------------------------------------------------------------
(* A quotient is greater than h exactly from (h + 1) * c on.               *)
LEMMA DivGreater ==
  ASSUME NEW w \in Nat, NEW h \in Nat, NEW c \in Nat \ {0}
  PROVE  /\ w \div c > h => w >= h * c + c
         /\ ~ w \div c > h => w < h * c + c
<1> DEFINE q == w \div c
<1>1. q \in Nat /\ q * c <= w /\ w < q * c + c BY SMT
<1>2. h * c \in Nat /\ q * c \in Nat BY <1>1, SMT
<1> HIDE DEF q
<1>3. CASE q > h
  <2>1. PICK d \in Nat : q = h + 1 + d BY <1>1, <1>3
  <2>2. q * c = h * c + c + d * c BY <2>1, SMT
  <2>3. d * c \in Nat BY SMT
  <2> QED BY <1>1, <1>2, <1>3, <2>2, <2>3
<1>4. CASE ~ q > h
  <2>1. PICK d \in Nat : h = q + d BY <1>1, <1>4
  <2>2. h * c = q * c + d * c BY <1>1, <2>1, SMT
  <2>3. d * c \in Nat BY SMT
  <2> QED BY <1>1, <1>2, <1>4, <2>2, <2>3
<1> QED BY <1>3, <1>4 DEF q

(* The periods are numbers.  The bound of the runs is the documented one,  *)
(* a heartbeat longer than what the code's limit makes of it.              *)
LEMMA Periods ==
  /\ NodePeriod \in Nat
  /\ CheckPeriod \in Nat
  /\ OldestValid \in Nat
  /\ OldestValid = NodePeriod + Second - 1
  /\ LongestSilence = NodePeriod + CodeSilence
<1>1. heartbeat \in Nat /\ Second \in Nat \ {0} BY HeartbeatAssumption
<1>2. heartbeat * Second \in Nat BY <1>1, SMT
<1>3. 2 * heartbeat * Second \in Nat BY <1>1, SMT
<1>4. OldestValid \in Nat /\ OldestValid = NodePeriod + Second - 1
  <2> DEFINE h == heartbeat * Second
  <2>1. OldestValid = h + Second - 1 /\ NodePeriod = h BY DEF OldestValid, NodePeriod
  <2>2. h \in Nat BY <1>2
  <2> HIDE DEF h
  <2> QED BY <1>1, <2>1, <2>2
<1>5. LongestSilence = NodePeriod + CodeSilence
  <2> DEFINE h == heartbeat * Second
  <2>1. 2 * heartbeat * Second = h + h BY <1>1, SMT
  <2>2. LongestSilence = (2 * heartbeat * Second + Second - 1) + CheckPeriod + Slack + Delay
    BY DEF LongestSilence
  <2>3. CodeSilence = (h + Second - 1) + CheckPeriod + Slack + Delay /\ NodePeriod = h
    BY DEF CodeSilence, OldestValid, NodePeriod
  <2>4. h \in Nat /\ CheckPeriod \in Nat /\ Slack \in Nat /\ Delay \in Nat
    BY <1>2, <1>3, HeartbeatAssumption DEF CheckPeriod
  <2> HIDE DEF h
  <2> QED BY <1>1, <2>1, <2>2, <2>3, <2>4
<1> QED BY <1>2, <1>3, <1>4, <1>5 DEF NodePeriod, CheckPeriod

(* as_secs() > heartbeat, without the division.                            *)
LEMMA InvalidMeansOlder ==
  ASSUME NEW n \in Nodes, age[n] \in Nat
  PROVE  /\ heartbeat_invalid(n) => age[n] > OldestValid
         /\ ~ heartbeat_invalid(n) => age[n] <= OldestValid
<1>1. heartbeat \in Nat /\ Second \in Nat \ {0} BY HeartbeatAssumption
<1> DEFINE h == heartbeat * Second
           w == age[n]
<1>2. h \in Nat BY <1>1, SMT
<1>3. /\ heartbeat_invalid(n) => w >= h + Second
      /\ ~ heartbeat_invalid(n) => w < h + Second
  BY <1>1, DivGreater DEF heartbeat_invalid
<1>4. OldestValid = h + Second - 1 BY DEF OldestValid
<1> HIDE DEF h
<1> QED BY <1>1, <1>2, <1>3, <1>4

LEMMA InvInit == Init => Inv
<1> SUFFICES ASSUME Init PROVE Inv OBVIOUS
<1>1. TypeOK BY DEF Init, TypeOK
<1>2. Deadlines BY Periods, HeartbeatAssumption DEF Init, Deadlines
<1>3. FreshStamps BY DEF Init, FreshStamps
<1>4. RecentCheck BY DEF Init, RecentCheck, Registered
<1>5. NewNodes BY DEF Init, NewNodes
<1> QED BY <1>1, <1>2, <1>3, <1>4, <1>5 DEF Inv

(* A step of the server leaves the nodes' part of the invariant alone.     *)
LEMMA NodePartKept ==
  ASSUME Inv, UNCHANGED nodeVars
  PROVE  /\ FreshStamps'
         /\ Registered' = Registered
         /\ \A n \in Nodes :
              /\ phase'[n] = "starting" => slept'[n] <= Delay
              /\ phase'[n] = "beating" => slept'[n] <= NodePeriod + Slack
              /\ \A a \in flight'[n] : a <= Delay
BY DEF Inv, FreshStamps, Deadlines, Registered, nodeVars, NodePeriod

(* A step of a node that does not age its stamp leaves the server's alone. *)
LEMMA CheckPartKept ==
  ASSUME Inv, UNCHANGED checkVars, age' \in [Nodes -> Nat],
         \A n \in Registered' : age'[n] = 0 \/ (n \in Registered /\ age'[n] = age[n])
  PROVE  /\ RecentCheck'
         /\ check_slept' <= CheckPeriod + Slack
         /\ \A a \in checks' : a <= Delay
<1>1. CheckPeriod \in Nat /\ OldestValid \in Nat /\ Slack \in Nat
  BY Periods, HeartbeatAssumption
<1>2. check_slept' <= CheckPeriod + Slack /\ \A a \in checks' : a <= Delay
  BY DEF Inv, Deadlines, checkVars
<1>3. RecentCheck'
  <2> SUFFICES ASSUME NEW n \in Registered', n \notin timed_out
               PROVE  /\ checks = {} => age'[n] <= OldestValid + check_slept
                      /\ checks # {} => \E a \in checks :
                           age'[n] <= a + OldestValid + CheckPeriod + Slack
    BY DEF RecentCheck, checkVars, OldestValid, CheckPeriod
  <2>1. CASE age'[n] = 0
    <3>1. check_slept \in Nat /\ checks \subseteq Nat BY DEF Inv, TypeOK
    <3>2. \A a \in checks : 0 <= a + OldestValid + CheckPeriod + Slack BY <1>1, <3>1
    <3>3. 0 <= OldestValid + check_slept BY <1>1, <3>1
    <3> QED BY <2>1, <3>2, <3>3, Zenon
  <2>2. CASE n \in Registered /\ age'[n] = age[n]
    BY <2>2 DEF Inv, RecentCheck
  <2> QED BY <2>1, <2>2
<1> QED BY <1>2, <1>3

-----------------------------------------------------------------------------
(* One lemma per action.                                                   *)

LEMMA RegisterKeeps == ASSUME NEW n \in Nodes, Inv, Register(n) PROVE Inv'
<1> USE DEF Inv
<1>1. TypeOK' BY DEF TypeOK, Register, checkVars
<1>2. \A m \in Registered' : age'[m] = 0 \/ (m \in Registered /\ age'[m] = age[m])
  BY DEF TypeOK, Register, Registered
<1>3. RecentCheck' /\ check_slept' <= CheckPeriod + Slack /\ \A a \in checks' : a <= Delay
  BY <1>1, <1>2, CheckPartKept DEF Register, TypeOK
<1>4. Deadlines'
  BY <1>3, HeartbeatAssumption DEF TypeOK, Deadlines, Register, NodePeriod, CheckPeriod
<1>5. FreshStamps' BY DEF TypeOK, FreshStamps, NewNodes, Register, NodePeriod
<1>6. NewNodes' BY DEF TypeOK, NewNodes, Register, checkVars
<1> QED BY <1>1, <1>3, <1>4, <1>5, <1>6

LEMMA StartKeeps == ASSUME NEW n \in Nodes, Inv, Start(n) PROVE Inv'
<1> USE DEF Inv
<1>1. TypeOK' BY DEF TypeOK, Start, checkVars
<1>2. \A m \in Registered' : m \in Registered /\ age'[m] = age[m]
  BY DEF TypeOK, Start, Registered
<1>3. RecentCheck' /\ check_slept' <= CheckPeriod + Slack /\ \A a \in checks' : a <= Delay
  BY <1>1, <1>2, CheckPartKept DEF Start, TypeOK
<1>4. Deadlines'
  BY <1>3, Periods, HeartbeatAssumption DEF TypeOK, Deadlines, Start, NodePeriod, CheckPeriod
<1>5. FreshStamps'
  <2> SUFFICES ASSUME NEW m \in Nodes
               PROVE  /\ phase'[m] = "starting" => age'[m] <= slept'[m] /\ flight'[m] = {}
                      /\ phase'[m] = "beating" /\ ~lost'[m] =>
                           /\ flight'[m] = {} => age'[m] <= slept'[m] + Delay
                           /\ flight'[m] # {} => \E a \in flight'[m] :
                                age'[m] <= a + NodePeriod + Slack + Delay
    BY DEF FreshStamps, NodePeriod
  <2>1. CASE m = n
    <3>1. age[n] <= slept[n] /\ flight[n] = {} /\ slept[n] <= Delay
      BY DEF FreshStamps, Deadlines, Start
    <3>2. phase'[n] = "beating" /\ slept'[n] = 0 /\ age'[n] = age[n] /\ flight'[n] = {}
      BY <3>1 DEF Start, TypeOK
    <3>3. age[n] <= Delay BY <3>1, HeartbeatAssumption DEF TypeOK
    <3> QED BY <2>1, <3>2, <3>3, HeartbeatAssumption
  <2>2. CASE m # n
    BY <2>2 DEF TypeOK, Start, FreshStamps
  <2> QED BY <2>1, <2>2
<1>6. NewNodes' BY DEF TypeOK, NewNodes, Start, checkVars
<1> QED BY <1>1, <1>3, <1>4, <1>5, <1>6

LEMMA BeatKeeps == ASSUME NEW n \in Nodes, Inv, Beat(n) PROVE Inv'
<1> USE DEF Inv
<1>1. TypeOK' BY DEF TypeOK, Beat, checkVars
<1>2. \A m \in Registered' : m \in Registered /\ age'[m] = age[m]
  BY DEF TypeOK, Beat, Registered
<1>3. RecentCheck' /\ check_slept' <= CheckPeriod + Slack /\ \A a \in checks' : a <= Delay
  BY <1>1, <1>2, CheckPartKept DEF Beat, TypeOK
<1>4. Deadlines'
  BY <1>3, Periods, HeartbeatAssumption DEF TypeOK, Deadlines, Beat, NodePeriod, CheckPeriod
<1>5. FreshStamps'
  <2> SUFFICES ASSUME NEW m \in Nodes
               PROVE  /\ phase'[m] = "starting" => age'[m] <= slept'[m] /\ flight'[m] = {}
                      /\ phase'[m] = "beating" /\ ~lost'[m] =>
                           /\ flight'[m] = {} => age'[m] <= slept'[m] + Delay
                           /\ flight'[m] # {} => \E a \in flight'[m] :
                                age'[m] <= a + NodePeriod + Slack + Delay
    BY DEF FreshStamps, NodePeriod
  <2>1. CASE m = n /\ ~lost[n]
    <3>1. phase[n] = "beating" /\ slept[n] <= NodePeriod + Slack
      BY DEF Beat, Deadlines
    <3>2. /\ phase'[n] = "beating" /\ age'[n] = age[n]
          /\ flight'[n] = flight[n] \cup {0}
      BY DEF Beat, TypeOK
    <3>3. \E a \in flight'[n] : age[n] <= a + NodePeriod + Slack + Delay
      <4>1. CASE flight[n] = {}
        <5>1. age[n] <= slept[n] + Delay BY <2>1, <3>1, <4>1 DEF FreshStamps
        <5>2. age[n] <= 0 + NodePeriod + Slack + Delay
          BY <3>1, <5>1, Periods, HeartbeatAssumption DEF TypeOK
        <5> QED BY <3>2, <5>2
      <4>2. CASE flight[n] # {} BY <2>1, <3>1, <3>2, <4>2 DEF FreshStamps
      <4> QED BY <4>1, <4>2
    <3> QED BY <2>1, <3>2, <3>3
  <2>2. CASE m = n /\ lost[n] BY <2>2 DEF Beat, TypeOK
  <2>3. CASE m # n BY <2>3 DEF TypeOK, Beat, FreshStamps
  <2> QED BY <2>1, <2>2, <2>3
<1>6. NewNodes' BY DEF TypeOK, NewNodes, Beat, checkVars
<1> QED BY <1>1, <1>3, <1>4, <1>5, <1>6

LEMMA HandleHeartBeatKeeps ==
  ASSUME NEW n \in Nodes, NEW a, Inv, HandleHeartBeat(n, a) PROVE Inv'
<1> USE DEF Inv
<1>1. TypeOK' BY DEF TypeOK, HandleHeartBeat, checkVars
<1>2. \A m \in Registered' : age'[m] = 0 \/ (m \in Registered /\ age'[m] = age[m])
  BY DEF TypeOK, HandleHeartBeat, Registered
<1>3. RecentCheck' /\ check_slept' <= CheckPeriod + Slack /\ \A b \in checks' : b <= Delay
  BY <1>1, <1>2, CheckPartKept DEF HandleHeartBeat, TypeOK
<1>4. Deadlines'
  BY <1>3 DEF TypeOK, Deadlines, HandleHeartBeat, NodePeriod, CheckPeriod
<1>5. FreshStamps'
  <2> SUFFICES ASSUME NEW m \in Nodes
               PROVE  /\ phase'[m] = "starting" => age'[m] <= slept'[m] /\ flight'[m] = {}
                      /\ phase'[m] = "beating" /\ ~lost'[m] =>
                           /\ flight'[m] = {} => age'[m] <= slept'[m] + Delay
                           /\ flight'[m] # {} => \E b \in flight'[m] :
                                age'[m] <= b + NodePeriod + Slack + Delay
    BY DEF FreshStamps, NodePeriod
  <2>1. CASE m = n
    <3>1. phase[n] # "starting" BY DEF FreshStamps, HandleHeartBeat
    <3>2. age'[n] = 0 /\ phase'[n] = phase[n] /\ slept'[n] \in Nat /\ flight'[n] \subseteq Nat
      BY <1>1 DEF HandleHeartBeat, TypeOK
    <3>3. 0 <= slept'[n] + Delay BY <3>2, HeartbeatAssumption
    <3>4. \A b \in flight'[n] : 0 <= b + NodePeriod + Slack + Delay
      BY <3>2, Periods, HeartbeatAssumption
    <3> QED BY <2>1, <3>1, <3>2, <3>3, <3>4
  <2>2. CASE m # n BY <2>2 DEF TypeOK, HandleHeartBeat, FreshStamps
  <2> QED BY <2>1, <2>2
<1>6. NewNodes' BY DEF TypeOK, NewNodes, HandleHeartBeat, checkVars
<1> QED BY <1>1, <1>3, <1>4, <1>5, <1>6

LEMMA LoseKeeps == ASSUME NEW n \in Nodes, NEW a, Inv, Lose(n, a) PROVE Inv'
<1> USE DEF Inv
<1>1. TypeOK' BY DEF TypeOK, Lose, checkVars
<1>2. \A m \in Registered' : m \in Registered /\ age'[m] = age[m]
  BY DEF TypeOK, Lose, Registered
<1>3. RecentCheck' /\ check_slept' <= CheckPeriod + Slack /\ \A b \in checks' : b <= Delay
  BY <1>1, <1>2, CheckPartKept DEF Lose, TypeOK
<1>4. Deadlines'
  BY <1>3 DEF TypeOK, Deadlines, Lose, NodePeriod, CheckPeriod
<1>5. FreshStamps' BY DEF TypeOK, FreshStamps, Lose, NodePeriod
<1>6. NewNodes' BY DEF TypeOK, NewNodes, Lose, checkVars
<1> QED BY <1>1, <1>3, <1>4, <1>5, <1>6

LEMMA DieKeeps == ASSUME NEW n \in Nodes, Inv, Die(n) PROVE Inv'
<1> USE DEF Inv
<1>1. TypeOK' BY DEF TypeOK, Die, checkVars
<1>2. \A m \in Registered' : m \in Registered /\ age'[m] = age[m]
  BY DEF TypeOK, Die, Registered
<1>3. RecentCheck' /\ check_slept' <= CheckPeriod + Slack /\ \A b \in checks' : b <= Delay
  BY <1>1, <1>2, CheckPartKept DEF Die, TypeOK
<1>4. Deadlines'
  BY <1>3 DEF TypeOK, Deadlines, Die, NodePeriod, CheckPeriod
<1>5. FreshStamps' BY DEF TypeOK, FreshStamps, Die, NodePeriod
<1>6. NewNodes' BY DEF TypeOK, NewNodes, Die, checkVars
<1> QED BY <1>1, <1>3, <1>4, <1>5, <1>6

LEMMA SendCheckKeeps == ASSUME Inv, SendCheck PROVE Inv'
<1> USE DEF Inv
<1>1. TypeOK' BY DEF TypeOK, SendCheck, nodeVars
<1>2. FreshStamps' /\ Registered' = Registered BY NodePartKept DEF SendCheck
<1>3. Deadlines'
  BY NodePartKept, Periods, HeartbeatAssumption
  DEF TypeOK, Deadlines, SendCheck, CheckPeriod, NodePeriod
<1>4. RecentCheck'
  <2> SUFFICES ASSUME NEW n \in Registered, n \notin timed_out
               PROVE  \E a \in checks \cup {0} :
                        age[n] <= a + OldestValid + CheckPeriod + Slack
    BY <1>2 DEF RecentCheck, SendCheck, nodeVars, OldestValid, CheckPeriod
  <2>1. CASE checks = {}
    <3>1. age[n] <= OldestValid + check_slept /\ check_slept <= CheckPeriod + Slack
      BY <2>1 DEF RecentCheck, Deadlines
    <3>2. age[n] <= 0 + OldestValid + CheckPeriod + Slack
      BY <3>1, Periods, HeartbeatAssumption DEF TypeOK, Registered
    <3> QED BY <3>2
  <2>2. CASE checks # {} BY <2>2 DEF RecentCheck
  <2> QED BY <2>1, <2>2
<1>5. NewNodes' BY DEF NewNodes, SendCheck, nodeVars
<1> QED BY <1>1, <1>2, <1>3, <1>4, <1>5

LEMMA HandleCheckKeeps == ASSUME NEW a, Inv, HandleCheck(a) PROVE Inv'
<1> USE DEF Inv
<1>1. TypeOK' BY DEF TypeOK, HandleCheck, nodeVars, check_heartbeat, Registered
<1>2. FreshStamps' /\ Registered' = Registered BY NodePartKept DEF HandleCheck
<1>3. Deadlines'
  BY NodePartKept DEF Deadlines, HandleCheck, CheckPeriod, NodePeriod
<1>4. RecentCheck'
  <2> SUFFICES ASSUME NEW n \in Registered, ~ heartbeat_invalid(n)
               PROVE  /\ age[n] <= OldestValid + check_slept
                      /\ \A b \in checks : age[n] <= b + OldestValid + CheckPeriod + Slack
    BY <1>2 DEF RecentCheck, HandleCheck, check_heartbeat, nodeVars, OldestValid, CheckPeriod
  <2>1. age[n] \in Nat /\ age[n] <= OldestValid
    BY InvalidMeansOlder DEF TypeOK, Registered
  <2> QED BY <2>1, Periods, HeartbeatAssumption DEF TypeOK
<1>5. NewNodes'
  BY DEF NewNodes, HandleCheck, nodeVars, check_heartbeat, Registered
<1> QED BY <1>1, <1>2, <1>3, <1>4, <1>5

(* Everybody grows older by a tick; what was in time is so at the most.    *)
LEMMA TickKeeps == ASSUME Inv, Tick PROVE Inv'
<1> USE DEF Inv
<1>0. /\ NodePeriod \in Nat /\ CheckPeriod \in Nat /\ OldestValid \in Nat
      /\ Slack \in Nat /\ Delay \in Nat /\ MaxAge \in Nat
  BY Periods, HeartbeatAssumption
<1>1. TypeOK'
  <2>1. age' \in [Nodes -> Nat] /\ slept' \in [Nodes -> Nat] BY DEF TypeOK, Tick
  <2>2. \A ages \in SUBSET Nat : Older(ages) \in SUBSET Nat BY DEF Older
  <2>3. flight' \in [Nodes -> SUBSET Nat] /\ checks' \subseteq Nat /\ check_slept' \in Nat
    BY <2>2 DEF TypeOK, Tick
  <2> QED BY <2>1, <2>3 DEF TypeOK, Tick
<1>2. \A n \in Nodes :
        /\ age[n] \in Nat /\ age'[n] \in Nat /\ age'[n] <= age[n] + 1
        /\ phase[n] \in {"starting", "beating"} => slept'[n] = slept[n] + 1
        /\ slept[n] \in Nat
        /\ flight'[n] = Older(flight[n]) /\ flight[n] \subseteq Nat
  BY <1>0 DEF TypeOK, Tick
<1>3. phase' = phase /\ lost' = lost /\ Registered' = Registered /\ timed_out' = timed_out
  BY DEF Tick, Registered
<1>4. Deadlines'
  <2>1. ASSUME NEW n \in Nodes
        PROVE  /\ phase[n] = "starting" => slept'[n] <= Delay
               /\ phase[n] = "beating" => slept'[n] <= NodePeriod + Slack
               /\ \A a \in flight'[n] : a <= Delay
    <3>1. InTime(n) BY DEF Tick
    <3> QED BY <1>0, <1>2, <3>1 DEF InTime, Older
  <2>2. check_slept' <= CheckPeriod + Slack BY <1>0 DEF Tick, TypeOK
  <2>3. \A a \in checks' : a <= Delay BY <1>0 DEF Tick, TypeOK, Older
  <2> QED BY <1>3, <2>1, <2>2, <2>3 DEF Deadlines, NodePeriod, CheckPeriod
<1>5. FreshStamps'
  <2> SUFFICES ASSUME NEW n \in Nodes
               PROVE  /\ phase[n] = "starting" => age'[n] <= slept'[n] /\ flight'[n] = {}
                      /\ phase[n] = "beating" /\ ~lost[n] =>
                           /\ flight'[n] = {} => age'[n] <= slept'[n] + Delay
                           /\ flight'[n] # {} => \E a \in flight'[n] :
                                age'[n] <= a + NodePeriod + Slack + Delay
    BY <1>3 DEF FreshStamps, NodePeriod
  <2>1. CASE phase[n] = "starting"
    <3>1. age[n] <= slept[n] /\ flight[n] = {} BY <2>1 DEF FreshStamps
    <3>2. flight'[n] = {} BY <1>2, <3>1 DEF Older
    <3> QED BY <1>2, <2>1, <3>1, <3>2
  <2>2. CASE phase[n] = "beating" /\ ~lost[n] /\ flight[n] = {}
    <3>1. age[n] <= slept[n] + Delay BY <2>2 DEF FreshStamps
    <3>2. flight'[n] = {} BY <1>2, <2>2 DEF Older
    <3>3. age'[n] <= slept'[n] + Delay BY <1>0, <1>2, <2>2, <3>1
    <3> QED BY <2>2, <3>2, <3>3
  <2>3. CASE phase[n] = "beating" /\ ~lost[n] /\ flight[n] # {}
    <3>1. PICK a \in flight[n] : age[n] <= a + NodePeriod + Slack + Delay
      BY <2>3 DEF FreshStamps
    <3>2. a + 1 \in flight'[n] /\ a \in Nat BY <1>2 DEF Older
    <3>3. age'[n] <= (a + 1) + NodePeriod + Slack + Delay BY <1>0, <1>2, <3>1, <3>2
    <3> QED BY <2>3, <3>2, <3>3
  <2> QED BY <2>1, <2>2, <2>3
<1>6. RecentCheck'
  <2> SUFFICES ASSUME NEW n \in Registered, n \notin timed_out
               PROVE  /\ checks' = {} => age'[n] <= OldestValid + check_slept'
                      /\ checks' # {} => \E a \in checks' :
                           age'[n] <= a + OldestValid + CheckPeriod + Slack
    BY <1>3 DEF RecentCheck, OldestValid, CheckPeriod
  <2>1. /\ n \in Nodes /\ check_slept \in Nat /\ check_slept' = check_slept + 1
        /\ checks' = Older(checks) /\ checks \subseteq Nat
    BY DEF TypeOK, Tick, Registered
  <2>2. CASE checks = {}
    <3>1. age[n] <= OldestValid + check_slept BY <2>2 DEF RecentCheck
    <3>2. checks' = {} BY <2>1, <2>2 DEF Older
    <3> QED BY <1>0, <1>2, <2>1, <3>1, <3>2
  <2>3. CASE checks # {}
    <3>1. PICK a \in checks : age[n] <= a + OldestValid + CheckPeriod + Slack
      BY <2>3 DEF RecentCheck
    <3>2. a + 1 \in checks' /\ a \in Nat BY <2>1 DEF Older
    <3>3. age'[n] <= (a + 1) + OldestValid + CheckPeriod + Slack
      BY <1>0, <1>2, <2>1, <3>1, <3>2
    <3> QED BY <3>2, <3>3
  <2> QED BY <2>2, <2>3
<1>7. NewNodes' BY <1>2, <1>3 DEF NewNodes, Older
<1> QED BY <1>1, <1>4, <1>5, <1>6, <1>7

LEMMA InvNext == Inv /\ [Next]_vars => Inv'
<1> SUFFICES ASSUME Inv, [Next]_vars PROVE Inv' OBVIOUS
<1>1. CASE Tick BY <1>1, TickKeeps
<1>2. CASE SendCheck BY <1>2, SendCheckKeeps
<1>3. ASSUME NEW a \in checks, HandleCheck(a) PROVE Inv' BY <1>3, HandleCheckKeeps
<1>4. ASSUME NEW n \in Nodes,
             Register(n) \/ Start(n) \/ Beat(n) \/ Die(n)
             \/ \E a \in flight[n] : HandleHeartBeat(n, a) \/ Lose(n, a)
      PROVE  Inv'
  <2>1. CASE Register(n) BY <2>1, RegisterKeeps
  <2>2. CASE Start(n) BY <2>2, StartKeeps
  <2>3. CASE Beat(n) BY <2>3, BeatKeeps
  <2>4. CASE Die(n) BY <2>4, DieKeeps
  <2>5. CASE \E a \in flight[n] : HandleHeartBeat(n, a) \/ Lose(n, a)
    BY <2>5, HandleHeartBeatKeeps, LoseKeeps
  <2> QED BY <1>4, <2>1, <2>2, <2>3, <2>4, <2>5
<1>5. CASE UNCHANGED vars
  BY <1>5 DEF vars, nodeVars, checkVars, Inv, TypeOK, Deadlines, FreshStamps,
     RecentCheck, NewNodes, Registered, NodePeriod, CheckPeriod, OldestValid
<1> QED BY <1>1, <1>2, <1>3, <1>4, <1>5 DEF Next

(* The bounds hold at all times.                                           *)
THEOREM StampsBounded == Spec => []Inv
BY InvInit, InvNext, PTL DEF Spec

-----------------------------------------------------------------------------
(* The limit that heartbeat_invalid() uses: a node that has been silent    *)
(* for CodeSilence is given up.                                            *)
THEOREM CodeSilenceDetected ==
  Spec => [](\A n \in Registered : age[n] > CodeSilence => n \in timed_out)
<1> DEFINE Detected == \A n \in Registered : age[n] > CodeSilence => n \in timed_out
<1>1. Inv => Detected
  <2> SUFFICES ASSUME Inv, NEW n \in Registered, n \notin timed_out
               PROVE  ~ age[n] > CodeSilence
    OBVIOUS
  <2>1. /\ OldestValid \in Nat /\ CheckPeriod \in Nat /\ Slack \in Nat /\ Delay \in Nat
        /\ CodeSilence = OldestValid + CheckPeriod + Slack + Delay
    BY Periods, HeartbeatAssumption DEF CodeSilence
  <2>2. age[n] \in Nat /\ check_slept \in Nat /\ checks \subseteq Nat
    BY DEF Inv, TypeOK, Registered
  <2>3. CASE checks = {}
    <3>1. age[n] <= OldestValid + check_slept /\ check_slept <= CheckPeriod + Slack
      BY <2>3 DEF Inv, RecentCheck, Deadlines
    <3> QED BY <2>1, <2>2, <3>1
  <2>4. CASE checks # {}
    <3>1. PICK a \in checks : age[n] <= a + OldestValid + CheckPeriod + Slack
      BY <2>4 DEF Inv, RecentCheck
    <3>2. a \in Nat /\ a <= Delay BY <2>2 DEF Inv, Deadlines
    <3> QED BY <2>1, <2>2, <3>1, <3>2
  <2> QED BY <2>3, <2>4
<1> QED BY <1>1, StampsBounded, PTL

(* It is so one heartbeat before the moment the documentation allows.      *)
THEOREM SilenceDetected == Spec => []DetectedInTime
<1>1. TypeOK /\ (\A n \in Registered : age[n] > CodeSilence => n \in timed_out)
        => DetectedInTime
  <2> SUFFICES ASSUME TypeOK, NEW n \in Registered, age[n] > LongestSilence
               PROVE  age[n] > CodeSilence
    BY DEF DetectedInTime
  <2>1. LongestSilence = NodePeriod + CodeSilence /\ NodePeriod \in Nat BY Periods
  <2>2. CodeSilence \in Nat BY Periods, HeartbeatAssumption DEF CodeSilence
  <2>3. age[n] \in Nat BY DEF TypeOK, Registered
  <2> QED BY <2>1, <2>2, <2>3
<1>2. Inv => TypeOK BY DEF Inv
<1> QED BY <1>1, <1>2, StampsBounded, CodeSilenceDetected, PTL

(* A node that lives and has lost no heartbeat is not too old.             *)
LEMMA BeatingIsFresh ==
  ASSUME Slack + 2 * Delay < Second, Inv,
         NEW n \in Registered, phase[n] # "dead", ~lost[n]
  PROVE  age[n] <= OldestValid
<1>1. /\ NodePeriod \in Nat /\ Slack \in Nat /\ Delay \in Nat /\ Second \in Nat
      /\ OldestValid = NodePeriod + Second - 1
  BY Periods, HeartbeatAssumption
<1>2. age[n] \in Nat /\ slept[n] \in Nat /\ flight[n] \subseteq Nat /\ n \in Nodes
  BY DEF Inv, TypeOK, Registered
<1>3. phase[n] \in {"starting", "beating"} BY DEF Inv, TypeOK, Registered
<1>4. CASE phase[n] = "starting"
  <2>1. age[n] <= slept[n] /\ slept[n] <= Delay
    BY <1>2, <1>4 DEF Inv, FreshStamps, Deadlines
  <2> QED BY <1>1, <1>2, <2>1
<1>5. CASE phase[n] = "beating" /\ flight[n] = {}
  <2>1. age[n] <= slept[n] + Delay /\ slept[n] <= NodePeriod + Slack
    BY <1>2, <1>5 DEF Inv, FreshStamps, Deadlines
  <2> QED BY <1>1, <1>2, <2>1
<1>6. CASE phase[n] = "beating" /\ flight[n] # {}
  <2>1. PICK a \in flight[n] : age[n] <= a + NodePeriod + Slack + Delay
    BY <1>2, <1>6 DEF Inv, FreshStamps
  <2>2. a \in Nat /\ a <= Delay BY <1>2 DEF Inv, Deadlines
  <2> QED BY <1>1, <1>2, <2>1, <2>2
<1> QED BY <1>3, <1>4, <1>5, <1>6

(* While threads and messages are late by less than a second in all, only  *)
(* nodes that died or lost a heartbeat are given up.                       *)
THEOREM NeverGivenUp ==
  ASSUME Slack + 2 * Delay < Second
  PROVE  Spec => []NoFalseTimeout
<1>1. Init => NoFalseTimeout BY DEF Init, NoFalseTimeout
<1>2. Inv /\ NoFalseTimeout /\ [Next]_vars => NoFalseTimeout'
  <2> SUFFICES ASSUME Inv, NoFalseTimeout, [Next]_vars, NEW n \in timed_out'
               PROVE  phase'[n] = "dead" \/ lost'[n]
    BY DEF NoFalseTimeout
  <2>1. CASE \E a \in checks : HandleCheck(a)
    <3>1. n \in Registered /\ heartbeat_invalid(n) /\ n \in Nodes
      BY <2>1 DEF HandleCheck, check_heartbeat, Registered
    <3>2. age[n] \in Nat /\ OldestValid \in Nat BY <3>1, Periods DEF Inv, TypeOK
    <3>3. age[n] > OldestValid BY <3>1, <3>2, InvalidMeansOlder
    <3>4. phase[n] = "dead" \/ lost[n] BY <3>1, <3>2, <3>3, BeatingIsFresh
    <3> QED BY <2>1, <3>4 DEF HandleCheck, nodeVars
  <2>2. CASE ~ \E a \in checks : HandleCheck(a)
    <3>1. timed_out' = timed_out /\ n \in Nodes
      BY <2>2 DEF Next, Tick, SendCheck, Register, Start, Beat, Die, HandleHeartBeat,
         Lose, vars, checkVars, Inv, TypeOK
    <3>2. phase[n] = "dead" \/ lost[n] BY <3>1 DEF NoFalseTimeout
    <3>3. phase[n] = "dead" => phase'[n] = "dead"
      BY <2>2, <3>1 DEF Next, Tick, SendCheck, Register, Start, Beat, Die,
         HandleHeartBeat, Lose, vars, nodeVars, Inv, TypeOK
    <3>4. lost[n] => lost'[n]
      BY <2>2, <3>1 DEF Next, Tick, SendCheck, Register, Start, Beat, Die,
         HandleHeartBeat, Lose, vars, nodeVars, Inv, TypeOK
    <3> QED BY <3>2, <3>3, <3>4
  <2> QED BY <2>1, <2>2
<1> QED BY <1>1, <1>2, StampsBounded, PTL DEF Spec
=============================================================================
