------------------------------ MODULE Heartbeat ------------------------------
(***************************************************************************)
(* Heartbeats with the clock: a node's heartbeat thread (nc_node.rs), the  *)
(* time stamps of the node list (nc_node_info.rs), and the thread that     *)
(* makes the server check them (nc_server.rs).  NodeCrunch lets a stamp be *)
(* too old at any time; this module asks when it can be.                   *)
(*                                                                         *)
(* Time is counted in ticks, Second of them to a second.  A step that must *)
(* have happened by a deadline keeps Tick from going past it.              *)
(***************************************************************************)
EXTENDS Naturals, FiniteSets

CONSTANTS
  Nodes,        \* the nodes
  heartbeat,    \* NCConfiguration.heartbeat, in seconds
  Second,       \* ticks per second
  Slack,        \* how many ticks too late a sleeping thread goes on, at most
  Delay,        \* ticks from sending a message to its effect, at most
  MaxAge        \* ages from here on are not told apart

ASSUME HeartbeatAssumption ==
  /\ heartbeat \in Nat
  /\ Second \in Nat \ {0}
  /\ Slack \in Nat
  /\ Delay \in Nat
  /\ MaxAge \in Nat

VARIABLES
  phase,        \* where the node is
  age,          \* elapsed time of NCNodeInfo.instant
  slept,        \* how long the heartbeat thread has slept
  flight,       \* ages of the HeartBeat messages under way
  lost,         \* history: a HeartBeat of the node has been lost
  check_slept,  \* how long the server's heartbeat thread has slept
  checks,       \* ages of the CheckHeartbeat messages under way
  timed_out     \* the nodes the last check passed to heartbeat_timeout()

nodeVars == <<phase, age, slept, flight, lost>>
checkVars == <<check_slept, checks, timed_out>>
vars == <<nodeVars, checkVars>>

Registered == {n \in Nodes : phase[n] # "new"}

NodePeriod == heartbeat * Second            \* NodeHeartbeat.heartbeat_duration
CheckPeriod == 2 * heartbeat * Second       \* NCServerHeartbeat.duration

TypeOK ==
  /\ phase \in [Nodes -> {"new", "starting", "beating", "dead"}]
  /\ age \in [Nodes -> Nat]
  /\ slept \in [Nodes -> Nat]
  /\ flight \in [Nodes -> SUBSET Nat]
  /\ lost \in [Nodes -> BOOLEAN]
  /\ check_slept \in Nat
  /\ checks \subseteq Nat
  /\ timed_out \subseteq Nodes

Init ==
  /\ phase = [n \in Nodes |-> "new"]
  /\ age = [n \in Nodes |-> 0]
  /\ slept = [n \in Nodes |-> 0]
  /\ flight = [n \in Nodes |-> {}]
  /\ lost = [n \in Nodes |-> FALSE]
  /\ check_slept = 0
  /\ checks = {}
  /\ timed_out = {}

-----------------------------------------------------------------------------
(* The node.                                                               *)

(* The server has put the node on its list, with a stamp of this moment.   *)
Register(n) ==
  /\ phase[n] = "new"
  /\ phase' = [phase EXCEPT ![n] = "starting"]
  /\ age' = [age EXCEPT ![n] = 0]
  /\ slept' = [slept EXCEPT ![n] = 0]
  /\ UNCHANGED <<flight, lost, checkVars>>

(* InitialData has arrived and the heartbeat thread falls asleep.          *)
Start(n) ==
  /\ phase[n] = "starting"
  /\ phase' = [phase EXCEPT ![n] = "beating"]
  /\ slept' = [slept EXCEPT ![n] = 0]
  /\ UNCHANGED <<age, flight, lost, checkVars>>

Beat(n) ==
  /\ phase[n] = "beating"
  /\ slept[n] >= NodePeriod
  /\ slept' = [slept EXCEPT ![n] = 0]
  /\ flight' = [flight EXCEPT ![n] = @ \cup {0}]
  /\ UNCHANGED <<phase, age, lost, checkVars>>

(* update_heartbeat(): the stamp is the time of arrival.                   *)
HandleHeartBeat(n, a) ==
  /\ a \in flight[n]
  /\ flight' = [flight EXCEPT ![n] = @ \ {a}]
  /\ age' = [age EXCEPT ![n] = 0]
  /\ UNCHANGED <<phase, slept, lost, checkVars>>

Lose(n, a) ==
  /\ a \in flight[n]
  /\ flight' = [flight EXCEPT ![n] = @ \ {a}]
  /\ lost' = [lost EXCEPT ![n] = TRUE]
  /\ UNCHANGED <<phase, age, slept, checkVars>>

Die(n) ==
  /\ phase[n] \in {"starting", "beating"}
  /\ phase' = [phase EXCEPT ![n] = "dead"]
  /\ slept' = [slept EXCEPT ![n] = 0]
  /\ UNCHANGED <<age, flight, lost, checkVars>>

-----------------------------------------------------------------------------
(* The server.                                                             *)

SendCheck ==
  /\ check_slept >= CheckPeriod
  /\ check_slept' = 0
  /\ checks' = checks \cup {0}
  /\ UNCHANGED <<nodeVars, timed_out>>

(* Mutant: a stamp of exactly the limit is too old.                        *)
heartbeat_invalid_at_limit(n) == age[n] \div Second >= heartbeat

(* as_secs() counts whole seconds.  The limit is one heartbeat, where the  *)
(* comments at nc_node_info.rs:95 and nc_server.rs:80 say two.             *)
heartbeat_invalid(n) == age[n] \div Second > heartbeat

(* Mutant: the search ends at the first node that is too old.              *)
check_heartbeat_first ==
  LET invalid == {n \in Registered : heartbeat_invalid(n)}
  IN  IF invalid = {} THEN {} ELSE {CHOOSE n \in invalid : TRUE}

check_heartbeat == {n \in Registered : heartbeat_invalid(n)}

HandleCheck(a) ==
  /\ a \in checks
  /\ checks' = checks \ {a}
  /\ timed_out' = check_heartbeat
  /\ UNCHANGED <<nodeVars, check_slept>>

-----------------------------------------------------------------------------
(* Time.                                                                   *)

InTime(n) ==
  /\ phase[n] = "starting" => slept[n] < Delay
  /\ phase[n] = "beating" => slept[n] < NodePeriod + Slack
  /\ \A a \in flight[n] : a < Delay

Older(ages) == {a + 1 : a \in ages}

Tick ==
  /\ \A n \in Nodes : InTime(n)
  /\ check_slept < CheckPeriod + Slack
  /\ \A a \in checks : a < Delay
  /\ age' = [n \in Nodes |-> IF n \in Registered /\ age[n] < MaxAge
                             THEN age[n] + 1 ELSE age[n]]
  /\ slept' = [n \in Nodes |-> IF phase[n] \in {"starting", "beating"}
                               THEN slept[n] + 1 ELSE slept[n]]
  /\ flight' = [n \in Nodes |-> Older(flight[n])]
  /\ check_slept' = check_slept + 1
  /\ checks' = Older(checks)
  /\ UNCHANGED <<phase, lost, timed_out>>

Next ==
  \/ Tick
  \/ SendCheck
  \/ \E a \in checks : HandleCheck(a)
  \/ \E n \in Nodes :
       \/ Register(n) \/ Start(n) \/ Beat(n) \/ Die(n)
       \/ \E a \in flight[n] : HandleHeartBeat(n, a) \/ Lose(n, a)

Spec == Init /\ [][Next]_vars

-----------------------------------------------------------------------------
(* A node that lives and whose heartbeats arrive is never given up: the    *)
(* fraction of a second that as_secs() cuts off covers late threads and    *)
(* slow messages, provided that Slack + 2 * Delay < Second.                *)
NoFalseTimeout == \A n \in timed_out : phase[n] = "dead" \/ lost[n]

(* The latest moment by the documentation: a stamp of two heartbeats and   *)
(* not yet another second passes one check, and the next one finds it.     *)
LongestSilence ==
  (2 * heartbeat * Second + Second - 1) + CheckPeriod + Slack + Delay

(* Every node whose stamp has not been renewed for this long is given up,  *)
(* whatever the phase of the server's check was when it fell silent, and   *)
(* however many others fell silent with it (check_heartbeat, and the sleep *)
(* of two heartbeats in NCServerHeartbeat).                                *)
DetectedInTime == \A n \in Registered : age[n] > LongestSilence => n \in timed_out
=============================================================================
