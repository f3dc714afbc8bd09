---------------------------- MODULE MCServerRestart --------------------------
(* Small instances of ServerRestart for TLC, all nodes registered.         *)
EXTENDS ServerRestart, MCNodeCrunch

RegisteredRestartInit ==
  /\ RegisteredInit
  /\ killed = {}
  /\ kills = 0
  /\ asked = [s \in Servers |-> {}]

(* The threads are as fair as ever; nobody has to kill a server, or to     *)
(* start it again.                                                         *)
FairRestartSpec == RegisteredRestartInit /\ [][RestartNext]_allVars /\ Fairness
=============================================================================
