------------------------------- MODULE JobSpec -------------------------------
(***************************************************************************)
(* What a server promises about its job, with no nodes, messages or        *)
(* threads in it: every chunk gets a result, a result never changes, and   *)
(* the job is reported once, when all results are there or somebody has    *)
(* asked the server to stop.  One job per element of Jobs.                 *)
(***************************************************************************)
CONSTANTS Jobs, Chunks, Workers, Nothing

VARIABLES
  result,       \* job -> chunk -> who delivered its result, or Nothing
  report,       \* job -> the results finish_job() has seen, or Nothing
  cancelled     \* jobs somebody has asked to stop

jobVars == <<result, report, cancelled>>

Complete(r) == \A c \in Chunks : r[c] # Nothing

Init ==
  /\ result = [j \in Jobs |-> [c \in Chunks |-> Nothing]]
  /\ report = [j \in Jobs |-> Nothing]
  /\ cancelled = [j \in Jobs |-> FALSE]

Deliver(j) ==
  \E c \in Chunks, w \in Workers :
    /\ result[j][c] = Nothing
    /\ result' = [result EXCEPT ![j][c] = w]
    /\ UNCHANGED <<report, cancelled>>

Cancel(j) ==
  /\ cancelled' = [cancelled EXCEPT ![j] = TRUE]
  /\ UNCHANGED <<result, report>>

Report(j) ==
  /\ report[j] = Nothing
  /\ Complete(result[j]) \/ cancelled[j]
  /\ report' = [report EXCEPT ![j] = result[j]]
  /\ UNCHANGED <<result, cancelled>>

Next == \E j \in Jobs : Deliver(j) \/ Cancel(j) \/ Report(j)

Spec == Init /\ [][Next]_jobVars
=============================================================================
