--------------------------- MODULE ServerLifecycle ---------------------------
(***************************************************************************)
(* What MCPHost promises to its callers (agentlabx/mcp/host.py), without   *)
(* locks, owner tasks or streams.  An instance is one launch of a server:  *)
(* its subprocess, HTTP connection or in-process session.  A server has at *)
(* most one instance that is starting or running; an instance that was     *)
(* asked to stop may still be closing while the next one starts.           *)
(***************************************************************************)
CONSTANTS
  Servers,     \* server ids
  Instances,   \* launches, each used once
  None         \* the server of an instance that has not been launched

VARIABLES
  phase,       \* phase[i]: where instance i is in its life
  server       \* server[i]: the server instance i was launched for

lifecycleVars == <<phase, server>>

Phases == {"absent", "starting", "running", "stopping", "gone"}

\* The instances of s that count as "the server": no second one may begin.
Current(s) == {i \in Instances : server[i] = s /\ phase[i] \in {"starting", "running"}}

TypeOK ==
  /\ phase \in [Instances -> Phases]
  /\ server \in [Instances -> Servers \cup {None}]

Init ==
  /\ phase = [i \in Instances |-> "absent"]
  /\ server = [i \in Instances |-> None]

Begin(i, s) ==
  /\ phase[i] = "absent"
  /\ Current(s) = {}
  /\ phase' = [phase EXCEPT ![i] = "starting"]
  /\ server' = [server EXCEPT ![i] = s]

\* A launch ends: the server runs, or its launch failed and left nothing.
Settle(i) ==
  /\ phase[i] = "starting"
  /\ \E p \in {"running", "gone"} : phase' = [phase EXCEPT ![i] = p]
  /\ UNCHANGED server

\* A stop takes the server out of service; a session that had already died
\* leaves nothing to close.
Withdraw(i) ==
  /\ phase[i] = "running"
  /\ \E p \in {"stopping", "gone"} : phase' = [phase EXCEPT ![i] = p]
  /\ UNCHANGED server

Close(i) ==
  /\ phase[i] = "stopping"
  /\ phase' = [phase EXCEPT ![i] = "gone"]
  /\ UNCHANGED server

Next ==
  \E i \in Instances :
    \/ \E s \in Servers : Begin(i, s)
    \/ Settle(i)
    \/ Withdraw(i)
    \/ Close(i)

Spec == Init /\ [][Next]_lifecycleVars

\* At most one instance of a server is starting or running.
OneCurrent ==
  \A i, j \in Instances :
    /\ phase[i] \in {"starting", "running"}
    /\ phase[j] \in {"starting", "running"}
    /\ server[i] = server[j]
    => i = j
==============================================================================
