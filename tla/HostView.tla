------------------------------- MODULE HostView -------------------------------
(***************************************************************************)
(* MCPHost as its callers see it, one server at a time: is_running says    *)
(* whether it is up, start waits while another start launches it, stop     *)
(* takes it out of service at once.  MCPHost implements this view under    *)
(* its locks and tasks; MCPServers keeps to it while it serves.            *)
(***************************************************************************)
CONSTANT Servers

VARIABLE host   \* host[s]: what callers can tell of server s

Init == host = [s \in Servers |-> "down"]

Launch(s) ==
  /\ host[s] = "down"
  /\ host' = [host EXCEPT ![s] = "launching"]

LaunchEnds(s) ==
  /\ host[s] = "launching"
  /\ \E outcome \in {"up", "down"} : host' = [host EXCEPT ![s] = outcome]

Stop(s) ==
  /\ host[s] = "up"
  /\ host' = [host EXCEPT ![s] = "down"]

Next == \E s \in Servers : Launch(s) \/ LaunchEnds(s) \/ Stop(s)

Spec == Init /\ [][Next]_host
===============================================================================
