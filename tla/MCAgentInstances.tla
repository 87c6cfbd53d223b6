---------------------------- MODULE MCAgentInstances ----------------------------
(* One user with two browser tabs.                                         *)
EXTENDS AgentInstances

CONSTANTS u1, c1, c2

ChatClients == {c1, c2}
ClientOf == [c \in ChatClients |-> u1]

=============================================================================
