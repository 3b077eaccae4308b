--------------------------- MODULE MCAgentChannel ---------------------------
(* Small instances of AgentChannel for TLC; the .cfg files give the sets.  *)
EXTENDS AgentChannel, TLC

=============================================================================
