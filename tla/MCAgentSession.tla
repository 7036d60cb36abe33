--------------------------- MODULE MCAgentSession ----------------------------
(* Model-checking instances of AgentSession. *)
EXTENDS AgentSession

(* The request with the grant also selects a skill. *)
OneSkill == [r \in Requests |-> IF r \in Granted THEN 1 ELSE 0]
==============================================================================
