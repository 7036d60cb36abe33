--------------------------- MODULE MCChatConnector ---------------------------
(* Model-checking instances of ChatConnector. *)
EXTENDS ChatConnector

CONSTANTS w, o  \* work for a worker thread, a project request

Ask(kind, swarm, checks) ==
    [kind |-> kind, mutations |-> TRUE, changes |-> TRUE, swarm |-> swarm, checks |-> checks]

(* The work is a Hermes task that may be tried as a swarm, initialising    *)
(* the project, or a chat with the local agent.                            *)
Mixed == [t \in Tasks |->
            IF t = o THEN {Ask("operation", FALSE, {})}
            ELSE {Ask("hermes", TRUE, {}), Ask("initialize", FALSE, {}), Ask("native", FALSE, {})}]
==============================================================================
