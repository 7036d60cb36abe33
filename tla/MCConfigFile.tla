---------------------------- MODULE MCConfigFile -----------------------------
(* Model-checking instances of ConfigFile: a terminal in which every command *)
(* may be entered, and a service that starts the node without a terminal.    *)
EXTENDS ConfigFile

CONSTANTS terminal, service

Short == {"pause", "exit", "onboard", "forget", "use"}

Everything == [c \in Clis |-> Starts \cup Short \cup {"install"}]
ExitAndStart == [c \in Clis |-> IF c = terminal THEN {"exit"} ELSE {"startQuiet"}]
OnlyPause == [c \in Clis |-> {"pause"}]
OnlyUse   == [c \in Clis |-> {"use"}]
OnlyOnboard == [c \in Clis |-> {"onboard"}]
==============================================================================
