---------------------------- MODULE MCNodeControl ---------------------------
(* Two terminals, so that a foreground session and a command, or two        *)
(* commands, run side by side, and a second agent for a restart.            *)
EXTENDS NodeControl
=============================================================================
