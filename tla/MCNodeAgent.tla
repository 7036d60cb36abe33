----------------------------- MODULE MCNodeAgent -----------------------------
(* Model-checking instances of NodeAgent. *)
EXTENDS NodeAgent
==============================================================================
