---------------------------- MODULE MCLocalRequest ---------------------------
(* Model-checking instances of LocalRequest. *)
EXTENDS LocalRequest

MCThreads == Handlers \cup JobThreads
==============================================================================
