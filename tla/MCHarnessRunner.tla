--------------------------- MODULE MCHarnessRunner ---------------------------
(* Model-checking instances of HarnessRunner. *)
EXTENDS HarnessRunner

(* Attempts are interchangeable (all of them are local here). *)
Symmetric == Permutations(Attempts)
==============================================================================
