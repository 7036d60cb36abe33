--------------------------- MODULE MCJobExecution ---------------------------
(* Two models, one of them in the catalogue, and one job of every kind that *)
(* takes another path through the worker.                                  *)
EXTENDS JobExecution

Ask(asked, kind, live, own) == [asked |-> asked, kind |-> kind, live |-> live, own |-> own]

MCRequests == {Ask(0, "text", TRUE, TRUE), Ask(2, "text", TRUE, FALSE),
               Ask(2, "text", FALSE, TRUE), Ask(0, "speakai", FALSE, TRUE), Ask(2, "native", TRUE, TRUE),
               Ask(2, "native", FALSE, TRUE)}
=============================================================================
