---------------------------- MODULE MCChangeEvents ----------------------------
(* A small instance of ChangeEvents for TLC. *)
EXTENDS ChangeEvents

CONSTANTS k1, k2, a, b, DRAFT, PUBLISHED

Drafted == [key |-> k1, summary |-> a, status |-> DRAFT]

\* They differ from Drafted and from each other in one, two and all columns.
Sendings == {[Drafted EXCEPT !.key = k2], [key |-> k1, summary |-> b, status |-> PUBLISHED]}
=============================================================================
