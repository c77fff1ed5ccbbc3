--------------------------- MODULE MCNotifications ---------------------------
(* A small instance of Notifications for TLC. *)
EXTENDS Notifications

CONSTANTS u1, u2, s1, s2

\* Two tabs of one user, or of two; which of them is the first does not matter.
OneOrTwoUsers == {<<s1, u1>>, <<s2, u1>>, <<s2, u2>>}
=============================================================================
