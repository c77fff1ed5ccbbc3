-------------------------- MODULE MCEndpointEditing --------------------------
(* Small instances of EndpointEditing for TLC. *)
EXTENDS EndpointEditing, TLC

CONSTANTS u1, u2, c1, c2

\* Two users with a tab each.
TwoTabs == c1 :> u1 @@ c2 :> u2

\* Two clients with a user each are interchangeable together with their users;
\* so are the endpoint ids, and the keys.
Symmetry == Permutations(Endpoints) \cup Permutations(Keys)
              \cup {c1 :> c2 @@ c2 :> c1 @@ u1 :> u2 @@ u2 :> u1}
=============================================================================
