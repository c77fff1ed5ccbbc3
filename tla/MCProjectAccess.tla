--------------------------- MODULE MCProjectAccess ---------------------------
(* Small instances of ProjectAccess for TLC. *)
EXTENDS ProjectAccess, TLC

CONSTANTS u1, u2, t1

\* To begin with, an administrator, and a user who is in a team.
AdminAndMember == u1 :> "admin" @@ u2 :> "member"
MemberOfTeam == {<<u2, t1>>}
=============================================================================
