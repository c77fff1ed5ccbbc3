----------------------------- MODULE MCAccounts -----------------------------
(* Small instances of Accounts for TLC. *)
EXTENDS Accounts, TLC

\* Each of these sets is interchangeable.
Symmetry == Permutations(Ids) \cup Permutations(Names) \cup Permutations(Passwords)
              \cup Permutations(Identities) \cup Permutations(Clients)
=============================================================================
