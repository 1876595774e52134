----------------------------- MODULE MCDirectory -----------------------------
(* Small instances of Directory for TLC. *)
EXTENDS Directory, TLC

\* Identities, names and calls are interchangeable.
Symmetry == Permutations(Requests) \cup Permutations(Users \ {Unknown}) \cup Permutations(Roles)
              \cup Permutations(Emails) \cup Permutations(Usernames)
              \cup Permutations(RoleNames) \cup Permutations(Permissions)
=============================================================================
