----------------------------- MODULE MCAccounts -----------------------------
(* Small instances of Accounts for TLC. *)
EXTENDS Accounts, TLC

CONSTANTS u1, u2, t1, t2, t3, t4, n1, n2, a1, a2, why1, why2, q1, q2, q3

\* Calls, users and the identities of fresh tokens are interchangeable.
Symmetry == Permutations(Requests) \cup Permutations(Tokens) \cup Permutations(ResetTokens)
              \cup Permutations(Users)
=============================================================================
