------------------------------ MODULE MCAccounts ------------------------------
(* Instances of Accounts for TLC. *)
EXTENDS Accounts, TLC

\* Requests, codes and tokens are alike.
Symmetry == Permutations(Calls) \cup Permutations(Codes) \cup Permutations(Tokens)

=============================================================================
