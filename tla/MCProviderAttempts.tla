-------------------------- MODULE MCProviderAttempts -------------------------
(***************************************************************************)
(* One report with a recording, its generation and the one a user starts   *)
(* after a failure, run by two workers of which either may be suspended or *)
(* crash.                                                                  *)
(***************************************************************************)
EXTENDS ProviderAttempts, TLC

Symmetry == Permutations(Workers) \cup Permutations(Generations)

=============================================================================
