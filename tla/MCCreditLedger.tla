---------------------------- MODULE MCCreditLedger ---------------------------
(***************************************************************************)
(* User u1 may receive a purchased pack that expires first, a monthly      *)
(* grant that starts and expires later although its source has priority,   *)
(* and one administrative grant that two calls of the command, for two     *)
(* users, try to create under the same key (grants 3 and 4).               *)
(***************************************************************************)
EXTENDS CreditLedger, TLC

MCOwner     == <<"u1", "u1", "u1", "u2">>
MCSource    == <<"PURCHASED_PACK", "SUBSCRIPTION_MONTHLY", "ADMIN", "ADMIN">>
MCTotal     == <<1, 2, 1, 1>>
MCValidFrom == <<0, 1, 0, 0>>
MCExpiresAt == <<2, 3, NULL, NULL>>
MCCreatedAt == <<0, 0, 0, 0>>
MCGrantKey  == <<"pack", "period", "ticket", "ticket">>

Symmetry == Permutations(Generations) \cup Permutations(Transactions)

=============================================================================
