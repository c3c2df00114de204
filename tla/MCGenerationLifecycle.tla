------------------------ MODULE MCGenerationLifecycle ------------------------
(* One purchased grant without expiry; the cfg files choose the faults.      *)
EXTENDS GenerationLifecycle, TLC

CONSTANT Credits1    \* credits of the grant

MCOwner     == <<User>>
MCSource    == <<"PURCHASED_PACK">>
MCTotal     == <<Credits1>>
MCZero      == <<0>>
MCExpiresAt == <<NULL>>

Symmetry == Permutations(Generations) \cup Permutations(Keys) \cup Permutations(Workers)

=============================================================================
