---------------------------- MODULE CreditContract ----------------------------
(***************************************************************************)
(* What the credit ledger promises, without rows, keys, lookups or         *)
(* counters: a generation takes at most one credit, of a grant that has    *)
(* one left, and the credit is then spent or given back, once and for      *)
(* good.  How many credits a grant has left is not kept but counted.       *)
(***************************************************************************)
EXTENDS Naturals, FiniteSets

CONSTANTS
    Generations,
    Grants,
    Total,       \* credits of a grant
    NULL

VARIABLES
    issued,      \* grants issued
    taken,       \* the grant a generation's credit comes from, or NULL
    outcome      \* what has become of that credit

contractVars == <<issued, taken, outcome>>

Out(gr) == {g \in Generations : taken[g] = gr /\ outcome[g] # "returned"}

Init ==
    /\ issued \in SUBSET Grants
    /\ taken = [g \in Generations |-> NULL]
    /\ outcome = [g \in Generations |-> "open"]

Issue(gr) ==
    /\ gr \in Grants \ issued
    /\ issued' = issued \cup {gr}
    /\ UNCHANGED <<taken, outcome>>

Take(g, gr) ==
    /\ taken[g] = NULL
    /\ gr \in issued
    /\ Cardinality(Out(gr)) < Total[gr]
    /\ taken' = [taken EXCEPT ![g] = gr]
    /\ UNCHANGED <<issued, outcome>>

Settle(g, end) ==
    /\ taken[g] # NULL
    /\ outcome[g] = "open"
    /\ outcome' = [outcome EXCEPT ![g] = end]
    /\ UNCHANGED <<issued, taken>>

Next ==
    \/ \E gr \in Grants : Issue(gr)
    \/ \E g \in Generations, gr \in Grants : Take(g, gr)
    \/ \E g \in Generations, end \in {"spent", "returned"} : Settle(g, end)

Spec == Init /\ [][Next]_contractVars

=============================================================================
