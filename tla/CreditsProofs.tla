---------------------------- MODULE CreditsProofs ----------------------------
(***************************************************************************)
(* Facts about the credit methods of Credits, for any grants and any       *)
(* generations: what each does to the type invariant and to Conservation.  *)
(* CreditLedgerProofs and GenerationLifecycleProofs build on them.         *)
(***************************************************************************)
EXTENDS Credits, FiniteSetTheorems, TLAPS

-----------------------------------------------------------------------------
(* The order of the grants.                                                *)

LEMMA ExpirationType == \A gr \in Grants : Expiration(gr) \in Nat
  BY GrantColumns DEF Expiration

LEMMA PriorityType == \A gr \in Grants : sourcePriority(Source[gr]) \in 0..4
  <1> SUFFICES ASSUME NEW gr \in Grants PROVE sourcePriority(Source[gr]) \in 0..4
    OBVIOUS
  <1>1. Source[gr] \in Sources
    BY GrantColumns
  <1> QED BY <1>1 DEF sourcePriority, Sources

\* compareGrants sorts: of two grants exactly one comes first, and the order is
\* transitive, so the candidate a reservation takes does not depend on the
\* order the query returns them in.
THEOREM CompareGrantsIsStrictTotalOrder ==
    /\ \A a \in Grants : ~compareGrants(a, a)
    /\ \A a, b \in Grants : a # b => compareGrants(a, b) \/ compareGrants(b, a)
    /\ \A a, b, c \in Grants : compareGrants(a, b) /\ compareGrants(b, c) => compareGrants(a, c)
  <1> DEFINE e(gr) == Expiration(gr)
             p(gr) == sourcePriority(Source[gr])
  <1>1. \A gr \in Grants : e(gr) \in Nat /\ p(gr) \in Nat /\ CreatedAt[gr] \in Nat /\ gr \in Nat
    BY ExpirationType, PriorityType, GrantColumns
  <1>2. \A a, b \in Grants :
          compareGrants(a, b) <=>
            \/ e(a) < e(b)
            \/ /\ e(a) = e(b)
               /\ \/ p(a) < p(b)
                  \/ p(a) = p(b) /\ CreatedAt[a] < CreatedAt[b]
                  \/ p(a) = p(b) /\ CreatedAt[a] = CreatedAt[b] /\ a < b
    BY DEF compareGrants
  <1> HIDE DEF e, p
  <1>3. \A a \in Grants : ~compareGrants(a, a)
    BY <1>1, <1>2
  <1>4. \A a, b \in Grants : a # b => compareGrants(a, b) \/ compareGrants(b, a)
    BY <1>1, <1>2
  <1>5. \A a, b, c \in Grants : compareGrants(a, b) /\ compareGrants(b, c) => compareGrants(a, c)
    BY <1>1, <1>2
  <1> QED BY <1>3, <1>4, <1>5

-----------------------------------------------------------------------------
(* The methods keep the type invariant.                                    *)

LEMMA ReserveType ==
    ASSUME CreditTypeOK, NEW user, NEW g \in Generations, NEW time,
           reserve(user, g, time), linked' \in [Generations -> BOOLEAN]
    PROVE  CreditTypeOK'
  <1>1. CASE reservation[g] # NULL
    BY <1>1 DEF CreditTypeOK, reserve
  <1>2. CASE reservation[g] = NULL
    <2>1. PICK gr \in Candidates(user, time) :
            /\ remaining' = [remaining EXCEPT ![gr] = @ - 1]
            /\ reservation' = [reservation EXCEPT ![g] = gr]
      BY <1>2 DEF reserve
    <2>2. gr \in Grants /\ remaining[gr] \in Nat /\ remaining[gr] - 1 \in Nat
      BY <2>1 DEF Candidates, CreditTypeOK
    <2>3. remaining' \in [Grants -> Nat]
      BY <2>1, <2>2 DEF CreditTypeOK
    <2>4. reservation' \in [Generations -> Grants \cup {NULL}]
      BY <2>1, <2>2 DEF CreditTypeOK
    <2> QED BY <2>3, <2>4 DEF CreditTypeOK, reserve
  <1> QED BY <1>1, <1>2

LEMMA ConsumeType ==
    ASSUME CreditTypeOK, NEW g \in Generations, WriteConsume(g),
           linked' \in [Generations -> BOOLEAN]
    PROVE  CreditTypeOK'
  BY DEF CreditTypeOK, WriteConsume, Terminal

LEMMA ReleaseType ==
    ASSUME CreditTypeOK, NEW g \in Generations, reservation[g] # NULL, WriteRelease(g),
           linked' \in [Generations -> BOOLEAN]
    PROVE  CreditTypeOK'
  <1>1. reservation[g] \in Grants /\ remaining[reservation[g]] + 1 \in Nat
    BY DEF CreditTypeOK
  <1>2. remaining' \in [Grants -> Nat]
    BY <1>1 DEF CreditTypeOK, WriteRelease
  <1>3. settled' \in [Generations -> SUBSET Terminal]
    BY DEF CreditTypeOK, WriteRelease, Terminal
  <1> QED BY <1>2, <1>3 DEF CreditTypeOK, WriteRelease

-----------------------------------------------------------------------------
(* The methods keep Conservation.                                          *)

LEMMA HeldFinite == \A gr : IsFiniteSet(Held(gr)) /\ Cardinality(Held(gr)) \in Nat
  <1> SUFFICES ASSUME NEW gr PROVE IsFiniteSet(Held(gr)) /\ Cardinality(Held(gr)) \in Nat
    OBVIOUS
  <1>1. Held(gr) \subseteq Generations
    BY DEF Held
  <1>2. IsFiniteSet(Held(gr))
    BY <1>1, GrantColumns, FS_Subset
  <1> QED BY <1>2, FS_CardinalityType

\* A reservation moves one credit from the grant to the generation.
LEMMA ReserveConserves ==
    ASSUME CreditTypeOK, Conservation, NEW user, NEW g \in Generations, NEW time,
           settled[g] = {}, reserve(user, g, time)
    PROVE  Conservation'
  <1>1. CASE reservation[g] # NULL
    BY <1>1 DEF reserve, Conservation, Held
  <1>2. CASE reservation[g] = NULL
    <2>1. PICK gr \in Candidates(user, time) :
            /\ remaining' = [remaining EXCEPT ![gr] = @ - 1]
            /\ reservation' = [reservation EXCEPT ![g] = gr]
      BY <1>2 DEF reserve
    <2>2. gr \in Grants /\ remaining[gr] \in Nat /\ remaining[gr] > 0 /\ gr # NULL
      BY <2>1, GrantColumns DEF Candidates, CreditTypeOK
    <2>3. granted' = granted /\ settled' = settled
      BY DEF reserve
    <2>4. Held(gr)' = Held(gr) \cup {g} /\ g \notin Held(gr)
      BY <1>2, <2>1, <2>2, <2>3 DEF Held, CreditTypeOK
    <2>5. Cardinality(Held(gr)') = Cardinality(Held(gr)) + 1
      BY <2>4, HeldFinite, FS_AddElement
    <2>6. \A other \in Grants \ {gr} : Held(other)' = Held(other)
      BY <1>2, <2>1, <2>2, <2>3, GrantColumns DEF Held, CreditTypeOK
    <2>7. \A other \in Grants \ {gr} : remaining'[other] = remaining[other]
      BY <2>1, <2>2 DEF CreditTypeOK
    <2>8. remaining'[gr] = remaining[gr] - 1
      BY <2>1, <2>2 DEF CreditTypeOK
    <2>9. ASSUME NEW x \in Grants
          PROVE  remaining'[x] + Cardinality(Held(x)') = IF x \in granted' THEN Total[x] ELSE 0
      <3>1. remaining[x] + Cardinality(Held(x)) = IF x \in granted THEN Total[x] ELSE 0
        BY DEF Conservation
      <3>2. CASE x = gr
        BY <3>1, <3>2, <2>2, <2>3, <2>5, <2>8, HeldFinite
      <3>3. CASE x # gr
        BY <3>1, <3>3, <2>3, <2>6, <2>7
      <3> QED BY <3>2, <3>3
    <2> QED BY <2>9 DEF Conservation
  <1> QED BY <1>1, <1>2

\* A consumption leaves the credit with the generation.
LEMMA ConsumeConserves ==
    ASSUME CreditTypeOK, Conservation, NEW g \in Generations, WriteConsume(g)
    PROVE  Conservation'
  <1>1. \A gr \in Grants : Held(gr)' = Held(gr)
    BY DEF Held, WriteConsume, CreditTypeOK
  <1> QED BY <1>1 DEF Conservation, WriteConsume

\* A release moves the credit back to the grant it came from, exactly once.
LEMMA ReleaseConserves ==
    ASSUME CreditTypeOK, Conservation, NEW g \in Generations,
           reservation[g] # NULL, "RELEASE" \notin settled[g], WriteRelease(g)
    PROVE  Conservation'
  <1> DEFINE gr == reservation[g]
  <1>1. gr \in Grants /\ remaining[gr] \in Nat
    BY DEF CreditTypeOK
  <1>2. granted' = granted /\ reservation' = reservation
    BY DEF WriteRelease
  <1>3. g \in Held(gr) /\ Held(gr)' = Held(gr) \ {g}
    BY <1>2 DEF Held, WriteRelease, CreditTypeOK
  <1>4. Cardinality(Held(gr)') = Cardinality(Held(gr)) - 1
    BY <1>3, HeldFinite, FS_RemoveElement
  <1>5. \A other \in Grants \ {gr} : Held(other)' = Held(other)
    BY <1>2 DEF Held, WriteRelease, CreditTypeOK
  <1>6. /\ remaining'[gr] = remaining[gr] + 1
        /\ \A other \in Grants \ {gr} : remaining'[other] = remaining[other]
    BY <1>1 DEF WriteRelease, CreditTypeOK
  <1>7. ASSUME NEW x \in Grants
        PROVE  remaining'[x] + Cardinality(Held(x)') = IF x \in granted' THEN Total[x] ELSE 0
    <2>1. remaining[x] + Cardinality(Held(x)) = IF x \in granted THEN Total[x] ELSE 0
      BY DEF Conservation
    <2>2. CASE x = gr
      BY <2>1, <2>2, <1>1, <1>2, <1>4, <1>6, HeldFinite
    <2>3. CASE x # gr
      BY <2>1, <2>3, <1>2, <1>5, <1>6
    <2> QED BY <2>2, <2>3
  <1> QED BY <1>7 DEF Conservation

\* releaseInTransaction as a whole: it may find nothing to release.
LEMMA ReleaseInTransactionKeeps ==
    ASSUME CreditTypeOK, Conservation, NEW g \in Generations, linked[g],
           releaseInTransaction(g), linked' \in [Generations -> BOOLEAN]
    PROVE  CreditTypeOK' /\ Conservation'
  <1>1. CASE reservation[g] = NULL \/ findTerminal(g) # {}
    BY <1>1 DEF releaseInTransaction, CreditTypeOK, Conservation, Held
  <1>2. CASE reservation[g] # NULL /\ findTerminal(g) = {}
    <2>1. WriteRelease(g) /\ settled[g] = {}
      BY <1>2 DEF releaseInTransaction, findTerminal
    <2> QED BY <1>2, <2>1, ReleaseType, ReleaseConserves
  <1> QED BY <1>1, <1>2

-----------------------------------------------------------------------------
(* The methods implement the contract: each is one of its steps, or none.  *)

LEMMA OutIsHeld == \A gr : Contract!Out(gr) = Held(gr)
  BY DEF Contract!Out, Held, Outcome

LEMMA SameCardinality == \A S : Contract!Cardinality(S) = Cardinality(S)
  BY DEF Contract!Cardinality, Cardinality

LEMMA ContractInit == CreditInit /\ granted \subseteq Grants => Contract!Init
  BY DEF Contract!Init, CreditInit, Outcome

LEMMA ContractStutter ==
    ASSUME UNCHANGED <<granted, reservation, settled>>
    PROVE  UNCHANGED Contract!contractVars
  BY DEF Contract!contractVars, Outcome

\* The counter that reserve has seen positive stands for a credit that is left.
LEMMA ReserveImplements ==
    ASSUME CreditTypeOK, Conservation, NEW user, NEW g \in Generations, NEW time,
           reserve(user, g, time)
    PROVE  [Contract!Next]_(Contract!contractVars)
  <1>1. CASE reservation[g] # NULL
    BY <1>1, ContractStutter DEF reserve
  <1>2. CASE reservation[g] = NULL
    <2>1. PICK gr \in Candidates(user, time) : reservation' = [reservation EXCEPT ![g] = gr]
      BY <1>2 DEF reserve
    <2>2. gr \in Grants /\ remaining[gr] \in Nat /\ remaining[gr] > 0 /\ Total[gr] \in Nat
      BY <2>1, GrantColumns DEF Candidates, CreditTypeOK
    <2>3. remaining[gr] + Cardinality(Held(gr)) = IF gr \in granted THEN Total[gr] ELSE 0
      BY <2>2 DEF Conservation
    <2>4. gr \in granted /\ Cardinality(Held(gr)) < Total[gr]
      BY <2>2, <2>3, HeldFinite
    <2>5. UNCHANGED granted /\ UNCHANGED [x \in Generations |-> Outcome(x)]
      BY DEF reserve, Outcome
    <2>6. Contract!Take(g, gr)
      BY <1>2, <2>1, <2>4, <2>5, OutIsHeld, SameCardinality DEF Contract!Take
    <2> QED BY <2>2, <2>6 DEF Contract!Next
  <1> QED BY <1>1, <1>2

LEMMA SettleImplements ==
    ASSUME CreditTypeOK, NEW g \in Generations, reservation[g] # NULL, settled[g] = {},
           WriteConsume(g) \/ WriteRelease(g)
    PROVE  [Contract!Next]_(Contract!contractVars)
  <1> DEFINE end == IF WriteRelease(g) THEN "returned" ELSE "spent"
             row == IF WriteRelease(g) THEN "RELEASE" ELSE "CONSUME"
             out == [x \in Generations |-> Outcome(x)]
  <1>1. settled' = [settled EXCEPT ![g] = @ \cup {row}] /\ UNCHANGED <<granted, reservation>>
    BY DEF WriteConsume, WriteRelease
  <1>2. settled'[g] = {row} /\ \A x \in Generations \ {g} : settled'[x] = settled[x]
    BY <1>1 DEF CreditTypeOK
  <1>3. out[g] = "open" /\ Outcome(g)' = end
    BY <1>2 DEF Outcome
  <1>4. \A x \in Generations \ {g} : Outcome(x)' = Outcome(x)
    BY <1>2 DEF Outcome
  <1>5. out' = [out EXCEPT ![g] = end]
    BY <1>3, <1>4
  <1>6. Contract!Settle(g, end)
    BY <1>1, <1>3, <1>5 DEF Contract!Settle
  <1>7. end \in {"spent", "returned"}
    OBVIOUS
  <1> QED BY <1>6, <1>7 DEF Contract!Next

LEMMA ReleaseImplements ==
    ASSUME CreditTypeOK, NEW g \in Generations, linked[g], releaseInTransaction(g)
    PROVE  [Contract!Next]_(Contract!contractVars)
  <1>1. CASE reservation[g] = NULL \/ findTerminal(g) # {}
    BY <1>1, ContractStutter DEF releaseInTransaction
  <1>2. CASE reservation[g] # NULL /\ findTerminal(g) = {}
    <2>1. WriteRelease(g) /\ settled[g] = {}
      BY <1>2 DEF releaseInTransaction, findTerminal
    <2> QED BY <1>2, <2>1, SettleImplements
  <1> QED BY <1>1, <1>2

=============================================================================
