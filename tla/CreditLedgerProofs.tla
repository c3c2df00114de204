------------------------- MODULE CreditLedgerProofs --------------------------
(***************************************************************************)
(* The safety of the credit ledger, for any users, grants, generations and *)
(* number of concurrent transactions.  Conservation is not inductive: a    *)
(* release that was decided earlier must still name a grant when it        *)
(* writes, and a generation that reserves must have no terminal row yet.   *)
(***************************************************************************)
EXTENDS CreditLedger, CreditsProofs

\* What a transaction has read stays true until it writes, except for what
\* the database's keys check again.
ReadsHold ==
    /\ \A t \in Transactions :
        tx[t].op \in {"consume", "release"} => reservation[tx[t].gen] # NULL
    /\ \A g \in Generations : reservation[g] = NULL => settled[g] = {}

Inv ==
    /\ TypeOK
    /\ ReadsHold
    /\ Conservation
    /\ SettledOnce
    /\ OneGrantPerKey

-----------------------------------------------------------------------------
LEMMA TxFields ==
    ASSUME TypeOK, NEW t \in Transactions
    PROVE  /\ tx[t].op \in {"consume", "release"} => tx[t].gen \in Generations
           /\ tx[t].op = "grant" => tx[t].grant \in Grants
  BY DEF TypeOK, TxStates, None

LEMMA InitInv == Init => Inv
  <1> SUFFICES ASSUME Init PROVE Inv
    OBVIOUS
  <1>1. TypeOK
    <2>1. remaining \in [Grants -> Nat]
      BY DEF Init, CreditInit
    <2> QED BY <2>1, LedgerConstants DEF Init, CreditInit, TypeOK, CreditTypeOK, TxStates, None
  <1>2. ReadsHold /\ SettledOnce /\ OneGrantPerKey
    BY DEF Init, CreditInit, ReadsHold, SettledOnce, OneGrantPerKey, None, Terminal
  <1>3. Conservation
    <2>1. \A gr \in Grants : Held(gr) = {}
      BY GrantColumns DEF Init, CreditInit, Held
    <2>2. Cardinality({}) = 0
      BY FS_EmptySet
    <2>3. \A gr \in Grants : remaining[gr] = 0 /\ gr \notin granted
      BY DEF Init, CreditInit
    <2> QED BY <2>1, <2>2, <2>3 DEF Conservation
  <1> QED BY <1>1, <1>2, <1>3 DEF Inv

LEMMA ReservePreserves ==
    ASSUME Inv, NEW u \in Users, NEW g \in Generations, ReserveForNewGeneration(u, g)
    PROVE  Inv'
  <1>1. settled[g] = {} /\ reserve(u, g, now)
    BY DEF Inv, ReadsHold, ReserveForNewGeneration
  <1>2. linked' \in [Generations -> BOOLEAN]
    BY DEF Inv, TypeOK, CreditTypeOK, ReserveForNewGeneration
  <1>3. TypeOK'
    BY <1>1, <1>2, ReserveType DEF Inv, TypeOK, ReserveForNewGeneration
  <1>4. Conservation'
    BY <1>1, ReserveConserves DEF Inv, TypeOK
  <1>5. PICK gr \in Grants : reservation' = [reservation EXCEPT ![g] = gr]
    BY DEF ReserveForNewGeneration, reserve, Candidates
  <1>6. gr # NULL
    BY GrantColumns
  <1>7. ReadsHold'
    BY <1>5, <1>6, TxFields DEF Inv, ReadsHold, ReserveForNewGeneration, reserve, TypeOK, CreditTypeOK
  <1>8. SettledOnce' /\ OneGrantPerKey'
    BY DEF Inv, SettledOnce, OneGrantPerKey, ReserveForNewGeneration, reserve
  <1> QED BY <1>3, <1>4, <1>7, <1>8 DEF Inv

\* Opening a transaction only records what it read.
LEMMA ReadPreserves ==
    ASSUME Inv, NEW t \in Transactions,
           \/ \E g \in Generations : ConsumeRead(t, g) \/ ReleaseRead(t, g)
           \/ \E gr \in Grants : GrantRead(t, gr)
    PROVE  Inv'
  <1>1. UNCHANGED <<creditVars, now>>
    BY DEF ConsumeRead, ReleaseRead, GrantRead
  <1>2. PICK state \in TxStates :
          /\ tx' = [tx EXCEPT ![t] = state]
          /\ state.op \in {"consume", "release"} => reservation[state.gen] # NULL
    <2>1. ASSUME NEW g \in Generations, NEW op \in {"consume", "release"}
          PROVE  [op |-> op, gen |-> g] \in TxStates
      BY DEF TxStates
    <2>2. ASSUME NEW gr \in Grants
          PROVE  [op |-> "grant", grant |-> gr] \in TxStates
      BY DEF TxStates
    <2>3. CASE \E g \in Generations : ConsumeRead(t, g)
      BY <2>1, <2>3 DEF ConsumeRead, Begin
    <2>4. CASE \E g \in Generations : ReleaseRead(t, g)
      BY <2>1, <2>4 DEF ReleaseRead, Begin
    <2>5. CASE \E gr \in Grants : GrantRead(t, gr)
      BY <2>2, <2>5 DEF GrantRead, Begin
    <2> QED BY <2>3, <2>4, <2>5
  <1>3. TypeOK' /\ ReadsHold'
    BY <1>1, <1>2 DEF Inv, TypeOK, CreditTypeOK, creditVars, ReadsHold
  <1>4. Conservation' /\ SettledOnce' /\ OneGrantPerKey'
    BY <1>1 DEF Inv, Conservation, Held, SettledOnce, OneGrantPerKey, creditVars
  <1> QED BY <1>3, <1>4 DEF Inv

\* A transaction that ends leaves the other transactions' reads alone.
LEMMA ClosePreserves ==
    ASSUME TypeOK, ReadsHold, NEW t \in Transactions, Close(t), reservation' = reservation
    PROVE  /\ tx' \in [Transactions -> TxStates]
           /\ \A s \in Transactions :
                tx'[s].op \in {"consume", "release"} => reservation'[tx'[s].gen] # NULL
  BY DEF TypeOK, ReadsHold, Close, None, TxStates

LEMMA ConsumePreserves ==
    ASSUME Inv, NEW t \in Transactions, ConsumeWrite(t)
    PROVE  Inv'
  <1> DEFINE g == tx[t].gen
  <1>1. g \in Generations /\ settled[g] = {} /\ reservation[g] # NULL
    BY TxFields DEF Inv, ReadsHold, ConsumeWrite, Open, CanInsertTerminal
  <1>2. WriteConsume(g) /\ Close(t) /\ UNCHANGED <<linked, now>>
    BY DEF ConsumeWrite
  <1> HIDE DEF g
  <1>3. linked' \in [Generations -> BOOLEAN]
    BY <1>2 DEF Inv, TypeOK, CreditTypeOK
  <1>4. TypeOK'
    BY <1>1, <1>2, <1>3, ConsumeType, ClosePreserves DEF Inv, TypeOK, WriteConsume
  <1>5. ReadsHold'
    BY <1>1, <1>2, ClosePreserves DEF Inv, ReadsHold, WriteConsume, TypeOK, CreditTypeOK
  <1>6. Conservation'
    BY <1>1, <1>2, ConsumeConserves DEF Inv, TypeOK
  <1>7. SettledOnce' /\ OneGrantPerKey'
    BY <1>1, <1>2 DEF Inv, TypeOK, CreditTypeOK, SettledOnce, OneGrantPerKey, WriteConsume, Terminal
  <1> QED BY <1>4, <1>5, <1>6, <1>7 DEF Inv

LEMMA ReleasePreserves ==
    ASSUME Inv, NEW t \in Transactions, ReleaseWrite(t)
    PROVE  Inv'
  <1> DEFINE g == tx[t].gen
  <1>1. g \in Generations /\ settled[g] = {} /\ reservation[g] # NULL
    BY TxFields DEF Inv, ReadsHold, ReleaseWrite, Open, CanInsertTerminal
  <1>2. WriteRelease(g) /\ Close(t) /\ UNCHANGED <<linked, now>>
    BY DEF ReleaseWrite
  <1> HIDE DEF g
  <1>3. linked' \in [Generations -> BOOLEAN]
    BY <1>2 DEF Inv, TypeOK, CreditTypeOK
  <1>4. TypeOK'
    BY <1>1, <1>2, <1>3, ReleaseType, ClosePreserves DEF Inv, TypeOK, WriteRelease
  <1>5. ReadsHold'
    BY <1>1, <1>2, ClosePreserves DEF Inv, ReadsHold, WriteRelease, TypeOK, CreditTypeOK
  <1>6. Conservation'
    BY <1>1, <1>2, ReleaseConserves DEF Inv, TypeOK
  <1>7. SettledOnce' /\ OneGrantPerKey'
    BY <1>1, <1>2 DEF Inv, TypeOK, CreditTypeOK, SettledOnce, OneGrantPerKey, WriteRelease, Terminal
  <1> QED BY <1>4, <1>5, <1>6, <1>7 DEF Inv

\* A grant whose key is unused is new: it has no credit out yet.
LEMMA GrantPreserves ==
    ASSUME Inv, NEW t \in Transactions, GrantWrite(t)
    PROVE  Inv'
  <1> DEFINE gr == tx[t].grant
  <1>1. gr \in Grants
    BY TxFields DEF Inv, GrantWrite, Open
  <1>2. /\ GrantKeyUnused(gr)
        /\ granted' = granted \cup {gr}
        /\ remaining' = [remaining EXCEPT ![gr] = Total[gr]]
        /\ Close(t)
        /\ UNCHANGED <<reservation, settled, linked, now>>
    BY DEF GrantWrite
  <1> HIDE DEF gr
  <1>3. gr \notin granted
    BY <1>2 DEF GrantKeyUnused
  <1>4. Total[gr] \in Nat
    BY <1>1, GrantColumns
  <1>5. TypeOK'
    <2>1. remaining' \in [Grants -> Nat]
      BY <1>1, <1>2, <1>4 DEF Inv, TypeOK, CreditTypeOK
    <2> QED BY <2>1, <1>1, <1>2, ClosePreserves DEF Inv, TypeOK, CreditTypeOK
  <1>6. ReadsHold'
    BY <1>2, ClosePreserves DEF Inv, ReadsHold
  <1>7. SettledOnce' /\ OneGrantPerKey'
    BY <1>2 DEF Inv, SettledOnce, OneGrantPerKey, GrantKeyUnused
  <1>8. \A x : Held(x)' = Held(x)
    BY <1>2 DEF Held
  <1>9. remaining[gr] = 0 /\ Cardinality(Held(gr)) = 0
    BY <1>1, <1>3, HeldFinite DEF Inv, Conservation, TypeOK, CreditTypeOK
  <1>10. ASSUME NEW x \in Grants
         PROVE  remaining'[x] + Cardinality(Held(x)') = IF x \in granted' THEN Total[x] ELSE 0
    <2>1. remaining[x] + Cardinality(Held(x)) = IF x \in granted THEN Total[x] ELSE 0
      BY DEF Inv, Conservation
    <2>2. CASE x = gr
      <3>1. remaining'[x] = Total[x] /\ x \in granted'
        BY <2>2, <1>1, <1>2 DEF Inv, TypeOK, CreditTypeOK
      <3> QED BY <3>1, <2>2, <1>4, <1>8, <1>9
    <2>3. CASE x # gr
      BY <2>1, <2>3, <1>2, <1>8 DEF Inv, TypeOK, CreditTypeOK
    <2> QED BY <2>2, <2>3
  <1>11. Conservation'
    BY <1>10 DEF Conservation
  <1> QED BY <1>5, <1>6, <1>7, <1>11 DEF Inv

\* Steps that leave the grants, the reservations and the terminal rows alone.
LEMMA OtherPreserves ==
    ASSUME Inv,
           \/ \E t \in Transactions : TerminalRejected(t) \/ GrantRejected(t)
           \/ \E g \in Generations : DeleteGeneration(g)
           \/ Tick
           \/ UNCHANGED vars
    PROVE  Inv'
  <1>1. UNCHANGED <<granted, remaining, reservation, settled>>
    BY DEF TerminalRejected, GrantRejected, DeleteGeneration, Tick, vars, creditVars
  <1>2. Conservation' /\ SettledOnce' /\ OneGrantPerKey'
    BY <1>1 DEF Inv, Conservation, Held, SettledOnce, OneGrantPerKey
  <1>3. TypeOK' /\ ReadsHold'
    <2>1. CASE \E t \in Transactions : TerminalRejected(t) \/ GrantRejected(t)
      <3>1. PICK t \in Transactions : Close(t) /\ UNCHANGED <<creditVars, now>>
        BY <2>1 DEF TerminalRejected, GrantRejected
      <3> QED BY <3>1, ClosePreserves DEF Inv, TypeOK, CreditTypeOK, ReadsHold, creditVars
    <2>2. CASE \E g \in Generations : DeleteGeneration(g)
      BY <2>2 DEF Inv, TypeOK, CreditTypeOK, ReadsHold, DeleteGeneration
    <2>3. CASE Tick
      BY <2>3, LedgerConstants DEF Inv, TypeOK, CreditTypeOK, ReadsHold, Tick, creditVars
    <2>4. CASE UNCHANGED vars
      BY <2>4 DEF Inv, TypeOK, CreditTypeOK, ReadsHold, vars, creditVars
    <2> QED BY <2>1, <2>2, <2>3, <2>4
  <1> QED BY <1>2, <1>3 DEF Inv

LEMMA NextInv == Inv /\ [Next]_vars => Inv'
  <1> SUFFICES ASSUME Inv, [Next]_vars PROVE Inv'
    OBVIOUS
  <1>1. CASE \E u \in Users, g \in Generations : ReserveForNewGeneration(u, g)
    BY <1>1, ReservePreserves
  <1>2. ASSUME NEW t \in Transactions,
               \/ \E g \in Generations : ConsumeRead(t, g) \/ ReleaseRead(t, g)
               \/ \E gr \in Grants : GrantRead(t, gr)
        PROVE  Inv'
    BY <1>2, ReadPreserves
  <1>3. CASE \E t \in Transactions : ConsumeWrite(t)
    BY <1>3, ConsumePreserves
  <1>4. CASE \E t \in Transactions : ReleaseWrite(t)
    BY <1>4, ReleasePreserves
  <1>5. CASE \E t \in Transactions : GrantWrite(t)
    BY <1>5, GrantPreserves
  <1>6. CASE \/ \E t \in Transactions : TerminalRejected(t) \/ GrantRejected(t)
             \/ \E g \in Generations : DeleteGeneration(g)
             \/ Tick
             \/ UNCHANGED vars
    BY <1>6, OtherPreserves
  <1> QED BY <1>1, <1>2, <1>3, <1>4, <1>5, <1>6 DEF Next

\* The inductive invariant holds of every interleaving of the ledger's
\* transactions: the checked properties, and what an open transaction has read.
THEOREM LedgerInvariant == Spec => []Inv
  BY InitInv, NextInv, PTL DEF Spec

-----------------------------------------------------------------------------
\* Every table keeps its columns' types; in particular remainingCredits is
\* never decremented below zero by racing reservations.
THEOREM LedgerTypeCorrect == Spec => []TypeOK
  <1>1. Inv => TypeOK
    BY DEF Inv
  <1> QED BY <1>1, LedgerInvariant, PTL

\* No interleaving of grants, reservations, consumptions, releases and
\* deletions creates or loses a credit.
THEOREM LedgerConserves == Spec => []Conservation
  <1>1. Inv => Conservation
    BY DEF Inv
  <1> QED BY <1>1, LedgerInvariant, PTL

\* Racing consume and release calls never settle a credit both ways.
THEOREM LedgerSettlesOnce == Spec => []SettledOnce
  <1>1. Inv => SettledOnce
    BY DEF Inv
  <1> QED BY <1>1, LedgerInvariant, PTL

\* Repeating a grant call, concurrently or not, issues its credits once.
THEOREM LedgerGrantsOncePerKey == Spec => []OneGrantPerKey
  <1>1. Inv => OneGrantPerKey
    BY DEF Inv
  <1> QED BY <1>1, LedgerInvariant, PTL

\* A reservation never takes a credit while one of the same user that is also
\* valid expires sooner.  It needs no invariant but the columns' types: it is
\* what sorting by compareGrants and filtering by validity come to.
THEOREM LedgerNearestExpiryFirst == Spec => NearestExpiryFirst
  <1> DEFINE Sooner(x, y) == \/ ExpiresAt[y] = NULL /\ ExpiresAt[x] # NULL
                             \/ /\ ExpiresAt[x] # NULL /\ ExpiresAt[y] # NULL
                                /\ ExpiresAt[x] < ExpiresAt[y]
             Nearest(g) ==
                reservation[g] = NULL /\ reservation'[g] # NULL =>
                    LET gr == reservation'[g]
                    IN  /\ ExpiresAt[gr] # NULL => now < ExpiresAt[gr]
                        /\ \A other \in Grants :
                            /\ Owner[other] = Owner[gr]
                            /\ remaining[other] > 0
                            /\ ValidFrom[other] <= now
                            /\ Sooner(other, gr)
                            => ExpiresAt[other] <= now
  <1>1. ASSUME Inv, [Next]_vars, NEW g \in Generations
        PROVE  Nearest(g)
    <2>1. CASE \E u \in Users, h \in Generations : ReserveForNewGeneration(u, h)
      <3>1. PICK u \in Users, h \in Generations : ReserveForNewGeneration(u, h)
        BY <2>1
      <3>2. PICK gr \in Candidates(u, now) :
              /\ IsFirst(gr, Candidates(u, now))
              /\ reservation' = [reservation EXCEPT ![h] = gr]
        BY <3>1 DEF ReserveForNewGeneration, reserve
      <3>3. SUFFICES ASSUME reservation[g] = NULL, reservation'[g] # NULL PROVE Nearest(g)
        OBVIOUS
      <3>4. reservation'[g] = gr
        BY <1>1, <3>2, <3>3 DEF Inv, TypeOK, CreditTypeOK
      <3>5. gr \in Grants /\ Owner[gr] = u /\ now \in Nat
        <4>1. now \in Nat
          BY <1>1, LedgerConstants DEF Inv, TypeOK
        <4> QED BY <3>2, <4>1 DEF Candidates
      <3>6. \A x \in Grants : ExpiresAt[x] # NULL => ExpiresAt[x] \in Nat /\ ExpiresAt[x] < MaxSafeInteger
        BY GrantColumns
      <3>7. ExpiresAt[gr] # NULL => now < ExpiresAt[gr]
        BY <3>5, <3>6 DEF Candidates
      <3>8. ASSUME NEW other \in Grants, Owner[other] = u, remaining[other] > 0,
                   ValidFrom[other] <= now, Sooner(other, gr), ~(ExpiresAt[other] <= now)
            PROVE  FALSE
        <4>1. other \in Candidates(u, now) /\ other # gr
          BY <3>5, <3>6, <3>8 DEF Candidates
        <4>2. compareGrants(gr, other)
          BY <3>2, <4>1 DEF IsFirst
        <4>3. Expiration(other) < Expiration(gr)
          BY <3>5, <3>6, <3>8, GrantColumns DEF Expiration
        <4>4. ~(Expiration(gr) < Expiration(other)) /\ Expiration(gr) # Expiration(other)
          BY <4>3, <3>5, ExpirationType
        <4> QED BY <4>2, <4>4 DEF compareGrants
      <3> QED BY <3>4, <3>5, <3>7, <3>8
    <2>2. CASE reservation' = reservation
      BY <2>2
    <2>3. \/ \E u \in Users, h \in Generations : ReserveForNewGeneration(u, h)
          \/ reservation' = reservation
      <3>1. ASSUME NEW t \in Transactions, NEW h \in Generations, ConsumeRead(t, h) \/ ReleaseRead(t, h)
            PROVE  reservation' = reservation
        BY <3>1 DEF ConsumeRead, ReleaseRead, creditVars
      <3>2. ASSUME NEW t \in Transactions, NEW gr \in Grants, GrantRead(t, gr)
            PROVE  reservation' = reservation
        BY <3>2 DEF GrantRead, creditVars
      <3>3. ASSUME NEW t \in Transactions,
                   \/ ConsumeWrite(t) \/ ReleaseWrite(t) \/ TerminalRejected(t)
                   \/ GrantWrite(t) \/ GrantRejected(t)
            PROVE  reservation' = reservation
        BY <3>3 DEF ConsumeWrite, ReleaseWrite, TerminalRejected, GrantWrite, GrantRejected,
                    WriteConsume, WriteRelease, creditVars
      <3>4. ASSUME \/ \E h \in Generations : DeleteGeneration(h)
                   \/ Tick
                   \/ UNCHANGED vars
            PROVE  reservation' = reservation
        BY <3>4 DEF DeleteGeneration, Tick, creditVars, vars
      <3> QED BY <1>1, <3>1, <3>2, <3>3, <3>4 DEF Next
    <2> QED BY <2>1, <2>2, <2>3
  <1>2. Inv /\ [Next]_vars => [\A g \in Generations : Nearest(g)]_vars
    BY <1>1
  <1>3. Spec => [][\A g \in Generations : Nearest(g)]_vars
    BY <1>2, LedgerInvariant, PTL DEF Spec
  <1> QED BY <1>3 DEF NearestExpiryFirst

-----------------------------------------------------------------------------
\* The ledger implements the contract: whatever its transactions read before
\* others wrote, each step takes a credit that is left, settles one that is
\* open, issues a grant, or changes nothing of it.
THEOREM LedgerImplementsContract == Spec => ImplementsContract
  <1>1. Init => Contract!Init
    BY ContractInit DEF Init
  <1>2. ASSUME Inv, [Next]_vars
        PROVE  [Contract!Next]_(Contract!contractVars)
    <2>1. ASSUME NEW u \in Users, NEW g \in Generations, ReserveForNewGeneration(u, g)
          PROVE  [Contract!Next]_(Contract!contractVars)
      BY <1>2, <2>1, ReserveImplements DEF Inv, TypeOK, ReserveForNewGeneration
    <2>2. ASSUME NEW t \in Transactions, ConsumeWrite(t) \/ ReleaseWrite(t)
          PROVE  [Contract!Next]_(Contract!contractVars)
      <3>1. tx[t].gen \in Generations /\ reservation[tx[t].gen] # NULL
        BY <1>2, <2>2, TxFields DEF Inv, ReadsHold, ConsumeWrite, ReleaseWrite, Open
      <3>2. settled[tx[t].gen] = {} /\ (WriteConsume(tx[t].gen) \/ WriteRelease(tx[t].gen))
        BY <2>2 DEF ConsumeWrite, ReleaseWrite, CanInsertTerminal
      <3> QED BY <1>2, <3>1, <3>2, SettleImplements DEF Inv, TypeOK
    <2>3. ASSUME NEW t \in Transactions, GrantWrite(t)
          PROVE  [Contract!Next]_(Contract!contractVars)
      <3> DEFINE gr == tx[t].grant
      <3>1. gr \in Grants
        BY <1>2, <2>3, TxFields DEF Inv, GrantWrite, Open
      <3>2. GrantKeyUnused(gr) /\ granted' = granted \cup {gr} /\ UNCHANGED <<reservation, settled>>
        BY <2>3 DEF GrantWrite
      <3>3. gr \notin granted
        BY <3>2 DEF GrantKeyUnused
      <3>4. UNCHANGED [x \in Generations |-> Outcome(x)]
        BY <3>2 DEF Outcome
      <3>5. Contract!Issue(gr)
        BY <3>1, <3>2, <3>3, <3>4 DEF Contract!Issue
      <3> QED BY <3>1, <3>5 DEF Contract!Next
    <2>4. ASSUME \/ \E t \in Transactions :
                      \/ \E g \in Generations : ConsumeRead(t, g) \/ ReleaseRead(t, g)
                      \/ \E gr \in Grants : GrantRead(t, gr)
                      \/ TerminalRejected(t) \/ GrantRejected(t)
                 \/ \E g \in Generations : DeleteGeneration(g)
                 \/ Tick
                 \/ UNCHANGED vars
          PROVE  [Contract!Next]_(Contract!contractVars)
      <3>1. UNCHANGED <<granted, reservation, settled>>
        BY <2>4 DEF ConsumeRead, ReleaseRead, GrantRead, TerminalRejected, GrantRejected,
                    DeleteGeneration, Tick, vars, creditVars
      <3> QED BY <3>1, ContractStutter
    <2> QED BY <1>2, <2>1, <2>2, <2>3, <2>4 DEF Next
  <1> QED BY <1>1, <1>2, LedgerInvariant, PTL DEF Spec, ImplementsContract, Contract!Spec

=============================================================================
