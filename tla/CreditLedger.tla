---------------------------- MODULE CreditLedger -----------------------------
(***************************************************************************)
(* The credit ledger on its own: any number of transactions run against it *)
(* at READ COMMITTED, so a consume, a release or a grant that has done its *)
(* lookups may find at its write that another transaction has committed.   *)
(* The database's unique keys then abort it.  reserve runs inside the      *)
(* Serializable transaction that creates the generation: one step.         *)
(***************************************************************************)
EXTENDS Credits

CONSTANTS
    Transactions,   \* database sessions
    GrantKey,       \* idempotency key of the grant's GRANT row, by grant
    MaxTime         \* bound: the clock stops there

ASSUME LedgerConstants == MaxTime \in Nat

VARIABLES
    now,    \* the clock the validity of a grant is compared with
    tx      \* what each open transaction is about to write, after its reads

vars == <<creditVars, now, tx>>

None == [op |-> "none"]
TxStates ==
    {None} \cup [op : {"consume", "release"}, gen : Generations]
           \cup [op : {"grant"}, grant : Grants]

TypeOK ==
    /\ CreditTypeOK
    /\ now \in 0..MaxTime
    /\ tx \in [Transactions -> TxStates]

Init ==
    /\ granted = {}
    /\ CreditInit
    /\ now = 0
    /\ tx = [t \in Transactions |-> None]

Open(t, op) == tx[t].op = op
Begin(t, state) == /\ Open(t, "none")
                   /\ tx' = [tx EXCEPT ![t] = state]
Close(t) == tx' = [tx EXCEPT ![t] = None]

\* Creating a generation with its reservation, in one Serializable step.
ReserveForNewGeneration(user, g) ==
    /\ ~linked[g] /\ reservation[g] = NULL
    /\ reserve(user, g, now)
    /\ linked' = [linked EXCEPT ![g] = TRUE]
    /\ UNCHANGED <<now, tx>>

\* consume / consumeInTransaction: the lookups, then the insert.
ConsumeRead(t, g) ==
    /\ reservation[g] # NULL
    /\ findTerminal(g) = {}
    /\ Begin(t, [op |-> "consume", gen |-> g])
    /\ UNCHANGED <<creditVars, now>>

ConsumeWrite(t) ==
    /\ Open(t, "consume")
    /\ CanInsertTerminal(tx[t].gen)
    /\ WriteConsume(tx[t].gen)
    /\ Close(t)
    /\ UNCHANGED <<linked, now>>

\* release / releaseInTransaction: the lookups, then increment and insert.
ReleaseRead(t, g) ==
    /\ reservation[g] # NULL
    /\ findTerminal(g) = {}
    /\ Begin(t, [op |-> "release", gen |-> g])
    /\ UNCHANGED <<creditVars, now>>

ReleaseWrite(t) ==
    /\ Open(t, "release")
    /\ CanInsertTerminal(tx[t].gen)
    /\ WriteRelease(tx[t].gen)
    /\ Close(t)
    /\ UNCHANGED <<linked, now>>

\* A unique key or the foreign key rejects the insert: nothing is written,
\* the increment of a release included.
TerminalRejected(t) ==
    /\ tx[t].op \in {"consume", "release"}
    /\ ~CanInsertTerminal(tx[t].gen)
    /\ Close(t)
    /\ UNCHANGED <<creditVars, now>>

\* The unique idempotencyKey of the GRANT row (a period's grant is unique too).
GrantKeyFree(gr) == TRUE
GrantKeyUnused(gr) == \A other \in granted : GrantKey[other] # GrantKey[gr]

\* allocateMonthly and the credits:grant command: look the key up, create the
\* grant with all of its credits and write its GRANT row.
GrantRead(t, gr) ==
    /\ gr \notin granted
    /\ GrantKeyUnused(gr)
    /\ Begin(t, [op |-> "grant", grant |-> gr])
    /\ UNCHANGED <<creditVars, now>>

GrantWrite(t) ==
    /\ Open(t, "grant")
    /\ LET gr == tx[t].grant IN
       /\ GrantKeyUnused(gr)
       /\ granted' = granted \cup {gr}
       /\ remaining' = [remaining EXCEPT ![gr] = Total[gr]]
    /\ Close(t)
    /\ UNCHANGED <<reservation, settled, linked, now>>

GrantRejected(t) ==
    /\ Open(t, "grant")
    /\ ~GrantKeyUnused(tx[t].grant)
    /\ Close(t)
    /\ UNCHANGED <<creditVars, now>>

\* The generation row goes (compensation, or a report's cascade): its ledger
\* rows stay with generationId set to NULL.
DeleteGeneration(g) ==
    /\ linked[g]
    /\ linked' = [linked EXCEPT ![g] = FALSE]
    /\ UNCHANGED <<granted, remaining, reservation, settled, now, tx>>

Tick ==
    /\ now < MaxTime
    /\ now' = now + 1
    /\ UNCHANGED <<creditVars, tx>>

Next ==
    \/ \E u \in Users, g \in Generations : ReserveForNewGeneration(u, g)
    \/ \E t \in Transactions :
        \/ \E g \in Generations : ConsumeRead(t, g) \/ ReleaseRead(t, g)
        \/ \E gr \in Grants : GrantRead(t, gr)
        \/ ConsumeWrite(t)
        \/ ReleaseWrite(t)
        \/ TerminalRejected(t)
        \/ GrantWrite(t)
        \/ GrantRejected(t)
    \/ \E g \in Generations : DeleteGeneration(g)
    \/ Tick

Spec == Init /\ [][Next]_vars

-----------------------------------------------------------------------------
\* One grant per idempotency key: repeating allocateMonthly for a period, or
\* the credits:grant command for a ticket, never issues the credits twice,
\* even when two calls pass the lookup together.
OneGrantPerKey ==
    \A a, b \in granted : GrantKey[a] = GrantKey[b] => a = b

\* A reservation takes a credit that is valid now, and no credit of the same
\* user that is also valid expires sooner (README: "Grants are chosen by
\* nearest expiry").
NearestExpiryFirst ==
    [][\A g \in Generations :
        reservation[g] = NULL /\ reservation'[g] # NULL =>
            LET gr == reservation'[g]
                Sooner(x, y) == \/ ExpiresAt[y] = NULL /\ ExpiresAt[x] # NULL
                                \/ /\ ExpiresAt[x] # NULL /\ ExpiresAt[y] # NULL
                                   /\ ExpiresAt[x] < ExpiresAt[y]
            IN  /\ ExpiresAt[gr] # NULL => now < ExpiresAt[gr]
                /\ \A other \in Grants :
                    /\ Owner[other] = Owner[gr]
                    /\ remaining[other] > 0
                    /\ ValidFrom[other] <= now
                    /\ Sooner(other, gr)
                    => ExpiresAt[other] <= now]_vars

=============================================================================
