------------------------------- MODULE Credits -------------------------------
(***************************************************************************)
(* Generation credits: the grants a user holds and the ledger rows written *)
(* against them (entitlements/credits.service.ts).  This module holds the  *)
(* state and the InTransaction methods, as action conjuncts for a caller   *)
(* that owns the transaction: CreditLedger interleaves the transactions    *)
(* with one another, GenerationLifecycle calls them from the generation    *)
(* service and the worker.                                                 *)
(*                                                                         *)
(* A ledger row is identified by its unique idempotencyKey                 *)
(* generation:<id>:<action>.  The RESERVE row of a generation is           *)
(* reservation[g] (the grant it names, or NULL), its terminal rows are the *)
(* members of settled[g].  The rows' generationId column is a foreign key  *)
(* with ON DELETE SET NULL: linked[g] says whether the generation row      *)
(* still exists, so whether a lookup by generationId finds the rows.       *)
(***************************************************************************)
EXTENDS Naturals, FiniteSets

CONSTANTS
    Users,
    Generations,      \* generation ids (random UUIDs, never reused)
    Grants,           \* grant ids, as naturals: their order is localeCompare's
    NULL,
    \* Immutable columns of a grant, as functions on Grants.
    Owner, Source, Total, ValidFrom, ExpiresAt, CreatedAt,
    MaxSafeInteger    \* Number.MAX_SAFE_INTEGER, later than every expiry

Sources == {"SUBSCRIPTION_MONTHLY", "PROMOTIONAL", "ADMIN", "REFUND", "PURCHASED_PACK"}

ASSUME GrantColumns ==
    /\ Grants \subseteq Nat
    /\ IsFiniteSet(Generations)
    /\ MaxSafeInteger \in Nat
    /\ NULL \notin Nat
    /\ Owner \in [Grants -> Users]
    /\ Source \in [Grants -> Sources]
    /\ Total \in [Grants -> Nat \ {0}]
    /\ ValidFrom \in [Grants -> Nat]
    /\ ExpiresAt \in [Grants -> {n \in Nat : n < MaxSafeInteger} \cup {NULL}]
    /\ CreatedAt \in [Grants -> Nat]

VARIABLES
    granted,       \* grants that exist, each with its GRANT ledger row
    remaining,     \* remainingCredits
    reservation,   \* the grant of the RESERVE row, by generation
    settled,       \* the terminal rows written, by generation
    linked         \* the generation row exists: its ledger rows still name it

creditVars == <<granted, remaining, reservation, settled, linked>>

Terminal == {"CONSUME", "RELEASE"}

CreditTypeOK ==
    /\ granted \subseteq Grants
    /\ remaining \in [Grants -> Nat]
    /\ reservation \in [Generations -> Grants \cup {NULL}]
    /\ settled \in [Generations -> SUBSET Terminal]
    /\ linked \in [Generations -> BOOLEAN]

CreditInit ==
    /\ remaining = [gr \in Grants |-> IF gr \in granted THEN Total[gr] ELSE 0]
    /\ reservation = [g \in Generations |-> NULL]
    /\ settled = [g \in Generations |-> {}]
    /\ linked = [g \in Generations |-> FALSE]

-----------------------------------------------------------------------------
(* Grant selection.                                                        *)

sourcePriority(source) ==
    CASE source = "SUBSCRIPTION_MONTHLY" -> 0
      [] source = "PROMOTIONAL"          -> 1
      [] source = "ADMIN"                -> 2
      [] source = "REFUND"               -> 3
      [] source = "PURCHASED_PACK"       -> 4

Expiration(gr) == IF ExpiresAt[gr] = NULL THEN MaxSafeInteger ELSE ExpiresAt[gr]

CompareBySourceFirst(l, r) ==
    LET pl == sourcePriority(Source[l])
        pr == sourcePriority(Source[r])
    IN  \/ pl < pr
        \/ pl = pr /\ Expiration(l) < Expiration(r)
        \/ pl = pr /\ Expiration(l) = Expiration(r) /\ l < r

\* compareGrants(l, r) < 0
compareGrants(l, r) ==
    LET pl == sourcePriority(Source[l])
        pr == sourcePriority(Source[r])
    IN  \/ Expiration(l) < Expiration(r)
        \/ /\ Expiration(l) = Expiration(r)
           /\ \/ pl < pr
              \/ pl = pr /\ CreatedAt[l] < CreatedAt[r]
              \/ pl = pr /\ CreatedAt[l] = CreatedAt[r] /\ l < r

CandidatesIgnoreBalance(user, now) ==
    {gr \in Grants :
        /\ Owner[gr] = user
        /\ ValidFrom[gr] <= now
        /\ ExpiresAt[gr] = NULL \/ ExpiresAt[gr] > now}

Candidates(user, now) ==
    {gr \in Grants :
        /\ Owner[gr] = user
        /\ remaining[gr] > 0
        /\ ValidFrom[gr] <= now
        /\ ExpiresAt[gr] = NULL \/ ExpiresAt[gr] > now}

\* The head of the sorted candidates.
IsFirst(gr, candidates) == \A other \in candidates \ {gr} : compareGrants(gr, other)

-----------------------------------------------------------------------------
(* The InTransaction methods.  Each leaves `linked' to its caller.          *)

findTerminal(g) == IF linked[g] THEN settled[g] ELSE {}

\* A terminal row can be inserted only while the foreign key has a target,
\* its key is new, and the partial unique index on generationId is free.
CanInsertTerminalTwice(g) == linked[g]
CanInsertTerminal(g) == linked[g] /\ settled[g] = {}

\* The generation id is new, so the RESERVE row it would find never exists;
\* without a candidate the method throws and the transaction rolls back.
reserve(user, g, now) ==
    /\ UNCHANGED <<granted, settled>>
    /\ IF reservation[g] # NULL
       THEN UNCHANGED <<remaining, reservation>>
       ELSE \E gr \in Candidates(user, now) :
               /\ IsFirst(gr, Candidates(user, now))
               /\ remaining' = [remaining EXCEPT ![gr] = @ - 1]
               /\ reservation' = [reservation EXCEPT ![g] = gr]

\* consumeInTransaction returns without a write when the credit is already
\* consumed, and throws when it is missing or released.
WriteConsume(g) ==
    /\ settled' = [settled EXCEPT ![g] = @ \cup {"CONSUME"}]
    /\ UNCHANGED <<granted, remaining, reservation>>

WriteReleaseNoIncrement(g) ==
    /\ settled' = [settled EXCEPT ![g] = @ \cup {"RELEASE"}]
    /\ UNCHANGED <<granted, remaining, reservation>>

WriteRelease(g) ==
    /\ remaining' = [remaining EXCEPT ![reservation[g]] = @ + 1]
    /\ settled' = [settled EXCEPT ![g] = @ \cup {"RELEASE"}]
    /\ UNCHANGED <<granted, reservation>>

ReleaseForgotten(g) == UNCHANGED <<granted, remaining, reservation, settled>>

releaseInTransaction(g) ==
    IF reservation[g] = NULL \/ findTerminal(g) # {}
    THEN UNCHANGED <<granted, remaining, reservation, settled>>
    ELSE WriteRelease(g)

-----------------------------------------------------------------------------
(* Generations whose credit is out of the grant: reserved and not given back. *)
Held(gr) == {g \in Generations : reservation[g] = gr /\ "RELEASE" \notin settled[g]}

\* Every credit of a grant is either still available or held by exactly one
\* generation, so no interleaving of reserve, consume and release creates or
\* loses one (and remainingCredits stays inside its CHECK constraint).
Conservation ==
    \A gr \in Grants :
        remaining[gr] + Cardinality(Held(gr)) = IF gr \in granted THEN Total[gr] ELSE 0

\* A generation's credit is settled at most once: it is never both consumed
\* and released (the shared terminal index of generationId).
SettledOnce == \A g \in Generations : settled[g] # Terminal

-----------------------------------------------------------------------------
(* What the rows say of a generation's credit, and the promise they keep.  *)

Outcome(g) == IF "RELEASE" \in settled[g] THEN "returned"
              ELSE IF "CONSUME" \in settled[g] THEN "spent"
              ELSE "open"

Contract == INSTANCE CreditContract WITH
                issued <- granted,
                taken <- reservation,
                outcome <- [g \in Generations |-> Outcome(g)]

\* The ledger with its counter, its rows and its unique keys implements the
\* contract: every step of it takes a credit that is left, settles one that is
\* open, issues a grant, or changes nothing the contract speaks of.
ImplementsContract == Contract!Spec

=============================================================================
