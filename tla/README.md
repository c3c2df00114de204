# FastRep API: TLA+ models, checks and proofs

FastRep turns notes, images, audio and documents into generated reports. A
NestJS API process accepts requests, PostgreSQL (through Prisma) holds all
durable state, BullMQ on Redis carries generation jobs to worker processes, S3
holds uploads and PDFs, OpenAI produces the content. This directory models the
parts of it whose correctness depends on the order of things: what is stored
where, who may write it, and what is left when a process, a call or an
acknowledgement is lost.

Sections: [inventory](#inventory), [modules](#modules-and-their-correspondence-to-the-code),
[runs](#runs), [fairness](#fairness), [proofs](#proofs), [findings](#findings),
[limits](#what-is-not-modelled), [plan](#plan).

## Inventory

| Component | State it keeps | Operations | What must be right |
| --- | --- | --- | --- |
| Credit ledger (`entitlements/credits.service.ts`, `cli/grant-generation-credits.ts`) | `GenerationCreditGrant.remainingCredits`, `GenerationCreditTransaction` rows | `reserve`, `consume`, `release`, `allocateMonthly`, `credits:grant` | credits are conserved; a reservation is settled once; a grant key is used once; nearest expiry first |
| Generation service (`report-generations.service.ts`) | `ReportGeneration`, `Report.status`, the BullMQ job | `start`, `retry`, `ensureEnqueued`, `compensateQueueFailure`, `cancel` | one active generation per report; the report's status follows it; a failed enqueue leaves nothing behind; a key starts one generation |
| Generation worker (`report-generation-processor.service.ts`, `-worker`, `-queue`) | processing token, lease, attempt count, output object, throttle columns | `handle`, `claim`, `renewLease`, `finalizeSuccess`, `prepareRetry`, `failGeneration`, `resultAfterClaimLoss`, `scheduleOrphanCleanup` | a live lease is not stolen; a replaced worker changes nothing; publication, credit and report move together; no object is lost or forgotten; every generation settles |
| Provider attempts, transcriptions (`provider-attempts.service.ts`, `asset-transcriptions.service.ts`) | `GenerationProviderAttempt`, `ReportAssetTranscription`, `structuredResult` | `start`, `completeOwned`, `completeInTransaction`, `fail`, `getOrCreate`, `persistReportResult` | the call budget is durable; only the owner of a generation pays; a takeover is not blocked by what it replaces; what was paid for is used; nothing is written from unmoderated content |
| OpenAI provider (`openai-report-provider.service.ts`) | none of its own | `moderate`, `transcribe`, `generateReport` | requests end at the deadline; image aliases are mapped back to the right assets |
| PDF rendering (`pdf-report.service.ts`) | the document under construction | `generate` | nothing overlaps or leaves the margins; each image once, where it is referred to; headings keep their text |
| Report assets (`report-assets.service.ts`) | `ReportAsset` rows, S3 objects | request, confirm, delete, expire | a READY asset has its object; limits hold under concurrency; nothing stays in S3 unowned |
| Storage cleanup (`storage-cleanup.service.ts`) | `StorageCleanupTask` rows | `enqueueAndAttempt`, `attemptMany`, `retryPending` | a task stays until its object is deleted |
| Reports (`reports.service.ts`) | `Report` rows | create, update, duplicate, delete | no change during a generation; a duplicate owns its copies; deletion leaves no object |
| Report outputs | reads `ReportOutput` | signed URL | (read only) |
| Authentication (`auth.service.ts`) | `PendingRegistration`, `User.passwordHash`, `RefreshToken`, `PasswordResetRequest` rows | register, verify, resend, login, refresh, logout, forgot, reset | only the newest code works, and once; an exhausted code stays exhausted; mails keep their cooldown; a refresh token is rotated once; a reset ends every session |
| Users, entitlements projection, mail, configuration, controllers | none of their own, or single rows | | |

How they interact: the generation service calls the credit ledger inside its own
transaction, then `queue.add`; the worker receives the job, claims the row and
calls the ledger and the storage, and before each call to OpenAI writes an attempt row whose
result it stores in a transaction fenced by its claim; storage cleanup is called by assets, reports and
the worker. Nothing but PostgreSQL is transactional: every `await` between the
database, Redis and S3 is a point where a process may die, an answer may be lost
or another actor may act. Transactions run at READ COMMITTED except the ones that
ask for Serializable (`start` of generations and of provider attempts, upload reservation,
report deletion).

What is hard: two requests with one key, compensation of an enqueue that Redis did
perform, cancellation against a claim, suspended workers, leases, redelivery after
a stall, retries that must not be lost or repeated, calls that cost money, cleanup that must delete what
lost and never what won. `PROJECT.json` lists each hazard at its line with the
properties that would catch it.

## Modules and their correspondence to the code

### `Credits`: rows and InTransaction methods

`granted`/`remaining` are the grant rows; a ledger row is identified by its unique
idempotency key `generation:<id>:<action>`, so the RESERVE row of a generation is
`reservation[g]` and its terminal rows are the members of `settled[g]`. The
`generationId` foreign key is `ON DELETE SET NULL`: `linked[g]` says whether a
lookup by generation id still finds the rows. `Candidates`, `compareGrants` and
`IsFirst` are the grant selection of `reserve`; `CanInsertTerminal` is what the
database's unique keys and foreign key admit. The operators are action conjuncts,
used by both modules below.

### `CreditLedger`: the ledger alone

Each consume, release and grant is two actions, its lookups and its writes, with
the write enabled only when the unique keys admit it and `TerminalRejected` /
`GrantRejected` for the aborted transaction. `reserve` is one action: its caller
runs it in the Serializable transaction that creates the generation.

### `CreditContract`: what the ledger promises

The abstract specification: a generation takes one credit of a grant that has one left,
and the credit is then spent or given back, once. `Credits` maps rows to it
(`Outcome`, `Contract`): a grant is `issued`, a reservation is `taken`, a terminal row is
the `outcome`. `CreditLedger` and `GenerationLifecycle` each state `ImplementsContract`.
The contract keeps no counter and no history, so it says that `remainingCredits` counts
the credits that are not out, for any interleaving.

### `GenerationLifecycle`: API, queue, worker, report, credit and object

One module, because the hazards are in the joints. Variables are tables
(`report`, `gen`, the ledger, `cleanup`), Redis (`job`), S3 (`objects`) and the
program counters of the API requests (`call`) and of the workers (`worker`).

* A transaction whose first write is conditional on the rows it depends on is one
  action: the conditional `updateMany` takes the row lock and the rest follows
  under it (`CancelCommit`, `Claim`, `PrepareRetry`, `FailGeneration`,
  `FinalizeCommit`), as is the Serializable `start` (`StartNew`). A transaction that
  reads first and writes later unconditionally is two (`CompensateRead`,
  `CompensateWrite`; `FinalizeCheck`, `FinalizeCommit`).
* Every `await` between two services is a step of its own, so that a crash, another
  actor or time may come in between.
* Time is relative and discrete. A lease counts down to -1: `lease > 0` is "not
  expired" (`gt: now`), `lease < 0` is "expired" (`lt: now`), and 0 is the instant
  at which neither holds. `Tick` moves leases, job locks, deferral delays,
  deadlines, locks and failure windows together.
* The random processing token is the number of the claim, which is as fresh.
* `worker.after` is where the catch block goes after the orphan cleanup.
* BullMQ is external and modelled from its use: `add` ignores a job id it has,
  `remove` does not take a locked job, only the holder of a lock settles a job, a
  handler that rejects uses an attempt, `DelayedError` does not, and a job whose
  lock ran out goes back or, after `maxStalledCount`, fails.
* `Faults` selects what may go wrong: queue errors with and without effect, process
  crashes, suspended workers, provider and storage errors, database errors, failed
  object deletions, a lost commit acknowledgement of the publication.

### `ProviderAttempts`: the paid calls inside the pipeline

What `GenerationLifecycle` takes as one step, from `Claim` to `Upload` or
`PipelineError`. The generations are those of one report. `gen` has the fence and
`structuredResult`; `attempts[slot]` are the rows that `start` counts together, those of an
audio asset across generations (`TRANSCRIPTION`), otherwise those of a generation and an
operation; the number of a row is its position. `paid` is a history variable: requests
the provider may have been sent.

* A worker runs through `process`: each stage opens with the fenced `updateProgress`
  (`Stage`, `LostStage`, `DeadlineExceeded`), `getOrCreate` is `Lookup`, `Upsert`, the
  attempt, and its catch block `FailOwned`, `Close`, `Mark`; every database call outside
  the catch blocks may throw (`StageError`).
* `start` is one Serializable transaction: `AttemptInProgress`, `BudgetExhausted` or
  `StartAttempt`, which closes stale rows (`CloseStale`).
* A call is one request, or for the moderation one per batch (`ModerateBatch`), each sent
  only before the deadline: the abort signal fires at it. `CallError` is everything else
  that may become of a call; when the request may have left, it counts.
* `Store` is the fenced transaction of `getOrCreate`, `completeOwned` and
  `persistReportResult`; its acknowledgement may be lost (`SaveUnacknowledged`).
* Time is relative as in `GenerationLifecycle`. Without `"pause"`, time waits at a worker's
  deadline until the worker is done. `Closed` clears token and lease of a closed row, which
  nothing reads any more (both keep their values in the database).

### `PdfReport`: from the answer to the pages

One document, sequential: `MapAliases` (`mapImageAliases`), `LoadReferencedImages` (the
processor), then `generate`: cover, summary, sections with blocks and galleries,
conclusion, recommendations, page limit. `cursor` is PDFKit's page and `y`, `drawn` a
history of the boxes drawn. Texts are numbers of lines, and lengths are rounded to points.
PDFKit is external: `Text`, `NewPage`, `Move` say what it does to the cursor. `loaded` is the
map from asset ids to bytes, so a set of ids; the order of the images is that of the
references. `RenderingConstants` says of the answers what `report-result.schema.ts` admits:
one section or more, each with a block, and no empty text.

### `ReportStorage`: assets, copies, objects and the cleanup outbox

A report's rows (`report`, `asset`, and `sources`, the input snapshot of its active
generation), the presigned POSTs the clients hold (`contract`), S3 (`objects`), the
`StorageCleanupTask` table (`cleanup`) and the program counters of the API requests
(`call`). An asset id stands for its storage key, which holds a UUID of its own.

* `requestUpload` is `RequestBegin` (its check and `retryPending`), `ListExpired` to
  `ExpireEnd` (`cleanupExpiredPendingUploads`), `ReserveSlot` or `SlotRefused` (the
  Serializable transaction) and `Sign`; `confirmUpload` is `ConfirmBegin` to
  `ConfirmReady`, with `Reject` and `RejectRowEnd` for `rejectUpload`; the deletion of
  an asset is `DeleteBegin`, `DeleteFind`, `DeleteRow`, that of a report `DeleteReport`;
  `duplicate` is `DuplicateBegin` to `Rollback`.
* `attempt` is two steps per key, `EraseObject` and `EraseTask`, or `EraseError`. Its
  callers share it: `call.after` is where a request goes on when its keys are done.
  The keys of `attemptMany` and `retryPending` are attempted in any order.
* An object is `good`, or `bad` when the client uploaded something it did not declare;
  HEAD and the inspection of the first bytes may each find a bad object out.
* `age` counts ticks since the row was created; a slot has expired when it exceeds
  `PendingTtl`, as in `createdAt < pendingCutoff()`.
* The generation is external here and takes part by what it reads and when: its start
  transaction with `validateSources` and the snapshot, and its end.
* `Faults` selects requests that end at an await (`abort`, and `abortCopy` for a
  duplication that has not recorded its copies), S3 errors, copies that throw with or without
  effect, database errors, a lost commit acknowledgement, clients that upload the wrong
  file (`badUpload`) or confirm an asset twice at once or across its expiration
  (`overlap`).

### `Accounts`: registration, sessions and password reset of one address

The rows of one e-mail address (`pending`, `password`, `resets`, `token`) and the
program counters of the requests (`call`). Addresses share no row, so one is enough.

* Transactions are READ COMMITTED here and are split where a later statement relies on
  an earlier one: `RegisterRead`/`RegisterCreate`, `ResendRead`/`ResendReplace`,
  `ForgotRead`/`ForgotIssue`, `ResetSessions`/`ResetCommit`. `RegisterConflict` and
  `ForgotConflict` are what the unique indexes refuse. A transaction that starts with the
  conditional write it depends on is one action (`VerifyMiss`, `VerifyClaim`,
  `RefreshRotate`, `ResetMiss`).
* What a request reads before it hashes (`VerifyRead`, `LoginBegin`, `RefreshBegin`,
  `ResetRead`) is kept in its call and is old when it writes, as is its `now`.
* A code is a fresh id; presenting the right or the wrong one is a choice. A pending row
  and a password are called by the code that created them. `parent` and `password` of a
  token remember where a session comes from; no action depends on them.
* `ResetSessions` is the snapshot of the reset's last statement: a session committed
  after it is not deleted. `Faults` selects mails that fail, requests that die, and
  (`overlap`) logins and refreshes that meet a reset.

## Runs

| Run | What it asks | Bounds |
| --- | --- | --- |
| `MCCreditLedger` | does any interleaving of the ledger's transactions lose, create or settle twice a credit, issue a grant twice or reserve out of order; is every step one of the contract | 3 generations, 4 grants of 2 users (two sharing a key), 2 transactions, 3 ticks |
| `Takeover` | what can two workers do to each other | 1 generation, 2 workers, pauses, provider and S3 errors, cancellations, 3 claims |
| `Failures` | what do two requests, failing queue, database and processes, and lost acknowledgements leave of credits and generations | 2 requests, 2 generations and 2 keys of one report, 1 credit, 1 attempt and 1 claim of a job, 1 worker crash |
| `Recovers` | does every generation settle, with and without a worker crash; do its report and the throttle follow | 2 generations of one report, 2 workers, failure limit 2, window and lock of 1 tick, 3 claims, 1 worker crash |
| `ProviderAttempts` | can suspended, crashed or replaced workers pay for a call that is not theirs, exceed the budget, be blocked by a predecessor's attempt, forget a result or write from unmoderated content | 2 generations of one report, 1 recording, 2 workers, timeout of 2 ticks, 2 calls per slot, 2 moderation batches, 3 claims |
| `Uploads` | is a stored upload or a copy ever forgotten, a verdict overturned, or an unverified asset read by a generation, when requests interleave, die at any await, or fail against S3 and database | 2 assets, 2 reports, 2 requests, `PendingTtl` 0 |
| `Verified` | do tasks that aborted requests and copies leave ever delete what is in use; do limits hold | 2 assets, 2 reports, 2 requests, one asset of one byte per report |
| `Accounts` | can a replaced, exhausted or spent code still work, a cooldown be undercut, a token be rotated twice, a session survive a reset | 2 requests, 3 codes, 3 tokens, 2 attempts, clock up to 2 |
| `PdfReport` | does any page break, gallery or alias of an answer make boxes overlap, headings stay alone, images be lost, drawn twice or swapped | answers of up to 2 sections, 3 images, summaries of 18 lengths, 3 pages |
| `CompensationRace` | finding 1 below | 1 generation, 1 worker |
| `ConfirmRace`, `DeleteDuringGeneration` | findings 2 and 3 below | 1 or 2 assets and requests |

Why these bounds are enough to be interesting: a race over a row needs two actors, a
takeover needs two claims and a second takeover (three claims) makes a stale worker
of a worker that was itself a winner; two attempts give one requeue and one terminal
failure (`Takeover`, `Recovers`); a failure limit of two gives a failure
that does not lock and one that does, and two generations a regeneration after a
failure. In `ProviderAttempts` a timeout of two ticks separates a worker before its
deadline, at it, and one whose lease is open to takeover; a budget of two is exhausted by
a failed and a repeated call, and two batches let a moderation fail halfway; the second
generation meets the attempts of the first in the slot of the recording. In
`ReportStorage` a race over an asset needs two
requests, a limit two uploads, and a duplication an original and
its copy, which has its type and size (`FreshCopy`); all uploads are of one type and size,
so ids, reports and requests are each interchangeable. In `Verified` the
limits admit one asset, in `Uploads` both. A `PendingTtl` of 0 ticks is enough: one tick
separates the requests before and after the expiration, and any number of steps fits
between ticks. In
`Accounts` three codes are a registration, its replacement and a reset, or a registration
and two resets; three tokens a session and two successors; a code and the cooldown last
one tick and a pending registration two, so the clock outlives all of them. In `PdfReport`
the summary has every length that makes a page break fall into the heading, the text or
the gallery behind it; one image is high, one is rotated by its EXIF orientation, one is
smaller than its cell.
`MaxClaims`, `MaxCrashes` and `MaxSections` bound what the code does not bound;
`Generations` bounds the ids. Where `CHECK_DEADLOCK FALSE` is said, the system may really
stop: all ids are used and all work is done.

What each property says is stated above it in its module. The ones that relate
several tables are the point of the project: `SettlementMatchesOutcome` (ledger and
generation), `ReportMirrorsGeneration` (report, generation and output),
`PublishedObjectKept` and `NoForgottenObject` (output, storage, cleanup and
workers), `BudgetKept`, `ResultsMatchAttempts` and `ModeratedFirst` (attempts, results and
what was paid), `KeysOwned` and `CleanupSparesUsed` (objects, rows, tasks and requests),
`SourcesReady` (generation and assets), `OneOwner` (generation and workers),
`ProcessingHasJob` (generation and queue).

Some properties are checked without certain faults, because the code does not keep them
under those: `ReportMirrorsGeneration` and `HistoryImmutable` where the queue does not
fail (a compensation that loses its race breaks them, finding 1); `PublishedObjectKept`
where no acknowledgement is lost; `KeysOwned` where requests die at any
await but for duplications that have not recorded their copies (`"abortCopy"`), and where a
`copyObject` that throws has copied nothing (`"copy"`); `ReadyAssetHasObject`,
`CleanupSparesUsed` and `LimitsHold` where confirmations do not overlap one another or their
slot's expiration (finding 2 and observations); `SessionsFollowPassword` where logins and
refreshes do not meet a reset; see also the observations below.

## Fairness

`FairSpec` assumes weak fairness of: each request's next step (an event loop that
runs), each worker's next step, the delivery of a ready job to some worker (BullMQ
hands jobs to idle workers), the stalled-job check (a timer of every BullMQ worker)
and time. It assumes nothing of clients, of faults, or of which branch an error
takes. `RenewLease` gets no fairness: in `Recovers` a live worker is
not suspended (no `"pause"`), and `Tick` waits for its heartbeat instead. Weak
fairness is enough since each of these steps stays enabled until it is taken.

The liveness run leaves out cancellations, database errors, API crashes, pauses and
more crashes than `maxStalledCount`: with those the code does strand generations (a
`QUEUED` row that was never enqueued waits for its client; a `PROCESSING` row whose
job is gone waits for ever), and no document promises otherwise.

## Proofs

All theorems hold for every value of the constants that meets the assumptions named in
the modules (`GrantColumns`, `LedgerConstants`, `LifecycleConstants` and `KeysAreNotNull`,
`AttemptConstants`, `AccountConstants`, `StorageConstants`, `KeysDiffer` and
`RenderingConstants`): any number of
users, reports, generations, grants, requests, assets, codes, tokens, workers, sections and
images, any limits and any set of faults, but for the theorems of the table. The assumptions say that constants
have their types, that ids are finite in number (for `Cardinality`), that `NULL` is none of
the ids or storage keys, and that the key of an output is none of an asset.

| Theorem | holds where | because without it |
| --- | --- | --- |
| `LifecyclePublishedObjectKept` | no acknowledgement of a publication is lost | the worker cleans up what it has published (observations) |
| `LifecycleHistoryImmutable`, `LifecycleReportMirrors` | the queue answers | a compensation deletes a claimed generation (finding 1) |
| `LifecycleNoForgottenObject` | the queue answers, no worker crashes and its database calls outside the pipeline do not fail | the only record of an uploaded object is the worker's memory |
| `LifecycleProcessingHasJob` | no cancellations, no suspended workers, no database errors, at most `maxStalledCount` crashes | a job is removed, acknowledged or given up while its generation is running |
| `ObjectsOwned` | no duplications, or none that die before their copies are recorded or copy without an answer | the only record of a copy is the request's memory |
| `ReadyAssetsStored`, `UsedKeysSpared` | confirmations do not overlap one another or an expiration, no commit acknowledgement is lost | finding 2 |
| `LimitsAlwaysHold` | confirmations do not overlap one another or an expiration | a slot that expires while it is confirmed is counted neither as a slot nor yet as READY (observations) |
| `AccountSessionsFollow` | no login or refresh runs beside a reset | observations |

Where several faults are excluded, each stands for a code path that really breaks the
property; the runs show the property within the same limits.

* `CreditsProofs`: `CompareGrantsIsStrictTotalOrder`, then what each ledger
  operation does to the set of generations that hold a credit of a grant
  (`Held`), hence to `Conservation`, and to the contract.
* `CreditLedgerProofs`: `Inv` = types, `ReadsHold` (an open transaction names a
  generation with a reservation), `Conservation`, `SettledOnce`, `OneGrantPerKey`.
  `ReadsHold` is the strengthening: without it a release could increment a grant
  that was never decremented. `NearestExpiryFirst` is an action property and needs
  only the types. `LedgerImplementsContract`: initial states map to initial states, and
  each step to a step of `CreditContract` or a stutter; `Conservation` is what turns a
  positive counter into a credit that is not out.
* `GenerationLifecycleProofs`: `Inv` = types, `InFlight`,
  `SettlementMatchesOutcome`, `OneActivePerReport`, `Conservation`. `InFlight` says
  that requests and workers under way name a generation and, once claimed, hold a
  token. `SettlementMatchesOutcome` is what makes `Conservation` inductive here: an
  active generation has no terminal row, so a release gives back what was taken.
  `LiveLeaseNotStolen` follows action by action from the types;
  `LifecycleImplementsContract` as for the ledger.
* `GenerationPublicationProofs`, in the order in which its invariants rest on each other:
  * `OneOwner`, from `Inv` and `Fence`: the token of a claim is the count of the claims, no
    worker's token exceeds it (`TokensCounted`), so a new claim's token differs from those
    of all workers before it (`TokensDiffer`). The count would restart if a deleted row
    could be claimed again, so requests, jobs and workers only name generations that have
    been started (`NamesStarted`).
  * `PublicationNeverBlocked`, from `Unpublished`: a report with an output is READY and has
    no active generation, and a start needs a report that is not READY.
  * `PublishedObjectKept`, from `Stored`: a published object exists and has no cleanup
    task; the key a worker may still upload or delete carries its token and is not the key
    of an output; a task carries a token that no later claim is given.
  * `GenerationMoves`: every step leaves the generations and reports as they are but for
    time, or makes one of seven moves of one generation and the report it names. With
    `NoRollback` (a queue that answers compensates nothing), the moves give
    `HistoryImmutable`; with `Throttle` (the status a generation starts from is DRAFT or
    FAILED, its report is neither READY nor locked) `ThrottleConsistent`; and with both
    `ReportMirrorsGeneration`, since a move of an active generation finds the output free.
  * `NoForgottenObject` is inductive over those: outputs stay, a worker keeps the key in its
    hands (`KeepsHands`) until it has published, deleted or recorded it (`LettingGo`).
  * `ProcessingHasJob`, from `Carried`: a busy worker holds its job (`RunnersHold`), so
    nobody else claims its generation; at its end it has settled it (`RunsSettled`); and
    each stall of a job was a crash of the worker that ran it (`StallsPaid`), so that
    `maxStalledCount` is not reached by a job whose generation is running.
* `ProviderAttemptsProofs`: `IInv` = types with the slot a worker is in (`Rows`), `Serial`
  (one generation of the report under way), `Fenced` (a lease never ends before the
  deadline of the worker that holds its token, and tokens of busy workers differ),
  `Metered` and `Covered`. `Fenced` is `OwnerUntilDeadline`. With `Serial` it leaves one
  worker that may send requests, so `Metered` can count: what the attempts of a slot
  allow covers what was sent and what the call under way may still send, hence
  `BudgetKept`. `Covered` bounds the lease of every attempt, of earlier generations too, by
  that of the generation under way, hence `TakeoverNotBlocked`.
* The second part of `ProviderAttemptsProofs` proves the other properties of
  `ProviderAttempts`. `RInv` adds to `IInv` what a call relies on while it is out: its attempt is its alone and open (`Filed`), its
  slot is of its own generation (`Addressed`), so only the holder of the token completes it;
  what the holder found uncompleted nobody else has completed since (`Once`, `Unread`).
  `Checked` counts the batches a moderation attempt has found clean, `Passed` says that a
  worker behind the moderation has one that is completed: `ModeratedFirst`. `Mirrored` ties
  the stored results to COMPLETED attempts: `ResultsMatchAttempts`.
* `ReportStorageProofs`: what a step does to one asset, report, contract, key or request is
  stated once (`AssetMoves` to `RowMoves`). `Base` holds under every fault: requests work on
  what they have looked up (`Types`, `Known`), copies are made under ids that nothing else
  uses (`Drawn`, `Fresh`), a client has stopped uploading when its upload is confirmed
  (`Closed`), and nothing can be stored any more under a key that is to be deleted
  (`Finished`). `SourcesReady` and `VerdictFinal` follow; `KeysOwned` with `Owned` and
  `Duplicating`, which names the copies of a duplication under way. `ReadyAssetHasObject`
  and `CleanupSparesUsed` need `Held`: what is marked for deletion is condemned, and stays
  it (`CondemnedStays`), while a verified upload is stored and in time.
  `LimitsHold` needs two facts about requests under way: a slot whose confirmation is under
  way has not expired (`InSlot`), so its confirmation turns a slot that counts into a READY
  asset, which an overlapping expiration would break; and what a duplication still has to
  copy fits together with what it has copied (`CopiesFit`).
  `Bytes` is a sum over a set, by recursion. `BytesAreUnits` says that it is the number of
  the pairs of an asset and one of its bytes: if not, the subsets for which it fails have
  a least size (`WFMin`), and the recursion leads to a smaller one. After that, cardinalities do the work.
* `PdfReportProofs`: `IInv` = types, `Prepared` (what mapping and loading have left), `Laid`
  (all that is drawn ends above the cursor), `HeadingsKeepTheirText` itself, `Leads` and
  `Shown`. `Laid` makes `NothingOverlaps` inductive: each `Text` and each row of a gallery
  begins at the cursor or on a new page (`TextOnPages`, `RowDrawn`), and the images of a row
  stay in cells that are apart (`PlacedInRow`, from `FittedIntoFrame`, the arithmetic of
  `fitImageDimensions`). `Leads` is `HeadingsKeepTheirText` for a heading whose text is still
  to come; `HeadingWithRoom` shows that `ensureSectionSpace` asks for enough. `Shown` gives for every
  section behind the current one its images, each drawn once, and for the current one
  those drawn and those left in the gallery; at the end it is `ImagesWhereAsked`. What the
  recursive `Fresh` returns is `FreshDistills`: a function that satisfies the recursion
  exists for every length, because there is no least one for which it does not.
* `AccountsProofs`: every property of `Accounts`. `IInv` = `Pending` and `Resets` (typed
  rows, of codes that were drawn; one open request), `Sessions` (the parent of a token is
  deleted, so a live token has no successor yet) and `Requests`: what a request relies on
  after an await (`RowSound`), each clause of which the steps of others keep (`Grows`:
  users and reset rows stay, the clock goes on). What others do not keep, the code of the
  row, its last mail, its misses, the write asks for again, and `Moves` says of every
  action what that leaves possible: the five action properties. `AccountSessionsFollow`
  adds `Follows`: a login knows the current password and a revocation all sessions.

`SettledOnce`, `OneActivePerReport`, `LiveLeaseNotStolen` and `PublicationNeverBlocked` are
proved and in no run.

Only model-checked: liveness (`EveryGenerationSettles`), which is out of the prover's
reach. Every invariant and action property that a passing run checks is stated by a theorem.

## Findings

1. `CompensationRace`: compensation of a failed enqueue does not repeat its status
   check when it writes. When Redis had accepted the job, a worker may claim the
   generation in between; the row of a running generation is deleted and its report
   stays `PROCESSING` with nothing running.
2. `ConfirmRace`: expiration and rejection of an upload delete its object before they
   ask whether the row is still pending. A confirmation that is between its reads of S3
   and its update leaves a READY asset without an object.
3. `DeleteDuringGeneration`: the deletion of an asset does not repeat its status check
   in its transaction and may remove a source of a generation that has started since.

### Observations

Seen with the same models, by changing the named configuration; no run of their own:

* `Recovers` with `Cancels = TRUE`: a cancellation removes the
  job first and is refused later; the generation it was refused for may have lost its only
  job (`ProcessingHasJob`). `docs/architecture.md:83-85` counts on that redelivery.
* `Accounts` with `"overlap"`: a login or refresh that began before a password reset and
  commits after the reset has read the sessions leaves one of the old password
  (`SessionsFollowPassword`); `docs/api.md:353` says all are revoked.
* Two `forgotPassword` requests that both read before either writes each send a code
  (`ForgotRead`, `ForgotRead`, `ForgotIssue`, `ForgotIssue`); `README.md:82` promises a
  minimum delay. Resends of registration codes keep theirs (`CooldownKept`).
* `Takeover` with `"commitAck"`: a worker whose publication committed but was not
  acknowledged deletes the object it published (`PublishedObjectKept`).
* `Verified` with `"commitAck"`: a duplication whose commit is not acknowledged deletes
  the objects of the report it has created (`ReadyAssetHasObject`).
* `Uploads` with `"copy"`: a copy that was made, but whose answer or HEAD failed, is
  not rolled back; with `"abortCopy"`: a duplication dies between a copy and the record
  of its key (`KeysOwned`).
* `Verified` with `"overlap"`: the update of a confirmation to READY does not repeat its
  check of the slot's age. A slot that expires in between no longer counts, so another
  upload is let in, and then both count: the report holds more images or bytes than
  `README.md:97-98` of the repository and `docs/architecture.md:107` allow it
  (`LimitsHold`). An upload request that listed the expired slots before the cutoff, as in
  the trace, does not reject the slot either.
* `ProviderAttempts` with `"silent"`: a recording without speech has the empty transcript,
  which `getOrCreate` takes for none (`asset-transcriptions.service.ts:57`). It is paid for
  again in every claim and generation (`TranscriptionReused`; `docs/api.md:518` says
  completed ones are reused) until the budget of the asset refuses every later generation.
* `ProviderAttempts` with `"crash"` and either `"silent"` or `"pause"`: a generation whose
  moderation is completed transcribes a recording again, and what the report is then
  written from was not moderated (`ModeratedTextFixed`; `docs/architecture.md:114-115`).
  With `"pause"` it is a replaced worker that marks a stored transcript as failed.
* Seen while modelling, no property is about them: a refusal for an exhausted
  budget rolls back the closing of stale attempts (`BudgetExhausted`), which
  `docs/api.md:483` says are recorded; the transcription row stays `PROCESSING` then; the
  row's upsert and its mark as failed ask for no claim, so a replaced worker may overwrite
  the status of a completed transcription.
* `PdfReport`: an image that only a replaced section refers to is not in the document;
  a heading of two lines may be left alone at the end of a page, as the space that
  is kept covers one (hence "of one line" in `HeadingsKeepTheirText`).
* `docs/api.md:414` and `docs/architecture.md:66` let a `READY` report be regenerated;
  `start` and its test refuse it. `docs/architecture.md:187` lets only `DRAFT` reports take
  uploads; `requestUpload` and its test accept `FAILED` as well.

## What is not modelled

* Refusals that change nothing: ownership, verified email, source validation, start
  limits (they choose whether a request goes on, and every choice is explored).
* Progress and stage columns, snapshots, usage numbers.
* The back-off of a failed attempt (a job may be delivered at any time after),
  eviction of finished jobs from Redis, a lost acknowledgement of the claim's commit
  (a worker that sees it rejects, and the job is redelivered as after a crash).
* In `GenerationLifecycle` the pipeline is one step that ends, fails or runs out of time;
  `ProviderAttempts` is its inside, with the claim, but without queue, credits and objects.
* In `ProviderAttempts`: temporary provider files of documents (best effort), usage numbers,
  languages, error codes and the contents of texts; the job's number of attempts (a retry or
  a failure may follow any error).
* In `PdfReport`: text contents and wrapping (a number of lines stands for a text), fonts,
  labels, dates, headers and footers, the exact spacing of the cover and its lines below the
  title, and the limit on the bytes of the document.
* In `ReportStorage`: a presigned POST used twice, after a confirmation has begun or after
  its row is gone (such an object stays in S3 once its row and task are gone), the attempts of the remaining
  keys that go on by themselves after one of `retryPending` throws (the request waits for
  them here), a database error that `cleanupExpiredPendingUploads` or `retryPending`
  survives (an aborted request covers what it leaves), the limit of 20 tasks a retry, and
  serialization retries. Type and size of an upload are fixed by its id.
* In `Accounts`: hashing and its failures, JWT contents, the 30 days of a refresh token
  (a refusal changes nothing), IP throttling, profile updates, and the time stamps
  `createdAt` of two reset requests in one transaction tick (the order of commits decides).
* Components with status `not_modelled` in `PROJECT.json`, each with its reason there.

## Plan

1. (done) `Credits`, `CreditLedger`, `GenerationLifecycle`, their runs and proofs.
2. (done) `ReportStorage`: report assets, storage cleanup, duplication and deletion
   against S3, checked and proved.
3. (done) `ProviderAttempts`: the fenced attempt ledger and its budget, with
   transcriptions and moderation, under the claim; checked and proved.
4. (done) `Accounts`: registration, sessions and password reset, checked and proved.
5. (done) `CreditContract`: the abstract ledger, which `CreditLedger` and
   `GenerationLifecycle` implement; checked and proved.
6. (done) `PdfReport`: image aliases and page layout, checked and proved.
7. (done) Proofs of the lifecycle's publication, history, throttle, mirror, objects and jobs.
8. `ReportEdits`: `update` against the start of a generation, and the entitlements
   projection as an operator checked against the ledger.
9. (done) Proofs of the limits of `ReportStorage` and of all properties of `PdfReport`.
