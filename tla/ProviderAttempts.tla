--------------------------- MODULE ProviderAttempts ---------------------------
(***************************************************************************)
(* The inside of the pipeline that GenerationLifecycle takes as one step:  *)
(* the paid calls to the AI provider.  Each is preceded by a durable       *)
(* GenerationProviderAttempt row (provider-attempts.service.ts) and        *)
(* followed by a fenced transaction that stores its result: a transcript   *)
(* per audio asset (asset-transcriptions.service.ts), the verdict of the   *)
(* moderation and the structured report (processor.process).  The          *)
(* generations are those of one report, so one is active at a time.        *)
(*                                                                         *)
(* Time is relative: leases and deadlines count down.  A lease of a        *)
(* generation is valid above 0 and claimable below 0, one of an attempt    *)
(* is live above 0 and stale otherwise.                                    *)
(***************************************************************************)
EXTENDS Integers, Sequences, FiniteSets

CONSTANTS
    Generations,        \* generations of the report
    Audio,              \* its audio assets
    Workers,            \* worker processes
    Faults,             \* see FaultKinds
    JobTimeout,         \* REPORT_GENERATION_JOB_TIMEOUT_MS, in ticks
    MaxTranscriptions,  \* TRANSCRIPTION_MAX_ATTEMPTS_PER_ASSET
    MaxCalls,           \* AI_MAX_PROVIDER_CALLS_PER_GENERATION
    Batches,            \* moderation requests of one attempt: text, then images
    NULL,
    MaxClaims           \* bound: claims of all generations

FaultKinds ==
    {"crash",      \* a worker dies between two awaits
     "pause",      \* a worker is suspended past its deadline
     "db",         \* a database call throws
     "commitAck",  \* a transaction commits, its acknowledgement is lost
     "silent"}     \* the transcript of a recording is the empty string

ASSUME AttemptConstants ==
    /\ Faults \subseteq FaultKinds
    /\ JobTimeout \in Nat \ {0}
    /\ MaxTranscriptions \in Nat
    /\ MaxCalls \in Nat
    /\ Batches \in Nat \ {0}
    /\ MaxClaims \in Nat
    /\ NULL \notin Generations \cup Audio
    /\ Generations \cap Audio = {}

VARIABLES
    gen,            \* ReportGeneration rows: status, fence, structuredResult
    attempts,       \* GenerationProviderAttempt rows, by slot and number
    transcription,  \* ReportAssetTranscription rows
    worker,         \* worker processes
    paid,           \* history: requests the provider may have been sent, by slot
    claims          \* claims so far

vars == <<gen, attempts, transcription, worker, paid, claims>>

(* The rows that `start' counts together: those of an audio asset whatever *)
(* their generation, otherwise those of a generation and an operation.     *)
Operations == {"TRANSCRIPTION", "MODERATION", "REPORT_GENERATION"}
Slots == ({"TRANSCRIPTION"} \X Audio) \cup ({"MODERATION", "REPORT_GENERATION"} \X Generations)

GenStatus == {"ABSENT", "QUEUED", "PROCESSING", "COMPLETED", "FAILED"}
Steps == {"idle", "transcribe", "lookup", "upsert", "moderate", "report", "start",
          "call", "save", "fail", "close", "mark", "publish", "settle"}

GenRows == [status : GenStatus, token : Nat, lease : Int, result : BOOLEAN]
\* clean: history, the moderation requests of the attempt answered clean.
AttemptRows == [token : Nat, lease : Nat, status : {"STARTED", "COMPLETED", "FAILED"}, clean : Nat]
Transcripts == [status : {"NONE", "PROCESSING", "COMPLETED", "FAILED"},
                text : {"null", "empty", "speech"}]
WorkerRows == [step : Steps, gen : Generations \cup {NULL}, token : Nat, deadline : Nat,
               done : SUBSET Audio, slot : Slots \cup {NULL}, number : Nat, batch : Nat,
               text : {"null", "empty", "speech"}, result : BOOLEAN,
               retryable : BOOLEAN, lost : BOOLEAN]

TypeOK ==
    /\ gen \in [Generations -> GenRows]
    /\ attempts \in [Slots -> Seq(AttemptRows)]
    /\ transcription \in [Audio -> Transcripts]
    /\ worker \in [Workers -> WorkerRows]
    /\ paid \in [Slots -> Nat]
    /\ claims \in Nat

Idle == [step |-> "idle", gen |-> NULL, token |-> 0, deadline |-> 0, done |-> {},
         slot |-> NULL, number |-> 0, batch |-> 0, text |-> "null", result |-> FALSE,
         retryable |-> FALSE, lost |-> FALSE]

Init ==
    /\ gen = [g \in Generations |-> [status |-> "ABSENT", token |-> 0, lease |-> 0, result |-> FALSE]]
    /\ attempts = [s \in Slots |-> << >>]
    /\ transcription = [a \in Audio |-> [status |-> "NONE", text |-> "null"]]
    /\ worker = [w \in Workers |-> Idle]
    /\ paid = [s \in Slots |-> 0]
    /\ claims = 0

-----------------------------------------------------------------------------
Is(w, step) == worker[w].step = step
Go(w, step) == worker' = [worker EXCEPT ![w].step = step]
Leave(w) == worker' = [worker EXCEPT ![w] = Idle]
\* A call returns to the pipeline, and what was local to it is gone.
Return(w, step, done) ==
    worker' = [worker EXCEPT ![w] = [Idle EXCEPT !.step = step, !.gen = worker[w].gen,
        !.token = worker[w].token, !.deadline = worker[w].deadline,
        !.result = worker[w].result, !.done = done]]
\* An error outside the try blocks reaches the catch block of process.
Throw(w, retryable) ==
    worker' = [worker EXCEPT ![w] = [Idle EXCEPT !.step = "settle", !.gen = worker[w].gen,
        !.token = worker[w].token, !.deadline = worker[w].deadline, !.retryable = retryable]]

HoldsToken(w) ==
    LET row == gen[worker[w].gen] IN
    row.status = "PROCESSING" /\ row.token = worker[w].token
Owns(w) == HoldsToken(w) /\ gen[worker[w].gen].lease > 0

Live(row) == row.status = "STARTED" /\ row.lease > 0
Stale(row) == row.status = "STARTED" /\ row.lease = 0
HasCompleted(s) == \E i \in DOMAIN attempts[s] : attempts[s][i].status = "COMPLETED"

Row(w) == attempts[worker[w].slot][worker[w].number]
\* Nothing reads the fence of an attempt that is no longer STARTED.
Closed(row, status) == [row EXCEPT !.status = status, !.token = 0, !.lease = 0]
SetRow(w, status) == [attempts EXCEPT ![worker[w].slot][worker[w].number] = Closed(@, status)]

-----------------------------------------------------------------------------
(* The generation around the pipeline, as GenerationLifecycle has it.      *)

Enqueue(g) ==
    /\ gen[g].status = "ABSENT"
    /\ \A other \in Generations : gen[other].status \in {"ABSENT", "FAILED"}
    /\ gen' = [gen EXCEPT ![g].status = "QUEUED"]
    /\ UNCHANGED <<attempts, transcription, worker, paid, claims>>

ClaimableAtExpiry(g) ==
    \/ gen[g].status = "QUEUED"
    \/ gen[g].status = "PROCESSING" /\ gen[g].lease <= 1
Claimable(g) ==
    \/ gen[g].status = "QUEUED"
    \/ gen[g].status = "PROCESSING" /\ gen[g].lease < 0

\* claim, and the first read of the row: `result' is structuredResult as the
\* worker will know it to the end.  The deadline starts with the lease.
Claim(w, g) ==
    /\ Is(w, "idle")
    /\ claims < MaxClaims
    /\ Claimable(g)
    /\ claims' = claims + 1
    /\ gen' = [gen EXCEPT ![g].status = "PROCESSING", ![g].token = claims', ![g].lease = JobTimeout]
    /\ worker' = [worker EXCEPT ![w] = [Idle EXCEPT !.step = "transcribe", !.gen = g,
                    !.token = claims', !.deadline = JobTimeout, !.result = gen[g].result]]
    /\ UNCHANGED <<attempts, transcription, paid>>

\* renewLease from the heartbeat, which stops at the deadline.
Heartbeat(w) ==
    /\ ~Is(w, "idle")
    /\ worker[w].deadline > 0
    /\ Owns(w)
    /\ gen' = [gen EXCEPT ![worker[w].gen].lease = JobTimeout]
    /\ UNCHANGED <<attempts, transcription, worker, paid, claims>>

\* updateProgress writes the stage and renews the lease.
Progress(g) == [gen EXCEPT ![g].lease = JobTimeout]

\* The fenced updateProgress that opens a stage: a worker that is not the
\* owner stops there.
LostStage(w) ==
    /\ worker[w].step \in {"transcribe", "moderate", "report", "publish"}
    /\ ~Owns(w)
    /\ Leave(w)
    /\ UNCHANGED <<gen, attempts, transcription, paid, claims>>

Stage(w, step) ==
    /\ Is(w, step)
    /\ Owns(w)
    /\ gen' = Progress(worker[w].gen)
    /\ UNCHANGED <<attempts, transcription, paid, claims>>

\* assertBeforeDeadline, before a recording, the moderation and the PDF.
DeadlineExceeded(w) ==
    /\ \/ Stage(w, "transcribe") /\ worker[w].done # Audio
       \/ Stage(w, "moderate")
       \/ Stage(w, "publish")
    /\ worker[w].deadline = 0
    /\ Throw(w, TRUE)

\* A call to the database outside the try blocks throws.
StageError(w) ==
    /\ "db" \in Faults
    /\ worker[w].step \in {"transcribe", "lookup", "upsert", "moderate", "report", "start", "publish"}
    /\ Throw(w, TRUE)
    /\ UNCHANGED <<gen, attempts, transcription, paid, claims>>

-----------------------------------------------------------------------------
(* The stages up to the start of an attempt.                               *)

StartFor(w, slot) == worker' = [worker EXCEPT ![w].step = "start", ![w].slot = slot]

NextRecording(w) ==
    /\ Stage(w, "transcribe")
    /\ worker[w].deadline > 0
    /\ \E a \in Audio \ worker[w].done :
        worker' = [worker EXCEPT ![w].step = "lookup", ![w].slot = <<"TRANSCRIPTION", a>>]

AllTranscribed(w) ==
    /\ Stage(w, "transcribe")
    /\ worker[w].done = Audio
    /\ Return(w, "moderate", {})

Asset(w) == worker[w].slot[2]
Transcribed(w) == Return(w, "transcribe", worker[w].done \cup {Asset(w)})

\* getOrCreate returns a completed transcript with a text, and only such.
Lookup(w) ==
    /\ Is(w, "lookup")
    /\ IF transcription[Asset(w)] = [status |-> "COMPLETED", text |-> "speech"]
       THEN Transcribed(w)
       ELSE Go(w, "upsert")
    /\ UNCHANGED <<gen, attempts, transcription, paid, claims>>

Upsert(w) ==
    /\ Is(w, "upsert")
    /\ transcription' = [transcription EXCEPT ![Asset(w)].status = "PROCESSING"]
    /\ Go(w, "start")
    /\ UNCHANGED <<gen, attempts, paid, claims>>

Moderate(w) ==
    LET slot == <<"MODERATION", worker[w].gen>> IN
    /\ Stage(w, "moderate")
    /\ worker[w].deadline > 0
    /\ IF HasCompleted(slot) THEN Go(w, "report") ELSE StartFor(w, slot)

\* A stored structuredResult makes the report call unnecessary.
NeverResumes(w) == FALSE
Resumes(w) == worker[w].result

\* The documents are uploaded to temporary files here, which only the finally
\* block of process knows of.
Report(w) ==
    /\ Stage(w, "report")
    /\ IF Resumes(w) THEN Go(w, "publish")
       ELSE StartFor(w, <<"REPORT_GENERATION", worker[w].gen>>)

-----------------------------------------------------------------------------
(* ProviderAttemptsService.start, one Serializable transaction.            *)

Maximum(slot) == IF slot[1] = "TRANSCRIPTION" THEN MaxTranscriptions ELSE MaxCalls

HasLive(slot) == \E i \in DOMAIN attempts[slot] : Live(attempts[slot][i])

AttemptInProgress(w) ==
    /\ Is(w, "start")
    /\ HasLive(worker[w].slot)
    /\ Throw(w, TRUE)
    /\ UNCHANGED <<gen, attempts, transcription, paid, claims>>

\* The refusal rolls back the closing of stale attempts too.
BudgetExhausted(w) ==
    /\ Is(w, "start")
    /\ ~HasLive(worker[w].slot)
    /\ Len(attempts[worker[w].slot]) >= Maximum(worker[w].slot)
    /\ Throw(w, FALSE)
    /\ UNCHANGED <<gen, attempts, transcription, paid, claims>>

DropStale(rows) == SelectSeq(rows, LAMBDA row : ~Stale(row))
CloseStale(rows) == [i \in DOMAIN rows |->
    IF Stale(rows[i]) THEN Closed(rows[i], "FAILED") ELSE rows[i]]

\* The attempt expires at the deadline of its worker, not a timeout from now.
LeaseFromNow(w) == JobTimeout
AttemptLease(w) == worker[w].deadline

StartAttempt(w) ==
    LET slot == worker[w].slot
        new == [token |-> worker[w].token, lease |-> AttemptLease(w),
                status |-> "STARTED", clean |-> 0]
    IN
    /\ Is(w, "start")
    /\ ~HasLive(slot)
    /\ Len(attempts[slot]) < Maximum(slot)
    /\ attempts' = [attempts EXCEPT ![slot] = Append(CloseStale(@), new)]
    /\ worker' = [worker EXCEPT ![w].step = "call", ![w].batch = 0,
                                ![w].number = Len(attempts'[slot])]
    /\ UNCHANGED <<gen, transcription, paid, claims>>

-----------------------------------------------------------------------------
(* The call.  A request is sent only before the deadline: after it the     *)
(* timer has fired the abort signal before anything else of the worker     *)
(* runs, and the report call checks the deadline itself.                   *)

Operation(w) == worker[w].slot[1]
Paid(w) == [paid EXCEPT ![worker[w].slot] = @ + 1]

Transcribe(w) ==
    /\ Is(w, "call") /\ Operation(w) = "TRANSCRIPTION"
    /\ worker[w].deadline > 0
    /\ \E text \in {"speech"} \cup (IF "silent" \in Faults THEN {"empty"} ELSE {}) :
        worker' = [worker EXCEPT ![w].step = "save", ![w].text = text]
    /\ paid' = Paid(w)
    /\ UNCHANGED <<gen, attempts, transcription, claims>>

\* One request for the text, one per batch of images; the last one that is
\* clean ends the call.
LastBatchUnchecked(batch) == TRUE
LastBatch(batch) == batch = Batches

ModerateBatch(w) ==
    /\ Is(w, "call") /\ Operation(w) = "MODERATION"
    /\ worker[w].deadline > 0
    /\ worker' = [worker EXCEPT ![w].batch = @ + 1,
                    ![w].step = IF LastBatch(worker[w].batch + 1) THEN "save" ELSE "call"]
    /\ attempts' = [attempts EXCEPT ![worker[w].slot][worker[w].number].clean = @ + 1]
    /\ paid' = Paid(w)
    /\ UNCHANGED <<gen, transcription, claims>>

GenerateReport(w) ==
    /\ Is(w, "call") /\ Operation(w) = "REPORT_GENERATION"
    /\ worker[w].deadline > 0
    /\ Go(w, "save")
    /\ paid' = Paid(w)
    /\ UNCHANGED <<gen, attempts, transcription, claims>>

Failed(w, retryable, lost) ==
    worker' = [worker EXCEPT ![w].step = IF Operation(w) = "TRANSCRIPTION" THEN "fail" ELSE "close",
                             ![w].retryable = retryable, ![w].lost = lost]

\* The provider refuses, times out or flags the content, the answer is
\* invalid, or the request is not sent; it counts unless that is certain.
CallError(w) ==
    /\ Is(w, "call")
    /\ paid' = IF worker[w].deadline > 0 THEN Paid(w) ELSE paid
    /\ \E retryable \in BOOLEAN : Failed(w, retryable, FALSE)
    /\ UNCHANGED <<gen, attempts, transcription, claims>>

-----------------------------------------------------------------------------
(* Storing the result: the transaction of getOrCreate, completeOwned and   *)
(* persistReportResult, each fenced by the claim and by the attempt.       *)

CanSave(w) == /\ Owns(w)
              /\ Row(w).token = worker[w].token
              /\ Live(Row(w))

Store(w) ==
    /\ Is(w, "save")
    /\ CanSave(w)
    /\ attempts' = SetRow(w, "COMPLETED")
    /\ transcription' = IF Operation(w) = "TRANSCRIPTION"
           THEN [transcription EXCEPT ![Asset(w)] = [status |-> "COMPLETED", text |-> worker[w].text]]
           ELSE transcription
    /\ gen' = IF Operation(w) = "REPORT_GENERATION"
           THEN [gen EXCEPT ![worker[w].gen].result = TRUE, ![worker[w].gen].lease = JobTimeout]
           ELSE gen
    /\ UNCHANGED <<paid, claims>>

Save(w) ==
    /\ Store(w)
    /\ \/ Operation(w) = "TRANSCRIPTION" /\ Transcribed(w)
       \/ Operation(w) = "MODERATION" /\ Return(w, "report", {})
       \/ Operation(w) = "REPORT_GENERATION" /\ Return(w, "publish", {})

SaveUnacknowledged(w) ==
    /\ "commitAck" \in Faults
    /\ Store(w)
    /\ Failed(w, TRUE, FALSE)

SaveError(w) ==
    /\ "db" \in Faults
    /\ Is(w, "save")
    /\ Failed(w, TRUE, FALSE)
    /\ UNCHANGED <<gen, attempts, transcription, paid, claims>>

\* GENERATION_CLAIM_LOST: getOrCreate rethrows it, the others close the attempt.
SaveLost(w) ==
    /\ Is(w, "save")
    /\ ~CanSave(w)
    /\ IF Operation(w) = "TRANSCRIPTION" THEN Leave(w) ELSE Failed(w, FALSE, TRUE)
    /\ UNCHANGED <<gen, attempts, transcription, paid, claims>>

-----------------------------------------------------------------------------
(* The catch blocks.                                                       *)

\* getOrCreate asks, without the lease, whether the generation is still its.
FailOwned(w) ==
    /\ Is(w, "fail")
    /\ IF HoldsToken(w) THEN Go(w, "close") ELSE Leave(w)
    /\ UNCHANGED <<gen, attempts, transcription, paid, claims>>

\* attempts.fail, which leaves an attempt alone that is no longer STARTED.
CloseOverwrites(w) == SetRow(w, "FAILED")
CloseAttempt(w) == IF Row(w).status = "STARTED" THEN SetRow(w, "FAILED") ELSE attempts

Close(w) ==
    /\ Is(w, "close")
    /\ attempts' = CloseAttempt(w)
    /\ IF worker[w].lost THEN Leave(w)
       ELSE Go(w, IF Operation(w) = "TRANSCRIPTION" THEN "mark" ELSE "settle")
    /\ UNCHANGED <<gen, transcription, paid, claims>>

\* The transcription is marked FAILED whatever it has become.
Mark(w) ==
    /\ Is(w, "mark")
    /\ transcription' = [transcription EXCEPT ![Asset(w)].status = "FAILED"]
    /\ Go(w, "settle")
    /\ UNCHANGED <<gen, attempts, paid, claims>>

\* One of these calls throws, and its error replaces the first.
CatchError(w) ==
    /\ "db" \in Faults
    /\ worker[w].step \in {"fail", "close", "mark"}
    /\ Throw(w, TRUE)
    /\ UNCHANGED <<gen, attempts, transcription, paid, claims>>

-----------------------------------------------------------------------------
(* The end of a claim.                                                     *)

Settled(g, status) ==
    [gen EXCEPT ![g].status = status, ![g].token = 0, ![g].lease = 0]

\* The PDF, its upload and finalizeSuccess.
Publish(w) ==
    /\ Is(w, "publish")
    /\ worker[w].deadline > 0
    /\ Owns(w)
    /\ gen' = Settled(worker[w].gen, "COMPLETED")
    /\ Leave(w)
    /\ UNCHANGED <<attempts, transcription, paid, claims>>

PublishError(w) ==
    /\ Is(w, "publish")
    /\ \E retryable \in BOOLEAN : Throw(w, retryable)
    /\ UNCHANGED <<gen, attempts, transcription, paid, claims>>

\* prepareRetry, or failGeneration when the error is not retryable or the
\* job has no attempt left; both are fenced.
PrepareRetry(w) ==
    /\ Is(w, "settle")
    /\ worker[w].retryable
    /\ Owns(w)
    /\ gen' = Settled(worker[w].gen, "QUEUED")
    /\ Leave(w)
    /\ UNCHANGED <<attempts, transcription, paid, claims>>

FailGeneration(w) ==
    /\ Is(w, "settle")
    /\ Owns(w)
    /\ gen' = Settled(worker[w].gen, "FAILED")
    /\ Leave(w)
    /\ UNCHANGED <<attempts, transcription, paid, claims>>

SettleLost(w) ==
    /\ Is(w, "settle")
    /\ ~Owns(w)
    /\ Leave(w)
    /\ UNCHANGED <<gen, attempts, transcription, paid, claims>>

Crash(w) ==
    /\ "crash" \in Faults
    /\ ~Is(w, "idle")
    /\ Leave(w)
    /\ UNCHANGED <<gen, attempts, transcription, paid, claims>>

DownUnbounded(n) == n - 1
Down(n) == IF n > 0 THEN n - 1 ELSE 0

\* Unless it is suspended, a worker is done before its deadline is past.
Tick ==
    /\ "pause" \notin Faults => \A w \in Workers : Is(w, "idle") \/ worker[w].deadline > 0
    /\ gen' = [g \in Generations |->
          IF gen[g].status = "PROCESSING" /\ gen[g].lease >= 0
          THEN [gen[g] EXCEPT !.lease = @ - 1] ELSE gen[g]]
    /\ attempts' = [s \in Slots |->
          [i \in DOMAIN attempts[s] |-> [attempts[s][i] EXCEPT !.lease = Down(@)]]]
    /\ worker' = [w \in Workers |-> [worker[w] EXCEPT !.deadline = Down(@)]]
    /\ UNCHANGED <<transcription, paid, claims>>

Work(w) ==
    \/ \E g \in Generations : Claim(w, g)
    \/ Heartbeat(w)
    \/ LostStage(w) \/ DeadlineExceeded(w) \/ StageError(w)
    \/ NextRecording(w) \/ AllTranscribed(w) \/ Lookup(w) \/ Upsert(w)
    \/ Moderate(w) \/ Report(w)
    \/ AttemptInProgress(w) \/ BudgetExhausted(w) \/ StartAttempt(w)
    \/ Transcribe(w) \/ ModerateBatch(w) \/ GenerateReport(w) \/ CallError(w)
    \/ Save(w) \/ SaveUnacknowledged(w) \/ SaveError(w) \/ SaveLost(w)
    \/ FailOwned(w) \/ Close(w) \/ Mark(w) \/ CatchError(w)
    \/ Publish(w) \/ PublishError(w)
    \/ PrepareRetry(w) \/ FailGeneration(w) \/ SettleLost(w)
    \/ Crash(w)

Next ==
    \/ \E g \in Generations : Enqueue(g)
    \/ \E w \in Workers : Work(w)
    \/ Tick

Spec == Init /\ [][Next]_vars

-----------------------------------------------------------------------------
(* Properties.                                                             *)

\* The durable budget: whatever crashes, is retried, taken over or started
\* again, no audio asset is transcribed, and no report written, more often
\* than the limits allow (README: "No retry layer can exceed").  Moderation
\* sends one request per batch and attempt.
BudgetKept ==
    \A s \in Slots :
        paid[s] <= Maximum(s) * (IF s[1] = "MODERATION" THEN Batches ELSE 1)

\* Neither `start' nor the provider call asks whether the claim still holds.
\* They need not: until its deadline, a worker is the owner of its generation,
\* since no lease a claim was given or renewed to ends before the deadline.
OwnerUntilDeadline ==
    \A w \in Workers :
        worker[w].step # "idle" /\ worker[w].deadline > 0 => HoldsToken(w)

\* A worker that takes an expired claim over is never turned away by the
\* attempt its predecessor left (AI_PROVIDER_ATTEMPT_IN_PROGRESS): an attempt
\* does not outlive the claim of the generation that it blocks.
SlotsOf(g) == {s \in Slots : s[1] = "TRANSCRIPTION" \/ s[2] = g}
TakeoverNotBlocked ==
    \A g \in Generations : gen[g].status = "PROCESSING" /\ Claimable(g) =>
        \A s \in SlotsOf(g) : ~HasLive(s)

\* An attempt is recorded as COMPLETED exactly when its result is stored, and
\* only one of a generation's report or moderation attempts ever is.
Completed(s) == {i \in DOMAIN attempts[s] : attempts[s][i].status = "COMPLETED"}
ResultsMatchAttempts ==
    /\ \A g \in Generations : gen[g].result <=> HasCompleted(<<"REPORT_GENERATION", g>>)
    /\ \A a \in Audio : transcription[a].text # "null" <=> HasCompleted(<<"TRANSCRIPTION", a>>)
    /\ \A s \in Slots : s[1] # "TRANSCRIPTION" => Cardinality(Completed(s)) <= 1

\* No content reaches the report model unless one moderation attempt of the
\* same generation has found every batch of it clean.
ModeratedFirst ==
    \A g \in Generations : paid[<<"REPORT_GENERATION", g>>] > 0 =>
        \E i \in Completed(<<"MODERATION", g>>) :
            attempts[<<"MODERATION", g>>][i].clean = Batches

\* Retries, takeovers and lost acknowledgements resume behind the moderation
\* and the report call that were completed: neither is paid for again.
ResumesCompleted ==
    [][\A s \in Slots : s[1] # "TRANSCRIPTION" /\ HasCompleted(s) => paid'[s] = paid[s]]_vars

\* The same of transcriptions (docs/api.md: "completed transcriptions are
\* reused").
TranscriptionReused ==
    [][\A s \in Slots : s[1] = "TRANSCRIPTION" /\ HasCompleted(s) => paid'[s] = paid[s]]_vars

\* What the report model reads has been moderated: no recording is transcribed
\* again for a generation whose moderation is completed (docs/architecture.md:
\* "generation begins only after every required moderation request succeeds").
ModeratedTextFixed ==
    [][\A w \in Workers :
        Is(w, "call") /\ Operation(w) = "TRANSCRIPTION"
        /\ HasCompleted(<<"MODERATION", worker[w].gen>>) => paid' = paid]_vars

=============================================================================
