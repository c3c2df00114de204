------------------------- MODULE GenerationLifecycle -------------------------
(***************************************************************************)
(* The life of a report generation: the API calls that start and cancel    *)
(* it (report-generations.service.ts), the BullMQ job that carries it, the *)
(* worker that claims, runs and settles it under a fenced lease            *)
(* (report-generation-processor.service.ts), and what those do to the      *)
(* report, to the user's credits and to the stored PDF.                    *)
(*                                                                         *)
(* PostgreSQL tables are variables; a transaction whose first write is     *)
(* conditional on the rows it depends on is one action, and a transaction  *)
(* that reads first and writes later without a condition is two.  Time is  *)
(* relative: leases, locks, delays and deadlines count down, the failure   *)
(* window counts up, and Tick moves all of them at once.                   *)
(***************************************************************************)
EXTENDS Credits, Integers

CONSTANTS
    User,          \* the user that owns every report of the model
    Reports,
    Keys,          \* Idempotency-Key header values
    Callers,       \* API requests in flight
    Workers,       \* worker processes, concurrency 1 each
    Faults,        \* which environment faults may happen, see FaultKinds
    Cancels,       \* whether clients cancel generations
    JobTimeout,    \* REPORT_GENERATION_JOB_TIMEOUT_MS, in ticks
    MaxAttempts,   \* REPORT_GENERATION_JOB_ATTEMPTS
    MaxStalled,    \* BullMQ maxStalledCount
    FailLimit,     \* REPORT_FAILED_RETRY_LIMIT
    FailWindow,    \* REPORT_FAILED_RETRY_WINDOW_MINUTES, in ticks
    FailLock,      \* REPORT_FAILED_LOCK_MINUTES, in ticks
    MaxClaims,     \* bound: claims of one generation
    MaxCrashes     \* bound: worker crashes

FaultKinds ==
    {"queue",       \* queue.add or queue.remove throws, Redis has not done it
     "ackLost",     \* queue.add throws, Redis has got the job
     "apiCrash",    \* the API process dies between two awaits
     "workerCrash", \* the worker process dies between two awaits
     "pause",       \* a worker is suspended past its lease or its job lock
     "provider",    \* a provider, storage or validation error in the pipeline
     "db",          \* a database call outside the pipeline throws
     "s3",          \* the deletion of an object fails
     "commitAck"}   \* finalizeSuccess commits, its acknowledgement is lost

ASSUME LifecycleConstants ==
    /\ User \in Users
    /\ Faults \subseteq FaultKinds
    /\ Cancels \in BOOLEAN
    /\ JobTimeout \in Nat \ {0}
    /\ MaxAttempts \in Nat \ {0}
    /\ MaxStalled \in Nat
    /\ FailLimit \in Nat \ {0}
    /\ FailWindow \in Nat
    /\ FailLock \in Nat
    /\ MaxClaims \in Nat
    /\ MaxCrashes \in Nat
    /\ NULL \notin Generations /\ NULL \notin Workers

VARIABLES
    report,   \* Report rows
    gen,      \* ReportGeneration rows
    job,      \* BullMQ jobs, by generation id (the job id)
    call,     \* API requests in flight
    worker,   \* worker processes
    objects,  \* output objects in S3
    cleanup,  \* StorageCleanupTask rows for output objects
    crashes   \* worker crashes so far

vars == <<creditVars, report, gen, job, call, worker, objects, cleanup, crashes>>

ReportStatus == {"DRAFT", "QUEUED", "PROCESSING", "READY", "FAILED"}
\* ABSENT: the id is not used yet.  DELETED: the row is gone.
GenStatus == {"ABSENT", "QUEUED", "PROCESSING", "COMPLETED", "FAILED", "CANCELLED", "DELETED"}
CallSteps == {"idle", "enqueue", "mark", "compensate", "rollback", "remove", "cancel"}
WorkerSteps == {"idle", "claim", "run", "uploaded", "commit", "clean",
                "lost", "retry", "fail", "return", "throw"}

\* An output's storage key holds the generation and the processing token.
OutputKeys == Generations \X (Nat \ {0})

ASSUME KeysAreNotNull == NULL \notin OutputKeys

ReportRows == [status : ReportStatus, output : OutputKeys \cup {NULL},
               failures : Nat, window : Nat \cup {NULL}, locked : Nat]
GenRows == [status : GenStatus, report : Reports \cup {NULL}, key : Keys \cup {NULL},
            prior : ReportStatus, enqueued : BOOLEAN, token : Nat, lease : Int, attempts : Nat]
JobRows == [state : {"none", "ready", "active", "done"}, made : Nat, stalls : Nat,
            delay : Nat, holder : Workers \cup {NULL}, lock : Nat]
CallRows == [step : CallSteps, gen : Generations \cup {NULL}]
WorkerRows == [step : WorkerSteps, gen : Generations \cup {NULL}, token : Nat,
               attempt : Nat, deadline : Nat, after : WorkerSteps]

TypeOK ==
    /\ CreditTypeOK
    /\ report \in [Reports -> ReportRows]
    /\ gen \in [Generations -> GenRows]
    /\ job \in [Generations -> JobRows]
    /\ call \in [Callers -> CallRows]
    /\ worker \in [Workers -> WorkerRows]
    /\ objects \subseteq OutputKeys
    /\ cleanup \subseteq OutputKeys
    /\ crashes \in Nat

NoRow(status) == [status |-> status, report |-> NULL, key |-> NULL, prior |-> "DRAFT",
                  enqueued |-> FALSE, token |-> 0, lease |-> 0, attempts |-> 0]
IdleCall == [step |-> "idle", gen |-> NULL]
IdleWorker == [step |-> "idle", gen |-> NULL, token |-> 0, attempt |-> 0,
               deadline |-> 0, after |-> "idle"]
NoJob == [state |-> "none", made |-> 0, stalls |-> 0, delay |-> 0,
          holder |-> NULL, lock |-> 0]

Init ==
    /\ granted = Grants
    /\ CreditInit
    /\ report = [r \in Reports |-> [status |-> "DRAFT", output |-> NULL, failures |-> 0,
                                    window |-> NULL, locked |-> 0]]
    /\ gen = [g \in Generations |-> NoRow("ABSENT")]
    /\ job = [g \in Generations |-> NoJob]
    /\ call = [c \in Callers |-> IdleCall]
    /\ worker = [w \in Workers |-> IdleWorker]
    /\ objects = {}
    /\ cleanup = {}
    /\ crashes = 0

Active == {"QUEUED", "PROCESSING"}
Exists(g) == gen[g].status \notin {"ABSENT", "DELETED"}
ReportOf(g) == gen[g].report

\* The partial unique index on the active generations of a report.
ActiveIndexFree(r) == ~\E g \in Generations : ReportOf(g) = r /\ gen[g].status \in Active

Larger(a, b) == IF a > b THEN a ELSE b

-----------------------------------------------------------------------------
(* The API: start, ensureEnqueued, compensateQueueFailure, cancel.         *)

GoCall(c, step, g) == call' = [call EXCEPT ![c] = [step |-> step, gen |-> g]]
EndCall(c) == call' = [call EXCEPT ![c] = IdleCall]
At(c, step) == call[c].step = step

\* The checks of the start transaction on the report: its status, then
\* assertReportUnlocked.  The checks that only refuse a request (ownership,
\* a verified email, sources, start limits) are left to the choice of the
\* request: a refused request changes nothing.
Eligible(r) ==
    /\ report[r].status \in {"DRAFT", "FAILED"}
    /\ report[r].locked = 0

\* start (and retry, which delegates to it) with a key this report has not
\* seen: the Serializable transaction.  Its own lookup of the key makes the
\* lookup before it redundant.  The partial unique index refuses a second
\* active generation of the report.
StartNew(c, g, r, k) ==
    /\ At(c, "idle")
    /\ gen[g].status = "ABSENT"
    /\ ~\E d \in Generations : Exists(d) /\ ReportOf(d) = r /\ gen[d].key = k
    /\ Eligible(r)
    /\ ActiveIndexFree(r)
    /\ gen' = [gen EXCEPT ![g] = [status |-> "QUEUED", report |-> r, key |-> k,
                                  prior |-> report[r].status, enqueued |-> FALSE,
                                  token |-> 0, lease |-> 0, attempts |-> 0]]
    /\ reserve(User, g, 0)
    /\ linked' = [linked EXCEPT ![g] = TRUE]
    /\ report' = [report EXCEPT ![r].status = "QUEUED"]
    /\ GoCall(c, "enqueue", g)
    /\ UNCHANGED <<job, worker, objects, cleanup, crashes>>

\* start with a key that has a generation: only a QUEUED generation without
\* enqueuedAt goes on to the queue.
StartDuplicate(c, g) ==
    /\ At(c, "idle")
    /\ gen[g].status = "QUEUED" /\ ~gen[g].enqueued
    /\ GoCall(c, "enqueue", g)
    /\ UNCHANGED <<creditVars, report, gen, job, worker, objects, cleanup, crashes>>

\* queue.add: a job id that Redis already has is left as it is.
Added(g) == IF job[g].state = "none"
            THEN [job EXCEPT ![g] = [NoJob EXCEPT !.state = "ready"]]
            ELSE job

Enqueue(c) ==
    /\ At(c, "enqueue")
    /\ job' = Added(call[c].gen)
    /\ GoCall(c, "mark", call[c].gen)
    /\ UNCHANGED <<creditVars, report, gen, worker, objects, cleanup, crashes>>

EnqueueError(c) ==
    /\ At(c, "enqueue")
    /\ \/ "queue" \in Faults /\ job' = job
       \/ "ackLost" \in Faults /\ job' = Added(call[c].gen)
    /\ GoCall(c, "compensate", call[c].gen)
    /\ UNCHANGED <<creditVars, report, gen, worker, objects, cleanup, crashes>>

MarkEnqueued(c) ==
    /\ At(c, "mark")
    /\ LET g == call[c].gen IN
       gen' = IF gen[g].status = "QUEUED"
              THEN [gen EXCEPT ![g].enqueued = TRUE] ELSE gen
    /\ EndCall(c)
    /\ UNCHANGED <<creditVars, report, job, worker, objects, cleanup, crashes>>

\* The update throws (logged, not reported), or compensation does.
CallDbError(c) ==
    /\ "db" \in Faults
    /\ call[c].step \in {"mark", "compensate", "rollback", "cancel"}
    /\ EndCall(c)
    /\ UNCHANGED <<creditVars, report, gen, job, worker, objects, cleanup, crashes>>

\* compensateQueueFailure reads the generation and goes on only if it is
\* QUEUED; its writes, at READ COMMITTED, do not look at the status again.
CompensateRead(c) ==
    /\ At(c, "compensate")
    /\ IF gen[call[c].gen].status = "QUEUED"
       THEN GoCall(c, "rollback", call[c].gen) ELSE EndCall(c)
    /\ UNCHANGED <<creditVars, report, gen, job, worker, objects, cleanup, crashes>>

\* Deleting the row cascades to the output row and clears the generationId
\* of the ledger rows.  A row that is already gone makes the delete throw.
CompensateWrite(c) ==
    LET g == call[c].gen
        r == ReportOf(g)
        OutputOf(o) == IF o # NULL /\ o[1] = g THEN NULL ELSE o
    IN  /\ At(c, "rollback")
        /\ EndCall(c)
        /\ IF ~Exists(g)
           THEN UNCHANGED <<creditVars, report, gen>>
           ELSE /\ releaseInTransaction(g)
                /\ report' = [report EXCEPT
                      ![r].status = IF @ = "QUEUED" THEN gen[g].prior ELSE @,
                      ![r].output = OutputOf(@)]
                /\ linked' = [linked EXCEPT ![g] = FALSE]
                /\ gen' = [gen EXCEPT ![g] = NoRow("DELETED")]
        /\ UNCHANGED <<job, worker, objects, cleanup, crashes>>

CancelBegin(c, g) ==
    /\ Cancels
    /\ At(c, "idle")
    /\ gen[g].status = "QUEUED"
    /\ GoCall(c, "remove", g)
    /\ UNCHANGED <<creditVars, report, gen, job, worker, objects, cleanup, crashes>>

\* queue.remove does not take a job whose lock a worker holds; cancel does
\* not look at its answer.
CancelRemove(c) ==
    /\ At(c, "remove")
    /\ LET g == call[c].gen IN
       job' = IF job[g].state = "active" THEN job ELSE [job EXCEPT ![g] = NoJob]
    /\ GoCall(c, "cancel", call[c].gen)
    /\ UNCHANGED <<creditVars, report, gen, worker, objects, cleanup, crashes>>

CancelRemoveError(c) ==
    /\ "queue" \in Faults
    /\ At(c, "remove")
    /\ EndCall(c)
    /\ UNCHANGED <<creditVars, report, gen, job, worker, objects, cleanup, crashes>>

Cancellable(g) == gen[g].status = "QUEUED"

\* The conditional update from QUEUED decides the race with a claim.
CancelCommit(c) ==
    LET g == call[c].gen IN
    /\ At(c, "cancel")
    /\ EndCall(c)
    /\ IF Cancellable(g)
       THEN /\ gen' = [gen EXCEPT ![g].status = "CANCELLED"]
            /\ report' = [report EXCEPT ![ReportOf(g)].status = gen[g].prior]
            /\ releaseInTransaction(g)
            /\ UNCHANGED linked
       ELSE UNCHANGED <<creditVars, gen, report>>
    /\ UNCHANGED <<job, worker, objects, cleanup, crashes>>

ApiCrash(c) ==
    /\ "apiCrash" \in Faults
    /\ ~At(c, "idle")
    /\ EndCall(c)
    /\ UNCHANGED <<creditVars, report, gen, job, worker, objects, cleanup, crashes>>

-----------------------------------------------------------------------------
(* The worker: a job is taken, claimed, run, published or settled.         *)

Is(w, step) == worker[w].step = step
Go(w, step) == worker' = [worker EXCEPT ![w].step = step]
Leave(w) == worker' = [worker EXCEPT ![w] = IdleWorker]

OutputKeyWithoutToken(w) == <<worker[w].gen, 1>>
OutputKey(w) == <<worker[w].gen, worker[w].token>>

HoldsStatus(w) == gen[worker[w].gen].status = "PROCESSING"

\* The where clause of every fenced update.
HoldsToken(w) ==
    LET g == worker[w].gen IN gen[g].status = "PROCESSING" /\ gen[g].token = worker[w].token
Owns(w) == HoldsToken(w) /\ gen[worker[w].gen].lease > 0

TakeJob(w, g) ==
    /\ Is(w, "idle")
    /\ job[g].state = "ready" /\ job[g].delay = 0
    /\ job' = [job EXCEPT ![g] = [@ EXCEPT !.state = "active", !.holder = w, !.lock = JobTimeout]]
    /\ worker' = [worker EXCEPT ![w] = [IdleWorker EXCEPT !.step = "claim", !.gen = g,
                                                          !.attempt = job[g].made + 1]]
    /\ UNCHANGED <<creditVars, report, gen, call, objects, cleanup, crashes>>

ClaimableAfterSettling(g) ==
    \/ gen[g].status \in {"QUEUED", "FAILED", "CANCELLED"}
    \/ gen[g].status = "PROCESSING" /\ gen[g].lease < 0
Claimable(g) ==
    \/ gen[g].status = "QUEUED"
    \/ gen[g].status = "PROCESSING" /\ gen[g].lease < 0

\* claim: the fresh random token is the number of the claim.
Claim(w) ==
    LET g == worker[w].gen
        r == ReportOf(g)
        token == gen[g].attempts + 1
    IN  /\ Is(w, "claim")
        /\ Claimable(g)
        /\ gen[g].attempts < MaxClaims
        /\ gen' = [gen EXCEPT ![g] = [@ EXCEPT !.status = "PROCESSING", !.token = token,
                                               !.lease = JobTimeout, !.attempts = token]]
        /\ report' = [report EXCEPT ![r].status = IF @ \in Active THEN "PROCESSING" ELSE @]
        /\ worker' = [worker EXCEPT ![w] = [@ EXCEPT !.step = "run", !.token = token,
                                                     !.deadline = JobTimeout]]
        /\ UNCHANGED <<creditVars, job, call, objects, cleanup, crashes>>

ClaimRefused(w) ==
    /\ Is(w, "claim")
    /\ ~Claimable(worker[w].gen)
    /\ Go(w, "lost")
    /\ UNCHANGED <<creditVars, report, gen, job, call, objects, cleanup, crashes>>

\* updateProgress, persistReportResult and assertOwnership renew the lease in
\* the pipeline, the heartbeat at any time before the deadline.
RenewLease(w) ==
    /\ \/ Is(w, "run")
       \/ worker[w].step \in {"uploaded", "commit", "clean", "retry", "fail"} /\ worker[w].deadline > 0
    /\ Owns(w)
    /\ gen' = [gen EXCEPT ![worker[w].gen].lease = JobTimeout]
    /\ UNCHANGED <<creditVars, report, job, call, worker, objects, cleanup, crashes>>

RunLost(w) ==
    /\ Is(w, "run")
    /\ ~Owns(w)
    /\ Go(w, "lost")
    /\ UNCHANGED <<creditVars, report, gen, job, call, objects, cleanup, crashes>>

\* What the catch block does next with an error that is not a lost claim.
AfterErrorUnbounded(w, retryable) == IF retryable THEN "retry" ELSE "fail"
AfterError(w, retryable) ==
    IF retryable /\ worker[w].attempt < MaxAttempts THEN "retry" ELSE "fail"
GoClean(w, after) == worker' = [worker EXCEPT ![w] = [@ EXCEPT !.step = "clean", !.after = after]]

PipelineError(w, retryable) ==
    /\ "provider" \in Faults
    /\ Is(w, "run")
    /\ Go(w, AfterError(w, retryable))
    /\ UNCHANGED <<creditVars, report, gen, job, call, objects, cleanup, crashes>>

\* assertBeforeDeadline, or the abort signal of the deadline timer.
DeadlineExceeded(w) ==
    /\ Is(w, "run")
    /\ worker[w].deadline = 0
    /\ Go(w, AfterError(w, TRUE))
    /\ UNCHANGED <<creditVars, report, gen, job, call, objects, cleanup, crashes>>

Upload(w) ==
    /\ Is(w, "run")
    /\ worker[w].deadline > 0
    /\ objects' = objects \cup {OutputKey(w)}
    /\ Go(w, "uploaded")
    /\ UNCHANGED <<creditVars, report, gen, job, call, cleanup, crashes>>

\* The upload throws; the object may have been stored all the same.
UploadError(w) ==
    /\ "provider" \in Faults
    /\ Is(w, "run")
    /\ worker[w].deadline > 0
    /\ objects' \in {objects, objects \cup {OutputKey(w)}}
    /\ GoClean(w, AfterError(w, TRUE))
    /\ UNCHANGED <<creditVars, report, gen, job, call, cleanup, crashes>>

FinalizeCheckNoCleanup(w) ==
    /\ Is(w, "uploaded")
    /\ Go(w, IF Owns(w) THEN "commit" ELSE "lost")
    /\ UNCHANGED <<creditVars, report, gen, job, call, objects, cleanup, crashes>>

\* finalizeSuccess reads the fence with the lease, its update repeats the
\* fence without it.
FinalizeCheck(w) ==
    /\ Is(w, "uploaded")
    /\ IF Owns(w) THEN Go(w, "commit") ELSE GoClean(w, "lost")
    /\ UNCHANGED <<creditVars, report, gen, job, call, objects, cleanup, crashes>>

\* The unique ReportOutput.reportId and consumeInTransaction's own checks.
CanPublish(g) ==
    /\ report[ReportOf(g)].output = NULL
    /\ reservation[g] # NULL
    /\ findTerminal(g) = {}

\* Publication makes the report READY and clears its failure throttle.
PublishedKeepsThrottle(row, key) == [row EXCEPT !.status = "READY", !.output = key]
Published(row, key) ==
    [row EXCEPT !.status = "READY", !.output = key, !.failures = 0, !.window = NULL, !.locked = 0]

Publish(w) ==
    LET g == worker[w].gen IN
    /\ Is(w, "commit")
    /\ HoldsToken(w)
    /\ CanPublish(g)
    /\ gen' = [gen EXCEPT ![g] = [@ EXCEPT !.status = "COMPLETED", !.token = 0, !.lease = 0]]
    /\ report' = [report EXCEPT ![ReportOf(g)] = Published(@, OutputKey(w))]
    /\ WriteConsume(g)
    /\ UNCHANGED <<linked, job, call, objects, cleanup, crashes>>

FinalizeCommit(w) == Publish(w) /\ Go(w, "return")

\* The worker sees an error although the transaction committed.
FinalizeAckLost(w) ==
    /\ "commitAck" \in Faults
    /\ Publish(w)
    /\ GoClean(w, AfterError(w, TRUE))

FinalizeLost(w) ==
    /\ Is(w, "commit")
    /\ ~HoldsToken(w)
    /\ GoClean(w, "lost")
    /\ UNCHANGED <<creditVars, report, gen, job, call, objects, cleanup, crashes>>

FinalizeError(w) ==
    /\ "db" \in Faults
    /\ Is(w, "commit")
    /\ GoClean(w, AfterError(w, TRUE))
    /\ UNCHANGED <<creditVars, report, gen, job, call, objects, cleanup, crashes>>

\* scheduleOrphanCleanup: the task is stored, then the object is deleted and
\* the task with it, or the deletion fails and the task stays.
OrphanCleanup(w) ==
    /\ Is(w, "clean")
    /\ \/ /\ objects' = objects \ {OutputKey(w)}
          /\ cleanup' = cleanup \ {OutputKey(w)}
       \/ /\ "s3" \in Faults
          /\ cleanup' = cleanup \cup {OutputKey(w)}
          /\ UNCHANGED objects
    /\ Go(w, worker[w].after)
    /\ UNCHANGED <<creditVars, report, gen, job, call, crashes>>

RequeuedReportForgotten(status) == status
RequeuedReport(status) == IF status = "PROCESSING" THEN "QUEUED" ELSE status

PrepareRetry(w) ==
    LET g == worker[w].gen IN
    /\ Is(w, "retry")
    /\ IF Owns(w)
       THEN /\ gen' = [gen EXCEPT ![g] = [@ EXCEPT !.status = "QUEUED", !.token = 0, !.lease = 0]]
            /\ report' = [report EXCEPT ![ReportOf(g)].status = RequeuedReport(@)]
            /\ Go(w, "throw")
       ELSE Go(w, "lost") /\ UNCHANGED <<gen, report>>
    /\ UNCHANGED <<creditVars, job, call, objects, cleanup, crashes>>

\* The consecutive-failure throttle of failGeneration.
Throttled(row) ==
    LET within == row.window # NULL /\ row.window <= FailWindow
        count == IF within THEN row.failures + 1 ELSE 1
    IN  [row EXCEPT !.failures = count,
                    !.window = IF within THEN @ ELSE 0,
                    !.locked = IF count >= FailLimit THEN FailLock ELSE 0]

FailGeneration(w) ==
    LET g == worker[w].gen
        r == ReportOf(g)
    IN  /\ Is(w, "fail")
        /\ IF Owns(w)
           THEN /\ gen' = [gen EXCEPT ![g] = [@ EXCEPT !.status = "FAILED", !.token = 0, !.lease = 0]]
                /\ report' = [report EXCEPT ![r] =
                      [Throttled(@) EXCEPT !.status = IF report[r].output # NULL THEN "READY" ELSE "FAILED"]]
                /\ releaseInTransaction(g)
                /\ Go(w, "return")
                /\ UNCHANGED linked
           ELSE Go(w, "lost") /\ UNCHANGED <<creditVars, gen, report>>
        /\ UNCHANGED <<job, call, objects, cleanup, crashes>>

\* A database call throws where nothing catches it: process rejects.
WorkerDbError(w) ==
    /\ "db" \in Faults
    /\ worker[w].step \in {"claim", "clean", "lost", "retry", "fail"}
    /\ Go(w, "throw")
    /\ UNCHANGED <<creditVars, report, gen, job, call, objects, cleanup, crashes>>

\* resultAfterClaimLoss defers the job while the generation is PROCESSING, to
\* a tick after its lease, and acknowledges it otherwise.
DeferNever(g) == FALSE
Deferred(g) == gen[g].status = "PROCESSING"

DeferralUnclamped(g) == gen[g].lease
DeferralDelay(g) == Larger(0, gen[g].lease) + 1

HoldsJob(w) == LET g == worker[w].gen IN job[g].state = "active" /\ job[g].holder = w
Settle(w, row) ==
    job' = IF HoldsJob(w)
           THEN [job EXCEPT ![worker[w].gen] = [row EXCEPT !.holder = NULL, !.lock = 0]]
           ELSE job

ResultAfterClaimLoss(w) ==
    LET g == worker[w].gen IN
    /\ Is(w, "lost")
    /\ IF Deferred(g)
       THEN /\ Settle(w, [job[g] EXCEPT !.state = "ready", !.delay = DeferralDelay(g)])
            /\ Leave(w)
       ELSE Go(w, "return") /\ UNCHANGED job
    /\ UNCHANGED <<creditVars, report, gen, call, objects, cleanup, crashes>>

JobCompleted(w) ==
    /\ Is(w, "return")
    /\ Settle(w, [job[worker[w].gen] EXCEPT !.state = "done"])
    /\ Leave(w)
    /\ UNCHANGED <<creditVars, report, gen, call, objects, cleanup, crashes>>

JobFailed(w) ==
    LET g == worker[w].gen
        made == job[g].made + 1
    IN  /\ Is(w, "throw")
        /\ Settle(w, [job[g] EXCEPT !.made = made,
                                    !.state = IF made < MaxAttempts THEN "ready" ELSE "done"])
        /\ Leave(w)
        /\ UNCHANGED <<creditVars, report, gen, call, objects, cleanup, crashes>>

WorkerCrash(w) ==
    /\ "workerCrash" \in Faults
    /\ crashes < MaxCrashes
    /\ ~Is(w, "idle")
    /\ Leave(w)
    /\ crashes' = crashes + 1
    /\ UNCHANGED <<creditVars, report, gen, job, call, objects, cleanup>>

-----------------------------------------------------------------------------
(* The environment: BullMQ's stalled check, later cleanup, time.           *)

RunsJob(w, g) == ~Is(w, "idle") /\ worker[w].gen = g

\* The lock of an active job has run out: the job goes back, or fails when it
\* has stalled too often.  A live worker renews the lock unless it is paused.
StalledJob(g) ==
    /\ job[g].state = "active" /\ job[g].lock = 0
    /\ "pause" \in Faults \/ ~\E w \in Workers : w = job[g].holder /\ RunsJob(w, g)
    /\ job' = [job EXCEPT ![g] =
                 [@ EXCEPT !.holder = NULL,
                           !.state = IF job[g].stalls < MaxStalled THEN "ready" ELSE "done",
                           !.stalls = job[g].stalls + 1]]
    /\ UNCHANGED <<creditVars, report, gen, call, worker, objects, cleanup, crashes>>

\* StorageCleanupService.attempt on a task left behind, during a later upload.
RetryCleanup(key) ==
    /\ key \in cleanup
    /\ objects' = objects \ {key}
    /\ cleanup' = cleanup \ {key}
    /\ UNCHANGED <<creditVars, report, gen, job, call, worker, crashes>>

Down(n) == IF n > 0 THEN n - 1 ELSE 0

\* Without pauses the heartbeat renews a lease before it runs out.
Tick ==
    /\ "pause" \in Faults \/ \A w \in Workers :
          worker[w].step \in {"run", "uploaded", "commit", "clean", "retry", "fail"} /\ Owns(w)
            => gen[worker[w].gen].lease > 1
    /\ gen' = [g \in Generations |->
                 [gen[g] EXCEPT !.lease = IF gen[g].status = "PROCESSING" /\ @ >= 0 THEN @ - 1 ELSE @]]
    /\ job' = [g \in Generations |-> [job[g] EXCEPT !.delay = Down(@), !.lock = Down(@)]]
    /\ worker' = [w \in Workers |-> [worker[w] EXCEPT !.deadline = Down(@)]]
    /\ report' = [r \in Reports |->
                    [report[r] EXCEPT !.locked = Down(@),
                                      !.window = IF @ # NULL /\ @ <= FailWindow THEN @ + 1 ELSE @]]
    /\ UNCHANGED <<creditVars, call, objects, cleanup, crashes>>

-----------------------------------------------------------------------------
CallStep(c) ==
    \/ Enqueue(c) \/ EnqueueError(c) \/ MarkEnqueued(c)
    \/ CompensateRead(c) \/ CompensateWrite(c)
    \/ CancelRemove(c) \/ CancelCommit(c)

WorkerStep(w) ==
    \/ Claim(w) \/ ClaimRefused(w) \/ RunLost(w) \/ DeadlineExceeded(w) \/ Upload(w)
    \/ FinalizeCheck(w) \/ FinalizeCommit(w) \/ FinalizeLost(w) \/ OrphanCleanup(w)
    \/ PrepareRetry(w) \/ FailGeneration(w)
    \/ ResultAfterClaimLoss(w) \/ JobCompleted(w) \/ JobFailed(w)

Next ==
    \/ \E c \in Callers, g \in Generations :
        \/ \E r \in Reports, k \in Keys : StartNew(c, g, r, k)
        \/ StartDuplicate(c, g)
        \/ CancelBegin(c, g)
    \/ \E c \in Callers : CallStep(c) \/ CancelRemoveError(c) \/ CallDbError(c) \/ ApiCrash(c)
    \/ \E w \in Workers, g \in Generations : TakeJob(w, g)
    \/ \E w \in Workers :
        \/ WorkerStep(w) \/ RenewLease(w)
        \/ \E retryable \in BOOLEAN : PipelineError(w, retryable)
        \/ UploadError(w) \/ FinalizeAckLost(w) \/ FinalizeError(w)
        \/ WorkerDbError(w) \/ WorkerCrash(w)
    \/ \E g \in Generations : StalledJob(g)
    \/ \E key \in cleanup : RetryCleanup(key)
    \/ Tick

Spec == Init /\ [][Next]_vars

-----------------------------------------------------------------------------
(* Properties.                                                             *)

OutcomeSettled(g) ==
    LET status == gen[g].status IN
    /\ linked[g] <=> Exists(g)
    /\ reservation[g] = NULL <=> status = "ABSENT"
    /\ status \in Active \cup {"ABSENT"} => settled[g] = {}
    /\ status = "COMPLETED" => settled[g] = {"CONSUME"}
    /\ status \in {"FAILED", "CANCELLED"} => settled[g] = {"RELEASE"}
    /\ status = "DELETED" => settled[g] # {}

\* The credit of a generation follows its outcome, whatever fails: held while
\* it is active, spent by publication, given back by failure and by
\* cancellation, never left held by a row that is gone.
SettlementMatchesOutcome == \A g \in Generations : OutcomeSettled(g)

\* At most one QUEUED or PROCESSING generation per report.
OneActivePerReport ==
    \A a, b \in Generations :
        /\ gen[a].status \in Active /\ gen[b].status \in Active
        /\ ReportOf(a) = ReportOf(b)
        => a = b

\* While a failed enqueue is not compensated, the report's status is the one of its
\* generation: QUEUED or PROCESSING exactly while a generation of the report is, and
\* READY exactly when an output is published.
ReportMirrorsGeneration ==
    \A r \in Reports :
        /\ \A status \in Active :
            report[r].status = status
              <=> \E g \in Generations : ReportOf(g) = r /\ gen[g].status = status
        /\ report[r].status = "READY" <=> report[r].output # NULL

\* A worker that passed the fence of finalizeSuccess and still holds the token
\* can publish: the unique output of the report is free and the credit is
\* neither missing nor settled, so the transaction never fails on them.
PublicationNeverBlocked ==
    \A w \in Workers : Is(w, "commit") /\ HoldsToken(w) => CanPublish(worker[w].gen)

\* The object of a published output is in storage and no cleanup will delete
\* it, whichever workers ran and whatever they cleaned up.
PublishedObjectKept ==
    \A r \in Reports : report[r].output # NULL =>
        report[r].output \in objects /\ report[r].output \notin cleanup

\* Every stored output object is published, or is in the hands of a worker that
\* will publish or delete it, or has a cleanup task: none is forgotten.
NoForgottenObject ==
    \A key \in objects :
        \/ \E r \in Reports : report[r].output = key
        \/ key \in cleanup
        \/ \E w \in Workers : worker[w].step \in {"uploaded", "commit", "clean"} /\ OutputKey(w) = key

\* A report with an active generation is not locked, and a locked report has
\* reached the failure limit: the throttle never counts against a generation
\* that was let in, and a published report has no throttle left.
ThrottleConsistent ==
    \A r \in Reports :
        /\ ~ActiveIndexFree(r) => report[r].locked = 0
        /\ report[r].locked > 0 => report[r].failures >= FailLimit
        /\ report[r].status = "READY" =>
            report[r].failures = 0 /\ report[r].window = NULL /\ report[r].locked = 0

\* However late a suspended or replaced worker wakes up, two workers never pass
\* the fence of the same generation: the token of a takeover is a new one, so
\* the updates of the old worker match no row.
OneOwner ==
    \A w, v \in Workers :
        /\ ~Is(w, "idle") /\ ~Is(v, "idle")
        /\ worker[w].gen = worker[v].gen
        /\ HoldsToken(w) /\ HoldsToken(v)
        => w = v

\* A live lease is not stolen: until it has expired, no other claim replaces
\* the token of a PROCESSING generation.
LiveLeaseNotStolen ==
    [][\A g \in Generations :
        gen[g].status = "PROCESSING" /\ gen[g].lease > 0 /\ gen'[g].status = "PROCESSING"
          => gen'[g].token = gen[g].token]_vars

\* Completed, failed and cancelled generations never change again: no late
\* worker, redelivery or request touches a row of the history.
HistoryImmutable ==
    [][\A g \in Generations :
        gen[g].status \in {"COMPLETED", "FAILED", "CANCELLED"} => gen'[g] = gen[g]]_vars

\* Compensation of a failed enqueue restores the report's prior status.
CompensationRestoresPrior ==
    [][\A g \in Generations :
        Exists(g) /\ gen'[g].status = "DELETED"
          => report'[ReportOf(g)].status = gen[g].prior]_vars

\* A claimed generation always has a job that will be delivered (again), so
\* that somebody finishes it or takes it over.
ProcessingHasJob ==
    \A g \in Generations :
        gen[g].status = "PROCESSING" => job[g].state \in {"ready", "active"}

-----------------------------------------------------------------------------
\* An API process answers its requests, a worker process takes ready jobs and
\* runs what it took, BullMQ checks for stalled jobs, and time passes.
Fairness ==
    /\ \A c \in Callers : WF_vars(CallStep(c))
    /\ \A w \in Workers : WF_vars(WorkerStep(w))
    /\ \A g \in Generations :
        /\ WF_vars(\E w \in Workers : TakeJob(w, g))
        /\ WF_vars(StalledJob(g))
    /\ WF_vars(Tick)

FairSpec == Spec /\ Fairness

\* Every generation that was started is eventually settled: no crash, error or
\* lease expiry inside the fault bounds strands it.
EveryGenerationSettles ==
    \A g \in Generations : gen[g].status \in Active ~> gen[g].status \notin Active

=============================================================================
