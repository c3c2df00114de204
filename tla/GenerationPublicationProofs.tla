---------------------- MODULE GenerationPublicationProofs ----------------------
(***************************************************************************)
(* What the workers of a generation keep, however late they wake up: the   *)
(* fence, the publication, the object, the row of the history, the report  *)
(* with its throttle, the objects that are not published, and the job.     *)
(*                                                                         *)
(* The fence: the token of a claim is the count of the claims, so it is    *)
(* larger than the tokens of all workers that claimed the generation       *)
(* before, and a row that was deleted is never claimed again, which would  *)
(* restart the count.  The publication: a report with a published output   *)
(* is READY, a start needs a report that is not, and a report has one      *)
(* active generation, so while a generation is active its report has no    *)
(* output.  The object: the storage key holds the processing token, no     *)
(* token is used twice, a worker that published cleans nothing up, and a   *)
(* key is cleaned up only by the worker whose key it is, or after that     *)
(* worker has given it up.                                                 *)
(*                                                                         *)
(* The tables then change by seven moves of one generation and its report  *)
(* (GenerationMoves), from which the history, the throttle and the mirror  *)
(* follow without looking at the workers again.  The job: a busy worker    *)
(* holds the job of its generation, has settled the generation before it   *)
(* gives the job up, and every stall of a job was a crash.                 *)
(***************************************************************************)
EXTENDS GenerationLifecycleProofs


\* Requests, jobs and workers name generations that have been started, so a
\* deletion cannot be undone behind their back.
NamesStarted ==
    /\ \A c \in Callers : ~At(c, "idle") => gen[call[c].gen].status # "ABSENT"
    /\ \A g \in Generations : job[g].state # "none" => gen[g].status # "ABSENT"
    /\ \A w \in Workers : ~Is(w, "idle") => gen[worker[w].gen].status # "ABSENT"

\* No token is larger than the number of claims.
TokensCounted ==
    /\ \A g \in Generations :
        /\ gen[g].token <= gen[g].attempts
        /\ gen[g].status = "PROCESSING" => gen[g].token > 0
    /\ \A w \in Workers :
        ~Is(w, "idle") /\ gen[worker[w].gen].status # "DELETED"
          => worker[w].token <= gen[worker[w].gen].attempts

TokensDiffer ==
    \A w, v \in Workers :
        /\ ~Is(w, "idle") /\ ~Is(v, "idle")
        /\ worker[w].gen = worker[v].gen
        /\ worker[w].token = worker[v].token
        => w = v \/ worker[w].token = 0

Fence == NamesStarted /\ TokensCounted /\ TokensDiffer

-----------------------------------------------------------------------------
(* Steps that claim nothing: rows keep their claims or go, workers keep    *)
(* their tokens or leave.                                                  *)

NotClaimed(g) ==
    \/ gen'[g] = NoRow("DELETED") /\ gen[g].status # "ABSENT"
    \/ /\ gen'[g].attempts = gen[g].attempts
       /\ gen'[g].token \in {0, gen[g].token}
       /\ gen'[g].status = "PROCESSING" =>
            gen[g].status = "PROCESSING" /\ gen'[g].token = gen[g].token
       /\ gen'[g].status = "ABSENT" => gen[g].status = "ABSENT"
       /\ gen[g].status = "DELETED" => gen'[g].status = "DELETED"

SameClaim(w) ==
    ~Is(w, "idle")' => /\ ~Is(w, "idle")
                       /\ worker'[w].gen = worker[w].gen
                       /\ worker'[w].token = worker[w].token

Claimless ==
    /\ \A g \in Generations : NotClaimed(g)
    /\ \A w \in Workers : SameClaim(w)

NamesKept ==
    /\ \A c \in Callers : ~At(c, "idle")' => gen'[call'[c].gen].status # "ABSENT"
    /\ \A g \in Generations : job'[g].state # "none" => gen'[g].status # "ABSENT"

LEMMA ClaimlessKeepsFence ==
    ASSUME Inv, Fence, Claimless, NamesKept
    PROVE  Fence'
  <1>1. \A g \in Generations : gen[g] \in GenRows
    BY DEF Inv, TypeOK
  <1>2. \A w \in Workers : ~Is(w, "idle") => worker[w].gen \in Generations /\ worker[w].token \in Nat
    BY DEF Inv, InFlight, BusyWorkers, WorkerRows, Is
  <1>3. \A g \in Generations : gen'[g].status = "ABSENT" => gen[g].status = "ABSENT"
    BY DEF Claimless, NotClaimed, NoRow
  <1>4. NamesStarted'
    <2>1. \A w \in Workers : ~Is(w, "idle")' => gen'[worker'[w].gen].status # "ABSENT"
      BY <1>2, <1>3 DEF Fence, NamesStarted, Claimless, SameClaim
    <2> QED BY <2>1 DEF NamesStarted, NamesKept, At
  <1>5. TokensCounted'
    <2>1. ASSUME NEW g \in Generations
          PROVE  /\ gen'[g].token <= gen'[g].attempts
                 /\ gen'[g].status = "PROCESSING" => gen'[g].token > 0
      <3>1. CASE gen'[g] = NoRow("DELETED")
        BY <3>1 DEF NoRow
      <3>2. CASE gen'[g] # NoRow("DELETED")
        <4>1. /\ gen'[g].attempts = gen[g].attempts
              /\ gen'[g].token \in {0, gen[g].token}
              /\ gen'[g].status = "PROCESSING" =>
                    gen[g].status = "PROCESSING" /\ gen'[g].token = gen[g].token
          BY <3>2 DEF Claimless, NotClaimed
        <4>2. gen[g].attempts \in Nat /\ gen[g].token \in Nat
          BY <1>1 DEF GenRows
        <4> QED BY <4>1, <4>2 DEF Fence, TokensCounted
      <3> QED BY <3>1, <3>2
    <2>2. ASSUME NEW w \in Workers, ~Is(w, "idle")', gen'[worker'[w].gen].status # "DELETED"
          PROVE  worker'[w].token <= gen'[worker'[w].gen].attempts
      <3>1. /\ ~Is(w, "idle") /\ worker'[w].gen = worker[w].gen /\ worker'[w].token = worker[w].token
            /\ worker[w].gen \in Generations
        BY <1>2, <2>2 DEF Claimless, SameClaim
      <3>2. gen'[worker[w].gen].attempts = gen[worker[w].gen].attempts
            /\ gen[worker[w].gen].status # "DELETED"
        BY <2>2, <3>1 DEF Claimless, NotClaimed, NoRow
      <3> QED BY <3>1, <3>2 DEF Fence, TokensCounted
    <2> QED BY <2>1, <2>2 DEF TokensCounted, Is
  <1>6. TokensDiffer'
    BY DEF Fence, TokensDiffer, Claimless, SameClaim, Is
  <1> QED BY <1>4, <1>5, <1>6 DEF Fence

\* A row that keeps its status and its token has not been claimed.
LEMMA SameRows ==
    ASSUME gen' = gen
    PROVE  \A g \in Generations : NotClaimed(g)
  BY DEF NotClaimed

LEMMA SameWorkers ==
    ASSUME worker' = worker
    PROVE  \A w \in Workers : SameClaim(w)
  BY DEF SameClaim, Is

\* A worker that goes on keeps its claim, one that leaves gives it up.
LEMMA MovingWorker ==
    ASSUME Inv, NEW w \in Workers, ~Is(w, "idle"),
           \/ \E step \in WorkerSteps : Go(w, step)
           \/ \E after \in WorkerSteps : GoClean(w, after)
           \/ Leave(w)
    PROVE  \A v \in Workers : SameClaim(v)
  <1>1. worker \in [Workers -> WorkerRows]
    BY InFlightType DEF Inv
  <1>2. ASSUME NEW step \in WorkerSteps, Go(w, step)
        PROVE  \A v \in Workers : SameClaim(v)
    <2> DEFINE row == [worker[w] EXCEPT !.step = step]
    <2>1. row.gen = worker[w].gen /\ row.token = worker[w].token
      BY <1>1 DEF WorkerRows
    <2>2. worker' = [worker EXCEPT ![w] = row]
      BY <1>1, <1>2 DEF Go
    <2> HIDE DEF row
    <2> QED BY <1>1, <2>1, <2>2 DEF SameClaim, Is
  <1>3. ASSUME NEW after \in WorkerSteps, GoClean(w, after)
        PROVE  \A v \in Workers : SameClaim(v)
    <2> DEFINE row == [worker[w] EXCEPT !.step = "clean", !.after = after]
    <2>1. row.gen = worker[w].gen /\ row.token = worker[w].token
      BY <1>1 DEF WorkerRows
    <2>2. worker' = [worker EXCEPT ![w] = row]
      BY <1>1, <1>3 DEF GoClean
    <2> HIDE DEF row
    <2> QED BY <1>1, <2>1, <2>2 DEF SameClaim, Is
  <1>4. CASE Leave(w)
    BY <1>1, <1>4 DEF Leave, SameClaim, Is, IdleWorker
  <1> QED BY <1>2, <1>3, <1>4

\* What the requests and jobs name stays started when no new one appears.
LEMMA SameNames ==
    ASSUME Inv, Fence, \A g \in Generations : NotClaimed(g),
           \A c \in Callers : ~At(c, "idle")' => ~At(c, "idle") /\ call'[c].gen = call[c].gen,
           \A g \in Generations : job'[g].state # "none" =>
              job[g].state # "none" \/ gen[g].status # "ABSENT"
    PROVE  NamesKept
  <1>1. \A g \in Generations : gen'[g].status = "ABSENT" => gen[g].status = "ABSENT"
    BY DEF NotClaimed, NoRow
  <1>2. \A c \in Callers : ~At(c, "idle") => call[c].gen \in Generations
    BY BusyCall DEF Inv
  <1> QED BY <1>1, <1>2 DEF NamesKept, Fence, NamesStarted

-----------------------------------------------------------------------------
(* Requests: only a start begins a generation, only compensation ends one. *)

LEMMA CallsKeepFence ==
    ASSUME Inv, Fence, NEW c \in Callers,
           \/ Enqueue(c) \/ EnqueueError(c) \/ MarkEnqueued(c) \/ CallDbError(c)
           \/ CompensateRead(c) \/ CompensateWrite(c) \/ CancelRemove(c)
           \/ CancelRemoveError(c) \/ CancelCommit(c) \/ ApiCrash(c)
    PROVE  Fence'
  <1> DEFINE g == call[c].gen
  <1>1. g \in Generations /\ ~At(c, "idle")
    <2>1. ~At(c, "idle")
      BY DEF Enqueue, EnqueueError, MarkEnqueued, CallDbError, CompensateRead, CompensateWrite,
             CancelRemove, CancelRemoveError, CancelCommit, ApiCrash, At
    <2> QED BY <2>1, BusyCall DEF Inv
  <1>2. worker' = worker
    BY DEF Enqueue, EnqueueError, MarkEnqueued, CallDbError, CompensateRead, CompensateWrite,
           CancelRemove, CancelRemoveError, CancelCommit, ApiCrash
  <1>3. gen \in [Generations -> GenRows] /\ gen[g].status # "ABSENT"
    BY <1>1 DEF Inv, TypeOK, Fence, NamesStarted
  <1>4. \A h \in Generations : NotClaimed(h)
    <2>1. CASE gen' = gen
      BY <2>1, SameRows
    <2>2. CASE MarkEnqueued(c)
      BY <1>3, <2>2 DEF MarkEnqueued, NotClaimed, GenRows
    <2>3. CASE CompensateWrite(c)
      BY <1>1, <1>3, <2>3 DEF CompensateWrite, NotClaimed
    <2>4. CASE CancelCommit(c)
      BY <1>1, <1>3, <2>4 DEF CancelCommit, NotClaimed, Cancellable, GenRows
    <2> QED BY <2>1, <2>2, <2>3, <2>4 DEF Enqueue, EnqueueError, CallDbError, CompensateRead,
                                          CancelRemove, CancelRemoveError, ApiCrash
  <1>5. \A d \in Callers : ~At(d, "idle")' => ~At(d, "idle") /\ call'[d].gen = call[d].gen
    <2>1. (\E step \in CallSteps : GoCall(c, step, g)) \/ EndCall(c)
      BY DEF Enqueue, EnqueueError, MarkEnqueued, CallDbError, CompensateRead, CompensateWrite,
             CancelRemove, CancelRemoveError, CancelCommit, ApiCrash, CallSteps
    <2>2. call \in [Callers -> CallRows]
      BY InFlightType DEF Inv
    <2> QED BY <1>1, <2>1, <2>2 DEF GoCall, EndCall, IdleCall, At
  <1>6. \A h \in Generations : job'[h].state # "none" => job[h].state # "none" \/ gen[h].status # "ABSENT"
    <2>1. CASE job' = job
      BY <2>1
    <2>2. CASE Enqueue(c) \/ EnqueueError(c)
      BY <1>1, <1>3, <2>2 DEF Enqueue, EnqueueError, Added, Inv, TypeOK
    <2>3. CASE CancelRemove(c)
      BY <1>1, <1>3, <2>3 DEF CancelRemove, Inv, TypeOK
    <2> QED BY <2>1, <2>2, <2>3 DEF MarkEnqueued, CallDbError, CompensateRead, CompensateWrite,
                                     CancelRemoveError, CancelCommit, ApiCrash
  <1>7. Claimless
    BY <1>2, <1>4, SameWorkers DEF Claimless
  <1>8. NamesKept
    BY <1>4, <1>5, <1>6, SameNames
  <1> QED BY <1>7, <1>8, ClaimlessKeepsFence

\* A request that picks up a queued generation.
LEMMA PickingKeepsFence ==
    ASSUME Inv, Fence, NEW c \in Callers, NEW g \in Generations,
           StartDuplicate(c, g) \/ CancelBegin(c, g)
    PROVE  Fence'
  <1>1. UNCHANGED <<gen, job, worker>> /\ gen[g].status # "ABSENT"
    BY DEF StartDuplicate, CancelBegin
  <1>2. PICK step \in CallSteps : GoCall(c, step, g)
    BY DEF StartDuplicate, CancelBegin, CallSteps
  <1>3. \A d \in Callers : ~At(d, "idle")' => gen'[call'[d].gen].status # "ABSENT"
    <2>1. call \in [Callers -> CallRows]
      BY InFlightType DEF Inv
    <2> QED BY <1>1, <1>2, <2>1 DEF GoCall, At, Fence, NamesStarted
  <1>4. NamesKept
    BY <1>1, <1>3 DEF NamesKept, Fence, NamesStarted
  <1>5. Claimless
    BY <1>1, SameRows, SameWorkers DEF Claimless
  <1> QED BY <1>4, <1>5, ClaimlessKeepsFence

LEMMA StartKeepsFence ==
    ASSUME Inv, Fence, NEW c \in Callers, NEW g \in Generations, NEW r \in Reports, NEW k \in Keys,
           StartNew(c, g, r, k)
    PROVE  Fence'
  <1> DEFINE row == [status |-> "QUEUED", report |-> r, key |-> k,
                     prior |-> report[r].status, enqueued |-> FALSE,
                     token |-> 0, lease |-> 0, attempts |-> 0]
  <1>1. /\ gen[g].status = "ABSENT" /\ gen' = [gen EXCEPT ![g] = row]
        /\ GoCall(c, "enqueue", g) /\ UNCHANGED <<job, worker>>
    BY DEF StartNew
  <1>2. row.status = "QUEUED" /\ row.token = 0 /\ row.attempts = 0
    OBVIOUS
  <1> HIDE DEF row
  <1>3. gen'[g] = row /\ \A h \in Generations \ {g} : gen'[h] = gen[h]
    BY <1>1 DEF Inv, TypeOK
  <1>4. \A w \in Workers : ~Is(w, "idle") => worker[w].gen \in Generations \ {g}
    BY <1>1, BusyWorker DEF Inv, Fence, NamesStarted
  <1>5. NamesStarted'
    <2>1. \A d \in Callers : ~At(d, "idle")' => gen'[call'[d].gen].status # "ABSENT"
      <3>1. call \in [Callers -> CallRows]
        BY InFlightType DEF Inv
      <3>2. \A d \in Callers : ~At(d, "idle") => call[d].gen \in Generations \ {g}
        BY <1>1, BusyCall DEF Inv, Fence, NamesStarted
      <3> QED BY <1>1, <1>2, <1>3, <3>1, <3>2 DEF GoCall, At, Fence, NamesStarted
    <2>2. \A h \in Generations : job'[h].state # "none" => gen'[h].status # "ABSENT"
      BY <1>1, <1>2, <1>3 DEF Fence, NamesStarted
    <2>3. \A w \in Workers : ~Is(w, "idle") => gen'[worker[w].gen].status # "ABSENT"
      BY <1>3, <1>4 DEF Fence, NamesStarted
    <2> QED BY <1>1, <2>1, <2>2, <2>3 DEF NamesStarted, At, Is
  <1>6. TokensCounted'
    <2>1. \A h \in Generations : /\ gen'[h].token <= gen'[h].attempts
                                 /\ gen'[h].status = "PROCESSING" => gen'[h].token > 0
      BY <1>2, <1>3 DEF Fence, TokensCounted
    <2>2. \A w \in Workers : ~Is(w, "idle") /\ gen'[worker[w].gen].status # "DELETED"
                              => worker[w].token <= gen'[worker[w].gen].attempts
      BY <1>3, <1>4 DEF Fence, TokensCounted
    <2> QED BY <1>1, <2>1, <2>2 DEF TokensCounted, Is
  <1>7. TokensDiffer'
    BY <1>1 DEF Fence, TokensDiffer, Is
  <1> QED BY <1>5, <1>6, <1>7 DEF Fence

-----------------------------------------------------------------------------
(* Workers.                                                                *)

LEMMA WorkersKeepFence ==
    ASSUME Inv, Fence, NEW w \in Workers,
           \/ ClaimRefused(w) \/ RunLost(w) \/ DeadlineExceeded(w)
           \/ \E retryable \in BOOLEAN : PipelineError(w, retryable)
           \/ Upload(w) \/ UploadError(w) \/ FinalizeCheck(w) \/ FinalizeCommit(w)
           \/ FinalizeAckLost(w) \/ FinalizeLost(w) \/ FinalizeError(w) \/ OrphanCleanup(w)
           \/ PrepareRetry(w) \/ FailGeneration(w) \/ WorkerDbError(w)
           \/ ResultAfterClaimLoss(w) \/ JobCompleted(w) \/ JobFailed(w) \/ WorkerCrash(w)
    PROVE  Fence'
  <1> DEFINE g == worker[w].gen
  <1>1. ~Is(w, "idle") /\ g \in Generations
    <2>1. ~Is(w, "idle")
      BY DEF ClaimRefused, RunLost, DeadlineExceeded, PipelineError, Upload, UploadError,
             FinalizeCheck, FinalizeCommit, FinalizeAckLost, Publish, FinalizeLost, FinalizeError,
             OrphanCleanup, PrepareRetry, FailGeneration, WorkerDbError, ResultAfterClaimLoss,
             JobCompleted, JobFailed, WorkerCrash, Is
    <2> QED BY <2>1, BusyWorker DEF Inv
  <1>2. call' = call
    BY DEF ClaimRefused, RunLost, DeadlineExceeded, PipelineError, Upload, UploadError,
           FinalizeCheck, FinalizeCommit, FinalizeAckLost, Publish, FinalizeLost, FinalizeError,
           OrphanCleanup, PrepareRetry, FailGeneration, WorkerDbError, ResultAfterClaimLoss,
           JobCompleted, JobFailed, WorkerCrash
  <1>3. gen \in [Generations -> GenRows] /\ gen[g].status # "ABSENT"
    BY <1>1 DEF Inv, TypeOK, Fence, NamesStarted
  <1>4. \A h \in Generations : NotClaimed(h)
    <2>1. CASE gen' = gen
      BY <2>1, SameRows
    <2>2. CASE FinalizeCommit(w) \/ FinalizeAckLost(w) \/ PrepareRetry(w) \/ FailGeneration(w)
      <3>1. CASE gen' = gen
        BY <3>1, SameRows
      <3>2. ASSUME NEW status \in {"COMPLETED", "QUEUED", "FAILED"}, gen[g].status = "PROCESSING",
                   gen' = [gen EXCEPT ![g] = [@ EXCEPT !.status = status, !.token = 0, !.lease = 0]]
            PROVE  \A h \in Generations : NotClaimed(h)
        <4> DEFINE row == [gen[g] EXCEPT !.status = status, !.token = 0, !.lease = 0]
        <4>1. row.status = status /\ row.token = 0 /\ row.attempts = gen[g].attempts
          BY <1>3 DEF GenRows
        <4>2. gen' = [gen EXCEPT ![g] = row]
          BY <3>2
        <4> HIDE DEF row
        <4>3. gen'[g] = row /\ \A h \in Generations \ {g} : gen'[h] = gen[h]
          BY <1>1, <1>3, <4>2
        <4>4. NotClaimed(g)
          BY <3>2, <4>1, <4>3 DEF NotClaimed
        <4> QED BY <4>3, <4>4 DEF NotClaimed
      <3>3. CASE FinalizeCommit(w) \/ FinalizeAckLost(w)
        BY <3>2, <3>3 DEF FinalizeCommit, FinalizeAckLost, Publish, HoldsToken
      <3>4. CASE PrepareRetry(w) /\ Owns(w)
        BY <3>2, <3>4 DEF PrepareRetry, Owns, HoldsToken
      <3>5. CASE FailGeneration(w) /\ Owns(w)
        BY <3>2, <3>5 DEF FailGeneration, Owns, HoldsToken
      <3> QED BY <2>2, <3>1, <3>3, <3>4, <3>5 DEF PrepareRetry, FailGeneration
    <2> QED BY <2>1, <2>2 DEF ClaimRefused, RunLost, DeadlineExceeded, PipelineError, Upload,
                               UploadError, FinalizeCheck, FinalizeLost, FinalizeError, OrphanCleanup,
                               WorkerDbError, ResultAfterClaimLoss, JobCompleted, JobFailed, WorkerCrash
  <1>5. \A v \in Workers : SameClaim(v)
    <2>1. CASE ClaimRefused(w) \/ RunLost(w) \/ Upload(w) \/ FinalizeCommit(w) \/ PrepareRetry(w)
               \/ FailGeneration(w) \/ WorkerDbError(w)
      <3>1. \E step \in WorkerSteps : Go(w, step)
        BY <2>1 DEF ClaimRefused, RunLost, Upload, FinalizeCommit, PrepareRetry, FailGeneration,
                    WorkerDbError, WorkerSteps
      <3> QED BY <1>1, <3>1, MovingWorker
    <2>2. CASE DeadlineExceeded(w) \/ \E retryable \in BOOLEAN : PipelineError(w, retryable)
      <3>1. \E step \in WorkerSteps : Go(w, step)
        BY <2>2, AfterErrorStep DEF DeadlineExceeded, PipelineError, WorkerSteps
      <3> QED BY <1>1, <3>1, MovingWorker
    <2>3. CASE UploadError(w) \/ FinalizeAckLost(w) \/ FinalizeError(w)
      <3>1. \E after \in WorkerSteps : GoClean(w, after)
        BY <2>3, AfterErrorStep DEF UploadError, FinalizeAckLost, FinalizeError, WorkerSteps
      <3> QED BY <1>1, <3>1, MovingWorker
    <2>4. CASE FinalizeCheck(w) \/ FinalizeLost(w)
      <3>1. (\E step \in WorkerSteps : Go(w, step)) \/ (\E after \in WorkerSteps : GoClean(w, after))
        BY <2>4 DEF FinalizeCheck, FinalizeLost, WorkerSteps
      <3> QED BY <1>1, <3>1, MovingWorker
    <2>5. CASE OrphanCleanup(w)
      <3>1. worker[w].after \in WorkerSteps /\ Go(w, worker[w].after)
        BY <2>5 DEF OrphanCleanup, Inv, InFlight, BusyWorkers, WorkerRows
      <3> QED BY <1>1, <3>1, MovingWorker
    <2>6. CASE ResultAfterClaimLoss(w)
      <3>1. (\E step \in WorkerSteps : Go(w, step)) \/ Leave(w)
        BY <2>6 DEF ResultAfterClaimLoss, WorkerSteps
      <3> QED BY <1>1, <3>1, MovingWorker
    <2>7. CASE JobCompleted(w) \/ JobFailed(w) \/ WorkerCrash(w)
      <3>1. Leave(w)
        BY <2>7 DEF JobCompleted, JobFailed, WorkerCrash
      <3> QED BY <1>1, <3>1, MovingWorker
    <2> QED BY <2>1, <2>2, <2>3, <2>4, <2>5, <2>6, <2>7
  <1>6. \A h \in Generations : job'[h].state # "none" => job[h].state # "none" \/ gen[h].status # "ABSENT"
    <2>1. CASE job' = job
      BY <2>1
    <2>2. ASSUME NEW row, Settle(w, row)
          PROVE  \A h \in Generations \ {g} : job'[h] = job[h]
      <3> DEFINE settling == [row EXCEPT !.holder = NULL, !.lock = 0]
      <3>1. job' = job \/ job' = [job EXCEPT ![g] = settling]
        BY <2>2 DEF Settle
      <3> HIDE DEF settling
      <3> QED BY <3>1 DEF Inv, TypeOK
    <2>3. CASE ResultAfterClaimLoss(w) \/ JobCompleted(w) \/ JobFailed(w)
      <3>1. job' = job \/ \E row : Settle(w, row)
        BY <2>3 DEF ResultAfterClaimLoss, JobCompleted, JobFailed
      <3> QED BY <1>3, <2>2, <3>1
    <2> QED BY <2>1, <2>3 DEF ClaimRefused, RunLost, DeadlineExceeded, PipelineError, Upload,
                               UploadError, FinalizeCheck, FinalizeCommit, FinalizeAckLost, Publish,
                               FinalizeLost, FinalizeError, OrphanCleanup, PrepareRetry,
                               FailGeneration, WorkerDbError, WorkerCrash
  <1>7. NamesKept
    BY <1>2, <1>4, <1>6, SameNames DEF At
  <1> QED BY <1>4, <1>5, <1>7, ClaimlessKeepsFence DEF Claimless

\* Leases, jobs left behind, later cleanup and time.
LEMMA EnvironmentKeepsFence ==
    ASSUME Inv, Fence,
           \/ \E w \in Workers : RenewLease(w)
           \/ \E g \in Generations : StalledJob(g)
           \/ \E key \in cleanup : RetryCleanup(key)
           \/ Tick
           \/ UNCHANGED vars
    PROVE  Fence'
  <1>1. call' = call
    BY DEF RenewLease, StalledJob, RetryCleanup, Tick, vars
  <1>2. gen \in [Generations -> GenRows] /\ worker \in [Workers -> WorkerRows]
    BY InFlightType DEF Inv, TypeOK
  <1>3. \A g \in Generations : NotClaimed(g)
    <2>1. CASE gen' = gen
      BY <2>1, SameRows
    <2>2. CASE \E w \in Workers : RenewLease(w)
      BY <1>2, <2>2 DEF RenewLease, NotClaimed, GenRows
    <2>3. CASE Tick
      BY <1>2, <2>3 DEF Tick, NotClaimed, GenRows
    <2> QED BY <2>1, <2>2, <2>3 DEF StalledJob, RetryCleanup, vars
  <1>4. \A w \in Workers : SameClaim(w)
    <2>1. CASE worker' = worker
      BY <2>1, SameWorkers
    <2>2. CASE Tick
      BY <1>2, <2>2 DEF Tick, SameClaim, Is, WorkerRows
    <2> QED BY <2>1, <2>2 DEF RenewLease, StalledJob, RetryCleanup, vars
  <1>5. \A g \in Generations : job'[g].state # "none" => job[g].state # "none"
    <2>1. job \in [Generations -> JobRows]
      BY DEF Inv, TypeOK
    <2>2. CASE job' = job
      BY <2>2
    <2>3. CASE \E g \in Generations : StalledJob(g)
      BY <2>1, <2>3 DEF StalledJob, JobRows
    <2>4. CASE Tick
      BY <2>1, <2>4 DEF Tick, JobRows
    <2> QED BY <2>2, <2>3, <2>4 DEF RenewLease, RetryCleanup, vars
  <1>6. NamesKept
    BY <1>1, <1>3, <1>5, SameNames DEF At
  <1> QED BY <1>3, <1>4, <1>6, ClaimlessKeepsFence DEF Claimless

\* A worker starts with no token.
LEMMA TakeKeepsFence ==
    ASSUME Inv, Fence, NEW w \in Workers, NEW g \in Generations, TakeJob(w, g)
    PROVE  Fence'
  <1> DEFINE row == [IdleWorker EXCEPT !.step = "claim", !.gen = g, !.attempt = job[g].made + 1]
  <1>1. /\ Is(w, "idle") /\ job[g].state # "none" /\ gen' = gen /\ call' = call
        /\ worker' = [worker EXCEPT ![w] = row]
    BY DEF TakeJob
  <1>2. row.gen = g /\ row.token = 0
    BY DEF IdleWorker
  <1> HIDE DEF row
  <1>3. worker'[w] = row /\ \A v \in Workers \ {w} : worker'[v] = worker[v]
    BY <1>1 DEF Inv, InFlight
  <1>4. gen[g].status # "ABSENT" /\ gen[g].attempts \in Nat
    BY <1>1 DEF Fence, NamesStarted, Inv, TypeOK, GenRows
  <1>5. NamesStarted'
    <2>1. \A h \in Generations : job'[h].state # "none" => job[h].state # "none"
      <3>1. \A h \in Generations \ {g} : job'[h] = job[h]
        BY DEF TakeJob, Inv, TypeOK
      <3> QED BY <1>1, <3>1
    <2> QED BY <1>1, <1>2, <1>3, <1>4, <2>1 DEF Fence, NamesStarted, At, Is
  <1>6. TokensCounted'
    BY <1>1, <1>2, <1>3, <1>4 DEF Fence, TokensCounted, Is
  <1>7. TokensDiffer'
    BY <1>1, <1>2, <1>3 DEF Fence, TokensDiffer, Is
  <1> QED BY <1>5, <1>6, <1>7 DEF Fence

\* A claim's token is larger than every token of the generation so far.
LEMMA ClaimKeepsFence ==
    ASSUME Inv, Fence, NEW w \in Workers, Claim(w)
    PROVE  Fence'
  <1> DEFINE g == worker[w].gen
             token == gen[g].attempts + 1
             claimed == [gen[g] EXCEPT !.status = "PROCESSING", !.token = token,
                                       !.lease = JobTimeout, !.attempts = token]
             running == [worker[w] EXCEPT !.step = "run", !.token = token, !.deadline = JobTimeout]
  <1>1. Is(w, "claim") /\ g \in Generations /\ Claimable(g)
    BY BusyWorker DEF Claim, Is, Inv
  <1>2. /\ gen \in [Generations -> GenRows] /\ worker \in [Workers -> WorkerRows]
        /\ gen[g].attempts \in Nat
    BY <1>1, InFlightType DEF Inv, TypeOK, GenRows
  <1>3. gen' = [gen EXCEPT ![g] = claimed] /\ worker' = [worker EXCEPT ![w] = running]
        /\ UNCHANGED <<job, call>>
    BY DEF Claim
  <1>4. claimed.status = "PROCESSING" /\ claimed.token = token /\ claimed.attempts = token
    BY <1>1, <1>2 DEF GenRows
  <1>5. running.step = "run" /\ running.gen = g /\ running.token = token
    BY <1>2 DEF WorkerRows
  <1> HIDE DEF claimed, running
  <1>6. gen'[g] = claimed /\ \A h \in Generations \ {g} : gen'[h] = gen[h]
    BY <1>1, <1>2, <1>3
  <1>7. worker'[w] = running /\ \A v \in Workers \ {w} : worker'[v] = worker[v]
    BY <1>2, <1>3
  <1>8. gen[g].status # "DELETED" /\ token > 0
    BY <1>1, <1>2 DEF Claimable
  <1>9. \A v \in Workers : ~Is(v, "idle") /\ worker[v].gen = g =>
            worker[v].token \in Nat /\ worker[v].token < token
    <2>1. \A v \in Workers : worker[v].token \in Nat
      BY <1>2 DEF WorkerRows
    <2>2. \A v \in Workers : ~Is(v, "idle") /\ worker[v].gen = g => worker[v].token <= gen[g].attempts
      BY <1>8 DEF Fence, TokensCounted
    <2> QED BY <1>2, <2>1, <2>2
  <1>10. NamesStarted'
    BY <1>1, <1>3, <1>4, <1>5, <1>6, <1>7 DEF Fence, NamesStarted, At, Is
  <1>11. TokensCounted'
    <2>1. \A h \in Generations : /\ gen'[h].token <= gen'[h].attempts
                                 /\ gen'[h].status = "PROCESSING" => gen'[h].token > 0
      BY <1>2, <1>4, <1>6, <1>8 DEF Fence, TokensCounted
    <2>2. ASSUME NEW v \in Workers, ~Is(v, "idle")', gen'[worker'[v].gen].status # "DELETED"
          PROVE  worker'[v].token <= gen'[worker'[v].gen].attempts
      <3>1. CASE v = w
        BY <1>2, <1>4, <1>5, <1>6, <1>7, <3>1
      <3>2. CASE v # w
        <4>1. worker'[v] = worker[v] /\ ~Is(v, "idle")
          BY <1>7, <2>2, <3>2 DEF Is
        <4>2. CASE worker[v].gen = g
          BY <1>2, <1>4, <1>6, <1>9, <4>1, <4>2
        <4>3. CASE worker[v].gen # g
          <5>1. worker[v].gen \in Generations
            BY <4>1, BusyWorker DEF Inv
          <5> QED BY <1>6, <2>2, <4>1, <4>3, <5>1 DEF Fence, TokensCounted
        <4> QED BY <4>2, <4>3
      <3> QED BY <3>1, <3>2
    <2> QED BY <2>1, <2>2 DEF TokensCounted, Is
  <1>12. TokensDiffer'
    <2> SUFFICES ASSUME NEW v \in Workers, NEW u \in Workers,
                        ~Is(v, "idle")', ~Is(u, "idle")',
                        worker'[v].gen = worker'[u].gen, worker'[v].token = worker'[u].token
                 PROVE  v = u \/ worker'[v].token = 0
      BY DEF TokensDiffer, Is
    <2>1. CASE v # w /\ u # w
      BY <1>7, <2>1 DEF Fence, TokensDiffer, Is
    <2>2. CASE v = w /\ u # w
      BY <1>2, <1>5, <1>7, <1>9, <2>2 DEF Is
    <2>3. CASE v # w /\ u = w
      BY <1>2, <1>5, <1>7, <1>9, <2>3 DEF Is
    <2> QED BY <2>1, <2>2, <2>3
  <1> QED BY <1>10, <1>11, <1>12 DEF Fence

-----------------------------------------------------------------------------
LEMMA InitFence == Init => Fence
  <1> SUFFICES ASSUME Init PROVE Fence
    OBVIOUS
  <1>1. /\ \A c \in Callers : At(c, "idle")
        /\ \A w \in Workers : Is(w, "idle")
        /\ \A g \in Generations : job[g].state = "none"
    BY DEF Init, IdleCall, IdleWorker, NoJob, At, Is
  <1>2. \A g \in Generations : gen[g].status = "ABSENT" /\ gen[g].token = 0 /\ gen[g].attempts = 0
    BY DEF Init, NoRow
  <1> QED BY <1>1, <1>2 DEF Fence, NamesStarted, TokensCounted, TokensDiffer

LEMMA NextFence == Inv /\ Fence /\ [Next]_vars => Fence'
  <1> SUFFICES ASSUME Inv, Fence, [Next]_vars PROVE Fence'
    OBVIOUS
  <1>1. ASSUME NEW c \in Callers, NEW g \in Generations, NEW r \in Reports, NEW k \in Keys,
               StartNew(c, g, r, k)
        PROVE  Fence'
    BY <1>1, StartKeepsFence
  <1>2. ASSUME NEW c \in Callers, NEW g \in Generations, StartDuplicate(c, g) \/ CancelBegin(c, g)
        PROVE  Fence'
    BY <1>2, PickingKeepsFence
  <1>3. ASSUME NEW c \in Callers,
               CallStep(c) \/ CancelRemoveError(c) \/ CallDbError(c) \/ ApiCrash(c)
        PROVE  Fence'
    BY <1>3, CallsKeepFence DEF CallStep
  <1>4. ASSUME NEW w \in Workers,
               \/ WorkerStep(w)
               \/ \E retryable \in BOOLEAN : PipelineError(w, retryable)
               \/ UploadError(w) \/ FinalizeAckLost(w) \/ FinalizeError(w)
               \/ WorkerDbError(w) \/ WorkerCrash(w)
        PROVE  Fence'
    BY <1>4, WorkersKeepFence, ClaimKeepsFence DEF WorkerStep
  <1>5. ASSUME NEW w \in Workers, NEW g \in Generations, TakeJob(w, g)
        PROVE  Fence'
    BY <1>5, TakeKeepsFence
  <1>6. CASE \/ \E w \in Workers : RenewLease(w)
             \/ \E g \in Generations : StalledJob(g)
             \/ \E key \in cleanup : RetryCleanup(key)
             \/ Tick
             \/ UNCHANGED vars
    BY <1>6, EnvironmentKeepsFence
  <1> QED BY <1>1, <1>2, <1>3, <1>4, <1>5, <1>6 DEF Next

\* However late a suspended or replaced worker wakes up, and whatever fails in
\* between, at most one worker passes the fence of a generation: its updates of
\* progress, retry, failure and publication are the only ones that match the row.
THEOREM LifecycleOneOwner == Spec => []OneOwner
  <1>1. Inv /\ Fence => OneOwner
    <2> SUFFICES ASSUME Inv, Fence, NEW w \in Workers, NEW v \in Workers,
                        ~Is(w, "idle"), ~Is(v, "idle"), worker[w].gen = worker[v].gen,
                        HoldsToken(w), HoldsToken(v)
                 PROVE  w = v
      BY DEF OneOwner
    <2>1. worker[w].gen \in Generations
      BY BusyWorker DEF Inv
    <2>2. worker[w].token = gen[worker[w].gen].token /\ worker[v].token = gen[worker[w].gen].token
      BY DEF HoldsToken
    <2>3. gen[worker[w].gen].token > 0
      BY <2>1 DEF HoldsToken, Fence, TokensCounted
    <2> QED BY <2>2, <2>3 DEF Fence, TokensDiffer
  <1>2. Init => Fence
    BY InitFence
  <1>3. Inv /\ Fence /\ [Next]_vars => Fence'
    BY NextFence
  <1>4. Spec => [](Inv /\ Fence)
    BY <1>2, <1>3, LifecycleInvariant, PTL DEF Spec
  <1> QED BY <1>1, <1>4, PTL

-----------------------------------------------------------------------------
(* The publication.                                                        *)


\* While a generation is active, the report it names has no output.
Unpublished ==
    /\ \A g \in Generations : gen[g].status \in Active => ReportOf(g) \in Reports
    /\ \A r \in Reports : report[r].output # NULL =>
        /\ report[r].status = "READY"
        /\ \A g \in Generations : gen[g].status \in Active => ReportOf(g) # r

\* Steps that begin nothing and publish nothing.
NothingBegins ==
    /\ \A g \in Generations : gen'[g].status \in Active =>
        gen[g].status \in Active /\ gen'[g].report = gen[g].report
    /\ \A r \in Reports : report'[r].output # NULL =>
        report[r].output # NULL /\ (report[r].status = "READY" => report'[r].status = "READY")

LEMMA NothingBeginsKeeps ==
    ASSUME Unpublished, NothingBegins
    PROVE  Unpublished'
  BY DEF Unpublished, NothingBegins, ReportOf

LEMMA UntouchedKeeps ==
    ASSUME Unpublished, UNCHANGED <<gen, report>>
    PROVE  Unpublished'
  BY DEF Unpublished, ReportOf

-----------------------------------------------------------------------------
LEMMA StartKeepsUnpublished ==
    ASSUME Inv, Unpublished, NEW c \in Callers, NEW g \in Generations, NEW r \in Reports,
           NEW k \in Keys, StartNew(c, g, r, k)
    PROVE  Unpublished'
  <1> DEFINE row == [status |-> "QUEUED", report |-> r, key |-> k,
                     prior |-> report[r].status, enqueued |-> FALSE,
                     token |-> 0, lease |-> 0, attempts |-> 0]
  <1>1. /\ gen' = [gen EXCEPT ![g] = row]
        /\ report' = [report EXCEPT ![r].status = "QUEUED"]
        /\ report[r].status \in {"DRAFT", "FAILED"}
    BY DEF StartNew, Eligible
  <1>2. row.report = r
    OBVIOUS
  <1> HIDE DEF row
  <1>3. gen'[g] = row /\ \A h \in Generations \ {g} : gen'[h] = gen[h]
    BY <1>1 DEF Inv, TypeOK
  <1>4. \A s \in Reports : report'[s].output = report[s].output
                            /\ (s # r => report'[s].status = report[s].status)
    BY <1>1 DEF Inv, TypeOK, ReportRows
  <1>5. report'[r].output = NULL
    BY <1>1, <1>4 DEF Unpublished
  <1> QED BY <1>2, <1>3, <1>4, <1>5 DEF Unpublished, ReportOf

LEMMA CallsKeepUnpublished ==
    ASSUME Inv, Unpublished, NEW c \in Callers,
           MarkEnqueued(c) \/ CompensateWrite(c) \/ CancelCommit(c)
    PROVE  Unpublished'
  <1> DEFINE g == call[c].gen
             r == ReportOf(g)
  <1>1. g \in Generations
    BY BusyCall DEF MarkEnqueued, CompensateWrite, CancelCommit, At, Inv
  <1>2. gen \in [Generations -> GenRows] /\ report \in [Reports -> ReportRows]
    BY DEF Inv, TypeOK
  <1>3. CASE UNCHANGED <<gen, report>>
    BY <1>3, UntouchedKeeps
  <1>4. CASE MarkEnqueued(c)
    <2>1. NothingBegins
      BY <1>1, <1>2, <1>4 DEF MarkEnqueued, NothingBegins, GenRows
    <2> QED BY <2>1, NothingBeginsKeeps
  <1>5. CASE CompensateWrite(c) /\ Exists(g)
    <2> DEFINE OutputOf(o) == IF o # NULL /\ o[1] = g THEN NULL ELSE o
    <2>1. /\ gen' = [gen EXCEPT ![g] = NoRow("DELETED")]
          /\ report' = [report EXCEPT ![r].status = IF @ = "QUEUED" THEN gen[g].prior ELSE @,
                                      ![r].output = OutputOf(@)]
      BY <1>5 DEF CompensateWrite
    <2>2. \A h \in Generations : gen'[h].status \in Active =>
            gen[h].status \in Active /\ gen'[h].report = gen[h].report
      BY <1>1, <1>2, <2>1 DEF NoRow, Active
    <2>3. \A s \in Reports : report'[s].output # NULL =>
            report[s].output # NULL /\ (report[s].status = "READY" => report'[s].status = "READY")
      BY <1>2, <2>1 DEF ReportRows
    <2>4. NothingBegins
      BY <2>2, <2>3 DEF NothingBegins
    <2> QED BY <2>4, NothingBeginsKeeps
  <1>6. CASE CancelCommit(c) /\ Cancellable(g)
    <2>1. /\ gen' = [gen EXCEPT ![g].status = "CANCELLED"]
          /\ report' = [report EXCEPT ![r].status = gen[g].prior]
          /\ gen[g].status \in Active
      BY <1>6 DEF CancelCommit, Cancellable, Active
    <2>2. \A h \in Generations : gen'[h].status \in Active =>
            gen[h].status \in Active /\ gen'[h].report = gen[h].report
      BY <1>1, <1>2, <2>1 DEF GenRows, Active
    <2>3. r \in Reports /\ report[r].output = NULL
      BY <1>1, <2>1 DEF Unpublished
    <2>4. \A s \in Reports : report'[s].output # NULL =>
            report[s].output # NULL /\ (report[s].status = "READY" => report'[s].status = "READY")
      BY <1>2, <2>1, <2>3 DEF ReportRows
    <2>5. NothingBegins
      BY <2>2, <2>4 DEF NothingBegins
    <2> QED BY <2>5, NothingBeginsKeeps
  <1> QED BY <1>3, <1>4, <1>5, <1>6 DEF CompensateWrite, CancelCommit

\* Claims, requeues and failures change the report of an active generation,
\* which has no output.
LEMMA WorkersKeepUnpublished ==
    ASSUME Inv, Unpublished, NEW w \in Workers, Claim(w) \/ PrepareRetry(w) \/ FailGeneration(w)
    PROVE  Unpublished'
  <1> DEFINE g == worker[w].gen
             r == ReportOf(g)
  <1>1. g \in Generations
    BY BusyWorker DEF Claim, PrepareRetry, FailGeneration, Is, Inv
  <1>2. gen \in [Generations -> GenRows] /\ report \in [Reports -> ReportRows]
    BY DEF Inv, TypeOK
  <1>3. CASE UNCHANGED <<gen, report>>
    BY <1>3, UntouchedKeeps
  <1>4. CASE ~UNCHANGED <<gen, report>>
    <2>1. gen[g].status \in Active
      BY <1>4 DEF Claim, Claimable, PrepareRetry, FailGeneration, Owns, HoldsToken, Active
    <2>2. r \in Reports /\ report[r].output = NULL
      BY <1>1, <2>1 DEF Unpublished
    <2>3. gen'[g].report = gen[g].report /\ \A h \in Generations \ {g} : gen'[h] = gen[h]
      <3>1. CASE Claim(w)
        BY <1>1, <1>2, <3>1 DEF Claim, GenRows
      <3>2. ASSUME NEW status \in GenStatus, gen' = [gen EXCEPT ![g] = [@ EXCEPT !.status = status, !.token = 0, !.lease = 0]]
            PROVE  gen'[g].report = gen[g].report /\ \A h \in Generations \ {g} : gen'[h] = gen[h]
        <4>1. gen'[g] = [gen[g] EXCEPT !.status = status, !.token = 0, !.lease = 0]
              /\ \A h \in Generations \ {g} : gen'[h] = gen[h]
          BY <1>1, <1>2, <3>2
        <4>2. gen[g] \in GenRows /\ 0 \in Nat /\ 0 \in Int
          BY <1>1, <1>2
        <4> QED BY <4>1, <4>2, LeaseFields
      <3>3. CASE PrepareRetry(w)
        BY <1>4, <3>2, <3>3 DEF PrepareRetry, GenStatus
      <3>4. CASE FailGeneration(w)
        BY <1>4, <3>2, <3>4 DEF FailGeneration, GenStatus
      <3> QED BY <3>1, <3>3, <3>4
    <2>4. \A h \in Generations : gen'[h].status \in Active =>
            gen[h].status \in Active /\ gen'[h].report = gen[h].report
      BY <2>1, <2>3
    <2>5. report'[r].output = report[r].output /\ \A s \in Reports \ {r} : report'[s] = report[s]
      <3>1. CASE Claim(w)
        BY <1>2, <2>2, <3>1 DEF Claim, ReportRows
      <3>2. CASE PrepareRetry(w)
        BY <1>2, <1>4, <2>2, <3>2 DEF PrepareRetry, ReportRows
      <3>3. CASE FailGeneration(w)
        <4> DEFINE status == IF report[r].output # NULL THEN "READY" ELSE "FAILED"
                   failed == [Throttled(report[r]) EXCEPT !.status = status]
        <4>1. report' = [report EXCEPT ![r] = failed]
          BY <1>4, <3>3 DEF FailGeneration
        <4>2. failed.output = report[r].output
          BY <1>2, <2>2 DEF Throttled, ReportRows
        <4> HIDE DEF failed
        <4> QED BY <1>2, <2>2, <4>1, <4>2
      <3> QED BY <3>1, <3>2, <3>3
    <2>6. \A s \in Reports : report'[s].output # NULL => s # r /\ report'[s] = report[s]
      BY <2>2, <2>5
    <2>7. NothingBegins
      BY <2>4, <2>6 DEF NothingBegins
    <2> QED BY <2>7, NothingBeginsKeeps
  <1> QED BY <1>3, <1>4

\* Publication ends the only active generation of its report.
LEMMA PublishKeepsUnpublished ==
    ASSUME Inv, Unpublished, NEW w \in Workers, Is(w, "commit"), Publish(w)
    PROVE  Unpublished'
  <1> DEFINE g == worker[w].gen
             r == ReportOf(g)
             done == [gen[g] EXCEPT !.status = "COMPLETED", !.token = 0, !.lease = 0]
             ready == Published(report[r], OutputKey(w))
  <1>1. g \in Generations /\ gen[g].status \in Active
    BY BusyWorker DEF Publish, HoldsToken, Is, Inv, Active
  <1>2. gen \in [Generations -> GenRows] /\ report \in [Reports -> ReportRows] /\ r \in Reports
    BY <1>1 DEF Inv, TypeOK, Unpublished
  <1>3. gen' = [gen EXCEPT ![g] = done] /\ report' = [report EXCEPT ![r] = ready]
    BY DEF Publish
  <1>4. done.status = "COMPLETED" /\ ready.status = "READY"
    BY <1>1, <1>2 DEF GenRows, Published, ReportRows
  <1> HIDE DEF done, ready
  <1>5. gen'[g].status \notin Active /\ \A h \in Generations \ {g} : gen'[h] = gen[h]
    BY <1>1, <1>2, <1>3, <1>4 DEF Active
  <1>6. \A h \in Generations \ {g} : gen[h].status \in Active => ReportOf(h) # r
    BY <1>1 DEF Inv, OneActivePerReport
  <1>7. report'[r].status = "READY" /\ \A s \in Reports \ {r} : report'[s] = report[s]
    BY <1>2, <1>3, <1>4
  <1> QED BY <1>5, <1>6, <1>7 DEF Unpublished, ReportOf

LEMMA TimeKeepsUnpublished ==
    ASSUME Inv, Unpublished, Tick \/ \E w \in Workers : RenewLease(w)
    PROVE  Unpublished'
  <1>1. gen \in [Generations -> GenRows] /\ report \in [Reports -> ReportRows]
    BY DEF Inv, TypeOK
  <1>2. \A g \in Generations : gen'[g].status = gen[g].status /\ gen'[g].report = gen[g].report
    <2>1. CASE Tick
      BY <1>1, <2>1 DEF Tick, GenRows
    <2>2. CASE \E w \in Workers : RenewLease(w)
      BY <1>1, <2>2 DEF RenewLease, GenRows
    <2> QED BY <2>1, <2>2
  <1>3. \A r \in Reports : report'[r].output = report[r].output /\ report'[r].status = report[r].status
    <2>1. CASE Tick
      BY <1>1, <2>1 DEF Tick, ReportRows
    <2>2. CASE \E w \in Workers : RenewLease(w)
      BY <2>2 DEF RenewLease
    <2> QED BY <2>1, <2>2
  <1>4. NothingBegins
    BY <1>2, <1>3 DEF NothingBegins
  <1> QED BY <1>4, NothingBeginsKeeps

LEMMA InitUnpublished == Init => Unpublished
  BY DEF Init, Unpublished, NoRow, Active

LEMMA NextUnpublished == Inv /\ Unpublished /\ [Next]_vars => Unpublished'
  <1> SUFFICES ASSUME Inv, Unpublished, [Next]_vars PROVE Unpublished'
    OBVIOUS
  <1>1. CASE UNCHANGED <<gen, report>>
    BY <1>1, UntouchedKeeps
  <1>2. ASSUME NEW c \in Callers, NEW g \in Generations, NEW r \in Reports, NEW k \in Keys,
               StartNew(c, g, r, k)
        PROVE  Unpublished'
    BY <1>2, StartKeepsUnpublished
  <1>3. ASSUME NEW c \in Callers, NEW g \in Generations, StartDuplicate(c, g) \/ CancelBegin(c, g)
        PROVE  Unpublished'
    BY <1>1, <1>3 DEF StartDuplicate, CancelBegin
  <1>4. ASSUME NEW c \in Callers,
               CallStep(c) \/ CancelRemoveError(c) \/ CallDbError(c) \/ ApiCrash(c)
        PROVE  Unpublished'
    BY <1>1, <1>4, CallsKeepUnpublished
       DEF CallStep, Enqueue, EnqueueError, CompensateRead, CancelRemove, CancelRemoveError,
           CallDbError, ApiCrash
  <1>5. ASSUME NEW w \in Workers, WorkerStep(w)
        PROVE  Unpublished'
    <2>1. CASE Claim(w) \/ PrepareRetry(w) \/ FailGeneration(w)
      BY <2>1, WorkersKeepUnpublished
    <2>2. CASE FinalizeCommit(w)
      BY <2>2, PublishKeepsUnpublished DEF FinalizeCommit, Publish
    <2> QED BY <1>1, <1>5, <2>1, <2>2
            DEF WorkerStep, ClaimRefused, RunLost, DeadlineExceeded, Upload, FinalizeCheck,
                FinalizeLost, OrphanCleanup, ResultAfterClaimLoss, JobCompleted, JobFailed
  <1>6. ASSUME NEW w \in Workers,
               \/ \E retryable \in BOOLEAN : PipelineError(w, retryable)
               \/ UploadError(w) \/ FinalizeAckLost(w) \/ FinalizeError(w)
               \/ WorkerDbError(w) \/ WorkerCrash(w)
        PROVE  Unpublished'
    <2>1. CASE FinalizeAckLost(w)
      BY <2>1, PublishKeepsUnpublished DEF FinalizeAckLost, Publish
    <2> QED BY <1>1, <1>6, <2>1
            DEF PipelineError, UploadError, FinalizeError, WorkerDbError, WorkerCrash
  <1>7. CASE Tick \/ \E w \in Workers : RenewLease(w)
    BY <1>7, TimeKeepsUnpublished
  <1>8. CASE \/ \E w \in Workers, g \in Generations : TakeJob(w, g)
             \/ \E g \in Generations : StalledJob(g)
             \/ \E key \in cleanup : RetryCleanup(key)
             \/ UNCHANGED vars
    BY <1>1, <1>8 DEF TakeJob, StalledJob, RetryCleanup, vars
  <1> QED BY <1>2, <1>3, <1>4, <1>5, <1>6, <1>7, <1>8 DEF Next

\* finalizeSuccess never fails on the unique output of the report or on the
\* credit: a worker that holds the token when it commits finds the output free
\* and the credit reserved and unsettled, under every combination of faults.
THEOREM LifecyclePublicationNeverBlocked == Spec => []PublicationNeverBlocked
  <1>1. Inv /\ Unpublished => PublicationNeverBlocked
    <2> SUFFICES ASSUME Inv, Unpublished, NEW w \in Workers, Is(w, "commit"), HoldsToken(w)
                 PROVE  CanPublish(worker[w].gen)
      BY DEF PublicationNeverBlocked
    <2> DEFINE g == worker[w].gen
    <2>1. g \in Generations /\ gen[g].status = "PROCESSING"
      BY BusyWorker DEF HoldsToken, Is, Inv
    <2>2. report[ReportOf(g)].output = NULL
      BY <2>1 DEF Unpublished, Active
    <2>3. reservation[g] # NULL /\ settled[g] = {}
      BY <2>1 DEF Inv, SettlementMatchesOutcome, OutcomeSettled, Active
    <2> QED BY <2>2, <2>3 DEF CanPublish, findTerminal
  <1>2. Spec => [](Inv /\ Unpublished)
    BY InitUnpublished, NextUnpublished, LifecycleInvariant, PTL DEF Spec
  <1> QED BY <1>1, <1>2, PTL

-----------------------------------------------------------------------------
(* What is published stays in storage.                                     *)

Holding == {"run", "uploaded", "commit", "clean"}

\* A published key is stored, no cleanup names it, and its generation is
\* completed; the key of a worker that may still publish it is not to be
\* cleaned up; the key of a worker that may clean up is not published; and the
\* keys to be cleaned up are of claims that have been.
Stored ==
    /\ \A r \in Reports : report[r].output # NULL =>
        /\ report[r].output \in objects
        /\ report[r].output \notin cleanup
        /\ gen[report[r].output[1]].status = "COMPLETED"
        /\ gen[report[r].output[1]].report = r
    /\ \A w \in Workers :
        /\ worker[w].step \in {"uploaded", "commit"} => OutputKey(w) \in objects
        /\ worker[w].step \in Holding \ {"clean"} => OutputKey(w) \notin cleanup
        /\ worker[w].step \in Holding =>
            \A r \in Reports : report[r].output # NULL => report[r].output # OutputKey(w)
    /\ \A key \in cleanup :
        /\ gen[key[1]].status # "ABSENT"
        /\ gen[key[1]].status # "DELETED" => key[2] <= gen[key[1]].attempts

\* Steps that publish nothing keep or lose outputs, of generations that are
\* completed and stay it.
OutputsFade ==
    \A r \in Reports : report'[r].output # NULL =>
        /\ report'[r].output = report[r].output
        /\ gen'[report[r].output[1]].status = "COMPLETED"
        /\ gen'[report[r].output[1]].report = r

\* A generation that has been started stays so, and its claims only grow until
\* its row is gone.
RowsAge ==
    \A g \in Generations : gen[g].status # "ABSENT" =>
        /\ gen'[g].status # "ABSENT"
        /\ gen'[g].status # "DELETED" =>
            gen[g].status # "DELETED" /\ gen[g].attempts <= gen'[g].attempts

\* Workers that hold a key held it before.
WorkersCalm ==
    \A w \in Workers : worker'[w].step \in Holding =>
        /\ worker[w].step \in Holding
        /\ worker'[w].gen = worker[w].gen /\ worker'[w].token = worker[w].token
        /\ worker'[w].step \in {"uploaded", "commit"} => worker[w].step \in {"uploaded", "commit"}
        /\ worker'[w].step # "clean" => worker[w].step # "clean"

LEMMA CleanupAges ==
    ASSUME Inv, Inv', Stored, RowsAge
    PROVE  \A key \in cleanup :
              /\ gen'[key[1]].status # "ABSENT"
              /\ gen'[key[1]].status # "DELETED" => key[2] <= gen'[key[1]].attempts
  <1> SUFFICES ASSUME NEW key \in cleanup
               PROVE  /\ gen'[key[1]].status # "ABSENT"
                      /\ gen'[key[1]].status # "DELETED" => key[2] <= gen'[key[1]].attempts
    OBVIOUS
  <1>1. key[1] \in Generations /\ key[2] \in Nat
    BY DEF Inv, TypeOK, OutputKeys
  <1>2. gen[key[1]].attempts \in Nat
    BY <1>1 DEF Inv, TypeOK, GenRows
  <1>3. gen'[key[1]].status # "ABSENT"
    BY <1>1 DEF Stored, RowsAge
  <1>4. ASSUME gen'[key[1]].status # "DELETED"
        PROVE  key[2] <= gen'[key[1]].attempts
    <2>1. key[2] <= gen[key[1]].attempts /\ gen[key[1]].attempts <= gen'[key[1]].attempts
      BY <1>1, <1>4 DEF Stored, RowsAge
    <2>2. gen'[key[1]].attempts \in Nat
      BY <1>1 DEF Inv, TypeOK, GenRows
    <2> QED BY <1>1, <1>2, <2>1, <2>2
  <1> QED BY <1>3, <1>4

LEMMA CalmKeepsStored ==
    ASSUME Inv, Inv', Stored, OutputsFade, RowsAge, WorkersCalm,
           objects \subseteq objects', cleanup' = cleanup
    PROVE  Stored'
  <1>1. \A r \in Reports : report'[r].output # NULL =>
            /\ report'[r].output \in objects'
            /\ report'[r].output \notin cleanup'
            /\ gen'[report'[r].output[1]].status = "COMPLETED"
            /\ gen'[report'[r].output[1]].report = r
    BY DEF Stored, OutputsFade
  <1>2. ASSUME NEW w \in Workers
        PROVE  /\ worker'[w].step \in {"uploaded", "commit"} => OutputKey(w)' \in objects'
               /\ worker'[w].step \in Holding \ {"clean"} => OutputKey(w)' \notin cleanup'
               /\ worker'[w].step \in Holding =>
                    \A r \in Reports : report'[r].output # NULL => report'[r].output # OutputKey(w)'
    BY DEF Stored, WorkersCalm, OutputsFade, OutputKey, Holding
  <1>3. \A key \in cleanup' :
            /\ gen'[key[1]].status # "ABSENT"
            /\ gen'[key[1]].status # "DELETED" => key[2] <= gen'[key[1]].attempts
    BY CleanupAges
  <1> QED BY <1>1, <1>2, <1>3 DEF Stored

\* The three reasons for which a step is calm.
LEMMA SameTables ==
    ASSUME Inv, Stored, UNCHANGED <<report, gen>>
    PROVE  OutputsFade /\ RowsAge
  <1>1. \A g \in Generations : gen[g].attempts \in Nat
    BY DEF Inv, TypeOK, GenRows
  <1> QED BY <1>1 DEF OutputsFade, RowsAge, Stored

LEMMA CalmWorkers ==
    ASSUME Inv,
           \/ worker' = worker
           \/ \E w \in Workers, step \in WorkerSteps :
                /\ Go(w, step)
                /\ step \in Holding => worker[w].step = "uploaded" /\ step = "commit"
           \/ \E w \in Workers, after \in WorkerSteps :
                GoClean(w, after) /\ worker[w].step \in Holding
           \/ \E w \in Workers : Leave(w)
    PROVE  WorkersCalm
  <1>1. worker \in [Workers -> WorkerRows]
    BY InFlightType DEF Inv
  <1>2. CASE worker' = worker
    BY <1>2 DEF WorkersCalm
  <1>3. ASSUME NEW w \in Workers, NEW step \in WorkerSteps, Go(w, step),
               step \in Holding => worker[w].step = "uploaded" /\ step = "commit"
        PROVE  WorkersCalm
    <2> DEFINE row == [worker[w] EXCEPT !.step = step]
    <2>1. row.step = step /\ row.gen = worker[w].gen /\ row.token = worker[w].token
      BY <1>1 DEF WorkerRows
    <2>2. worker' = [worker EXCEPT ![w] = row]
      BY <1>3 DEF Go
    <2> HIDE DEF row
    <2> QED BY <1>1, <1>3, <2>1, <2>2 DEF WorkersCalm, Holding
  <1>4. ASSUME NEW w \in Workers, NEW after \in WorkerSteps, GoClean(w, after),
               worker[w].step \in Holding
        PROVE  WorkersCalm
    <2> DEFINE row == [worker[w] EXCEPT !.step = "clean", !.after = after]
    <2>1. row.step = "clean" /\ row.gen = worker[w].gen /\ row.token = worker[w].token
      BY <1>1 DEF WorkerRows
    <2>2. worker' = [worker EXCEPT ![w] = row]
      BY <1>4 DEF GoClean
    <2> HIDE DEF row
    <2> QED BY <1>1, <1>4, <2>1, <2>2 DEF WorkersCalm, Holding
  <1>5. ASSUME NEW w \in Workers, Leave(w)
        PROVE  WorkersCalm
    BY <1>1, <1>5 DEF Leave, IdleWorker, WorkersCalm, Holding
  <1> QED BY <1>2, <1>3, <1>4, <1>5

-----------------------------------------------------------------------------
(* Requests and time.                                                      *)

LEMMA StartKeepsStored ==
    ASSUME Inv, Inv', Stored, NEW c \in Callers, NEW g \in Generations, NEW r \in Reports,
           NEW k \in Keys, StartNew(c, g, r, k)
    PROVE  Stored'
  <1> DEFINE row == [status |-> "QUEUED", report |-> r, key |-> k,
                     prior |-> report[r].status, enqueued |-> FALSE,
                     token |-> 0, lease |-> 0, attempts |-> 0]
  <1>1. /\ gen' = [gen EXCEPT ![g] = row] /\ gen[g].status = "ABSENT"
        /\ report' = [report EXCEPT ![r].status = "QUEUED"]
        /\ UNCHANGED <<worker, objects, cleanup>>
    BY DEF StartNew
  <1>2. gen \in [Generations -> GenRows] /\ report \in [Reports -> ReportRows]
    BY DEF Inv, TypeOK
  <1> HIDE DEF row
  <1>3. \A h \in Generations \ {g} : gen'[h] = gen[h]
    BY <1>1, <1>2
  <1>4. \A s \in Reports : report'[s].output = report[s].output
    BY <1>1, <1>2 DEF ReportRows
  <1>5. \A s \in Reports : report[s].output # NULL => report[s].output[1] \in Generations \ {g}
    BY <1>1, <1>2 DEF Stored, ReportRows, OutputKeys
  <1>6. OutputsFade
    BY <1>3, <1>4, <1>5 DEF OutputsFade, Stored
  <1>7. RowsAge
    BY <1>1, <1>2, <1>3 DEF RowsAge, GenRows
  <1> QED BY <1>1, <1>6, <1>7, CalmWorkers, CalmKeepsStored

LEMMA CallsKeepStored ==
    ASSUME Inv, Inv', Fence, Stored, NEW c \in Callers,
           MarkEnqueued(c) \/ CompensateWrite(c) \/ CancelCommit(c)
    PROVE  Stored'
  <1> DEFINE g == call[c].gen
             r == ReportOf(g)
  <1>1. g \in Generations /\ UNCHANGED <<worker, objects, cleanup>>
    BY BusyCall DEF MarkEnqueued, CompensateWrite, CancelCommit, At, Inv
  <1>2. gen \in [Generations -> GenRows] /\ report \in [Reports -> ReportRows]
    BY DEF Inv, TypeOK
  <1>3. \A s \in Reports : report[s].output # NULL => report[s].output[1] \in Generations
    BY <1>2 DEF ReportRows, OutputKeys
  <1>4. OutputsFade /\ RowsAge
    <2>1. CASE UNCHANGED <<gen, report>>
      BY <2>1, SameTables
    <2>2. CASE MarkEnqueued(c)
      <3>1. report' = report /\ \A h \in Generations :
                /\ gen'[h].status = gen[h].status /\ gen'[h].attempts = gen[h].attempts
                /\ gen'[h].report = gen[h].report
        BY <1>2, <2>2 DEF MarkEnqueued, GenRows
      <3> QED BY <1>2, <1>3, <3>1 DEF OutputsFade, RowsAge, Stored, GenRows
    <2>3. CASE CompensateWrite(c) /\ Exists(g)
      <3> DEFINE OutputOf(o) == IF o # NULL /\ o[1] = g THEN NULL ELSE o
      <3>1. /\ gen' = [gen EXCEPT ![g] = NoRow("DELETED")]
            /\ report' = [report EXCEPT ![r].status = IF @ = "QUEUED" THEN gen[g].prior ELSE @,
                                        ![r].output = OutputOf(@)]
        BY <2>3 DEF CompensateWrite
      <3>2. \A s \in Reports : report'[s].output # NULL =>
                report'[s].output = report[s].output /\ (s = r => report[s].output[1] # g)
        BY <1>2, <3>1 DEF ReportRows
      <3>3. gen'[g].status = "DELETED" /\ \A h \in Generations \ {g} : gen'[h] = gen[h]
        BY <1>1, <1>2, <3>1 DEF NoRow
      <3>4. RowsAge
        BY <1>2, <3>3 DEF RowsAge, GenRows
      <3>5. ASSUME NEW s \in Reports, report'[s].output # NULL
            PROVE  /\ report'[s].output = report[s].output
                   /\ report[s].output[1] \in Generations \ {g}
        <4>1. report[s].output # NULL /\ (s = r => report[s].output[1] # g)
          BY <3>2, <3>5
        <4>2. gen[report[s].output[1]].report = s
          BY <4>1 DEF Stored
        <4> QED BY <1>3, <3>2, <3>5, <4>1, <4>2 DEF ReportOf
      <3>6. OutputsFade
        BY <3>3, <3>5 DEF OutputsFade, Stored
      <3> QED BY <3>4, <3>6
    <2>4. CASE CancelCommit(c) /\ Cancellable(g)
      <3>1. /\ gen' = [gen EXCEPT ![g].status = "CANCELLED"] /\ gen[g].status = "QUEUED"
            /\ report' = [report EXCEPT ![r].status = gen[g].prior]
        BY <2>4 DEF CancelCommit, Cancellable
      <3>2. \A s \in Reports : report'[s].output = report[s].output
        BY <1>2, <3>1 DEF ReportRows
      <3>3. /\ \A h \in Generations \ {g} : gen'[h] = gen[h]
            /\ gen'[g].status = "CANCELLED" /\ gen'[g].attempts = gen[g].attempts
            /\ gen'[g].report = gen[g].report
        BY <1>1, <1>2, <3>1 DEF GenRows
      <3>4. OutputsFade
        BY <1>3, <3>1, <3>2, <3>3 DEF OutputsFade, Stored
      <3>5. RowsAge
        BY <1>2, <3>1, <3>3 DEF RowsAge, GenRows
      <3> QED BY <3>4, <3>5
    <2> QED BY <2>1, <2>2, <2>3, <2>4 DEF CompensateWrite, CancelCommit
  <1> QED BY <1>1, <1>4, CalmWorkers, CalmKeepsStored

LEMMA TimeKeepsStored ==
    ASSUME Inv, Inv', Stored, Tick \/ \E w \in Workers : RenewLease(w)
    PROVE  Stored'
  <1>1. /\ gen \in [Generations -> GenRows] /\ report \in [Reports -> ReportRows]
        /\ worker \in [Workers -> WorkerRows]
    BY InFlightType DEF Inv, TypeOK
  <1>2. UNCHANGED <<objects, cleanup>>
    BY DEF Tick, RenewLease
  <1>3. \A g \in Generations : /\ gen'[g].status = gen[g].status /\ gen'[g].report = gen[g].report
                               /\ gen'[g].attempts = gen[g].attempts
    <2>1. CASE Tick
      BY <1>1, <2>1 DEF Tick, GenRows
    <2>2. CASE \E w \in Workers : RenewLease(w)
      BY <1>1, <2>2 DEF RenewLease, GenRows
    <2> QED BY <2>1, <2>2
  <1>4. \A r \in Reports : report'[r].output = report[r].output
    <2>1. CASE Tick
      BY <1>1, <2>1 DEF Tick, ReportRows
    <2>2. CASE \E w \in Workers : RenewLease(w)
      BY <2>2 DEF RenewLease
    <2> QED BY <2>1, <2>2
  <1>5. \A r \in Reports : report[r].output # NULL => report[r].output[1] \in Generations
    BY <1>1 DEF ReportRows, OutputKeys
  <1>6. OutputsFade
    BY <1>3, <1>4, <1>5 DEF OutputsFade, Stored
  <1>7. RowsAge
    BY <1>1, <1>3 DEF RowsAge, GenRows
  <1>8. WorkersCalm
    <2>1. CASE Tick
      BY <1>1, <2>1 DEF Tick, WorkersCalm, WorkerRows
    <2>2. CASE \E w \in Workers : RenewLease(w)
      BY <2>2, CalmWorkers DEF RenewLease
    <2> QED BY <2>1, <2>2
  <1> QED BY <1>2, <1>6, <1>7, <1>8, CalmKeepsStored

\* Another attempt to delete takes a key that is not published.
LEMMA RetryKeepsStored ==
    ASSUME Inv, Inv', Stored, NEW key \in cleanup, RetryCleanup(key)
    PROVE  Stored'
  <1>1. /\ objects' = objects \ {key} /\ cleanup' = cleanup \ {key}
        /\ UNCHANGED <<report, gen, worker>>
    BY DEF RetryCleanup
  <1>2. \A r \in Reports : report[r].output # NULL =>
            /\ report[r].output \in objects' /\ report[r].output \notin cleanup'
            /\ gen[report[r].output[1]].status = "COMPLETED"
            /\ gen[report[r].output[1]].report = r
    BY <1>1 DEF Stored
  <1>3. \A w \in Workers :
            /\ worker[w].step \in {"uploaded", "commit"} => OutputKey(w) \in objects'
            /\ worker[w].step \in Holding \ {"clean"} => OutputKey(w) \notin cleanup'
            /\ worker[w].step \in Holding =>
                \A r \in Reports : report[r].output # NULL => report[r].output # OutputKey(w)
    BY <1>1 DEF Stored, Holding
  <1>4. \A k \in cleanup' :
            /\ gen[k[1]].status # "ABSENT"
            /\ gen[k[1]].status # "DELETED" => k[2] <= gen[k[1]].attempts
    BY <1>1 DEF Stored
  <1> QED BY <1>1, <1>2, <1>3, <1>4 DEF Stored, OutputKey

-----------------------------------------------------------------------------
(* Workers.                                                                *)

\* Steps that change neither reports nor generations.
LEMMA RunKeepsStored ==
    ASSUME Inv, Inv', Stored, NEW w \in Workers,
           \/ ClaimRefused(w) \/ RunLost(w) \/ DeadlineExceeded(w)
           \/ \E retryable \in BOOLEAN : PipelineError(w, retryable)
           \/ UploadError(w) \/ FinalizeCheck(w) \/ FinalizeLost(w) \/ FinalizeError(w)
           \/ WorkerDbError(w) \/ ResultAfterClaimLoss(w) \/ JobCompleted(w) \/ JobFailed(w)
           \/ WorkerCrash(w)
    PROVE  Stored'
  <1>1. /\ UNCHANGED <<report, gen, cleanup>>
        /\ objects \subseteq objects'
    BY DEF ClaimRefused, RunLost, DeadlineExceeded, PipelineError, UploadError, FinalizeCheck,
           FinalizeLost, FinalizeError, WorkerDbError, ResultAfterClaimLoss, JobCompleted,
           JobFailed, WorkerCrash
  <1>2. WorkersCalm
    <2>1. CASE ClaimRefused(w) \/ RunLost(w) \/ WorkerDbError(w)
      <3>1. \E step \in WorkerSteps : Go(w, step) /\ step \notin Holding
        BY <2>1 DEF ClaimRefused, RunLost, WorkerDbError, WorkerSteps, Holding
      <3> QED BY <3>1, CalmWorkers
    <2>2. CASE DeadlineExceeded(w) \/ \E retryable \in BOOLEAN : PipelineError(w, retryable)
      <3>1. \E step \in WorkerSteps : Go(w, step) /\ step \notin Holding
        BY <2>2, AfterErrorStep DEF DeadlineExceeded, PipelineError, WorkerSteps, Holding
      <3> QED BY <3>1, CalmWorkers
    <2>3. CASE UploadError(w) \/ FinalizeError(w)
      <3>1. \E after \in WorkerSteps : GoClean(w, after) /\ worker[w].step \in Holding
        BY <2>3, AfterErrorStep DEF UploadError, FinalizeError, WorkerSteps, Holding, Is
      <3> QED BY <3>1, CalmWorkers
    <2>4. CASE FinalizeLost(w)
      <3>1. GoClean(w, "lost") /\ worker[w].step \in Holding /\ "lost" \in WorkerSteps
        BY <2>4 DEF FinalizeLost, WorkerSteps, Holding, Is
      <3> QED BY <3>1, CalmWorkers
    <2>5. CASE FinalizeCheck(w)
      <3>1. worker[w].step = "uploaded" /\ worker[w].step \in Holding
            /\ "lost" \in WorkerSteps /\ "commit" \in WorkerSteps
        BY <2>5 DEF FinalizeCheck, WorkerSteps, Holding, Is
      <3>2. Go(w, "commit") \/ GoClean(w, "lost")
        BY <2>5 DEF FinalizeCheck
      <3> QED BY <3>1, <3>2, CalmWorkers
    <2>6. CASE ResultAfterClaimLoss(w)
      <3>1. "return" \in WorkerSteps /\ "return" \notin Holding /\ (Leave(w) \/ Go(w, "return"))
        BY <2>6 DEF ResultAfterClaimLoss, WorkerSteps, Holding
      <3> QED BY <3>1, CalmWorkers
    <2>7. CASE JobCompleted(w) \/ JobFailed(w) \/ WorkerCrash(w)
      BY <2>7, CalmWorkers DEF JobCompleted, JobFailed, WorkerCrash
    <2> QED BY <2>1, <2>2, <2>3, <2>4, <2>5, <2>6, <2>7
  <1> QED BY <1>1, <1>2, SameTables, CalmKeepsStored

LEMMA TakeKeepsStored ==
    ASSUME Inv, Inv', Stored, NEW w \in Workers, NEW g \in Generations, TakeJob(w, g)
    PROVE  Stored'
  <1> DEFINE row == [IdleWorker EXCEPT !.step = "claim", !.gen = g, !.attempt = job[g].made + 1]
  <1>1. UNCHANGED <<report, gen, objects, cleanup>> /\ worker' = [worker EXCEPT ![w] = row]
    BY DEF TakeJob
  <1>2. row.step \notin Holding
    BY DEF IdleWorker, Holding
  <1> HIDE DEF row
  <1>3. WorkersCalm
    BY <1>1, <1>2, InFlightType DEF WorkersCalm, Inv
  <1> QED BY <1>1, <1>3, SameTables, CalmKeepsStored

LEMMA SettlingKeepsStored ==
    ASSUME Inv, Inv', Stored, NEW w \in Workers, PrepareRetry(w) \/ FailGeneration(w)
    PROVE  Stored'
  <1> DEFINE g == worker[w].gen
             r == ReportOf(g)
  <1>1. g \in Generations /\ UNCHANGED <<objects, cleanup>>
    BY BusyWorker DEF PrepareRetry, FailGeneration, Is, Inv
  <1>2. gen \in [Generations -> GenRows] /\ report \in [Reports -> ReportRows]
    BY DEF Inv, TypeOK
  <1>3. WorkersCalm
    <2>1. \E step \in WorkerSteps : Go(w, step) /\ step \notin Holding
      BY DEF PrepareRetry, FailGeneration, WorkerSteps, Holding
    <2> QED BY <2>1, CalmWorkers
  <1>4. OutputsFade /\ RowsAge
    <2>1. CASE UNCHANGED <<gen, report>>
      BY <2>1, SameTables
    <2>2. CASE Owns(w)
      <3>1. gen[g].status = "PROCESSING"
        BY <2>2 DEF Owns, HoldsToken
      <3>2. /\ gen'[g].attempts = gen[g].attempts /\ gen'[g].status \in {"QUEUED", "FAILED"}
            /\ \A h \in Generations \ {g} : gen'[h] = gen[h]
        <4>1. PICK status \in {"QUEUED", "FAILED"} :
                gen' = [gen EXCEPT ![g] = [@ EXCEPT !.status = status, !.token = 0, !.lease = 0]]
          BY <2>2 DEF PrepareRetry, FailGeneration
        <4> DEFINE row == [gen[g] EXCEPT !.status = status, !.token = 0, !.lease = 0]
        <4>2. gen' = [gen EXCEPT ![g] = row]
          BY <4>1
        <4>3. row.status = status /\ row.attempts = gen[g].attempts
          BY <1>1, <1>2 DEF GenRows
        <4> HIDE DEF row
        <4> QED BY <1>1, <1>2, <4>2, <4>3
      <3>3. \A s \in Reports : report'[s].output = report[s].output
        <4>1. CASE PrepareRetry(w)
          BY <1>2, <2>2, <4>1 DEF PrepareRetry, ReportRows
        <4>2. CASE FailGeneration(w)
          <5> DEFINE status == IF report[r].output # NULL THEN "READY" ELSE "FAILED"
                     failed == [Throttled(report[r]) EXCEPT !.status = status]
          <5>1. report' = [report EXCEPT ![r] = failed]
            BY <2>2, <4>2 DEF FailGeneration
          <5>2. r \in Reports => failed.output = report[r].output
            BY <1>2 DEF Throttled, ReportRows
          <5> HIDE DEF failed
          <5> QED BY <1>2, <5>1, <5>2
        <4> QED BY <4>1, <4>2
      <3>4. \A s \in Reports : report[s].output # NULL => report[s].output[1] \in Generations \ {g}
        BY <1>2, <3>1 DEF Stored, ReportRows, OutputKeys
      <3>5. OutputsFade
        BY <3>2, <3>3, <3>4 DEF OutputsFade, Stored
      <3>6. RowsAge
        BY <1>2, <3>1, <3>2 DEF RowsAge, GenRows
      <3> QED BY <3>5, <3>6
    <2> QED BY <2>1, <2>2 DEF PrepareRetry, FailGeneration
  <1> QED BY <1>1, <1>3, <1>4, CalmKeepsStored

\* The key of a new claim is new: no cleanup knows it, and it is not published.
LEMMA ClaimKeepsStored ==
    ASSUME Inv, Inv', Stored, NEW w \in Workers, Claim(w)
    PROVE  Stored'
  <1> DEFINE g == worker[w].gen
             r == ReportOf(g)
             token == gen[g].attempts + 1
             claimed == [gen[g] EXCEPT !.status = "PROCESSING", !.token = token,
                                       !.lease = JobTimeout, !.attempts = token]
             running == [worker[w] EXCEPT !.step = "run", !.token = token, !.deadline = JobTimeout]
  <1>1. g \in Generations /\ Claimable(g)
    BY BusyWorker DEF Claim, Is, Inv
  <1>2. /\ gen \in [Generations -> GenRows] /\ report \in [Reports -> ReportRows]
        /\ worker \in [Workers -> WorkerRows] /\ gen[g].attempts \in Nat
    BY <1>1, InFlightType DEF Inv, TypeOK, GenRows
  <1>3. /\ gen' = [gen EXCEPT ![g] = claimed] /\ worker' = [worker EXCEPT ![w] = running]
        /\ report' = [report EXCEPT ![r].status = IF @ \in Active THEN "PROCESSING" ELSE @]
        /\ UNCHANGED <<objects, cleanup>>
    BY DEF Claim
  <1>4. claimed.status = "PROCESSING" /\ claimed.attempts = token
    BY <1>1, <1>2 DEF GenRows
  <1>5. running.step = "run" /\ running.gen = g /\ running.token = token
    BY <1>2 DEF WorkerRows
  <1> HIDE DEF claimed, running
  <1>6. gen'[g] = claimed /\ \A h \in Generations \ {g} : gen'[h] = gen[h]
    BY <1>1, <1>2, <1>3
  <1>7. worker'[w] = running /\ \A v \in Workers \ {w} : worker'[v] = worker[v]
    BY <1>2, <1>3
  <1>8. \A s \in Reports : report'[s].output = report[s].output
    BY <1>2, <1>3 DEF ReportRows
  <1>9. \A s \in Reports : report[s].output # NULL => report[s].output[1] \in Generations \ {g}
    BY <1>1, <1>2 DEF Stored, ReportRows, OutputKeys, Claimable
  <1>10. RowsAge
    BY <1>1, <1>2, <1>4, <1>6 DEF RowsAge, GenRows, Claimable
  <1>11. \A s \in Reports : report'[s].output # NULL =>
            /\ report'[s].output \in objects' /\ report'[s].output \notin cleanup'
            /\ gen'[report'[s].output[1]].status = "COMPLETED"
            /\ gen'[report'[s].output[1]].report = s
    BY <1>3, <1>6, <1>8, <1>9 DEF Stored
  <1>12. OutputKey(w)' = <<g, token>>
    BY <1>5, <1>7 DEF OutputKey
  <1>13. <<g, token>> \notin cleanup
    <2> SUFFICES ASSUME <<g, token>> \in cleanup PROVE FALSE
      OBVIOUS
    <2> DEFINE key == <<g, token>>
    <2>1. key[1] = g /\ key[2] = token
      OBVIOUS
    <2>2. key \in cleanup
      OBVIOUS
    <2> HIDE DEF key
    <2>3. gen[g].status # "DELETED" => token <= gen[g].attempts
      BY <2>1, <2>2 DEF Stored
    <2> QED BY <1>1, <1>2, <2>3 DEF Claimable
  <1>14. ASSUME NEW v \in Workers
         PROVE  /\ worker'[v].step \in {"uploaded", "commit"} => OutputKey(v)' \in objects'
                /\ worker'[v].step \in Holding \ {"clean"} => OutputKey(v)' \notin cleanup'
                /\ worker'[v].step \in Holding =>
                    \A s \in Reports : report'[s].output # NULL => report'[s].output # OutputKey(v)'
    <2>1. CASE v = w
      <3>1. worker'[v].step = "run" /\ OutputKey(v)' = <<g, token>>
        BY <1>5, <1>7, <1>12, <2>1
      <3>2. \A s \in Reports : report[s].output # NULL => report[s].output # <<g, token>>
        BY <1>9
      <3> QED BY <1>3, <1>8, <1>13, <3>1, <3>2
    <2>2. CASE v # w
      <3>1. worker'[v] = worker[v]
        BY <1>7, <2>2
      <3> QED BY <1>3, <1>8, <3>1 DEF Stored, OutputKey
    <2> QED BY <2>1, <2>2
  <1>15. \A key \in cleanup' :
            /\ gen'[key[1]].status # "ABSENT"
            /\ gen'[key[1]].status # "DELETED" => key[2] <= gen'[key[1]].attempts
    BY <1>3, <1>10, CleanupAges
  <1> QED BY <1>11, <1>14, <1>15 DEF Stored

LEMMA UploadKeepsStored ==
    ASSUME Inv, Inv', Stored, NEW w \in Workers, Upload(w)
    PROVE  Stored'
  <1> DEFINE row == [worker[w] EXCEPT !.step = "uploaded"]
  <1>1. /\ worker[w].step = "run" /\ worker' = [worker EXCEPT ![w] = row]
        /\ objects' = objects \cup {OutputKey(w)} /\ UNCHANGED <<report, gen, cleanup>>
    BY DEF Upload, Is, Go
  <1>2. worker \in [Workers -> WorkerRows]
    BY InFlightType DEF Inv
  <1>3. row.step = "uploaded" /\ row.gen = worker[w].gen /\ row.token = worker[w].token
    BY <1>2 DEF WorkerRows
  <1> HIDE DEF row
  <1>4. worker'[w] = row /\ \A v \in Workers \ {w} : worker'[v] = worker[v]
    BY <1>1, <1>2
  <1>5. \A v \in Workers : OutputKey(v)' = OutputKey(v)
    BY <1>3, <1>4 DEF OutputKey
  <1>6. \A v \in Workers :
            /\ worker'[v].step \in {"uploaded", "commit"} => OutputKey(v)' \in objects'
            /\ worker'[v].step \in Holding \ {"clean"} => OutputKey(v)' \notin cleanup'
            /\ worker'[v].step \in Holding =>
                \A s \in Reports : report'[s].output # NULL => report'[s].output # OutputKey(v)'
    BY <1>1, <1>3, <1>4, <1>5 DEF Stored, Holding
  <1> QED BY <1>1, <1>6 DEF Stored

\* Two workers that hold a key hold different ones.
LEMMA KeysDiffer ==
    ASSUME Inv, Fence, NEW w \in Workers, NEW v \in Workers, v # w,
           worker[w].step \in Holding, worker[v].step \in Holding
    PROVE  OutputKey(v) # OutputKey(w)
  <1>1. worker[w].token > 0 /\ ~Is(w, "idle") /\ ~Is(v, "idle")
    BY DEF Inv, InFlight, BusyWorkers, Holding, Is
  <1>2. SUFFICES ASSUME OutputKey(v) = OutputKey(w) PROVE FALSE
    OBVIOUS
  <1>3. worker[v].gen = worker[w].gen /\ worker[v].token = worker[w].token
    BY <1>2 DEF OutputKey
  <1>4. worker[w].token # 0
    BY <1>1
  <1> QED BY <1>1, <1>3, <1>4 DEF Fence, TokensDiffer

\* The key that is published was stored, and nobody else holds it.
LEMMA PublishKeepsStored ==
    ASSUME Inv, Inv', Fence, Unpublished, Stored, NEW w \in Workers, FinalizeCommit(w)
    PROVE  Stored'
  <1> DEFINE g == worker[w].gen
             r == ReportOf(g)
             key == OutputKey(w)
             done == [gen[g] EXCEPT !.status = "COMPLETED", !.token = 0, !.lease = 0]
             ready == Published(report[r], key)
             row == [worker[w] EXCEPT !.step = "return"]
  <1>1. /\ worker[w].step = "commit" /\ gen[g].status = "PROCESSING" /\ g \in Generations
        /\ UNCHANGED <<objects, cleanup>>
    BY BusyWorker DEF FinalizeCommit, Publish, HoldsToken, Is, Inv
  <1>2. /\ gen \in [Generations -> GenRows] /\ report \in [Reports -> ReportRows]
        /\ worker \in [Workers -> WorkerRows]
        /\ r \in Reports
    BY <1>1, InFlightType DEF Inv, TypeOK, Unpublished, Active
  <1>3. /\ gen' = [gen EXCEPT ![g] = done] /\ report' = [report EXCEPT ![r] = ready]
        /\ worker' = [worker EXCEPT ![w] = row]
    BY DEF FinalizeCommit, Publish, Go
  <1>4. /\ done.status = "COMPLETED" /\ done.report = r /\ done.attempts = gen[g].attempts
        /\ ready.output = key /\ row.step = "return"
    BY <1>1, <1>2 DEF GenRows, Published, ReportRows, WorkerRows, ReportOf
  <1>5. key[1] = g
    BY DEF OutputKey
  <1>6. key \in objects /\ key \notin cleanup
    BY <1>1 DEF Stored, Holding
  <1>7. \A v \in Workers \ {w} : worker[v].step \in Holding => OutputKey(v) # key
    BY <1>1, KeysDiffer DEF Holding
  <1> HIDE DEF done, ready, row, key
  <1>8. gen'[g] = done /\ \A h \in Generations \ {g} : gen'[h] = gen[h]
    BY <1>1, <1>2, <1>3
  <1>9. report'[r].output = key /\ \A s \in Reports \ {r} : report'[s].output = report[s].output
    BY <1>2, <1>3, <1>4
  <1>10. worker'[w] = row /\ \A v \in Workers \ {w} : worker'[v] = worker[v]
    BY <1>2, <1>3
  <1>11. \A s \in Reports : report[s].output # NULL => report[s].output[1] \in Generations \ {g}
    BY <1>1, <1>2 DEF Stored, ReportRows, OutputKeys
  <1>12. ASSUME NEW s \in Reports, report'[s].output # NULL
         PROVE  /\ report'[s].output \in objects' /\ report'[s].output \notin cleanup'
                /\ gen'[report'[s].output[1]].status = "COMPLETED"
                /\ gen'[report'[s].output[1]].report = s
    <2>1. CASE s = r
      BY <1>1, <1>4, <1>5, <1>6, <1>8, <1>9, <2>1
    <2>2. CASE s # r
      BY <1>1, <1>8, <1>9, <1>11, <1>12, <2>2 DEF Stored
    <2> QED BY <2>1, <2>2
  <1>13. ASSUME NEW v \in Workers
         PROVE  /\ worker'[v].step \in {"uploaded", "commit"} => OutputKey(v)' \in objects'
                /\ worker'[v].step \in Holding \ {"clean"} => OutputKey(v)' \notin cleanup'
                /\ worker'[v].step \in Holding =>
                    \A s \in Reports : report'[s].output # NULL => report'[s].output # OutputKey(v)'
    <2>1. CASE v = w
      BY <1>4, <1>10, <2>1 DEF Holding
    <2>2. CASE v # w
      <3>1. worker'[v] = worker[v] /\ OutputKey(v)' = OutputKey(v)
        BY <1>10, <2>2 DEF OutputKey
      <3>2. /\ worker[v].step \in {"uploaded", "commit"} => OutputKey(v) \in objects
            /\ worker[v].step \in Holding \ {"clean"} => OutputKey(v) \notin cleanup
        BY DEF Stored
      <3>3. worker[v].step \in Holding =>
              \A s \in Reports : report'[s].output # NULL => report'[s].output # OutputKey(v)
        BY <1>7, <1>9, <2>2 DEF Stored
      <3> QED BY <1>1, <3>1, <3>2, <3>3
    <2> QED BY <2>1, <2>2
  <1>14. RowsAge
    BY <1>1, <1>2, <1>4, <1>8 DEF RowsAge, GenRows
  <1>15. \A k \in cleanup' :
            /\ gen'[k[1]].status # "ABSENT"
            /\ gen'[k[1]].status # "DELETED" => k[2] <= gen'[k[1]].attempts
    BY <1>1, <1>14, CleanupAges
  <1> QED BY <1>12, <1>13, <1>15 DEF Stored

\* A worker cleans up its own key only, which is not published.
LEMMA OrphanKeepsStored ==
    ASSUME Inv, Inv', Fence, Stored, NEW w \in Workers, OrphanCleanup(w)
    PROVE  Stored'
  <1> DEFINE g == worker[w].gen
             key == OutputKey(w)
             row == [worker[w] EXCEPT !.step = worker[w].after]
  <1>1. /\ worker[w].step = "clean" /\ g \in Generations
        /\ worker[w].after \notin Holding
    BY BusyWorker DEF OrphanCleanup, Is, Inv, InFlight, BusyWorkers, Holding
  <1>2. /\ UNCHANGED <<report, gen>> /\ worker' = [worker EXCEPT ![w] = row]
        /\ objects \ {key} \subseteq objects'
        /\ cleanup' \subseteq cleanup \cup {key}
    BY DEF OrphanCleanup, Go
  <1>3. worker \in [Workers -> WorkerRows]
    BY InFlightType DEF Inv
  <1>4. row.step \notin Holding
    BY <1>1, <1>3 DEF WorkerRows
  <1>5. \A v \in Workers \ {w} : worker[v].step \in Holding => OutputKey(v) # key
    BY <1>1, KeysDiffer DEF Holding
  <1>6. \A s \in Reports : report[s].output # NULL => report[s].output # key
    BY <1>1 DEF Stored, Holding
  <1>7. key[1] = g /\ key[2] = worker[w].token
    BY DEF OutputKey
  <1> HIDE DEF row, key
  <1>8. worker'[w] = row /\ \A v \in Workers \ {w} : worker'[v] = worker[v]
    BY <1>2, <1>3
  <1>9. \A s \in Reports : report[s].output # NULL =>
            /\ report[s].output \in objects' /\ report[s].output \notin cleanup'
            /\ gen[report[s].output[1]].status = "COMPLETED"
            /\ gen[report[s].output[1]].report = s
    BY <1>2, <1>6 DEF Stored
  <1>10. ASSUME NEW v \in Workers
         PROVE  /\ worker'[v].step \in {"uploaded", "commit"} => OutputKey(v)' \in objects'
                /\ worker'[v].step \in Holding \ {"clean"} => OutputKey(v)' \notin cleanup'
                /\ worker'[v].step \in Holding =>
                    \A s \in Reports : report[s].output # NULL => report[s].output # OutputKey(v)'
    <2>1. CASE v = w
      BY <1>4, <1>8, <2>1 DEF Holding
    <2>2. CASE v # w
      <3>1. worker'[v] = worker[v] /\ OutputKey(v)' = OutputKey(v)
        BY <1>8, <2>2 DEF OutputKey
      <3>2. worker[v].step \in Holding => OutputKey(v) # key
        BY <1>5, <2>2
      <3> QED BY <1>2, <3>1, <3>2 DEF Stored, Holding
    <2> QED BY <2>1, <2>2
  <1>11. ASSUME NEW k \in cleanup'
         PROVE  /\ gen[k[1]].status # "ABSENT"
                /\ gen[k[1]].status # "DELETED" => k[2] <= gen[k[1]].attempts
    <2>1. CASE k \in cleanup
      BY <2>1 DEF Stored
    <2>2. CASE k = key
      <3>1. ~Is(w, "idle")
        BY <1>1 DEF Is
      <3>2. gen[g].status # "ABSENT" /\ (gen[g].status # "DELETED" => worker[w].token <= gen[g].attempts)
        BY <3>1 DEF Fence, NamesStarted, TokensCounted
      <3> QED BY <1>7, <2>2, <3>2
    <2> QED BY <1>2, <1>11, <2>1, <2>2
  <1> QED BY <1>2, <1>9, <1>10, <1>11 DEF Stored

-----------------------------------------------------------------------------
LEMMA InitStored == Init => Stored
  BY DEF Init, Stored, IdleWorker, Holding

LEMMA NextStored ==
    ASSUME "commitAck" \notin Faults, Inv, Inv', Fence, Unpublished, Stored, [Next]_vars
    PROVE  Stored'
  <1>1. ASSUME UNCHANGED <<report, gen, worker, objects, cleanup>>
        PROVE  Stored'
    BY <1>1, SameTables, CalmWorkers, CalmKeepsStored
  <1>2. ASSUME NEW c \in Callers, NEW g \in Generations, NEW r \in Reports, NEW k \in Keys,
               StartNew(c, g, r, k)
        PROVE  Stored'
    BY <1>2, StartKeepsStored
  <1>3. ASSUME NEW c \in Callers, NEW g \in Generations, StartDuplicate(c, g) \/ CancelBegin(c, g)
        PROVE  Stored'
    BY <1>1, <1>3 DEF StartDuplicate, CancelBegin
  <1>4. ASSUME NEW c \in Callers,
               CallStep(c) \/ CancelRemoveError(c) \/ CallDbError(c) \/ ApiCrash(c)
        PROVE  Stored'
    BY <1>1, <1>4, CallsKeepStored
       DEF CallStep, Enqueue, EnqueueError, CompensateRead, CancelRemove, CancelRemoveError,
           CallDbError, ApiCrash
  <1>5. ASSUME NEW w \in Workers, WorkerStep(w)
        PROVE  Stored'
    BY <1>5, ClaimKeepsStored, UploadKeepsStored, PublishKeepsStored, OrphanKeepsStored,
       SettlingKeepsStored, RunKeepsStored DEF WorkerStep
  <1>6. ASSUME NEW w \in Workers,
               \/ \E retryable \in BOOLEAN : PipelineError(w, retryable)
               \/ UploadError(w) \/ FinalizeAckLost(w) \/ FinalizeError(w)
               \/ WorkerDbError(w) \/ WorkerCrash(w)
        PROVE  Stored'
    BY <1>6, RunKeepsStored DEF FinalizeAckLost
  <1>7. CASE Tick \/ \E w \in Workers : RenewLease(w)
    BY <1>7, TimeKeepsStored
  <1>8. CASE \E w \in Workers, g \in Generations : TakeJob(w, g)
    BY <1>8, TakeKeepsStored
  <1>9. CASE \E key \in cleanup : RetryCleanup(key)
    BY <1>9, RetryKeepsStored
  <1>10. CASE (\E g \in Generations : StalledJob(g)) \/ UNCHANGED vars
    BY <1>1, <1>10 DEF StalledJob, vars
  <1> QED BY <1>2, <1>3, <1>4, <1>5, <1>6, <1>7, <1>8, <1>9, <1>10 DEF Next

\* As long as a commit of finalizeSuccess is acknowledged, the object of a
\* published report stays in storage: neither the orphan cleanup of a worker
\* that lost, however late, nor a cleanup task that is retried deletes it.
THEOREM LifecyclePublishedObjectKept ==
    "commitAck" \notin Faults => (Spec => []PublishedObjectKept)
  <1> SUFFICES ASSUME "commitAck" \notin Faults PROVE Spec => []PublishedObjectKept
    OBVIOUS
  <1>1. Stored => PublishedObjectKept
    BY DEF Stored, PublishedObjectKept
  <1>2. Init => Inv /\ Fence /\ Unpublished /\ Stored
    BY InitInv, InitFence, InitUnpublished, InitStored
  <1>3. Inv /\ Fence /\ Unpublished /\ Stored /\ [Next]_vars
          => Inv' /\ Fence' /\ Unpublished' /\ Stored'
    BY NextInv, NextFence, NextUnpublished, NextStored
  <1> QED BY <1>1, <1>2, <1>3, PTL DEF Spec

-----------------------------------------------------------------------------
(* What a step makes of one generation and its report.                     *)

\* One row of the reports is written, if it is there.
ReportBecomes(r, row) == \A s \in Reports : report'[s] = IF s = r THEN row ELSE report[s]
SameStart(g) == gen'[g].report = gen[g].report /\ gen'[g].prior = gen[g].prior

Starts(g) ==
    \E r \in Reports :
        /\ gen[g].status = "ABSENT" /\ gen'[g].status = "QUEUED"
        /\ gen'[g].report = r /\ gen'[g].prior = report[r].status
        /\ Eligible(r) /\ ActiveIndexFree(r)
        /\ ReportBecomes(r, [report[r] EXCEPT !.status = "QUEUED"])
Undoes(g) ==
    /\ Exists(g) /\ gen'[g] = NoRow("DELETED")
    /\ \E c \in Callers : At(c, "rollback")
    /\ \E output : ReportBecomes(ReportOf(g),
          [report[ReportOf(g)] EXCEPT !.status = IF @ = "QUEUED" THEN gen[g].prior ELSE @,
                                      !.output = output])
CancelsIt(g) ==
    /\ gen[g].status = "QUEUED" /\ gen'[g].status = "CANCELLED" /\ SameStart(g)
    /\ ReportBecomes(ReportOf(g), [report[ReportOf(g)] EXCEPT !.status = gen[g].prior])
Claims(g) ==
    /\ gen[g].status \in Active /\ gen'[g].status = "PROCESSING" /\ SameStart(g)
    /\ ReportBecomes(ReportOf(g), [report[ReportOf(g)] EXCEPT
          !.status = IF @ \in Active THEN "PROCESSING" ELSE @])
Publishes(g) ==
    /\ gen[g].status = "PROCESSING" /\ gen'[g].status = "COMPLETED" /\ SameStart(g)
    /\ \E key \in OutputKeys : ReportBecomes(ReportOf(g), Published(report[ReportOf(g)], key))
Requeues(g) ==
    /\ gen[g].status = "PROCESSING" /\ gen'[g].status = "QUEUED" /\ SameStart(g)
    /\ ReportBecomes(ReportOf(g), [report[ReportOf(g)] EXCEPT !.status = RequeuedReport(@)])
Fails(g) ==
    /\ gen[g].status = "PROCESSING" /\ gen'[g].status = "FAILED" /\ SameStart(g)
    /\ ReportBecomes(ReportOf(g), [Throttled(report[ReportOf(g)]) EXCEPT
          !.status = IF report[ReportOf(g)].output # NULL THEN "READY" ELSE "FAILED"])

GenerationMove(g) ==
    \/ Starts(g) \/ Undoes(g) \/ CancelsIt(g) \/ Claims(g) \/ Publishes(g) \/ Requeues(g) \/ Fails(g)

\* Nothing but time and the marks of the queue changes.
Steady ==
    /\ \A g \in Generations :
        /\ gen'[g].status = gen[g].status /\ SameStart(g)
        /\ gen[g].status \notin Active => gen'[g] = gen[g]
    /\ \A r \in Reports :
        /\ report'[r].status = report[r].status /\ report'[r].output = report[r].output
        /\ report'[r].failures = report[r].failures
        /\ report[r].window = NULL => report'[r].window = NULL
        /\ report'[r].locked <= report[r].locked

LEMMA SettledFields ==
    ASSUME NEW row \in GenRows, NEW status \in GenStatus
    PROVE  LET new == [row EXCEPT !.status = status, !.token = 0, !.lease = 0]
           IN  new.status = status /\ new.report = row.report /\ new.prior = row.prior
  BY DEF GenRows

LEMMA GenerationMoves ==
    ASSUME Inv, [Next]_vars
    PROVE  Steady \/ \E g \in Generations : Only(g) /\ GenerationMove(g)
  <1>1. /\ gen \in [Generations -> GenRows] /\ report \in [Reports -> ReportRows] /\ InFlight
        /\ FailWindow \in Nat /\ NULL \notin Nat
    BY LifecycleConstants, GrantColumns DEF Inv, TypeOK
  <1> DEFINE Goal == Steady \/ \E g \in Generations : Only(g) /\ GenerationMove(g)
  <1>2. ASSUME NEW c \in Callers, NEW g \in Generations, NEW r \in Reports, NEW k \in Keys,
               StartNew(c, g, r, k)
        PROVE  Goal
    <2> DEFINE row == [status |-> "QUEUED", report |-> r, key |-> k,
                       prior |-> report[r].status, enqueued |-> FALSE,
                       token |-> 0, lease |-> 0, attempts |-> 0]
    <2>1. /\ gen' = [gen EXCEPT ![g] = row] /\ report' = [report EXCEPT ![r].status = "QUEUED"]
          /\ gen[g].status = "ABSENT" /\ Eligible(r) /\ ActiveIndexFree(r)
      BY <1>2 DEF StartNew
    <2>2. row.status = "QUEUED" /\ row.report = r /\ row.prior = report[r].status
      OBVIOUS
    <2> HIDE DEF row
    <2>3. Only(g) /\ gen'[g] = row
      BY <1>1, <2>1 DEF Only
    <2>4. ReportBecomes(r, [report[r] EXCEPT !.status = "QUEUED"])
      BY <1>1, <2>1 DEF ReportBecomes
    <2> QED BY <2>1, <2>2, <2>3, <2>4 DEF GenerationMove, Starts
  <1>3. ASSUME NEW c \in Callers, MarkEnqueued(c)
        PROVE  Goal
    <2>1. call[c].gen \in Generations /\ report' = report
      BY <1>1, <1>3, BusyCall DEF MarkEnqueued, At
    <2>2. Steady
      BY <1>1, <1>3, <2>1 DEF MarkEnqueued, Steady, SameStart, Active, GenRows, ReportRows
    <2> QED BY <2>2
  <1>4. ASSUME NEW c \in Callers, CompensateWrite(c)
        PROVE  Goal
    <2>1. call[c].gen \in Generations
      BY <1>1, <1>4, BusyCall DEF CompensateWrite, At
    <2> DEFINE g == call[c].gen
               r == ReportOf(g)
    <2>2. CASE UNCHANGED <<gen, report>>
      BY <1>1, <2>2 DEF Steady, SameStart, ReportRows
    <2>3. CASE ~UNCHANGED <<gen, report>>
      <3>1. PICK output :
               /\ Exists(g) /\ At(c, "rollback") /\ gen' = [gen EXCEPT ![g] = NoRow("DELETED")]
               /\ report' = [report EXCEPT ![r].status = IF @ = "QUEUED" THEN gen[g].prior ELSE @,
                                           ![r].output = output]
        BY <1>4, <2>3 DEF CompensateWrite
      <3>2. Only(g) /\ gen'[g] = NoRow("DELETED")
        BY <1>1, <2>1, <3>1 DEF Only
      <3>3. ReportBecomes(r, [report[r] EXCEPT !.status = IF @ = "QUEUED" THEN gen[g].prior ELSE @,
                                               !.output = output])
        BY <1>1, <3>1 DEF ReportBecomes
      <3> QED BY <2>1, <3>1, <3>2, <3>3 DEF GenerationMove, Undoes
    <2> QED BY <2>2, <2>3
  <1>5. ASSUME NEW c \in Callers, CancelCommit(c)
        PROVE  Goal
    <2>1. call[c].gen \in Generations
      BY <1>1, <1>5, BusyCall DEF CancelCommit, At
    <2> DEFINE g == call[c].gen
               r == ReportOf(g)
    <2>2. CASE UNCHANGED <<gen, report>>
      BY <1>1, <2>2 DEF Steady, SameStart, ReportRows
    <2>3. CASE ~UNCHANGED <<gen, report>>
      <3>1. /\ gen[g].status = "QUEUED" /\ gen' = [gen EXCEPT ![g].status = "CANCELLED"]
            /\ report' = [report EXCEPT ![r].status = gen[g].prior]
        BY <1>5, <2>3 DEF CancelCommit, Cancellable
      <3>2. Only(g) /\ gen'[g].status = "CANCELLED" /\ SameStart(g)
        BY <1>1, <2>1, <3>1 DEF Only, SameStart, GenRows
      <3>3. ReportBecomes(r, [report[r] EXCEPT !.status = gen[g].prior])
        BY <1>1, <3>1 DEF ReportBecomes
      <3> QED BY <2>1, <3>1, <3>2, <3>3 DEF GenerationMove, CancelsIt
    <2> QED BY <2>2, <2>3
  <1>6. ASSUME NEW w \in Workers, Claim(w)
        PROVE  Goal
    <2>1. worker[w].gen \in Generations
      BY <1>1, <1>6, BusyWorker DEF Claim, Is
    <2> DEFINE g == worker[w].gen
               r == ReportOf(g)
    <2>2. /\ gen[g].status \in Active
          /\ gen' = [gen EXCEPT ![g] = [@ EXCEPT !.status = "PROCESSING", !.token = gen[g].attempts + 1,
                                                 !.lease = JobTimeout, !.attempts = gen[g].attempts + 1]]
          /\ report' = [report EXCEPT ![r].status = IF @ \in Active THEN "PROCESSING" ELSE @]
      BY <1>6 DEF Claim, Claimable, Active
    <2>3. Only(g) /\ gen'[g].status = "PROCESSING" /\ SameStart(g)
      BY <1>1, <2>1, <2>2 DEF Only, SameStart, GenRows
    <2>4. ReportBecomes(r, [report[r] EXCEPT !.status = IF @ \in Active THEN "PROCESSING" ELSE @])
      BY <1>1, <2>2 DEF ReportBecomes
    <2> QED BY <2>1, <2>2, <2>3, <2>4 DEF GenerationMove, Claims
  <1>7. ASSUME NEW w \in Workers, Publish(w), Is(w, "commit")
        PROVE  Goal
    <2>1. worker[w].gen \in Generations /\ OutputKey(w) \in OutputKeys
      BY <1>1, <1>7, BusyWorker, OutputKeyType DEF Is
    <2> DEFINE g == worker[w].gen
               r == ReportOf(g)
    <2>2. /\ gen[g].status = "PROCESSING" /\ gen[g] \in GenRows /\ "COMPLETED" \in GenStatus
          /\ gen' = [gen EXCEPT ![g] = [@ EXCEPT !.status = "COMPLETED", !.token = 0, !.lease = 0]]
          /\ report' = [report EXCEPT ![r] = Published(@, OutputKey(w))]
      BY <1>1, <1>7, <2>1 DEF Publish, HoldsToken, GenStatus
    <2>3. Only(g) /\ gen'[g] = [gen[g] EXCEPT !.status = "COMPLETED", !.token = 0, !.lease = 0]
      BY <1>1, <2>1, <2>2 DEF Only
    <2>4. gen'[g].status = "COMPLETED" /\ SameStart(g)
      <3> DEFINE row == gen[g]
      <3>1. row \in GenRows /\ gen'[g] = [row EXCEPT !.status = "COMPLETED", !.token = 0, !.lease = 0]
        BY <2>2, <2>3
      <3> HIDE DEF row
      <3>2. /\ gen'[g].status = "COMPLETED" /\ gen'[g].report = row.report /\ gen'[g].prior = row.prior
        BY <3>1 DEF GenRows
      <3> QED BY <3>2 DEF SameStart, row
    <2>5. ReportBecomes(r, Published(report[r], OutputKey(w)))
      BY <1>1, <2>2 DEF ReportBecomes
    <2> QED BY <2>1, <2>2, <2>3, <2>4, <2>5 DEF GenerationMove, Publishes
  <1>8. ASSUME NEW w \in Workers, PrepareRetry(w) \/ FailGeneration(w)
        PROVE  Goal
    <2>1. worker[w].gen \in Generations
      BY <1>1, <1>8, BusyWorker DEF PrepareRetry, FailGeneration, Is
    <2> DEFINE g == worker[w].gen
               r == ReportOf(g)
               Settled(status) == [gen[g] EXCEPT !.status = status, !.token = 0, !.lease = 0]
    <2>2. CASE UNCHANGED <<gen, report>>
      BY <1>1, <2>2 DEF Steady, SameStart, ReportRows
    <2>3. ASSUME NEW status \in GenStatus, gen' = [gen EXCEPT ![g] = Settled(status)]
          PROVE  Only(g) /\ gen'[g].status = status /\ SameStart(g)
      <3>1. gen'[g] = Settled(status) /\ Only(g) /\ gen[g] \in GenRows
        BY <1>1, <2>1, <2>3 DEF Only
      <3> QED BY <3>1, SettledFields DEF SameStart
    <2>4. CASE PrepareRetry(w) /\ ~UNCHANGED <<gen, report>>
      <3>1. /\ gen[g].status = "PROCESSING" /\ gen' = [gen EXCEPT ![g] = Settled("QUEUED")]
            /\ report' = [report EXCEPT ![r].status = RequeuedReport(@)]
        BY <2>4 DEF PrepareRetry, Owns, HoldsToken
      <3>2. Only(g) /\ gen'[g].status = "QUEUED" /\ SameStart(g)
        BY <2>3, <3>1 DEF GenStatus
      <3>3. ReportBecomes(r, [report[r] EXCEPT !.status = RequeuedReport(@)])
        BY <1>1, <3>1 DEF ReportBecomes
      <3> QED BY <2>1, <3>1, <3>2, <3>3 DEF GenerationMove, Requeues
    <2>5. CASE FailGeneration(w) /\ ~UNCHANGED <<gen, report>>
      <3> DEFINE failed == [Throttled(report[r]) EXCEPT
                              !.status = IF report[r].output # NULL THEN "READY" ELSE "FAILED"]
      <3>1. /\ gen[g].status = "PROCESSING" /\ gen' = [gen EXCEPT ![g] = Settled("FAILED")]
            /\ report' = [report EXCEPT ![r] = failed]
        BY <2>5 DEF FailGeneration, Owns, HoldsToken
      <3>2. Only(g) /\ gen'[g].status = "FAILED" /\ SameStart(g)
        BY <2>3, <3>1 DEF GenStatus
      <3>3. ReportBecomes(r, failed)
        BY <1>1, <3>1 DEF ReportBecomes
      <3> QED BY <2>1, <3>1, <3>2, <3>3 DEF GenerationMove, Fails
    <2> QED BY <1>8, <2>2, <2>4, <2>5
  <1>9. CASE Tick
    <2>1. \A g \in Generations :
            gen'[g] = [gen[g] EXCEPT !.lease = IF gen[g].status = "PROCESSING" /\ @ >= 0 THEN @ - 1 ELSE @]
      BY <1>9 DEF Tick
    <2>2. ASSUME NEW g \in Generations
          PROVE  /\ gen'[g].status = gen[g].status /\ SameStart(g)
                 /\ gen[g].status \notin Active => gen'[g] = gen[g]
      <3> DEFINE row == gen[g]
                 lease == IF row.status = "PROCESSING" /\ row.lease >= 0 THEN row.lease - 1 ELSE row.lease
      <3>1. row \in GenRows /\ gen'[g] = [row EXCEPT !.lease = lease]
        BY <1>1, <2>1
      <3>2. row.status \notin Active => lease = row.lease
        BY DEF Active
      <3> HIDE DEF row, lease
      <3>3. /\ gen'[g].status = row.status /\ gen'[g].report = row.report /\ gen'[g].prior = row.prior
            /\ row.status \notin Active => gen'[g] = row
        BY <3>1, <3>2 DEF GenRows
      <3> QED BY <3>3 DEF SameStart, row
    <2>3. \A r \in Reports :
            report'[r] = [report[r] EXCEPT !.locked = Down(@),
                                           !.window = IF @ # NULL /\ @ <= FailWindow THEN @ + 1 ELSE @]
      BY <1>9 DEF Tick
    <2>4. ASSUME NEW r \in Reports
          PROVE  /\ report'[r].status = report[r].status /\ report'[r].output = report[r].output
                 /\ report'[r].failures = report[r].failures
                 /\ report[r].window = NULL => report'[r].window = NULL
                 /\ report'[r].locked <= report[r].locked
      <3> DEFINE row == report[r]
                 locked == Down(row.locked)
                 window == IF row.window # NULL /\ row.window <= FailWindow THEN row.window + 1 ELSE row.window
      <3>1. /\ row \in ReportRows
            /\ report'[r] = [row EXCEPT !.locked = locked, !.window = window]
        BY <1>1, <2>3
      <3>2. row.locked \in Nat
        BY <3>1 DEF ReportRows
      <3>3. locked <= row.locked /\ (row.window = NULL => window = NULL)
        BY <3>2 DEF Down
      <3> HIDE DEF row, locked, window
      <3>4. /\ report'[r].status = row.status /\ report'[r].output = row.output
            /\ report'[r].failures = row.failures
            /\ report'[r].locked = locked /\ report'[r].window = window
        BY <3>1 DEF ReportRows
      <3> QED BY <3>3, <3>4 DEF row
    <2> QED BY <2>2, <2>4 DEF Steady
  <1>10. ASSUME NEW w \in Workers, RenewLease(w)
         PROVE  Goal
    <2>1. worker[w].gen \in Generations /\ report' = report
      BY <1>1, <1>10, BusyWorker DEF RenewLease, Is
    <2>2. Steady
      BY <1>1, <1>10, <2>1 DEF RenewLease, Owns, HoldsToken, Steady, SameStart, Active, GenRows, ReportRows
    <2> QED BY <2>2
  <1>11. CASE UNCHANGED <<gen, report>>
    BY <1>1, <1>11 DEF Steady, SameStart, ReportRows
  <1> QED BY <1>2, <1>3, <1>4, <1>5, <1>6, <1>7, <1>8, <1>9, <1>10, <1>11, TableWriters
          DEF Writers, FinalizeCommit, FinalizeAckLost, Publish

-----------------------------------------------------------------------------
(* What a request leaves alone when the queue answers.                     *)

\* queue.add is never seen to fail, so no generation is compensated.
QueueAnswers == Faults \cap {"queue", "ackLost"} = {}
NoRollback == \A c \in Callers : call[c].step \notin {"compensate", "rollback"}

\* Requests move by their own steps only.
LEMMA CallWriters ==
    ASSUME [Next]_vars
    PROVE  \/ call' = call
           \/ \E c \in Callers, g \in Generations :
                \/ \E r \in Reports, k \in Keys : StartNew(c, g, r, k)
                \/ StartDuplicate(c, g) \/ CancelBegin(c, g)
           \/ \E c \in Callers : CallStep(c) \/ CancelRemoveError(c) \/ CallDbError(c) \/ ApiCrash(c)
  <1>1. ASSUME NEW w \in Workers,
               \/ WorkerStep(w) \/ RenewLease(w)
               \/ \E g \in Generations : TakeJob(w, g)
               \/ \E retryable \in BOOLEAN : PipelineError(w, retryable)
               \/ UploadError(w) \/ FinalizeAckLost(w) \/ FinalizeError(w)
               \/ WorkerDbError(w) \/ WorkerCrash(w)
        PROVE  call' = call
    BY <1>1 DEF WorkerStep, Claim, ClaimRefused, RunLost, DeadlineExceeded, Upload, FinalizeCheck,
                FinalizeCommit, FinalizeLost, OrphanCleanup, PrepareRetry, FailGeneration,
                ResultAfterClaimLoss, JobCompleted, JobFailed, RenewLease, TakeJob, PipelineError,
                UploadError, FinalizeAckLost, Publish, FinalizeError, WorkerDbError, WorkerCrash
  <1>2. ASSUME \/ \E g \in Generations : StalledJob(g)
               \/ \E key \in cleanup : RetryCleanup(key)
               \/ Tick \/ UNCHANGED vars
        PROVE  call' = call
    BY <1>2 DEF StalledJob, RetryCleanup, Tick, vars
  <1> QED BY <1>1, <1>2 DEF Next

LEMMA NextNoRollback ==
    ASSUME QueueAnswers, InFlight, NoRollback, [Next]_vars
    PROVE  NoRollback'
  <1>1. ASSUME NEW c \in Callers, NEW step \in {"enqueue", "mark", "remove", "cancel"},
               NEW g, GoCall(c, step, g) \/ EndCall(c)
        PROVE  NoRollback'
    BY <1>1 DEF NoRollback, InFlight, GoCall, EndCall, IdleCall
  <1>2. ASSUME NEW c \in Callers, NEW g \in Generations
        PROVE  /\ \A r \in Reports, k \in Keys : StartNew(c, g, r, k) => NoRollback'
               /\ StartDuplicate(c, g) \/ CancelBegin(c, g) => NoRollback'
    BY <1>1 DEF StartNew, StartDuplicate, CancelBegin
  <1>3. ASSUME NEW c \in Callers, CallStep(c) \/ CancelRemoveError(c) \/ CallDbError(c) \/ ApiCrash(c)
        PROVE  NoRollback'
    <2>1. ~EnqueueError(c) /\ ~CompensateRead(c) /\ ~CompensateWrite(c)
      BY DEF QueueAnswers, NoRollback, EnqueueError, CompensateRead, CompensateWrite, At
    <2>2. EndCall(c) \/ \E step \in {"enqueue", "mark", "remove", "cancel"}, g \in {call[c].gen} :
                            GoCall(c, step, g)
      BY <1>3, <2>1 DEF CallStep, Enqueue, MarkEnqueued, CancelRemove, CancelCommit,
                        CancelRemoveError, CallDbError, ApiCrash
    <2> QED BY <1>1, <2>2
  <1>4. CASE call' = call
    BY <1>4 DEF NoRollback
  <1> QED BY <1>2, <1>3, <1>4, CallWriters

LEMMA AlwaysNoRollback == QueueAnswers => (Spec => [](Inv /\ NoRollback))
  <1> SUFFICES ASSUME QueueAnswers PROVE Spec => [](Inv /\ NoRollback)
    OBVIOUS
  <1>1. Init => Inv /\ NoRollback
    BY InitInv DEF Init, NoRollback, IdleCall
  <1>2. Inv /\ NoRollback /\ [Next]_vars => Inv' /\ NoRollback'
    BY NextInv, NextNoRollback DEF Inv
  <1> QED BY <1>1, <1>2, PTL DEF Spec

\* As long as the queue answers, a completed, failed or cancelled generation
\* never changes again: no late worker, redelivery, cancellation or start with
\* its key touches its row, and nothing deletes it.  Without the condition the
\* compensation of a failed queue.add deletes a generation that a worker has
\* meanwhile completed.
THEOREM LifecycleHistoryImmutable ==
    Faults \cap {"queue", "ackLost"} = {} => (Spec => HistoryImmutable)
  <1> SUFFICES ASSUME QueueAnswers PROVE Spec => HistoryImmutable
    BY DEF QueueAnswers
  <1> DEFINE Kept(g) == gen[g].status \in {"COMPLETED", "FAILED", "CANCELLED"} => gen'[g] = gen[g]
  <1>1. ASSUME Inv, NoRollback, [Next]_vars, NEW g \in Generations
        PROVE  Kept(g)
    <2>1. CASE Steady
      BY <2>1 DEF Steady, Active
    <2>2. ASSUME NEW h \in Generations, Only(h), GenerationMove(h)
          PROVE  Kept(g)
      <3>1. ~Undoes(h)
        BY <1>1 DEF Undoes, NoRollback, At
      <3>2. gen[h].status \notin {"COMPLETED", "FAILED", "CANCELLED"}
        BY <2>2, <3>1 DEF GenerationMove, Starts, CancelsIt, Claims, Publishes, Requeues, Fails, Active
      <3> QED BY <2>2, <3>2 DEF Only
    <2> QED BY <1>1, <2>1, <2>2, GenerationMoves
  <1>2. Inv /\ NoRollback /\ [Next]_vars => [\A g \in Generations : Kept(g)]_vars
    BY <1>1
  <1>3. Spec => [][\A g \in Generations : Kept(g)]_vars
    BY <1>2, AlwaysNoRollback, PTL DEF Spec
  <1> QED BY <1>3 DEF HistoryImmutable

-----------------------------------------------------------------------------
(* The throttle of a report and its status.                                *)

\* A generation starts from a report without an output.
PriorIsRestorable == \A g \in Generations : gen[g].prior \in {"DRAFT", "FAILED"}

\* A report with an active generation is neither published nor locked.
LetIn ==
    \A g \in Generations : gen[g].status \in Active =>
        report[ReportOf(g)].status # "READY" /\ report[ReportOf(g)].locked = 0

LockIsEarned == \A r \in Reports : report[r].locked > 0 => report[r].failures >= FailLimit

ReadyIsFree ==
    \A r \in Reports : report[r].status = "READY" =>
        report[r].failures = 0 /\ report[r].window = NULL /\ report[r].locked = 0

Throttle == PriorIsRestorable /\ LetIn /\ LockIsEarned /\ ReadyIsFree

LEMMA NoRowFields ==
    ASSUME NEW status
    PROVE  NoRow(status).status = status /\ NoRow(status).prior = "DRAFT" /\ NoRow(status).report = NULL
  BY DEF NoRow

\* The failure throttle, as it is counted.
LEMMA ThrottledFields ==
    ASSUME NEW row \in ReportRows, NEW status \in ReportStatus
    PROVE  LET new == [Throttled(row) EXCEPT !.status = status]
           IN  /\ new.status = status /\ new.output = row.output
               /\ new.locked > 0 => new.failures >= FailLimit
  <1> DEFINE within == row.window # NULL /\ row.window <= FailWindow
             count == IF within THEN row.failures + 1 ELSE 1
             window == IF within THEN row.window ELSE 0
             locked == IF count >= FailLimit THEN FailLock ELSE 0
             new == [Throttled(row) EXCEPT !.status = status]
  <1>1. Throttled(row) = [row EXCEPT !.failures = count, !.window = window, !.locked = locked]
    BY DEF Throttled
  <1>2. locked > 0 => count >= FailLimit
    BY LifecycleConstants
  <1> HIDE DEF count, window, locked
  <1>3. /\ new.status = status /\ new.output = row.output
        /\ new.failures = count /\ new.locked = locked
    BY <1>1 DEF ReportRows
  <1> QED BY <1>2, <1>3

\* What a move does to the active generations and to the report it names.
LEMMA ActiveAfterMove ==
    ASSUME Inv, Unpublished, NEW g \in Generations, Only(g), GenerationMove(g), ~Undoes(g)
    PROVE  \E r \in Reports :
             /\ gen'[g].report = r
             /\ gen[g].status \in Active => gen[g].report = r
             /\ \A s \in Reports \ {r} : report'[s] = report[s]
             /\ \A h \in Generations \ {g} : gen[h].status \in Active => gen[h].report # r
  <1>1. gen[g].status \in Active \/ Starts(g)
    BY DEF GenerationMove, CancelsIt, Claims, Publishes, Requeues, Fails, Active
  <1>2. CASE Starts(g)
    BY <1>2 DEF Starts, ReportBecomes, ActiveIndexFree, ReportOf, Active
  <1>3. CASE ~Starts(g)
    <2>1. /\ gen[g].status \in Active /\ SameStart(g) /\ ReportOf(g) \in Reports
          /\ \A s \in Reports \ {ReportOf(g)} : report'[s] = report[s]
      BY <1>1, <1>3 DEF Unpublished, GenerationMove, CancelsIt, Claims, Publishes, Requeues, Fails,
                        ReportBecomes
    <2>2. \A h \in Generations \ {g} : gen[h].status \in Active => gen[h].report # ReportOf(g)
      BY <2>1 DEF Inv, OneActivePerReport, ReportOf
    <2> QED BY <2>1, <2>2 DEF SameStart, ReportOf
  <1> QED BY <1>2, <1>3

LEMMA StarterPrior ==
    ASSUME PriorIsRestorable, NEW g \in Generations, Only(g), GenerationMove(g)
    PROVE  PriorIsRestorable'
  <1>1. gen'[g].prior \in {"DRAFT", "FAILED"}
    BY NoRowFields DEF PriorIsRestorable, GenerationMove, Starts, Eligible, Undoes, CancelsIt, Claims,
                       Publishes, Requeues, Fails, SameStart
  <1> QED BY <1>1 DEF PriorIsRestorable, Only

LEMMA MoveKeepsThrottle ==
    ASSUME Inv, Unpublished, Throttle, NEW g \in Generations, Only(g), GenerationMove(g)
    PROVE  Throttle'
  <1>1. PriorIsRestorable'
    BY StarterPrior DEF Throttle
  <1>2. /\ gen \in [Generations -> GenRows] /\ report \in [Reports -> ReportRows]
        /\ FailLimit \in Nat \ {0} /\ 0 \in Nat
    BY LifecycleConstants DEF Inv, TypeOK
  \* Only the report of the generation changes.
  <1>3. CASE Undoes(g)
    <2>1. PICK output : ReportBecomes(ReportOf(g),
             [report[ReportOf(g)] EXCEPT !.status = IF @ = "QUEUED" THEN gen[g].prior ELSE @,
                                         !.output = output])
      BY <1>3 DEF Undoes
    <2>2. ASSUME NEW s \in Reports
          PROVE  /\ report'[s].status \in {report[s].status, "DRAFT", "FAILED"}
                 /\ report'[s].failures = report[s].failures
                 /\ report'[s].window = report[s].window
                 /\ report'[s].locked = report[s].locked
      <3> DEFINE status == IF report[s].status = "QUEUED" THEN gen[g].prior ELSE report[s].status
                 row == report[s]
      <3>1. report'[s] \in {row, [row EXCEPT !.status = status, !.output = output]}
        BY <2>1 DEF ReportBecomes
      <3>2. status \in {row.status, "DRAFT", "FAILED"} /\ row \in ReportRows
        BY <1>2 DEF Throttle, PriorIsRestorable
      <3> HIDE DEF status, row
      <3>3. /\ report'[s].status \in {row.status, status} /\ report'[s].failures = row.failures
            /\ report'[s].window = row.window /\ report'[s].locked = row.locked
        BY <3>1, <3>2 DEF ReportRows
      <3> QED BY <3>2, <3>3 DEF row
    <2>3. gen'[g].status = "DELETED"
      BY <1>3, NoRowFields DEF Undoes
    <2>4. \A h \in Generations : gen'[h].status \in Active =>
            gen[h].status \in Active /\ gen'[h].report = gen[h].report /\ gen[h].report \in Reports
      BY <2>3 DEF Only, Active, Unpublished, ReportOf
    <2>5. LetIn'
      BY <2>2, <2>4 DEF Throttle, LetIn, ReportOf
    <2>6. LockIsEarned' /\ ReadyIsFree'
      BY <2>2 DEF Throttle, LockIsEarned, ReadyIsFree
    <2> QED BY <1>1, <2>5, <2>6 DEF Throttle
  <1>4. CASE ~Undoes(g)
    <2>1. PICK r \in Reports :
            /\ gen'[g].report = r
            /\ gen[g].status \in Active => gen[g].report = r
            /\ \A s \in Reports \ {r} : report'[s] = report[s]
            /\ \A h \in Generations \ {g} : gen[h].status \in Active => gen[h].report # r
      BY <1>4, ActiveAfterMove
    <2> DEFINE row == report[r]
               new == report'[r]
    <2>2. row \in ReportRows /\ row.locked \in Nat
      BY <1>2 DEF ReportRows
    <2>3. /\ gen'[g].status \in Active => new.status # "READY" /\ new.locked = 0
          /\ new.locked > 0 => new.failures >= FailLimit
          /\ new.status = "READY" => new.failures = 0 /\ new.window = NULL /\ new.locked = 0
      <3>1. CASE Starts(g)
        <4>1. new = [row EXCEPT !.status = "QUEUED"] /\ row.locked = 0
          BY <2>1, <3>1 DEF Starts, ReportBecomes, Eligible
        <4>2. new.status = "QUEUED" /\ new.locked = 0
          BY <2>2, <4>1 DEF ReportRows
        <4> QED BY <4>2
      <3>2. CASE ~Starts(g)
        <4>1. /\ gen[g].status \in Active /\ ReportOf(g) = r
              /\ CancelsIt(g) \/ Claims(g) \/ Publishes(g) \/ Requeues(g) \/ Fails(g)
          BY <1>4, <2>1, <3>2 DEF GenerationMove, CancelsIt, Claims, Publishes, Requeues, Fails, Active,
                                  ReportOf
        <4>2. row.locked = 0 /\ row.status # "READY" /\ row.output = NULL
          BY <2>1, <4>1 DEF Throttle, LetIn, Unpublished, ReportOf
        <4>3. ASSUME NEW status \in ReportStatus \ {"READY"}, new = [row EXCEPT !.status = status]
              PROVE  new.status # "READY" /\ new.locked = 0
          BY <2>2, <4>2, <4>3 DEF ReportRows
        <4>4. CASE CancelsIt(g)
          <5>1. new = [row EXCEPT !.status = gen[g].prior] /\ gen[g].prior \in ReportStatus \ {"READY"}
            BY <2>1, <4>1, <4>4 DEF CancelsIt, ReportBecomes, Throttle, PriorIsRestorable, ReportStatus
          <5> QED BY <4>3, <5>1
        <4>5. CASE Claims(g)
          <5> DEFINE status == IF row.status \in Active THEN "PROCESSING" ELSE row.status
          <5>1. new = [row EXCEPT !.status = status] /\ status \in ReportStatus \ {"READY"}
            BY <2>1, <2>2, <4>1, <4>2, <4>5 DEF Claims, ReportBecomes, ReportStatus, ReportRows
          <5> HIDE DEF status
          <5> QED BY <4>3, <5>1
        <4>6. CASE Requeues(g)
          <5> DEFINE status == RequeuedReport(row.status)
          <5>1. new = [row EXCEPT !.status = status] /\ status \in ReportStatus \ {"READY"}
            BY <2>1, <2>2, <4>1, <4>2, <4>6 DEF Requeues, ReportBecomes, RequeuedReport, ReportStatus,
                                                ReportRows
          <5> HIDE DEF status
          <5> QED BY <4>3, <5>1
        <4>7. CASE Publishes(g)
          <5>1. PICK key \in OutputKeys : new = Published(row, key)
            BY <2>1, <4>1, <4>7 DEF Publishes, ReportBecomes
          <5>2. new.failures = 0 /\ new.window = NULL /\ new.locked = 0
            BY <2>2, <5>1 DEF Published, ReportRows
          <5>3. gen'[g].status \notin Active
            BY <4>7 DEF Publishes, Active
          <5> QED BY <5>2, <5>3
        <4>8. CASE Fails(g)
          <5>1. new = [Throttled(row) EXCEPT !.status = "FAILED"] /\ "FAILED" \in ReportStatus
            BY <2>1, <4>1, <4>2, <4>8 DEF Fails, ReportBecomes, ReportStatus
          <5>2. new.status = "FAILED" /\ (new.locked > 0 => new.failures >= FailLimit)
            BY <2>2, <5>1, ThrottledFields
          <5>3. gen'[g].status \notin Active
            BY <4>8 DEF Fails, Active
          <5> QED BY <5>2, <5>3
        <4> QED BY <4>1, <4>3, <4>4, <4>5, <4>6, <4>7, <4>8
      <3> QED BY <3>1, <3>2
    <2>4. LetIn'
      <3> SUFFICES ASSUME NEW h \in Generations, gen'[h].status \in Active
                   PROVE  report'[gen'[h].report].status # "READY" /\ report'[gen'[h].report].locked = 0
        BY DEF LetIn, ReportOf
      <3>1. CASE h = g
        BY <2>1, <2>3, <3>1
      <3>2. CASE h # g
        <4>1. gen'[h] = gen[h] /\ gen[h].status \in Active
          BY <3>2 DEF Only
        <4>2. gen[h].report \in Reports \ {r}
          BY <2>1, <3>2, <4>1 DEF Unpublished, ReportOf
        <4> QED BY <2>1, <4>1, <4>2 DEF Throttle, LetIn, ReportOf
      <3> QED BY <3>1, <3>2
    <2>5. LockIsEarned' /\ ReadyIsFree'
      BY <2>1, <2>3 DEF Throttle, LockIsEarned, ReadyIsFree
    <2> QED BY <1>1, <2>4, <2>5 DEF Throttle
  <1> QED BY <1>3, <1>4

LEMMA NextThrottle ==
    ASSUME Inv, Unpublished, Throttle, [Next]_vars
    PROVE  Throttle'
  <1>1. CASE Steady
    <2>1. \A r \in Reports : report[r].locked \in Nat /\ report'[r].locked \in Nat
      BY NextInv DEF Inv, TypeOK, ReportRows
    <2>2. \A r \in Reports : /\ report[r].locked = 0 => report'[r].locked = 0
                             /\ report'[r].locked > 0 => report[r].locked > 0
      BY <1>1, <2>1 DEF Steady
    <2>3. PriorIsRestorable'
      BY <1>1 DEF Steady, SameStart, Throttle, PriorIsRestorable
    <2>4. LetIn'
      BY <1>1, <2>2 DEF Steady, SameStart, Throttle, LetIn, Unpublished, ReportOf
    <2>5. LockIsEarned' /\ ReadyIsFree'
      BY <1>1, <2>2 DEF Steady, Throttle, LockIsEarned, ReadyIsFree
    <2> QED BY <2>3, <2>4, <2>5 DEF Throttle
  <1> QED BY <1>1, GenerationMoves, MoveKeepsThrottle

LEMMA InitThrottle == Init => Throttle
  BY NoRowFields DEF Init, Throttle, PriorIsRestorable, LetIn, LockIsEarned, ReadyIsFree, Active

LEMMA AlwaysThrottle == Spec => [](Inv /\ Unpublished /\ Throttle)
  <1>1. Init => Inv /\ Unpublished /\ Throttle
    BY InitInv, InitUnpublished, InitThrottle
  <1>2. Inv /\ Unpublished /\ Throttle /\ [Next]_vars => Inv' /\ Unpublished' /\ Throttle'
    BY NextInv, NextUnpublished, NextThrottle
  <1> QED BY <1>1, <1>2, PTL DEF Spec

\* A report with an active generation is not locked, a locked report has
\* reached the failure limit, and publication leaves no throttle behind,
\* whatever fails: a compensation or a cancellation that restores the status
\* of the report does not bring a lock back to life.
THEOREM LifecycleThrottleConsistent == Spec => []ThrottleConsistent
  <1>1. Unpublished /\ Throttle => ThrottleConsistent
    BY DEF Throttle, LetIn, LockIsEarned, ReadyIsFree, ThrottleConsistent, ActiveIndexFree, ReportOf
  <1> QED BY <1>1, AlwaysThrottle, PTL

-----------------------------------------------------------------------------
(* The report mirrors its generation.                                      *)

StatusMirrored ==
    \A r \in Reports : \A status \in Active :
        report[r].status = status
          <=> \E g \in Generations : ReportOf(g) = r /\ gen[g].status = status
OutputMirrored == \A r \in Reports : report[r].status = "READY" <=> report[r].output # NULL

\* What a move must show of the report that it writes.
LEMMA MirrorAfterMove ==
    ASSUME StatusMirrored, OutputMirrored, NEW g \in Generations, Only(g), NEW r \in Reports,
           gen'[g].report = r, gen[g].status \in Active => gen[g].report = r,
           \A s \in Reports \ {r} : report'[s] = report[s],
           \A h \in Generations \ {g} : gen[h].status \in Active => gen[h].report # r,
           \A status \in Active : report'[r].status = status <=> gen'[g].status = status,
           report'[r].status = "READY" <=> report'[r].output # NULL
    PROVE  StatusMirrored' /\ OutputMirrored'
  <1>1. ASSUME NEW status \in Active, NEW s \in Reports
        PROVE  report'[s].status = status
                 <=> \E h \in Generations : gen'[h].report = s /\ gen'[h].status = status
    <2>1. CASE s = r
      BY <2>1 DEF Only
    <2>2. CASE s # r
      <3>1. report'[s].status = status
              <=> \E h \in Generations : gen[h].report = s /\ gen[h].status = status
        BY <2>2 DEF StatusMirrored, ReportOf
      <3>2. ASSUME NEW h \in Generations
            PROVE  gen'[h].report = s /\ gen'[h].status = status
                     <=> gen[h].report = s /\ gen[h].status = status
        BY <2>2 DEF Only
      <3> QED BY <3>1, <3>2
    <2> QED BY <2>1, <2>2
  <1>2. StatusMirrored'
    BY <1>1 DEF StatusMirrored, ReportOf, Active
  <1>3. OutputMirrored'
    BY DEF OutputMirrored
  <1> QED BY <1>2, <1>3

LEMMA MoveKeepsMirror ==
    ASSUME Inv, Unpublished, PriorIsRestorable, StatusMirrored, OutputMirrored,
           NEW g \in Generations, Only(g), GenerationMove(g), ~Undoes(g)
    PROVE  StatusMirrored' /\ OutputMirrored'
  <1>1. PICK r \in Reports :
          /\ gen'[g].report = r
          /\ gen[g].status \in Active => gen[g].report = r
          /\ \A s \in Reports \ {r} : report'[s] = report[s]
          /\ \A h \in Generations \ {g} : gen[h].status \in Active => gen[h].report # r
    BY ActiveAfterMove
  <1> DEFINE row == report[r]
             new == report'[r]
             now == gen'[g].status
  <1>2. row \in ReportRows
    BY DEF Inv, TypeOK
  <1>3. ASSUME NEW status \in ReportStatus \ {"READY"}, new = [row EXCEPT !.status = status],
               row.output = NULL, now = status \/ (now \notin Active /\ status \notin Active)
        PROVE  /\ \A s \in Active : new.status = s <=> now = s
               /\ new.status = "READY" <=> new.output # NULL
    <2>1. new.status = status /\ new.output = NULL
      BY <1>2, <1>3 DEF ReportRows
    <2> QED BY <1>3, <2>1
  <1>4. /\ \A status \in Active : new.status = status <=> now = status
        /\ new.status = "READY" <=> new.output # NULL
    <2>1. CASE Starts(g)
      <3>1. /\ new = [row EXCEPT !.status = "QUEUED"] /\ now = "QUEUED"
            /\ row.status \in {"DRAFT", "FAILED"}
        BY <1>1, <2>1 DEF Starts, ReportBecomes, Eligible
      <3>2. row.output = NULL
        BY <3>1 DEF OutputMirrored
      <3> QED BY <1>3, <3>1, <3>2 DEF ReportStatus
    <2>2. CASE ~Starts(g)
      <3>1. /\ gen[g].status \in Active /\ ReportOf(g) = r
            /\ CancelsIt(g) \/ Claims(g) \/ Publishes(g) \/ Requeues(g) \/ Fails(g)
        BY <1>1, <2>2 DEF GenerationMove, CancelsIt, Claims, Publishes, Requeues, Fails, Active, ReportOf
      <3>2. row.output = NULL
        BY <3>1 DEF Unpublished, ReportOf
      <3>3. row.status = gen[g].status
        BY <3>1 DEF StatusMirrored
      <3>4. CASE CancelsIt(g)
        <4>1. /\ new = [row EXCEPT !.status = gen[g].prior] /\ now = "CANCELLED"
              /\ gen[g].prior \in {"DRAFT", "FAILED"}
          BY <3>1, <3>4 DEF CancelsIt, ReportBecomes, PriorIsRestorable
        <4> QED BY <1>3, <3>2, <4>1 DEF ReportStatus, Active
      <3>5. CASE Claims(g)
        <4>1. new = [row EXCEPT !.status = "PROCESSING"] /\ now = "PROCESSING"
          BY <3>1, <3>3, <3>5 DEF Claims, ReportBecomes
        <4> QED BY <1>3, <3>2, <4>1 DEF ReportStatus
      <3>6. CASE Requeues(g)
        <4>1. new = [row EXCEPT !.status = "QUEUED"] /\ now = "QUEUED"
          BY <3>1, <3>3, <3>6 DEF Requeues, ReportBecomes, RequeuedReport
        <4> QED BY <1>3, <3>2, <4>1 DEF ReportStatus
      <3>7. CASE Publishes(g)
        <4>1. PICK key \in OutputKeys : new = Published(row, key)
          BY <3>1, <3>7 DEF Publishes, ReportBecomes
        <4>2. new.status = "READY" /\ new.output = key /\ now = "COMPLETED"
          BY <1>2, <3>7, <4>1 DEF Published, ReportRows, Publishes
        <4>3. new.output # NULL
          BY <4>2, KeysAreNotNull
        <4> QED BY <4>2, <4>3 DEF Active
      <3>8. CASE Fails(g)
        <4>1. new = [Throttled(row) EXCEPT !.status = "FAILED"] /\ now = "FAILED"
          BY <3>1, <3>2, <3>8 DEF Fails, ReportBecomes
        <4>2. new.status = "FAILED" /\ new.output = NULL
          BY <1>2, <3>2, <4>1, ThrottledFields DEF ReportStatus
        <4> QED BY <4>1, <4>2 DEF Active
      <3> QED BY <3>1, <3>4, <3>5, <3>6, <3>7, <3>8
    <2> QED BY <2>1, <2>2
  <1> QED BY <1>1, <1>4, MirrorAfterMove

LEMMA NextMirror ==
    ASSUME Inv, NoRollback, Unpublished, Throttle, StatusMirrored, OutputMirrored, [Next]_vars
    PROVE  StatusMirrored' /\ OutputMirrored'
  <1>1. CASE Steady
    <2>1. StatusMirrored'
      BY <1>1 DEF Steady, SameStart, StatusMirrored, ReportOf, Active
    <2>2. OutputMirrored'
      BY <1>1 DEF Steady, OutputMirrored
    <2> QED BY <2>1, <2>2
  <1>2. ASSUME NEW g \in Generations, Only(g), GenerationMove(g)
        PROVE  StatusMirrored' /\ OutputMirrored'
    <2>1. ~Undoes(g)
      BY DEF Undoes, NoRollback, At
    <2> QED BY <1>2, <2>1, MoveKeepsMirror DEF Throttle
  <1> QED BY <1>1, <1>2, GenerationMoves

LEMMA InitMirror == Init => StatusMirrored /\ OutputMirrored
  BY NoRowFields DEF Init, StatusMirrored, OutputMirrored, Active

\* As long as the queue answers, the status of a report is the one of its
\* active generation and READY exactly when an output is published, at every
\* point between claims, requeues, failures and cancellations.  When it does
\* not, a worker may take the job of a generation whose start is being undone.
THEOREM LifecycleReportMirrors ==
    Faults \cap {"queue", "ackLost"} = {} => (Spec => []ReportMirrorsGeneration)
  <1> SUFFICES ASSUME QueueAnswers PROVE Spec => []ReportMirrorsGeneration
    BY DEF QueueAnswers
  <1>1. StatusMirrored /\ OutputMirrored => ReportMirrorsGeneration
    BY DEF StatusMirrored, OutputMirrored, ReportMirrorsGeneration
  <1> DEFINE I == Inv /\ NoRollback /\ Unpublished /\ Throttle
             M == StatusMirrored /\ OutputMirrored
  <1>2. Spec => []I
    BY AlwaysNoRollback, AlwaysThrottle, PTL
  <1>3. Init => M
    BY InitMirror
  <1>4. I /\ M /\ [Next]_vars => M'
    BY NextMirror
  <1> QED BY <1>1, <1>2, <1>3, <1>4, PTL DEF Spec

-----------------------------------------------------------------------------
(* No stored object is forgotten.                                          *)

\* Neither the worker nor its database calls die between the upload of an
\* object and the decision what becomes of it.
WorkersSurvive == Faults \cap {"workerCrash", "db", "queue", "ackLost"} = {}

\* The steps at which a worker has an object in its hands.
InHands == {"uploaded", "commit", "clean"}

KeepsHands ==
    \A w \in Workers : worker[w].step \in InHands =>
        worker'[w].step \in InHands /\ OutputKey(w)' = OutputKey(w)

OutputsStay == \A r \in Reports : report[r].output # NULL => report'[r].output = report[r].output

LEMMA OutputsKept ==
    ASSUME Inv, NoRollback, Unpublished, [Next]_vars
    PROVE  OutputsStay
  <1>1. CASE Steady
    BY <1>1 DEF Steady, OutputsStay
  <1>2. ASSUME NEW g \in Generations, Only(g), GenerationMove(g)
        PROVE  OutputsStay
    <2>1. ~Undoes(g)
      BY DEF Undoes, NoRollback, At
    <2>2. PICK r \in Reports :
            /\ gen[g].status \in Active => gen[g].report = r
            /\ gen'[g].report = r
            /\ \A s \in Reports \ {r} : report'[s] = report[s]
      BY <1>2, <2>1, ActiveAfterMove
    <2>3. CASE Starts(g)
      <3>1. report'[r] = [report[r] EXCEPT !.status = "QUEUED"]
        BY <2>2, <2>3 DEF Starts, ReportBecomes
      <3>2. report'[r].output = report[r].output
        BY <3>1 DEF Inv, TypeOK, ReportRows
      <3> QED BY <2>2, <3>2 DEF OutputsStay
    <2>4. CASE ~Starts(g)
      <3>1. gen[g].status \in Active
        BY <1>2, <2>1, <2>4 DEF GenerationMove, CancelsIt, Claims, Publishes, Requeues, Fails, Active
      <3>2. report[r].output = NULL
        BY <2>2, <3>1 DEF Unpublished, ReportOf
      <3> QED BY <2>2, <3>2 DEF OutputsStay
    <2> QED BY <2>3, <2>4
  <1> QED BY <1>1, <1>2, GenerationMoves

LEMMA KeepsObjects ==
    ASSUME NoForgottenObject, OutputsStay, KeepsHands, NULL \notin OutputKeys, objects \subseteq OutputKeys,
           \A key \in objects' : key \in objects /\ (key \in cleanup => key \in cleanup')
    PROVE  NoForgottenObject'
  <1> SUFFICES ASSUME NEW key \in objects'
               PROVE  \/ \E r \in Reports : report'[r].output = key
                      \/ key \in cleanup'
                      \/ \E w \in Workers : worker'[w].step \in InHands /\ OutputKey(w)' = key
    BY DEF NoForgottenObject, InHands
  <1>1. \/ \E r \in Reports : report[r].output = key
        \/ key \in cleanup
        \/ \E w \in Workers : worker[w].step \in InHands /\ OutputKey(w) = key
    BY DEF NoForgottenObject, InHands
  <1>2. key # NULL
    OBVIOUS
  <1> QED BY <1>1, <1>2 DEF OutputsStay, KeepsHands

\* A worker without an object takes any step; one with an object keeps it.
LEMMA HandsGo ==
    ASSUME InFlight, NEW w \in Workers,
           \/ worker' = worker
           \/ worker[w].step \notin InHands /\ \A v \in Workers \ {w} : worker'[v] = worker[v]
           \/ \E step \in InHands : Go(w, step)
           \/ \E after : GoClean(w, after)
    PROVE  KeepsHands
  <1>1. worker \in [Workers -> WorkerRows]
    BY InFlightType
  <1>2. CASE worker' = worker
    BY <1>2 DEF KeepsHands, OutputKey
  <1>3. CASE worker[w].step \notin InHands /\ \A v \in Workers \ {w} : worker'[v] = worker[v]
    BY <1>3 DEF KeepsHands, OutputKey
  <1>4. ASSUME NEW step \in InHands, Go(w, step)
        PROVE  KeepsHands
    <2>1. /\ worker'[w].step = step /\ worker'[w].gen = worker[w].gen /\ worker'[w].token = worker[w].token
          /\ \A v \in Workers \ {w} : worker'[v] = worker[v]
      BY <1>1, <1>4 DEF Go, WorkerRows
    <2> QED BY <2>1 DEF KeepsHands, OutputKey
  <1>5. ASSUME NEW after, GoClean(w, after)
        PROVE  KeepsHands
    <2>1. /\ worker'[w].step = "clean" /\ worker'[w].gen = worker[w].gen /\ worker'[w].token = worker[w].token
          /\ \A v \in Workers \ {w} : worker'[v] = worker[v]
      BY <1>1, <1>5 DEF GoClean, WorkerRows
    <2> QED BY <2>1 DEF KeepsHands, OutputKey, InHands
  <1> QED BY <1>2, <1>3, <1>4, <1>5

LEMMA UploadForgetsNothing ==
    ASSUME InFlight, NoForgottenObject, OutputsStay, NULL \notin OutputKeys, objects \subseteq OutputKeys,
           NEW w \in Workers, Upload(w) \/ UploadError(w)
    PROVE  NoForgottenObject'
  <1>1. worker \in [Workers -> WorkerRows] /\ ~(worker[w].step \in InHands)
    BY InFlightType DEF Upload, UploadError, Is, InHands
  <1>2. /\ Go(w, "uploaded") \/ \E after : GoClean(w, after)
        /\ cleanup' = cleanup
        /\ \A key \in objects' : key \in objects \/ key = OutputKey(w)
    BY DEF Upload, UploadError
  <1>3. KeepsHands
    BY <1>2, HandsGo DEF InHands
  <1>4. worker'[w].step \in InHands /\ OutputKey(w)' = OutputKey(w)
    <2>1. ASSUME NEW row, worker' = [worker EXCEPT ![w] = row],
                 row.step \in InHands, row.gen = worker[w].gen, row.token = worker[w].token
          PROVE  worker'[w].step \in InHands /\ OutputKey(w)' = OutputKey(w)
      BY <1>1, <2>1 DEF OutputKey
    <2>2. CASE Go(w, "uploaded")
      <3> DEFINE row == [worker[w] EXCEPT !.step = "uploaded"]
      <3>1. row.step \in InHands /\ row.gen = worker[w].gen /\ row.token = worker[w].token
        BY <1>1 DEF InHands, WorkerRows
      <3>2. worker' = [worker EXCEPT ![w] = row]
        BY <2>2 DEF Go
      <3> HIDE DEF row
      <3> QED BY <2>1, <3>1, <3>2
    <2>3. ASSUME NEW after, GoClean(w, after)
          PROVE  worker'[w].step \in InHands /\ OutputKey(w)' = OutputKey(w)
      <3> DEFINE row == [worker[w] EXCEPT !.step = "clean", !.after = after]
      <3>1. row.step \in InHands /\ row.gen = worker[w].gen /\ row.token = worker[w].token
        BY <1>1 DEF InHands, WorkerRows
      <3>2. worker' = [worker EXCEPT ![w] = row]
        BY <2>3 DEF GoClean
      <3> HIDE DEF row
      <3> QED BY <2>1, <3>1, <3>2
    <2> QED BY <1>2, <2>2, <2>3
  <1>5. ASSUME NEW key \in objects'
        PROVE  \/ \E r \in Reports : report'[r].output = key
               \/ key \in cleanup'
               \/ \E v \in Workers : worker'[v].step \in InHands /\ OutputKey(v)' = key
    <2>1. CASE key = OutputKey(w)
      BY <1>4, <2>1
    <2>2. CASE key \in objects
      <3>1. \/ \E r \in Reports : report[r].output = key
            \/ key \in cleanup
            \/ \E v \in Workers : worker[v].step \in InHands /\ OutputKey(v) = key
        BY <2>2 DEF NoForgottenObject, InHands
      <3>2. key # NULL
        BY <2>2
      <3> QED BY <1>2, <1>3, <3>1, <3>2 DEF OutputsStay, KeepsHands
    <2> QED BY <1>2, <2>1, <2>2
  <1> QED BY <1>5 DEF NoForgottenObject, InHands

\* A worker lets its object go when it has published or deleted it, or left a
\* cleanup task behind.
LEMMA LettingGo ==
    ASSUME InFlight, NoForgottenObject, OutputsStay, NULL \notin OutputKeys, objects \subseteq OutputKeys,
           NEW w \in Workers, \A v \in Workers \ {w} : worker'[v] = worker[v],
           \A key \in objects' : key \in objects /\ (key \in cleanup => key \in cleanup'),
           \A key \in objects' : key = OutputKey(w) =>
                key \in cleanup' \/ \E r \in Reports : report'[r].output = key
    PROVE  NoForgottenObject'
  <1>1. ASSUME NEW key \in objects'
        PROVE  \/ \E r \in Reports : report'[r].output = key
               \/ key \in cleanup'
               \/ \E v \in Workers : worker'[v].step \in InHands /\ OutputKey(v)' = key
    <2>1. CASE key = OutputKey(w)
      BY <2>1
    <2>2. CASE key # OutputKey(w)
      <3>1. \/ \E r \in Reports : report[r].output = key
            \/ key \in cleanup
            \/ \E v \in Workers \ {w} : worker[v].step \in InHands /\ OutputKey(v) = key
        BY <2>2 DEF NoForgottenObject, InHands
      <3>2. key # NULL
        OBVIOUS
      <3> QED BY <3>1, <3>2 DEF OutputsStay, OutputKey
    <2> QED BY <2>1, <2>2
  <1> QED BY <1>1 DEF NoForgottenObject, InHands

LEMMA OrphanForgetsNothing ==
    ASSUME InFlight, NoForgottenObject, OutputsStay, NULL \notin OutputKeys, objects \subseteq OutputKeys,
           NEW w \in Workers, OrphanCleanup(w)
    PROVE  NoForgottenObject'
  <1>1. worker \in [Workers -> WorkerRows]
    BY InFlightType
  <1>2. \A v \in Workers \ {w} : worker'[v] = worker[v]
    BY <1>1 DEF OrphanCleanup, Go
  <1>3. /\ \A key \in objects' : key \in objects /\ (key \in cleanup => key \in cleanup')
        /\ \A key \in objects' : key = OutputKey(w) => key \in cleanup'
    BY DEF OrphanCleanup
  <1> QED BY <1>2, <1>3, LettingGo

LEMMA CommitForgetsNothing ==
    ASSUME Inv, Unpublished, NoForgottenObject, OutputsStay, NULL \notin OutputKeys,
           NEW w \in Workers, FinalizeCommit(w)
    PROVE  NoForgottenObject'
  <1> DEFINE g == worker[w].gen
  <1>1. /\ worker \in [Workers -> WorkerRows] /\ report \in [Reports -> ReportRows]
        /\ objects \subseteq OutputKeys /\ InFlight
    BY InFlightType DEF Inv, TypeOK
  <1>2. /\ Publish(w) /\ Go(w, "return") /\ UNCHANGED <<objects, cleanup>>
        /\ report' = [report EXCEPT ![ReportOf(g)] = Published(@, OutputKey(w))]
        /\ gen[g].status = "PROCESSING"
    BY DEF FinalizeCommit, Publish, HoldsToken
  <1>3. g \in Generations
    BY <1>1, <1>2, BusyWorker DEF Publish, Is
  <1>4. ReportOf(g) \in Reports
    BY <1>2, <1>3 DEF Unpublished, Active
  <1>5. report'[ReportOf(g)].output = OutputKey(w)
    BY <1>1, <1>2, <1>4 DEF Published, ReportRows
  <1>6. \A v \in Workers \ {w} : worker'[v] = worker[v]
    BY <1>1, <1>2 DEF Go
  <1>7. UNCHANGED <<objects, cleanup>>
    BY <1>2
  <1> HIDE DEF g
  <1> QED BY <1>1, <1>4, <1>5, <1>6, <1>7, LettingGo

LEMMA NextForgetsNothing ==
    ASSUME WorkersSurvive, Inv, NoRollback, Unpublished, NoForgottenObject, [Next]_vars
    PROVE  NoForgottenObject'
  <1>1. /\ InFlight /\ OutputsStay /\ NULL \notin OutputKeys /\ objects \subseteq OutputKeys
        /\ worker \in [Workers -> WorkerRows]
    BY OutputsKept, KeysAreNotNull, InFlightType DEF Inv, TypeOK
  <1>2. ASSUME KeepsHands, UNCHANGED <<objects, cleanup>>
        PROVE  NoForgottenObject'
    BY <1>1, <1>2, KeepsObjects
  <1>3. ASSUME UNCHANGED <<worker, objects, cleanup>>
        PROVE  NoForgottenObject'
    BY <1>2, <1>3 DEF KeepsHands, OutputKey
  <1>4. ASSUME NEW c \in Callers, NEW g \in Generations,
               \/ \E r \in Reports, k \in Keys : StartNew(c, g, r, k)
               \/ StartDuplicate(c, g) \/ CancelBegin(c, g)
        PROVE  UNCHANGED <<worker, objects, cleanup>>
    BY <1>4 DEF StartNew, StartDuplicate, CancelBegin
  <1>5. ASSUME NEW c \in Callers, CallStep(c) \/ CancelRemoveError(c) \/ CallDbError(c) \/ ApiCrash(c)
        PROVE  UNCHANGED <<worker, objects, cleanup>>
    BY <1>5 DEF CallStep, Enqueue, EnqueueError, MarkEnqueued,
                CompensateRead, CompensateWrite, CancelRemove, CancelCommit, CancelRemoveError,
                CallDbError, ApiCrash
  \* Steps of workers that have no object in their hands.
  <1>6. ASSUME NEW w \in Workers,
               \/ \E g \in Generations : TakeJob(w, g)
               \/ \E retryable \in BOOLEAN : PipelineError(w, retryable)
               \/ Claim(w) \/ ClaimRefused(w) \/ RunLost(w) \/ DeadlineExceeded(w)
               \/ PrepareRetry(w) \/ FailGeneration(w)
               \/ ResultAfterClaimLoss(w) \/ JobCompleted(w) \/ JobFailed(w)
        PROVE  NoForgottenObject'
    <2>1. worker[w].step \notin InHands /\ UNCHANGED <<objects, cleanup>>
      BY <1>6 DEF TakeJob, PipelineError, Claim, ClaimRefused, RunLost, DeadlineExceeded, PrepareRetry,
                  FailGeneration, ResultAfterClaimLoss, JobCompleted, JobFailed, Is, InHands
    <2>2. \E row : worker' = [worker EXCEPT ![w] = row]
      BY <1>6 DEF TakeJob, PipelineError, Claim, ClaimRefused, RunLost, DeadlineExceeded, PrepareRetry,
                  FailGeneration, ResultAfterClaimLoss, JobCompleted, JobFailed, Go, Leave
    <2>3. \A v \in Workers \ {w} : worker'[v] = worker[v]
      BY <1>1, <2>2
    <2> QED BY <1>1, <1>2, <2>1, <2>3, HandsGo
  <1>7. ASSUME NEW w \in Workers,
               FinalizeCheck(w) \/ FinalizeLost(w) \/ FinalizeAckLost(w) \/ FinalizeError(w) \/ RenewLease(w)
        PROVE  NoForgottenObject'
    <2>1. UNCHANGED <<objects, cleanup>>
      BY <1>7 DEF FinalizeCheck, FinalizeLost, FinalizeAckLost, Publish, FinalizeError, RenewLease
    <2>2. worker' = worker \/ (\E step \in InHands : Go(w, step)) \/ \E after : GoClean(w, after)
      BY <1>7 DEF FinalizeCheck, FinalizeLost, FinalizeAckLost, FinalizeError, RenewLease, InHands
    <2> QED BY <1>1, <1>2, <2>1, <2>2, HandsGo
  <1>8. ASSUME NEW w \in Workers, WorkerDbError(w) \/ WorkerCrash(w)
        PROVE  FALSE
    BY <1>8 DEF WorkersSurvive, WorkerDbError, WorkerCrash
  <1>9. ASSUME NEW g \in Generations, StalledJob(g)
        PROVE  NoForgottenObject'
    BY <1>3, <1>9 DEF StalledJob
  <1>10. ASSUME NEW key \in cleanup, RetryCleanup(key)
         PROVE  NoForgottenObject'
    <2>1. KeepsHands /\ \A k \in objects' : k \in objects /\ (k \in cleanup => k \in cleanup')
      BY <1>10 DEF RetryCleanup, KeepsHands, OutputKey
    <2> QED BY <1>1, <2>1, KeepsObjects
  <1>11. CASE Tick
    <2>1. UNCHANGED <<objects, cleanup>>
      BY <1>11 DEF Tick
    <2>2. KeepsHands
      BY <1>1, <1>11 DEF Tick, KeepsHands, OutputKey, WorkerRows
    <2> QED BY <1>2, <2>1, <2>2
  <1>12. CASE UNCHANGED vars
    BY <1>3, <1>12 DEF vars
  <1>13. ASSUME NEW w \in Workers, WorkerStep(w)
         PROVE  NoForgottenObject'
    BY <1>1, <1>6, <1>7, <1>13, UploadForgetsNothing, OrphanForgetsNothing, CommitForgetsNothing
       DEF WorkerStep
  <1> QED BY <1>1, <1>3, <1>4, <1>5, <1>6, <1>7, <1>8, <1>9, <1>10, <1>11, <1>12, <1>13,
             UploadForgetsNothing DEF Next

\* As long as neither a worker nor its database dies between the upload and the
\* decision, and the queue answers, no stored object is forgotten: whichever of
\* the error paths a worker leaves by, the object is published, in the hands of
\* a worker that will decide, deleted, or recorded for a later cleanup.
THEOREM LifecycleNoForgottenObject ==
    Faults \cap {"workerCrash", "db", "queue", "ackLost"} = {} => (Spec => []NoForgottenObject)
  <1> SUFFICES ASSUME WorkersSurvive PROVE Spec => []NoForgottenObject
    BY DEF WorkersSurvive
  <1>1. QueueAnswers
    BY DEF QueueAnswers, WorkersSurvive
  <1> DEFINE I == Inv /\ NoRollback /\ Unpublished
  <1>2. Spec => []I
    BY <1>1, AlwaysNoRollback, AlwaysThrottle, PTL
  <1>3. Init => NoForgottenObject
    BY DEF Init, NoForgottenObject
  <1>4. I /\ NoForgottenObject /\ [Next]_vars => NoForgottenObject'
    BY NextForgetsNothing
  <1> QED BY <1>2, <1>3, <1>4, PTL DEF Spec

-----------------------------------------------------------------------------
(* A claimed generation keeps its job.                                     *)

\* Nobody cancels, no worker sleeps past its lock, every database call of a
\* worker answers, and workers crash no more often than a job may stall.
JobsCarried ==
    /\ Cancels = FALSE
    /\ Faults \cap {"pause", "db"} = {}
    /\ MaxCrashes <= MaxStalled

NoRemoval == \A c \in Callers : ~At(c, "remove")

\* A busy worker holds its job: nobody else runs the generation.
RunnersHold == \A w \in Workers : ~Is(w, "idle") => HoldsJob(w)

\* A run that is over has left its generation.
RunsSettled ==
    \A w \in Workers : worker[w].step \in {"return", "throw"} => ~HoldsStatus(w)

Orphaned(g) ==
    /\ job[g].state = "active"
    /\ ~\E w \in Workers : w = job[g].holder /\ RunsJob(w, g)

\* Each stall of a job was a crash of the worker that ran it.
StallsPaid ==
    /\ crashes <= MaxCrashes
    /\ \A g \in Generations :
        /\ job[g].stalls <= crashes
        /\ Orphaned(g) => job[g].stalls < crashes

Carried == RunnersHold /\ RunsSettled /\ StallsPaid /\ ProcessingHasJob

\* No generation becomes PROCESSING, other than those of a set.
OnlyClaimed(set) ==
    \A g \in Generations \ set : gen'[g].status = "PROCESSING" => gen[g].status = "PROCESSING"

SameRuns ==
    \A w \in Workers : worker'[w].step = worker[w].step /\ worker'[w].gen = worker[w].gen

LEMMA JobAddedCarries ==
    ASSUME Inv, Carried, SameRuns, OnlyClaimed({}), crashes' = crashes,
           \A g \in Generations :
              \/ /\ job'[g].state = job[g].state /\ job'[g].holder = job[g].holder
                 /\ job'[g].stalls = job[g].stalls
              \/ job[g].state = "none" /\ job'[g].state = "ready" /\ job'[g].stalls = 0
    PROVE  Carried'
  <1>1. \A w \in Workers : ~Is(w, "idle") => worker[w].gen \in Generations
    BY BusyWorker DEF Inv
  <1>2. RunnersHold'
    BY <1>1 DEF Carried, RunnersHold, HoldsJob, SameRuns, Is
  <1>3. RunsSettled'
    BY <1>1 DEF Carried, RunsSettled, HoldsStatus, SameRuns, OnlyClaimed, Is
  <1>4. StallsPaid'
    <2>1. crashes \in Nat
      BY DEF Inv, TypeOK
    <2>2. ASSUME NEW g \in Generations
          PROVE  job'[g].stalls <= crashes /\ (Orphaned(g)' => job'[g].stalls < crashes)
      <3>1. CASE /\ job'[g].state = job[g].state /\ job'[g].holder = job[g].holder
                 /\ job'[g].stalls = job[g].stalls
        BY <3>1 DEF Carried, StallsPaid, Orphaned, RunsJob, Is, SameRuns
      <3>2. CASE job'[g].state = "ready" /\ job'[g].stalls = 0
        BY <2>1, <3>2 DEF Orphaned
      <3> QED BY <3>1, <3>2
    <2> QED BY <2>2 DEF Carried, StallsPaid
  <1>5. ProcessingHasJob'
    BY DEF Carried, ProcessingHasJob, OnlyClaimed
  <1> QED BY <1>2, <1>3, <1>4, <1>5 DEF Carried

LEMMA WorkerMoveCarries ==
    ASSUME Inv, Carried, NEW w \in Workers, ~Is(w, "idle"), ~Is(w, "idle")',
           \A v \in Workers \ {w} : worker'[v] = worker[v],
           worker'[w].gen = worker[w].gen, UNCHANGED <<job, crashes>>,
           OnlyClaimed({worker[w].gen}),
           worker'[w].step \in {"return", "throw"} => ~HoldsStatus(w)'
    PROVE  Carried'
  <1>1. /\ \A v \in Workers : ~Is(v, "idle") => worker[v].gen \in Generations /\ HoldsJob(v)
        /\ \A v \in Workers \ {w} : ~Is(v, "idle") => worker[v].gen # worker[w].gen
    BY BusyWorker DEF Inv, Carried, RunnersHold, HoldsJob
  <1>2. \A v \in Workers : (Is(v, "idle")' <=> Is(v, "idle")) /\ worker'[v].gen = worker[v].gen
    BY DEF Is
  <1>3. RunnersHold'
    BY <1>2 DEF Carried, RunnersHold, HoldsJob
  <1>4. RunsSettled'
    <2> SUFFICES ASSUME NEW v \in Workers \ {w}, worker'[v].step \in {"return", "throw"}
                 PROVE  gen'[worker'[v].gen].status # "PROCESSING"
      BY DEF RunsSettled, HoldsStatus
    <2>1. worker'[v] = worker[v] /\ ~Is(v, "idle")
      BY DEF Is
    <2> QED BY <1>1, <2>1 DEF Carried, RunsSettled, HoldsStatus, OnlyClaimed
  <1>5. StallsPaid'
    BY <1>2 DEF Carried, StallsPaid, Orphaned, RunsJob
  <1>6. ProcessingHasJob'
    BY <1>1 DEF Carried, ProcessingHasJob, OnlyClaimed, HoldsJob
  <1> QED BY <1>3, <1>4, <1>5, <1>6 DEF Carried

LEMMA LeaveCarries ==
    ASSUME Inv, Carried, NEW w \in Workers, ~Is(w, "idle"), Leave(w), UNCHANGED <<gen, crashes>>,
           NEW row, Settle(w, row), row.stalls = job[worker[w].gen].stalls,
           LET new == [row EXCEPT !.holder = NULL, !.lock = 0]
           IN  new.state \in {"ready", "done"} /\ new.stalls = row.stalls
                 /\ (new.state = "done" => ~HoldsStatus(w))
    PROVE  Carried'
  <1> DEFINE g == worker[w].gen
             new == [row EXCEPT !.holder = NULL, !.lock = 0]
  <1>1. /\ worker \in [Workers -> WorkerRows] /\ job \in [Generations -> JobRows] /\ crashes \in Nat
        /\ g \in Generations /\ HoldsJob(w)
        /\ \A v \in Workers : ~Is(v, "idle") => worker[v].gen \in Generations
    BY InFlightType, BusyWorker DEF Inv, TypeOK, Carried, RunnersHold
  <1>2. /\ new.state \in {"ready", "done"} /\ new.stalls = job[g].stalls
        /\ new.state = "done" => gen[g].status # "PROCESSING"
    BY DEF HoldsStatus
  <1>3. job' = [job EXCEPT ![g] = new]
    BY <1>1 DEF Settle
  <1> HIDE DEF new
  <1>4. /\ job'[g] = new /\ \A h \in Generations \ {g} : job'[h] = job[h]
        /\ \A v \in Workers \ {w} : worker'[v] = worker[v]
        /\ worker'[w].step = "idle"
    BY <1>1, <1>3 DEF Leave, IdleWorker
  <1>5. \A v \in Workers \ {w} : ~Is(v, "idle") => worker[v].gen # g
    BY <1>1 DEF Carried, RunnersHold, HoldsJob
  <1>6. RunnersHold'
    BY <1>1, <1>4, <1>5 DEF Carried, RunnersHold, HoldsJob, Is
  <1>7. RunsSettled'
    BY <1>1, <1>4 DEF Carried, RunsSettled, HoldsStatus, Is
  <1>8. ASSUME NEW h \in Generations
        PROVE  job'[h].stalls <= crashes /\ (Orphaned(h)' => job'[h].stalls < crashes)
    <2>1. CASE h = g
      BY <1>2, <1>4, <2>1 DEF Carried, StallsPaid, Orphaned
    <2>2. CASE h # g
      <3>1. Orphaned(h)' => Orphaned(h)
        BY <1>4, <2>2 DEF Orphaned, RunsJob, Is
      <3> QED BY <1>4, <2>2, <3>1 DEF Carried, StallsPaid
    <2> QED BY <2>1, <2>2
  <1>9. StallsPaid'
    BY <1>8 DEF Carried, StallsPaid
  <1>10. ProcessingHasJob'
    BY <1>2, <1>4 DEF Carried, ProcessingHasJob
  <1> QED BY <1>6, <1>7, <1>9, <1>10 DEF Carried

LEMMA CrashCarries ==
    ASSUME Inv, Carried, NEW w \in Workers, WorkerCrash(w)
    PROVE  Carried'
  <1> DEFINE g == worker[w].gen
  <1>1. /\ ~Is(w, "idle") /\ Leave(w) /\ crashes' = crashes + 1 /\ crashes < MaxCrashes
        /\ UNCHANGED <<gen, job>>
    BY DEF WorkerCrash
  <1>2. /\ worker \in [Workers -> WorkerRows] /\ crashes \in Nat /\ MaxCrashes \in Nat
        /\ \A h \in Generations : job[h].stalls \in Nat
    BY InFlightType, LifecycleConstants DEF Inv, TypeOK, JobRows
  <1>3. worker'[w].step = "idle" /\ \A v \in Workers \ {w} : worker'[v] = worker[v]
    BY <1>1, <1>2 DEF Leave, IdleWorker
  <1>4. RunnersHold' /\ RunsSettled'
    BY <1>1, <1>3 DEF Carried, RunnersHold, RunsSettled, HoldsJob, HoldsStatus, Is
  <1>5. \A h \in Generations : job[h].stalls <= crashes
    BY DEF Carried, StallsPaid
  <1>6. StallsPaid'
    BY <1>1, <1>2, <1>5 DEF StallsPaid
  <1>7. ProcessingHasJob'
    BY <1>1 DEF Carried, ProcessingHasJob
  <1> QED BY <1>4, <1>6, <1>7 DEF Carried

LEMMA StallCarries ==
    ASSUME JobsCarried, Inv, Carried, NEW g \in Generations, StalledJob(g)
    PROVE  Carried'
  <1> DEFINE old == job[g]
             new == [old EXCEPT !.holder = NULL,
                                !.state = IF old.stalls < MaxStalled THEN "ready" ELSE "done",
                                !.stalls = old.stalls + 1]
  <1>1. /\ Orphaned(g) /\ job' = [job EXCEPT ![g] = new] /\ UNCHANGED <<gen, worker, crashes>>
    BY DEF StalledJob, JobsCarried, Orphaned
  <1>2. /\ old \in JobRows /\ job \in [Generations -> JobRows] /\ old.stalls \in Nat
        /\ crashes \in Nat /\ MaxCrashes \in Nat /\ MaxStalled \in Nat
    BY LifecycleConstants DEF Inv, TypeOK, JobRows
  <1>3. old.stalls < crashes /\ crashes <= MaxCrashes /\ MaxCrashes <= MaxStalled
    BY <1>1 DEF Carried, StallsPaid, JobsCarried
  <1>4. old.stalls < MaxStalled
    BY <1>2, <1>3
  <1>5. new.state = "ready" /\ new.stalls = old.stalls + 1
    BY <1>2, <1>4 DEF JobRows
  <1> HIDE DEF new
  <1>6. job'[g] = new /\ \A h \in Generations \ {g} : job'[h] = job[h]
    BY <1>1, <1>2
  <1>7. \A v \in Workers : ~Is(v, "idle") => worker[v].gen \in Generations \ {g}
    <2>1. \A v \in Workers : ~Is(v, "idle") => worker[v].gen \in Generations /\ HoldsJob(v)
      BY BusyWorker DEF Inv, Carried, RunnersHold
    <2> QED BY <1>1, <2>1 DEF Orphaned, RunsJob, HoldsJob
  <1>8. RunnersHold' /\ RunsSettled'
    BY <1>1, <1>6, <1>7 DEF Carried, RunnersHold, RunsSettled, HoldsJob, HoldsStatus, Is
  <1>9. ASSUME NEW h \in Generations
        PROVE  job'[h].stalls <= crashes /\ (Orphaned(h)' => job'[h].stalls < crashes)
    <2>1. CASE h = g
      <3>1. ~Orphaned(h)'
        BY <1>5, <1>6, <2>1 DEF Orphaned
      <3> QED BY <1>2, <1>3, <1>5, <1>6, <2>1, <3>1
    <2>2. CASE h # g
      BY <1>1, <1>6, <2>2 DEF Carried, StallsPaid, Orphaned, RunsJob, Is
    <2> QED BY <2>1, <2>2
  <1>10. StallsPaid'
    BY <1>1, <1>9 DEF Carried, StallsPaid
  <1>11. ProcessingHasJob'
    BY <1>1, <1>5, <1>6 DEF Carried, ProcessingHasJob
  <1> QED BY <1>8, <1>10, <1>11 DEF Carried

LEMMA TakeCarries ==
    ASSUME Inv, Carried, NEW w \in Workers, NEW g \in Generations, TakeJob(w, g)
    PROVE  Carried'
  <1> DEFINE old == job[g]
             new == [old EXCEPT !.state = "active", !.holder = w, !.lock = JobTimeout]
             row == [IdleWorker EXCEPT !.step = "claim", !.gen = g, !.attempt = old.made + 1]
  <1>1. /\ Is(w, "idle") /\ old.state = "ready"
        /\ job' = [job EXCEPT ![g] = new] /\ worker' = [worker EXCEPT ![w] = row]
        /\ UNCHANGED <<gen, crashes>>
    BY DEF TakeJob
  <1>2. /\ old \in JobRows /\ job \in [Generations -> JobRows] /\ worker \in [Workers -> WorkerRows]
    BY InFlightType DEF Inv, TypeOK
  <1>3. new.state = "active" /\ new.holder = w /\ new.stalls = old.stalls
    BY <1>2 DEF JobRows
  <1>4. row.step = "claim" /\ row.gen = g
    BY DEF IdleWorker
  <1> HIDE DEF new, row
  <1>5. /\ job'[g] = new /\ \A h \in Generations \ {g} : job'[h] = job[h]
        /\ worker'[w] = row /\ \A v \in Workers \ {w} : worker'[v] = worker[v]
    BY <1>1, <1>2
  <1>6. \A v \in Workers : ~Is(v, "idle") => worker[v].gen \in Generations \ {g} /\ HoldsJob(v)
    BY <1>1, BusyWorker DEF Inv, Carried, RunnersHold, HoldsJob
  <1>7. RunnersHold'
    BY <1>3, <1>4, <1>5, <1>6 DEF RunnersHold, HoldsJob, Is
  <1>8. RunsSettled'
    BY <1>1, <1>4, <1>5 DEF Carried, RunsSettled, HoldsStatus
  <1>9. ASSUME NEW h \in Generations
        PROVE  job'[h].stalls <= crashes /\ (Orphaned(h)' => job'[h].stalls < crashes)
    <2>1. CASE h = g
      <3>1. ~Orphaned(h)'
        BY <1>3, <1>4, <1>5, <2>1 DEF Orphaned, RunsJob, Is
      <3> QED BY <1>3, <1>5, <2>1, <3>1 DEF Carried, StallsPaid
    <2>2. CASE h # g
      <3>1. Orphaned(h)' => Orphaned(h)
        BY <1>1, <1>5, <2>2 DEF Orphaned, RunsJob, Is
      <3> QED BY <1>5, <2>2, <3>1 DEF Carried, StallsPaid
    <2> QED BY <2>1, <2>2
  <1>10. StallsPaid'
    BY <1>1, <1>9 DEF Carried, StallsPaid
  <1>11. ProcessingHasJob'
    BY <1>1, <1>3, <1>5 DEF Carried, ProcessingHasJob
  <1> QED BY <1>7, <1>8, <1>10, <1>11 DEF Carried

LEMMA RunGoes ==
    ASSUME InFlight, NEW w \in Workers, NEW step,
           Go(w, step) \/ (step = "clean" /\ \E after : GoClean(w, after))
    PROVE  /\ worker'[w].step = step /\ worker'[w].gen = worker[w].gen
           /\ \A v \in Workers \ {w} : worker'[v] = worker[v]
  <1>1. worker \in [Workers -> WorkerRows]
    BY InFlightType
  <1>2. CASE Go(w, step)
    <2> DEFINE row == [worker[w] EXCEPT !.step = step]
    <2>1. row.step = step /\ row.gen = worker[w].gen
      BY <1>1 DEF WorkerRows
    <2>2. worker' = [worker EXCEPT ![w] = row]
      BY <1>2 DEF Go
    <2> HIDE DEF row
    <2> QED BY <1>1, <2>1, <2>2
  <1>3. ASSUME NEW after, GoClean(w, after)
        PROVE  /\ worker'[w].step = "clean" /\ worker'[w].gen = worker[w].gen
               /\ \A v \in Workers \ {w} : worker'[v] = worker[v]
    <2> DEFINE row == [worker[w] EXCEPT !.step = "clean", !.after = after]
    <2>1. row.step = "clean" /\ row.gen = worker[w].gen
      BY <1>1 DEF WorkerRows
    <2>2. worker' = [worker EXCEPT ![w] = row]
      BY <1>3 DEF GoClean
    <2> HIDE DEF row
    <2> QED BY <1>1, <2>1, <2>2
  <1> QED BY <1>2, <1>3

LEMMA RunCarries ==
    ASSUME Inv, Carried, NEW w \in Workers,
           \/ \E retryable \in BOOLEAN : PipelineError(w, retryable)
           \/ ClaimRefused(w) \/ RunLost(w) \/ DeadlineExceeded(w) \/ Upload(w) \/ UploadError(w)
           \/ FinalizeCheck(w) \/ FinalizeLost(w) \/ FinalizeError(w) \/ OrphanCleanup(w)
    PROVE  Carried'
  <1>1. InFlight /\ ~Is(w, "idle") /\ UNCHANGED <<gen, job, crashes>>
    BY DEF Inv, PipelineError, ClaimRefused, RunLost, DeadlineExceeded, Upload, UploadError,
           FinalizeCheck, FinalizeLost, FinalizeError, OrphanCleanup, Is
  <1>2. worker[w].step = "clean" => worker[w].after \in {"lost", "retry", "fail"}
    BY <1>1 DEF InFlight, BusyWorkers
  <1>3. \E step \in {"lost", "retry", "fail", "uploaded", "commit", "clean"} :
           Go(w, step) \/ (step = "clean" /\ \E after : GoClean(w, after))
    BY <1>2 DEF PipelineError, ClaimRefused, RunLost, DeadlineExceeded, Upload, UploadError,
           FinalizeCheck, FinalizeLost, FinalizeError, OrphanCleanup, Is, AfterError
  <1>4. /\ worker'[w].step \in {"lost", "retry", "fail", "uploaded", "commit", "clean"}
        /\ worker'[w].gen = worker[w].gen
        /\ \A v \in Workers \ {w} : worker'[v] = worker[v]
    BY <1>1, <1>3, RunGoes
  <1>5. ~Is(w, "idle")' /\ OnlyClaimed({worker[w].gen})
    BY <1>1, <1>4 DEF Is, OnlyClaimed
  <1> QED BY <1>1, <1>4, <1>5, WorkerMoveCarries

LEMMA ClaimCarries ==
    ASSUME Inv, Carried, NEW w \in Workers, Claim(w)
    PROVE  Carried'
  <1> DEFINE row == [worker[w] EXCEPT !.step = "run", !.token = gen[worker[w].gen].attempts + 1,
                                      !.deadline = JobTimeout]
  <1>1. /\ worker \in [Workers -> WorkerRows] /\ ~Is(w, "idle") /\ UNCHANGED <<job, crashes>>
        /\ worker' = [worker EXCEPT ![w] = row]
    BY InFlightType DEF Inv, Claim, Is
  <1>2. row.step = "run" /\ row.gen = worker[w].gen
    BY <1>1 DEF WorkerRows
  <1> HIDE DEF row
  <1>3. /\ worker'[w].step = "run" /\ worker'[w].gen = worker[w].gen
        /\ \A v \in Workers \ {w} : worker'[v] = worker[v]
    BY <1>1, <1>2
  <1>4. OnlyClaimed({worker[w].gen})
    BY DEF Claim, OnlyClaimed, Inv, TypeOK
  <1>5. ~Is(w, "idle")'
    BY <1>3 DEF Is
  <1> QED BY <1>1, <1>3, <1>4, <1>5, WorkerMoveCarries

\* A run ends with its generation settled.
LEMMA SettlingCarries ==
    ASSUME Inv, Carried, NEW w \in Workers,
           \/ FinalizeCommit(w) \/ FinalizeAckLost(w) \/ PrepareRetry(w) \/ FailGeneration(w)
    PROVE  Carried'
  <1> DEFINE g == worker[w].gen
  <1>1. /\ InFlight /\ ~Is(w, "idle") /\ UNCHANGED <<job, crashes>>
        /\ gen \in [Generations -> GenRows] /\ g \in Generations
    BY BusyWorker DEF Inv, TypeOK, FinalizeCommit, FinalizeAckLost, Publish, PrepareRetry, FailGeneration, Is
  <1>2. \/ gen' = gen
        \/ \E status \in {"COMPLETED", "QUEUED", "FAILED"} :
              gen' = [gen EXCEPT ![g] = [@ EXCEPT !.status = status, !.token = 0, !.lease = 0]]
    BY DEF FinalizeCommit, FinalizeAckLost, Publish, PrepareRetry, FailGeneration
  <1>3. ASSUME NEW status \in {"COMPLETED", "QUEUED", "FAILED"},
               gen' = [gen EXCEPT ![g] = [@ EXCEPT !.status = status, !.token = 0, !.lease = 0]]
        PROVE  gen'[g].status # "PROCESSING" /\ \A h \in Generations \ {g} : gen'[h] = gen[h]
    <2> DEFINE row == [gen[g] EXCEPT !.status = status, !.token = 0, !.lease = 0]
    <2>1. row.status = status
      BY <1>1 DEF GenRows
    <2>2. gen' = [gen EXCEPT ![g] = row]
      BY <1>3
    <2> HIDE DEF row
    <2> QED BY <1>1, <2>1, <2>2
  <1>4. OnlyClaimed({g})
    BY <1>2, <1>3 DEF OnlyClaimed
  <1>5. \/ Go(w, "lost") \/ \E after : GoClean(w, after)
        \/ (Go(w, "return") \/ Go(w, "throw")) /\ gen'[g].status # "PROCESSING"
    <2>1. CASE FinalizeCommit(w)
      <3>1. gen' = [gen EXCEPT ![g] = [@ EXCEPT !.status = "COMPLETED", !.token = 0, !.lease = 0]]
        BY <2>1 DEF FinalizeCommit, Publish
      <3> QED BY <1>3, <2>1, <3>1 DEF FinalizeCommit
    <2>2. CASE FinalizeAckLost(w)
      BY <2>2 DEF FinalizeAckLost
    <2>3. CASE PrepareRetry(w)
      <3>1. CASE Owns(w)
        <4>1. gen' = [gen EXCEPT ![g] = [@ EXCEPT !.status = "QUEUED", !.token = 0, !.lease = 0]]
          BY <2>3, <3>1 DEF PrepareRetry
        <4> QED BY <1>3, <2>3, <3>1, <4>1 DEF PrepareRetry
      <3>2. CASE ~Owns(w)
        BY <2>3, <3>2 DEF PrepareRetry
      <3> QED BY <3>1, <3>2
    <2>4. CASE FailGeneration(w)
      <3>1. CASE Owns(w)
        <4>1. gen' = [gen EXCEPT ![g] = [@ EXCEPT !.status = "FAILED", !.token = 0, !.lease = 0]]
          BY <2>4, <3>1 DEF FailGeneration
        <4> QED BY <1>3, <2>4, <3>1, <4>1 DEF FailGeneration
      <3>2. CASE ~Owns(w)
        BY <2>4, <3>2 DEF FailGeneration
      <3> QED BY <3>1, <3>2
    <2> QED BY <2>1, <2>2, <2>3, <2>4
  <1>6. /\ worker'[w].step \in {"lost", "clean", "return", "throw"} /\ worker'[w].gen = g
        /\ \A v \in Workers \ {w} : worker'[v] = worker[v]
        /\ worker'[w].step \in {"return", "throw"} => gen'[g].status # "PROCESSING"
    BY <1>1, <1>5, RunGoes
  <1>7. ~Is(w, "idle")' /\ (worker'[w].step \in {"return", "throw"} => ~HoldsStatus(w)')
    BY <1>6 DEF Is, HoldsStatus
  <1> QED BY <1>1, <1>4, <1>6, <1>7, WorkerMoveCarries

LEMMA JobEndCarries ==
    ASSUME Inv, Carried, NEW w \in Workers,
           ResultAfterClaimLoss(w) \/ JobCompleted(w) \/ JobFailed(w)
    PROVE  Carried'
  <1> DEFINE g == worker[w].gen
  <1>1. /\ InFlight /\ ~Is(w, "idle") /\ UNCHANGED <<gen, crashes>>
        /\ g \in Generations /\ job[g] \in JobRows
    BY BusyWorker DEF Inv, TypeOK, ResultAfterClaimLoss, JobCompleted, JobFailed, Is
  <1>2. CASE ResultAfterClaimLoss(w) /\ ~Deferred(g)
    <2>1. Go(w, "return") /\ job' = job
      BY <1>2 DEF ResultAfterClaimLoss
    <2>2. /\ worker'[w].step = "return" /\ worker'[w].gen = g
          /\ \A v \in Workers \ {w} : worker'[v] = worker[v]
      BY <1>1, <2>1, RunGoes
    <2>3. ~Is(w, "idle")' /\ ~HoldsStatus(w)' /\ OnlyClaimed({g})
      BY <1>1, <1>2, <2>2 DEF Is, HoldsStatus, OnlyClaimed, Deferred
    <2> QED BY <1>1, <2>1, <2>2, <2>3, WorkerMoveCarries
  <1>3. CASE ResultAfterClaimLoss(w) /\ Deferred(g)
    <2> DEFINE row == [job[g] EXCEPT !.state = "ready", !.delay = DeferralDelay(g)]
               new == [row EXCEPT !.holder = NULL, !.lock = 0]
    <2>1. Settle(w, row) /\ Leave(w)
      BY <1>3 DEF ResultAfterClaimLoss
    <2>2. row.stalls = job[g].stalls /\ new.state = "ready" /\ new.stalls = row.stalls
      BY <1>1 DEF JobRows
    <2> HIDE DEF row
    <2> QED BY <1>1, <2>1, <2>2, LeaveCarries
  <1>4. CASE JobCompleted(w)
    <2> DEFINE row == [job[g] EXCEPT !.state = "done"]
               new == [row EXCEPT !.holder = NULL, !.lock = 0]
    <2>1. Settle(w, row) /\ Leave(w) /\ ~HoldsStatus(w)
      BY <1>4 DEF JobCompleted, Is, Carried, RunsSettled
    <2>2. row.stalls = job[g].stalls /\ new.state = "done" /\ new.stalls = row.stalls
      BY <1>1 DEF JobRows
    <2> HIDE DEF row
    <2> QED BY <1>1, <2>1, <2>2, LeaveCarries
  <1>5. CASE JobFailed(w)
    <2> DEFINE made == job[g].made + 1
               state == IF made < MaxAttempts THEN "ready" ELSE "done"
               row == [job[g] EXCEPT !.made = made, !.state = state]
               new == [row EXCEPT !.holder = NULL, !.lock = 0]
    <2>1. Settle(w, row) /\ Leave(w) /\ ~HoldsStatus(w)
      BY <1>5 DEF JobFailed, Is, Carried, RunsSettled
    <2>2. state \in {"ready", "done"}
      OBVIOUS
    <2> HIDE DEF made, state
    <2>3. row.stalls = job[g].stalls /\ new.state = state /\ new.stalls = row.stalls
      BY <1>1 DEF JobRows
    <2> HIDE DEF row
    <2> QED BY <1>1, <2>1, <2>2, <2>3, LeaveCarries
  <1> QED BY <1>2, <1>3, <1>4, <1>5

LEMMA RequestCarries ==
    ASSUME Inv, Carried, NEW c \in Callers,
           \/ \E g \in Generations, r \in Reports, k \in Keys : StartNew(c, g, r, k)
           \/ \E g \in Generations : StartDuplicate(c, g)
           \/ Enqueue(c) \/ EnqueueError(c) \/ MarkEnqueued(c) \/ CompensateRead(c) \/ CompensateWrite(c)
           \/ CancelCommit(c) \/ CancelRemoveError(c) \/ CallDbError(c) \/ ApiCrash(c)
    PROVE  Carried'
  <1>1. gen \in [Generations -> GenRows] /\ job \in [Generations -> JobRows]
    BY DEF Inv, TypeOK
  <1>2. SameRuns /\ crashes' = crashes
    BY DEF SameRuns, StartNew, StartDuplicate, Enqueue, EnqueueError, MarkEnqueued, CompensateRead,
           CompensateWrite, CancelCommit, CancelRemoveError, CallDbError, ApiCrash
  <1>3. job' = job \/ \E g \in Generations : job' = Added(g)
    BY BusyCall
       DEF Inv, At, StartNew, StartDuplicate, Enqueue, EnqueueError, MarkEnqueued, CompensateRead,
           CompensateWrite, CancelCommit, CancelRemoveError, CallDbError, ApiCrash
  <1>4. ASSUME NEW g \in Generations
        PROVE  \/ /\ job'[g].state = job[g].state /\ job'[g].holder = job[g].holder
                  /\ job'[g].stalls = job[g].stalls
               \/ job[g].state = "none" /\ job'[g].state = "ready" /\ job'[g].stalls = 0
    BY <1>1, <1>3 DEF Added, NoJob
  <1>5. OnlyClaimed({})
    <2>1. CASE gen' = gen
      BY <2>1 DEF OnlyClaimed
    <2>2. ASSUME NEW g \in Generations, NEW r \in Reports, NEW k \in Keys, StartNew(c, g, r, k)
          PROVE  OnlyClaimed({})
      BY <1>1, <2>2 DEF StartNew, OnlyClaimed
    <2>3. CASE MarkEnqueued(c)
      BY <1>1, <2>3 DEF MarkEnqueued, OnlyClaimed, GenRows
    <2>4. CASE CompensateWrite(c)
      <3>1. gen' = gen \/ gen' = [gen EXCEPT ![call[c].gen] = NoRow("DELETED")]
        BY <2>4 DEF CompensateWrite
      <3> QED BY <1>1, <3>1, NoRowFields DEF OnlyClaimed
    <2>5. CASE CancelCommit(c)
      BY <1>1, <2>5 DEF CancelCommit, OnlyClaimed, GenRows
    <2> QED BY <2>1, <2>2, <2>3, <2>4, <2>5
            DEF StartDuplicate, Enqueue, EnqueueError, CompensateRead, CancelRemoveError, CallDbError, ApiCrash
  <1> QED BY <1>2, <1>4, <1>5, JobAddedCarries

LEMMA TimeCarries ==
    ASSUME Inv, Carried, Tick \/ (\E w \in Workers : RenewLease(w)) \/ UNCHANGED <<gen, job, worker, crashes>>
    PROVE  Carried'
  <1>1. /\ gen \in [Generations -> GenRows] /\ job \in [Generations -> JobRows]
        /\ worker \in [Workers -> WorkerRows]
    BY InFlightType DEF Inv, TypeOK
  <1>2. CASE Tick
    <2>1. SameRuns /\ crashes' = crashes
      BY <1>1, <1>2 DEF Tick, SameRuns, WorkerRows
    <2>2. OnlyClaimed({})
      BY <1>1, <1>2 DEF Tick, OnlyClaimed, GenRows
    <2>3. ASSUME NEW g \in Generations
          PROVE  /\ job'[g].state = job[g].state /\ job'[g].holder = job[g].holder
                 /\ job'[g].stalls = job[g].stalls
      BY <1>1, <1>2 DEF Tick, JobRows
    <2> QED BY <2>1, <2>2, <2>3, JobAddedCarries
  <1>3. ASSUME NEW w \in Workers, RenewLease(w)
        PROVE  Carried'
    <2>1. SameRuns /\ UNCHANGED <<job, crashes>>
      BY <1>3 DEF RenewLease, SameRuns
    <2>2. OnlyClaimed({})
      BY <1>1, <1>3 DEF RenewLease, OnlyClaimed, GenRows
    <2> QED BY <2>1, <2>2, JobAddedCarries
  <1>4. CASE UNCHANGED <<gen, job, worker, crashes>>
    BY <1>4, JobAddedCarries DEF SameRuns, OnlyClaimed
  <1> QED BY <1>2, <1>3, <1>4

LEMMA NextCarried ==
    ASSUME JobsCarried, Inv, NoRemoval, Carried, [Next]_vars
    PROVE  Carried'
  <1>1. \A c \in Callers, g \in Generations : ~CancelBegin(c, g)
    BY DEF JobsCarried, CancelBegin
  <1>2. \A c \in Callers : ~CancelRemove(c)
    BY DEF NoRemoval, CancelRemove
  <1>3. ASSUME NEW c \in Callers, NEW g \in Generations,
               (\E r \in Reports, k \in Keys : StartNew(c, g, r, k)) \/ StartDuplicate(c, g) \/ CancelBegin(c, g)
        PROVE  Carried'
    BY <1>1, <1>3, RequestCarries
  <1>4. ASSUME NEW c \in Callers, CallStep(c) \/ CancelRemoveError(c) \/ CallDbError(c) \/ ApiCrash(c)
        PROVE  Carried'
    BY <1>2, <1>4, RequestCarries DEF CallStep
  <1>5. ASSUME NEW w \in Workers, WorkerStep(w)
        PROVE  Carried'
    BY <1>5, ClaimCarries, RunCarries, SettlingCarries, JobEndCarries DEF WorkerStep
  <1>6. ASSUME NEW w \in Workers,
               \/ \E retryable \in BOOLEAN : PipelineError(w, retryable)
               \/ UploadError(w) \/ FinalizeAckLost(w) \/ FinalizeError(w) \/ WorkerCrash(w)
        PROVE  Carried'
    BY <1>6, RunCarries, SettlingCarries, CrashCarries
  <1>7. \A w \in Workers : ~WorkerDbError(w)
    BY DEF JobsCarried, WorkerDbError
  <1>8. ASSUME NEW key \in cleanup, RetryCleanup(key)
        PROVE  Carried'
    BY <1>8, TimeCarries DEF RetryCleanup
  <1>9. CASE UNCHANGED vars
    BY <1>9, TimeCarries DEF vars
  <1> QED BY <1>3, <1>4, <1>5, <1>6, <1>7, <1>8, <1>9, TimeCarries, TakeCarries, StallCarries DEF Next

LEMMA NextNoRemoval ==
    ASSUME JobsCarried, InFlight, NoRemoval, [Next]_vars
    PROVE  NoRemoval'
  <1>1. ASSUME NEW c \in Callers, NEW step \in {"enqueue", "mark", "compensate", "rollback", "cancel"},
               NEW g, GoCall(c, step, g) \/ EndCall(c)
        PROVE  NoRemoval'
    BY <1>1 DEF NoRemoval, InFlight, GoCall, EndCall, IdleCall, At
  <1>2. ASSUME NEW c \in Callers, NEW g \in Generations
        PROVE  /\ \A r \in Reports, k \in Keys : StartNew(c, g, r, k) => NoRemoval'
               /\ StartDuplicate(c, g) => NoRemoval'
               /\ ~CancelBegin(c, g)
    BY <1>1 DEF StartNew, StartDuplicate, CancelBegin, JobsCarried
  <1>3. ASSUME NEW c \in Callers, CallStep(c) \/ CancelRemoveError(c) \/ CallDbError(c) \/ ApiCrash(c)
        PROVE  NoRemoval'
    <2>1. EndCall(c) \/ \E step \in {"enqueue", "mark", "compensate", "rollback", "cancel"},
                          g \in {call[c].gen} : GoCall(c, step, g)
      BY <1>3 DEF CallStep, Enqueue, EnqueueError, MarkEnqueued, CompensateRead, CompensateWrite,
                  CancelRemove, CancelCommit, CancelRemoveError, CallDbError, ApiCrash
    <2> QED BY <1>1, <2>1
  <1>4. CASE call' = call
    BY <1>4 DEF NoRemoval, At
  <1> QED BY <1>2, <1>3, <1>4, CallWriters

LEMMA InitCarried == Init => Carried /\ NoRemoval
  <1>1. Init => /\ \A w \in Workers : worker[w].step = "idle"
                /\ \A g \in Generations : gen[g].status = "ABSENT" /\ job[g].state = "none" /\ job[g].stalls = 0
                /\ \A c \in Callers : call[c].step = "idle"
                /\ crashes = 0
    BY NoRowFields DEF Init, IdleWorker, NoJob, IdleCall
  <1>2. 0 <= MaxCrashes
    BY LifecycleConstants
  <1> QED BY <1>1, <1>2 DEF Carried, RunnersHold, RunsSettled, StallsPaid, ProcessingHasJob, NoRemoval,
                            Orphaned, Is, At

\* While nobody cancels, no worker is suspended past its lock, the database
\* answers the workers and they crash no more often than BullMQ lets a job
\* stall, a claimed generation never loses its job: whoever acknowledges or
\* gives up a job has settled the generation first, whatever the provider, the
\* queue and the requests do.
THEOREM LifecycleProcessingHasJob ==
    Cancels = FALSE /\ Faults \cap {"pause", "db"} = {} /\ MaxCrashes <= MaxStalled
      => (Spec => []ProcessingHasJob)
  <1> SUFFICES ASSUME JobsCarried PROVE Spec => []ProcessingHasJob
    BY DEF JobsCarried
  <1> DEFINE I == Inv /\ NoRemoval /\ Carried
  <1>1. Init => I
    BY InitInv, InitCarried
  <1>2. I /\ [Next]_vars => I'
    <2> SUFFICES ASSUME I, [Next]_vars PROVE I'
      OBVIOUS
    <2>1. Inv' /\ NoRemoval' /\ Carried'
      BY NextInv, NextNoRemoval, NextCarried DEF Inv
    <2> QED BY <2>1
  <1>3. I => ProcessingHasJob
    BY DEF Carried
  <1> QED BY <1>1, <1>2, <1>3, PTL DEF Spec

=============================================================================
