---------------------- MODULE GenerationLifecycleProofs ----------------------
(***************************************************************************)
(* The core safety of the generation lifecycle, for any number of reports, *)
(* generations, requests and workers, any limits, and every combination of *)
(* the faults.  The invariant adds to the checked ones what requests and   *)
(* workers in flight are known to hold.                                    *)
(***************************************************************************)
EXTENDS GenerationLifecycle, CreditsProofs

\* A request in flight names a generation; so does a busy worker, which has a
\* token from its claim until it has settled, and cleans up only on its way
\* to another step.
BusyCalls == {row \in CallRows : row.step # "idle" => row.gen \in Generations}
BusyWorkers ==
    {row \in WorkerRows :
        /\ row.step # "idle" => row.gen \in Generations
        /\ row.step \in {"run", "uploaded", "commit", "clean"} => row.token > 0
        /\ row.step = "clean" => row.after \in {"lost", "retry", "fail"}}

InFlight ==
    /\ call \in [Callers -> BusyCalls]
    /\ worker \in [Workers -> BusyWorkers]

Inv ==
    /\ TypeOK
    /\ InFlight
    /\ SettlementMatchesOutcome
    /\ OneActivePerReport
    /\ Conservation

-----------------------------------------------------------------------------
(* Rows.                                                                   *)

LEMMA IdleRows == IdleCall \in BusyCalls /\ IdleWorker \in BusyWorkers
  BY DEF IdleCall, BusyCalls, CallRows, CallSteps, IdleWorker, BusyWorkers, WorkerRows, WorkerSteps

LEMMA InFlightType == InFlight => call \in [Callers -> CallRows] /\ worker \in [Workers -> WorkerRows]
  BY DEF InFlight, BusyCalls, BusyWorkers

LEMMA BusyCall ==
    ASSUME InFlight, NEW c \in Callers, ~At(c, "idle")
    PROVE  call[c].gen \in Generations
  BY DEF InFlight, BusyCalls, At

LEMMA BusyWorker ==
    ASSUME InFlight, NEW w \in Workers, ~Is(w, "idle")
    PROVE  worker[w].gen \in Generations
  BY DEF InFlight, BusyWorkers, Is

\* A request goes on, with a generation.
LEMMA CallGoes ==
    ASSUME InFlight, NEW c \in Callers, NEW g \in Generations, NEW step \in CallSteps,
           GoCall(c, step, g), worker' = worker
    PROVE  InFlight'
  <1>1. [step |-> step, gen |-> g] \in BusyCalls
    BY DEF BusyCalls, CallRows
  <1> QED BY <1>1 DEF InFlight, GoCall

LEMMA CallEnds ==
    ASSUME InFlight, NEW c \in Callers, EndCall(c), worker' = worker
    PROVE  InFlight'
  BY IdleRows DEF InFlight, EndCall

\* A busy worker goes on to a step that needs no more than it has.
LEMMA WorkerGoes ==
    ASSUME InFlight, NEW w \in Workers, ~Is(w, "idle"), NEW step \in WorkerSteps,
           step # "clean",
           step \in {"run", "uploaded", "commit"} =>
             worker[w].step \in {"run", "uploaded", "commit", "clean"},
           Go(w, step), call' = call
    PROVE  InFlight'
  <1>1. [worker[w] EXCEPT !.step = step] \in BusyWorkers
    BY DEF InFlight, BusyWorkers, WorkerRows, Is
  <1> QED BY <1>1 DEF InFlight, Go

LEMMA WorkerCleans ==
    ASSUME InFlight, NEW w \in Workers, NEW after \in {"lost", "retry", "fail"},
           worker[w].step \in {"run", "uploaded", "commit"},
           GoClean(w, after), call' = call
    PROVE  InFlight'
  <1>1. [worker[w] EXCEPT !.step = "clean", !.after = after] \in BusyWorkers
    BY DEF InFlight, BusyWorkers, WorkerRows, WorkerSteps
  <1> QED BY <1>1 DEF InFlight, GoClean

LEMMA WorkerLeaves ==
    ASSUME InFlight, NEW w \in Workers, Leave(w), call' = call
    PROVE  InFlight'
  BY IdleRows DEF InFlight, Leave

LEMMA OutputKeyType ==
    ASSUME InFlight, NEW w \in Workers,
           worker[w].step \in {"run", "uploaded", "commit", "clean"}
    PROVE  OutputKey(w) \in OutputKeys
  BY DEF InFlight, BusyWorkers, WorkerRows, OutputKey, OutputKeys

LEMMA AfterErrorStep ==
    \A w, retryable : AfterError(w, retryable) \in {"retry", "fail"}
  BY DEF AfterError

-----------------------------------------------------------------------------
(* Steps that leave the credits and the status of every generation alone.  *)

Quiet ==
    /\ UNCHANGED creditVars
    /\ \A g \in Generations :
        gen'[g].status = gen[g].status /\ gen'[g].report = gen[g].report

LEMMA QuietKeeps ==
    ASSUME Inv, Quiet
    PROVE  CreditTypeOK' /\ SettlementMatchesOutcome' /\ OneActivePerReport' /\ Conservation'
  <1>1. UNCHANGED <<granted, remaining, reservation, settled, linked>>
    BY DEF Quiet, creditVars
  <1>2. CreditTypeOK' /\ Conservation'
    BY <1>1 DEF Inv, TypeOK, CreditTypeOK, Conservation, Held
  <1>3. SettlementMatchesOutcome'
    BY <1>1 DEF Inv, Quiet, SettlementMatchesOutcome, OutcomeSettled, Exists
  <1>4. OneActivePerReport'
    BY DEF Inv, Quiet, OneActivePerReport, ReportOf
  <1> QED BY <1>2, <1>3, <1>4

\* What a quiet step still has to show.
TablesOK ==
    /\ report \in [Reports -> ReportRows]
    /\ gen \in [Generations -> GenRows]
    /\ job \in [Generations -> JobRows]
    /\ objects \subseteq OutputKeys
    /\ cleanup \subseteq OutputKeys
    /\ crashes \in Nat

LEMMA QuietStep ==
    ASSUME Inv, Quiet, TablesOK', InFlight'
    PROVE  Inv'
  BY QuietKeeps, InFlightType, PTL DEF Inv, TypeOK, TablesOK

LEMMA JobStep ==
    ASSUME TypeOK, NEW g \in Generations, NEW row \in JobRows
    PROVE  [job EXCEPT ![g] = row] \in [Generations -> JobRows]
  BY DEF TypeOK

LEMMA AddedType ==
    ASSUME TypeOK, NEW g \in Generations
    PROVE  Added(g) \in [Generations -> JobRows]
  <1>1. [NoJob EXCEPT !.state = "ready"] \in JobRows /\ NoJob \in JobRows
    BY DEF NoJob, JobRows
  <1> QED BY <1>1 DEF Added, TypeOK

LEMMA SettleType ==
    ASSUME TypeOK, InFlight, NEW w \in Workers, ~Is(w, "idle"), NEW row \in JobRows, Settle(w, row)
    PROVE  job' \in [Generations -> JobRows]
  <1>1. [row EXCEPT !.holder = NULL, !.lock = 0] \in JobRows
    BY DEF JobRows
  <1> QED BY <1>1, BusyWorker, JobStep DEF Settle, TypeOK

\* The steps of requests that change no row's status.
LEMMA QuietCalls ==
    ASSUME Inv, NEW c \in Callers,
           \/ \E g \in Generations : StartDuplicate(c, g) \/ CancelBegin(c, g)
           \/ Enqueue(c) \/ EnqueueError(c) \/ MarkEnqueued(c) \/ CallDbError(c)
           \/ CompensateRead(c) \/ CancelRemove(c) \/ CancelRemoveError(c) \/ ApiCrash(c)
    PROVE  Inv'
  <1> USE DEF Inv
  <1>1. ASSUME NEW g \in Generations, StartDuplicate(c, g) \/ CancelBegin(c, g)
        PROVE  Inv'
    <2>1. Quiet /\ TablesOK' /\ worker' = worker
      BY <1>1 DEF StartDuplicate, CancelBegin, Quiet, TablesOK, TypeOK
    <2>2. InFlight'
      BY <1>1, <2>1, CallGoes DEF StartDuplicate, CancelBegin, CallSteps
    <2> QED BY <2>1, <2>2, QuietStep
  <1>2. CASE Enqueue(c) \/ EnqueueError(c)
    <2>1. call[c].gen \in Generations
      BY <1>2, BusyCall DEF Enqueue, EnqueueError, At
    <2>2. Quiet /\ worker' = worker
      BY <1>2 DEF Enqueue, EnqueueError, Quiet
    <2>3. TablesOK'
      BY <1>2, <2>1, AddedType DEF Enqueue, EnqueueError, TablesOK, TypeOK
    <2>4. InFlight'
      BY <1>2, <2>1, <2>2, CallGoes DEF Enqueue, EnqueueError, CallSteps
    <2> QED BY <2>2, <2>3, <2>4, QuietStep
  <1>3. CASE MarkEnqueued(c)
    <2>1. call[c].gen \in Generations
      BY <1>3, BusyCall DEF MarkEnqueued, At
    <2> DEFINE g == call[c].gen
               marked == [gen[g] EXCEPT !.enqueued = TRUE]
    <2>1a. gen \in [Generations -> GenRows]
      BY DEF TypeOK
    <2>1b. marked \in GenRows /\ marked.status = gen[g].status /\ marked.report = gen[g].report
      BY <2>1, <2>1a DEF GenRows
    <2>1c. gen' = [gen EXCEPT ![g] = marked] \/ gen' = gen
      BY <1>3 DEF MarkEnqueued
    <2>1d. UNCHANGED creditVars
      BY <1>3 DEF MarkEnqueued
    <2> HIDE DEF marked, g
    <2>2. gen' \in [Generations -> GenRows] /\ Quiet
      BY <2>1, <2>1a, <2>1b, <2>1c, <2>1d DEF Quiet, g
    <2>3. TablesOK'
      BY <1>3, <2>2 DEF MarkEnqueued, TablesOK, TypeOK
    <2>4. InFlight'
      BY <1>3, CallEnds DEF MarkEnqueued
    <2> QED BY <2>2, <2>3, <2>4, QuietStep
  <1>4. CASE CallDbError(c) \/ ApiCrash(c) \/ CancelRemoveError(c)
    <2>1. Quiet /\ TablesOK'
      BY <1>4 DEF CallDbError, ApiCrash, CancelRemoveError, Quiet, TablesOK, TypeOK
    <2>2. InFlight'
      BY <1>4, CallEnds DEF CallDbError, ApiCrash, CancelRemoveError
    <2> QED BY <2>1, <2>2, QuietStep
  <1>5. CASE CompensateRead(c)
    <2>1. call[c].gen \in Generations
      BY <1>5, BusyCall DEF CompensateRead, At
    <2>2. Quiet /\ TablesOK'
      BY <1>5 DEF CompensateRead, Quiet, TablesOK, TypeOK
    <2>3. InFlight'
      BY <1>5, <2>1, CallGoes, CallEnds DEF CompensateRead, CallSteps
    <2> QED BY <2>2, <2>3, QuietStep
  <1>6. CASE CancelRemove(c)
    <2>1. call[c].gen \in Generations
      BY <1>6, BusyCall DEF CancelRemove, At
    <2>2. NoJob \in JobRows
      BY DEF NoJob, JobRows
    <2>3. Quiet /\ TablesOK'
      BY <1>6, <2>1, <2>2 DEF CancelRemove, Quiet, TablesOK, TypeOK
    <2>4. InFlight'
      BY <1>6, <2>1, CallGoes DEF CancelRemove, CallSteps
    <2> QED BY <2>3, <2>4, QuietStep
  <1> QED BY <1>1, <1>2, <1>3, <1>4, <1>5, <1>6

-----------------------------------------------------------------------------
\* The steps of workers that change no row's status, and no lease.
LEMMA QuietRun ==
    ASSUME Inv, NEW w \in Workers,
           \/ ClaimRefused(w) \/ RunLost(w) \/ DeadlineExceeded(w)
           \/ \E retryable \in BOOLEAN : PipelineError(w, retryable)
           \/ Upload(w) \/ UploadError(w) \/ FinalizeCheck(w) \/ FinalizeLost(w)
           \/ FinalizeError(w) \/ OrphanCleanup(w) \/ WorkerDbError(w)
    PROVE  Inv'
  <1> USE DEF Inv
  <1>1. Quiet
    BY DEF Quiet, ClaimRefused, RunLost, DeadlineExceeded, PipelineError, Upload, UploadError,
           FinalizeCheck, FinalizeLost, FinalizeError, OrphanCleanup, WorkerDbError
  <1>2. TablesOK'
    <2>1. CASE Upload(w) \/ UploadError(w) \/ OrphanCleanup(w)
      <3>1. OutputKey(w) \in OutputKeys
        BY <2>1, OutputKeyType DEF Upload, UploadError, OrphanCleanup, Is
      <3>2. CASE Upload(w)
        BY <3>1, <3>2 DEF Upload, TablesOK, TypeOK
      <3>3. CASE UploadError(w)
        BY <3>1, <3>3 DEF UploadError, TablesOK, TypeOK
      <3>4. CASE OrphanCleanup(w)
        BY <3>1, <3>4 DEF OrphanCleanup, TablesOK, TypeOK
      <3> QED BY <2>1, <3>2, <3>3, <3>4
    <2>2. CASE UNCHANGED <<report, gen, job, objects, cleanup, crashes>>
      BY <2>2 DEF TablesOK, TypeOK
    <2> QED BY <2>1, <2>2 DEF ClaimRefused, RunLost, DeadlineExceeded, PipelineError,
                               FinalizeCheck, FinalizeLost, FinalizeError, WorkerDbError
  <1>3. InFlight'
    <2>1. CASE ClaimRefused(w) \/ RunLost(w)
      BY <2>1, WorkerGoes DEF ClaimRefused, RunLost, Is, WorkerSteps
    <2>2. CASE DeadlineExceeded(w) \/ \E retryable \in BOOLEAN : PipelineError(w, retryable)
      <3>1. PICK step \in {"retry", "fail"} : Go(w, step) /\ call' = call /\ Is(w, "run")
        BY <2>2, AfterErrorStep DEF DeadlineExceeded, PipelineError
      <3> QED BY <3>1, WorkerGoes DEF Is, WorkerSteps
    <2>3. CASE Upload(w)
      BY <2>3, WorkerGoes DEF Upload, Is, WorkerSteps
    <2>4. CASE UploadError(w) \/ FinalizeError(w)
      BY <2>4, WorkerCleans, AfterErrorStep DEF UploadError, FinalizeError, Is
    <2>5. CASE FinalizeCheck(w) \/ FinalizeLost(w)
      BY <2>5, WorkerGoes, WorkerCleans DEF FinalizeCheck, FinalizeLost, Is, WorkerSteps
    <2>6. CASE OrphanCleanup(w)
      <3>1. worker[w].after \in {"lost", "retry", "fail"}
        BY <2>6 DEF OrphanCleanup, Is, InFlight, BusyWorkers
      <3> QED BY <2>6, <3>1, WorkerGoes DEF OrphanCleanup, Is, WorkerSteps
    <2>7. CASE WorkerDbError(w)
      BY <2>7, WorkerGoes DEF WorkerDbError, Is, WorkerSteps
    <2> QED BY <2>1, <2>2, <2>3, <2>4, <2>5, <2>6, <2>7
  <1> QED BY <1>1, <1>2, <1>3, QuietStep

\* The steps that take, renew and give back what a worker holds, and the
\* environment's.
LEMMA QuietJobs ==
    ASSUME Inv,
           \/ \E w \in Workers, g \in Generations : TakeJob(w, g)
           \/ \E w \in Workers : \/ RenewLease(w) \/ ResultAfterClaimLoss(w) \/ JobCompleted(w)
                                 \/ JobFailed(w) \/ WorkerCrash(w)
           \/ \E g \in Generations : StalledJob(g)
           \/ \E key \in cleanup : RetryCleanup(key)
    PROVE  Inv'
  <1> USE DEF Inv
  <1>1. ASSUME NEW w \in Workers, NEW g \in Generations, TakeJob(w, g)
        PROVE  Inv'
    <2> DEFINE taken == [job[g] EXCEPT !.state = "active", !.holder = w, !.lock = JobTimeout]
               claiming == [IdleWorker EXCEPT !.step = "claim", !.gen = g, !.attempt = job[g].made + 1]
    <2>1. taken \in JobRows
      BY LifecycleConstants DEF TypeOK, JobRows
    <2>2. claiming \in BusyWorkers
      <3>1. job[g].made + 1 \in Nat
        BY DEF TypeOK, JobRows
      <3> QED BY <3>1 DEF IdleWorker, BusyWorkers, WorkerRows, WorkerSteps
    <2>3. job' = [job EXCEPT ![g] = taken] /\ worker' = [worker EXCEPT ![w] = claiming]
      BY <1>1 DEF TakeJob
    <2> HIDE DEF taken, claiming
    <2>4. Quiet /\ TablesOK'
      BY <1>1, <2>1, <2>3 DEF TakeJob, Quiet, TablesOK, TypeOK
    <2>5. InFlight'
      BY <1>1, <2>2, <2>3 DEF TakeJob, InFlight
    <2> QED BY <2>4, <2>5, QuietStep
  <1>2. ASSUME NEW w \in Workers, RenewLease(w)
        PROVE  Inv'
    <2>1. worker[w].gen \in Generations
      BY <1>2, BusyWorker DEF RenewLease, Is
    <2>2. gen' \in [Generations -> GenRows] /\ Quiet
      BY <1>2, <2>1, LifecycleConstants DEF RenewLease, Quiet, TypeOK, GenRows
    <2>3. TablesOK' /\ InFlight'
      BY <1>2, <2>2 DEF RenewLease, TablesOK, TypeOK, InFlight
    <2> QED BY <2>2, <2>3, QuietStep
  <1>3. ASSUME NEW w \in Workers, ResultAfterClaimLoss(w)
        PROVE  Inv'
    <2> DEFINE g == worker[w].gen
               row == [job[g] EXCEPT !.state = "ready", !.delay = DeferralDelay(g)]
    <2>1. g \in Generations /\ ~Is(w, "idle")
      BY <1>3, BusyWorker DEF ResultAfterClaimLoss, Is
    <2>2. DeferralDelay(g) \in Nat
      BY <2>1 DEF DeferralDelay, Larger, TypeOK, GenRows
    <2>3. row \in JobRows
      BY <2>1, <2>2 DEF TypeOK, JobRows
    <2>4. \/ Settle(w, row) /\ Leave(w)
          \/ Go(w, "return") /\ UNCHANGED job
      BY <1>3 DEF ResultAfterClaimLoss
    <2> HIDE DEF row
    <2>5. job' \in [Generations -> JobRows]
      BY <2>1, <2>3, <2>4, SettleType DEF TypeOK
    <2>6. Quiet /\ TablesOK'
      BY <1>3, <2>5 DEF ResultAfterClaimLoss, Quiet, TablesOK, TypeOK
    <2>7. InFlight'
      BY <1>3, <2>1, <2>4, WorkerLeaves, WorkerGoes DEF ResultAfterClaimLoss, WorkerSteps
    <2> QED BY <2>6, <2>7, QuietStep
  <1>4. ASSUME NEW w \in Workers, JobCompleted(w) \/ JobFailed(w)
        PROVE  Inv'
    <2> DEFINE g == worker[w].gen
    <2>1. g \in Generations /\ ~Is(w, "idle")
      BY <1>4, BusyWorker DEF JobCompleted, JobFailed, Is
    <2>2. PICK row \in JobRows : Settle(w, row)
      <3>1. [job[g] EXCEPT !.state = "done"] \in JobRows
        BY <2>1 DEF TypeOK, JobRows
      <3>2. job[g] \in JobRows /\ job[g].made + 1 \in Nat
        BY <2>1 DEF TypeOK, JobRows
      <3>3. \A state \in {"ready", "done"} :
              [job[g] EXCEPT !.made = job[g].made + 1, !.state = state] \in JobRows
        BY <3>2 DEF JobRows
      <3> QED BY <1>4, <3>1, <3>3 DEF JobCompleted, JobFailed
    <2>3. job' \in [Generations -> JobRows]
      BY <2>1, <2>2, SettleType
    <2>4. Quiet /\ TablesOK'
      BY <1>4, <2>3 DEF JobCompleted, JobFailed, Quiet, TablesOK, TypeOK
    <2>5. InFlight'
      BY <1>4, WorkerLeaves DEF JobCompleted, JobFailed
    <2> QED BY <2>4, <2>5, QuietStep
  <1>5. ASSUME NEW w \in Workers, WorkerCrash(w)
        PROVE  Inv'
    <2>1. Quiet /\ TablesOK'
      BY <1>5 DEF WorkerCrash, Quiet, TablesOK, TypeOK
    <2>2. InFlight'
      BY <1>5, WorkerLeaves DEF WorkerCrash
    <2> QED BY <2>1, <2>2, QuietStep
  <1>6. ASSUME NEW g \in Generations, StalledJob(g)
        PROVE  Inv'
    <2> DEFINE returned(state) == [job[g] EXCEPT !.holder = NULL, !.state = state, !.stalls = @ + 1]
    <2>1. \A state \in {"ready", "done"} : returned(state) \in JobRows
      <3>1. job[g] \in JobRows /\ job[g].stalls + 1 \in Nat
        BY DEF TypeOK, JobRows
      <3> QED BY <3>1 DEF JobRows
    <2>2. PICK row \in JobRows : job' = [job EXCEPT ![g] = row]
      BY <1>6, <2>1 DEF StalledJob
    <2> HIDE DEF returned
    <2>4. Quiet /\ TablesOK'
      BY <1>6, <2>2 DEF StalledJob, Quiet, TablesOK, TypeOK
    <2>3. InFlight'
      BY <1>6 DEF StalledJob, InFlight
    <2> QED BY <2>3, <2>4, QuietStep
  <1>7. ASSUME NEW key \in cleanup, RetryCleanup(key)
        PROVE  Inv'
    <2>1. Quiet /\ TablesOK' /\ InFlight'
      BY <1>7 DEF RetryCleanup, Quiet, TablesOK, TypeOK, InFlight
    <2> QED BY <2>1, QuietStep
  <1> QED BY <1>1, <1>2, <1>3, <1>4, <1>5, <1>6, <1>7

LEMMA TickPreserves ==
    ASSUME Inv, Tick
    PROVE  Inv'
  <1> USE DEF Inv
  <1>1. \A n \in Nat : Down(n) \in Nat
    BY DEF Down
  <1>2. gen' \in [Generations -> GenRows] /\ Quiet
    <2>1. ASSUME NEW g \in Generations
          PROVE  [gen[g] EXCEPT !.lease = IF gen[g].status = "PROCESSING" /\ @ >= 0
                                          THEN @ - 1 ELSE @] \in GenRows
      BY DEF TypeOK, GenRows
    <2>2. gen' \in [Generations -> GenRows]
      BY <2>1 DEF Tick
    <2>3. Quiet
      BY DEF Tick, Quiet, TypeOK, GenRows
    <2> QED BY <2>2, <2>3
  <1>3. job' \in [Generations -> JobRows]
    <2>1. \A g \in Generations : [job[g] EXCEPT !.delay = Down(@), !.lock = Down(@)] \in JobRows
      BY <1>1 DEF TypeOK, JobRows
    <2> QED BY <2>1 DEF Tick
  <1>4. report' \in [Reports -> ReportRows]
    <2>1. ASSUME NEW r \in Reports
          PROVE  [report[r] EXCEPT !.locked = Down(@),
                     !.window = IF @ # NULL /\ @ <= FailWindow THEN @ + 1 ELSE @] \in ReportRows
      <3>1. report[r] \in ReportRows /\ Down(report[r].locked) \in Nat
        BY <1>1 DEF TypeOK, ReportRows
      <3>2. \A n \in Nat \cup {NULL} :
              (IF n # NULL /\ n <= FailWindow THEN n + 1 ELSE n) \in Nat \cup {NULL}
        OBVIOUS
      <3> HIDE DEF Inv
      <3> QED BY <3>1, <3>2 DEF ReportRows
    <2> QED BY <2>1 DEF Tick
  <1>5. InFlight'
    <2>1. \A w \in Workers : [worker[w] EXCEPT !.deadline = Down(@)] \in BusyWorkers
      BY <1>1 DEF InFlight, BusyWorkers, WorkerRows
    <2> QED BY <2>1 DEF Tick, InFlight
  <1>6. TablesOK'
    BY <1>2, <1>3, <1>4 DEF Tick, TablesOK, TypeOK
  <1> QED BY <1>2, <1>5, <1>6, QuietStep

-----------------------------------------------------------------------------
(* Steps that change the status of one generation.                         *)

Only(g) == \A h \in Generations \ {g} : gen'[h] = gen[h]

LEMMA OneActiveKept ==
    ASSUME Inv, NEW g \in Generations, Only(g), gen'[g].report = gen[g].report,
           gen'[g].status \in Active => gen[g].status \in Active
    PROVE  OneActivePerReport'
  BY DEF Inv, OneActivePerReport, Only, ReportOf

\* The credits of the other generations are not touched.
LEMMA OthersSettled ==
    ASSUME Inv, NEW g \in Generations, Only(g), OutcomeSettled(g)',
           \A h \in Generations \ {g} :
             linked'[h] = linked[h] /\ reservation'[h] = reservation[h] /\ settled'[h] = settled[h]
    PROVE  SettlementMatchesOutcome'
  BY DEF Inv, SettlementMatchesOutcome, OutcomeSettled, Exists, Only

LEMMA ReleaseOutcome ==
    ASSUME Inv, NEW g \in Generations, Exists(g), releaseInTransaction(g),
           linked' \in [Generations -> BOOLEAN]
    PROVE  /\ CreditTypeOK' /\ Conservation'
           /\ reservation' = reservation /\ reservation[g] # NULL
           /\ \A h \in Generations \ {g} : settled'[h] = settled[h]
           /\ settled'[g] # {}
           /\ gen[g].status \in Active => settled'[g] = {"RELEASE"}
  <1>1. linked[g] /\ reservation[g] # NULL /\ (gen[g].status \in Active => settled[g] = {})
    BY DEF Inv, SettlementMatchesOutcome, OutcomeSettled, Exists
  <1>2. CreditTypeOK' /\ Conservation'
    BY <1>1, ReleaseInTransactionKeeps DEF Inv, TypeOK
  <1>3. CASE settled[g] = {}
    <2>1. WriteRelease(g)
      BY <1>1, <1>3 DEF releaseInTransaction, findTerminal
    <2>2. settled' = [settled EXCEPT ![g] = {"RELEASE"}] /\ reservation' = reservation
      BY <1>3, <2>1 DEF WriteRelease
    <2> QED BY <1>1, <1>2, <2>2 DEF Inv, TypeOK, CreditTypeOK
  <1>4. CASE settled[g] # {}
    <2>1. settled' = settled /\ reservation' = reservation
      BY <1>1, <1>4 DEF releaseInTransaction, findTerminal
    <2> QED BY <1>1, <1>2, <1>4, <2>1
  <1> QED BY <1>1, <1>2, <1>3, <1>4

LEMMA StartPreserves ==
    ASSUME Inv, NEW c \in Callers, NEW g \in Generations, NEW r \in Reports, NEW k \in Keys,
           StartNew(c, g, r, k)
    PROVE  Inv'
  <1> DEFINE row == [status |-> "QUEUED", report |-> r, key |-> k, prior |-> report[r].status,
                     enqueued |-> FALSE, token |-> 0, lease |-> 0, attempts |-> 0]
  <1>1. /\ gen[g].status = "ABSENT" /\ ActiveIndexFree(r)
        /\ gen' = [gen EXCEPT ![g] = row]
        /\ reserve(User, g, 0)
        /\ linked' = [linked EXCEPT ![g] = TRUE]
        /\ report' = [report EXCEPT ![r].status = "QUEUED"]
        /\ GoCall(c, "enqueue", g)
        /\ UNCHANGED <<job, worker, objects, cleanup, crashes>>
    BY DEF StartNew
  <1>2. row \in GenRows
    BY DEF Inv, TypeOK, ReportRows, GenRows, GenStatus
  <1>3. gen' \in [Generations -> GenRows] /\ Only(g) /\ gen'[g] = row
    BY <1>1, <1>2 DEF Inv, TypeOK, Only
  <1>4. row.status = "QUEUED" /\ row.report = r
    OBVIOUS
  <1> HIDE DEF row
  <1>5. reservation[g] = NULL /\ settled[g] = {}
    BY <1>1 DEF Inv, SettlementMatchesOutcome, OutcomeSettled
  <1>6. CreditTypeOK' /\ Conservation'
    <2>1. linked' \in [Generations -> BOOLEAN]
      BY <1>1 DEF Inv, TypeOK, CreditTypeOK
    <2> QED BY <2>1, <1>1, <1>5, ReserveType, ReserveConserves DEF Inv, TypeOK
  <1>7. TablesOK'
    <2>1. report' \in [Reports -> ReportRows]
      BY <1>1 DEF Inv, TypeOK, ReportRows, ReportStatus
    <2> QED BY <2>1, <1>1, <1>3 DEF Inv, TypeOK, TablesOK
  <1>8. InFlight'
    BY <1>1, CallGoes DEF Inv, CallSteps
  <1>9. SettlementMatchesOutcome'
    <2>1. PICK gr \in Grants : reservation' = [reservation EXCEPT ![g] = gr]
      BY <1>1, <1>5 DEF reserve, Candidates
    <2>2. /\ reservation'[g] # NULL /\ linked'[g] /\ settled'[g] = {}
          /\ \A h \in Generations \ {g} :
               linked'[h] = linked[h] /\ reservation'[h] = reservation[h] /\ settled'[h] = settled[h]
      BY <2>1, <1>1, <1>5, GrantColumns DEF Inv, TypeOK, CreditTypeOK, reserve
    <2>3. OutcomeSettled(g)'
      BY <2>2, <1>3, <1>4 DEF OutcomeSettled, Exists, Active
    <2> QED BY <2>2, <2>3, <1>3, OthersSettled
  <1>10. OneActivePerReport'
    BY <1>1, <1>3, <1>4 DEF Inv, OneActivePerReport, Only, ReportOf, ActiveIndexFree
  <1> QED BY <1>6, <1>7, <1>8, <1>9, <1>10, InFlightType, PTL DEF Inv, TypeOK, TablesOK

\* Putting the parts of the invariant together.
LEMMA InvParts ==
    ASSUME CreditTypeOK', TablesOK', InFlight', SettlementMatchesOutcome',
           OneActivePerReport', Conservation'
    PROVE  Inv'
  BY InFlightType, PTL DEF Inv, TypeOK, TablesOK

LEMMA CompensatePreserves ==
    ASSUME Inv, NEW c \in Callers, CompensateWrite(c)
    PROVE  Inv'
  <1>0. PICK g \in Generations : g = call[c].gen
    BY BusyCall DEF CompensateWrite, At, Inv
  <1>1. gen[g] \in GenRows
    BY DEF Inv, TypeOK
  <1> DEFINE r == ReportOf(g)
             OutputOf(o) == IF o # NULL /\ o[1] = g THEN NULL ELSE o
  <1>2. InFlight'
    BY CallEnds DEF CompensateWrite, Inv
  <1>3. CASE ~Exists(g)
    <2>1. Quiet /\ TablesOK'
      BY <1>0, <1>3 DEF CompensateWrite, Quiet, Inv, TypeOK, TablesOK
    <2> QED BY <1>2, <2>1, QuietStep
  <1>4. CASE Exists(g)
    <2>1. /\ releaseInTransaction(g)
          /\ report' = [report EXCEPT ![r].status = IF @ = "QUEUED" THEN gen[g].prior ELSE @,
                                      ![r].output = OutputOf(@)]
          /\ linked' = [linked EXCEPT ![g] = FALSE]
          /\ gen' = [gen EXCEPT ![g] = NoRow("DELETED")]
          /\ UNCHANGED <<job, worker, objects, cleanup, crashes>>
      BY <1>0, <1>4 DEF CompensateWrite
    <2>2. NoRow("DELETED") \in GenRows /\ NoRow("DELETED").status = "DELETED"
      BY DEF NoRow, GenRows, GenStatus, ReportStatus
    <2>3. /\ linked' \in [Generations -> BOOLEAN] /\ ~linked'[g]
          /\ gen' \in [Generations -> GenRows] /\ Only(g) /\ gen'[g].status = "DELETED"
      BY <1>1, <2>1, <2>2 DEF Inv, TypeOK, CreditTypeOK, Only
    <2>4. report' \in [Reports -> ReportRows]
      <3> DEFINE after(x) == [report[x] EXCEPT !.status = IF @ = "QUEUED" THEN gen[g].prior ELSE @,
                                               !.output = OutputOf(@)]
      <3>1. report' = [x \in Reports |-> IF x = r THEN after(x) ELSE report[x]]
        BY <2>1 DEF Inv, TypeOK
      <3>2. ASSUME NEW x \in Reports PROVE after(x) \in ReportRows
        <4>1. OutputOf(report[x].output) \in OutputKeys \cup {NULL}
          BY DEF Inv, TypeOK, ReportRows
        <4>2. (IF report[x].status = "QUEUED" THEN gen[g].prior ELSE report[x].status) \in ReportStatus
          BY <1>1 DEF Inv, TypeOK, ReportRows, GenRows
        <4> HIDE DEF OutputOf
        <4> QED BY <4>1, <4>2 DEF Inv, TypeOK, ReportRows
      <3> HIDE DEF after
      <3> QED BY <3>1, <3>2 DEF Inv, TypeOK
    <2>5. TablesOK'
      BY <2>1, <2>3, <2>4 DEF TablesOK, Inv, TypeOK
    <2>6. /\ CreditTypeOK' /\ Conservation'
          /\ reservation' = reservation /\ reservation[g] # NULL
          /\ \A h \in Generations \ {g} : settled'[h] = settled[h]
          /\ settled'[g] # {}
      BY <1>1, <1>4, <2>1, <2>3, ReleaseOutcome
    <2>7. SettlementMatchesOutcome'
      <3>1. OutcomeSettled(g)'
        BY <2>3, <2>6 DEF OutcomeSettled, Exists, Active
      <3>2. \A h \in Generations \ {g} : linked'[h] = linked[h]
        BY <2>1 DEF Inv, TypeOK, CreditTypeOK
      <3> QED BY <1>1, <2>3, <2>6, <3>1, <3>2, OthersSettled
    <2>8. OneActivePerReport'
      BY <2>3 DEF Inv, OneActivePerReport, Only, ReportOf, Active
    <2> QED BY <1>2, <2>5, <2>6, <2>7, <2>8, InvParts
  <1> QED BY <1>3, <1>4

LEMMA CancelPreserves ==
    ASSUME Inv, NEW c \in Callers, CancelCommit(c)
    PROVE  Inv'
  <1>0. PICK g \in Generations : g = call[c].gen
    BY BusyCall DEF CancelCommit, At, Inv
  <1>1. gen[g] \in GenRows
    BY DEF Inv, TypeOK
  <1>2. InFlight'
    BY CallEnds DEF CancelCommit, Inv
  <1>3. CASE ~Cancellable(g)
    <2>1. Quiet /\ TablesOK'
      BY <1>0, <1>3 DEF CancelCommit, Quiet, Inv, TypeOK, TablesOK
    <2> QED BY <1>2, <2>1, QuietStep
  <1>4. CASE Cancellable(g)
    <2>1. /\ gen' = [gen EXCEPT ![g].status = "CANCELLED"]
          /\ report' = [report EXCEPT ![ReportOf(g)].status = gen[g].prior]
          /\ releaseInTransaction(g)
          /\ linked' = linked
          /\ UNCHANGED <<job, worker, objects, cleanup, crashes>>
      BY <1>0, <1>4 DEF CancelCommit
    <2>2. gen[g].status = "QUEUED" /\ gen[g].prior \in ReportStatus
      BY <1>1, <1>4 DEF Cancellable, GenRows
    <2>3. /\ gen' \in [Generations -> GenRows] /\ Only(g)
          /\ gen'[g].status = "CANCELLED" /\ gen'[g].report = gen[g].report
      BY <1>1, <2>1 DEF Inv, TypeOK, GenRows, GenStatus, Only
    <2>4. TablesOK'
      <3>1. report' \in [Reports -> ReportRows]
        BY <2>1, <2>2 DEF Inv, TypeOK, ReportRows
      <3> QED BY <2>1, <2>3, <3>1 DEF TablesOK, Inv, TypeOK
    <2>5. /\ CreditTypeOK' /\ Conservation'
          /\ reservation' = reservation /\ reservation[g] # NULL
          /\ \A h \in Generations \ {g} : settled'[h] = settled[h]
          /\ settled'[g] = {"RELEASE"}
      BY <1>1, <2>1, <2>2, ReleaseOutcome DEF Exists, Active, Inv, TypeOK, CreditTypeOK
    <2>6. SettlementMatchesOutcome'
      <3>1. OutcomeSettled(g)'
        BY <1>1, <2>1, <2>2, <2>3, <2>5 DEF OutcomeSettled, Exists, Active, Inv, SettlementMatchesOutcome
      <3> QED BY <1>1, <2>1, <2>3, <2>5, <3>1, OthersSettled
    <2>7. OneActivePerReport'
      BY <1>1, <2>3, OneActiveKept DEF Active
    <2> QED BY <1>2, <2>4, <2>5, <2>6, <2>7, InvParts
  <1> QED BY <1>3, <1>4

\* What the claim and the settling updates write to a row.
LEMMA LeaseUpdate ==
    ASSUME NEW row \in GenRows, NEW status \in GenStatus, NEW token \in Nat, NEW lease \in Int,
           NEW attempts \in Nat
    PROVE  /\ [row EXCEPT !.status = status, !.token = token, !.lease = lease] \in GenRows
           /\ [row EXCEPT !.status = status, !.token = token, !.lease = lease,
                          !.attempts = attempts] \in GenRows
  <1>1. [row EXCEPT !.status = status, !.token = token, !.lease = lease] \in GenRows
    BY DEF GenRows
  <1>2. [row EXCEPT !.status = status, !.token = token, !.lease = lease,
                    !.attempts = attempts] \in GenRows
    BY DEF GenRows
  <1> QED BY <1>1, <1>2

LEMMA LeaseFields ==
    ASSUME NEW row \in GenRows, NEW status \in GenStatus, NEW token \in Nat, NEW lease \in Int
    PROVE  /\ [row EXCEPT !.status = status, !.token = token, !.lease = lease].status = status
           /\ [row EXCEPT !.status = status, !.token = token, !.lease = lease].report = row.report
  BY DEF GenRows

LEMMA ReportUpdate ==
    ASSUME report \in [Reports -> ReportRows], NEW r, NEW status,
           r \in Reports => status \in ReportStatus,
           report' = [report EXCEPT ![r].status = status]
    PROVE  report' \in [Reports -> ReportRows]
  <1>1. \A row \in ReportRows, st \in ReportStatus : [row EXCEPT !.status = st] \in ReportRows
    BY DEF ReportRows
  <1> QED BY <1>1

\* A claim and a prepared retry move a generation between the active statuses.
LEMMA StillActive ==
    ASSUME Inv, NEW g \in Generations, gen' \in [Generations -> GenRows], Only(g),
           gen[g].status \in Active, gen'[g].status \in Active, gen'[g].report = gen[g].report,
           report' \in [Reports -> ReportRows], InFlight',
           UNCHANGED <<creditVars, job, objects, cleanup, crashes>>
    PROVE  Inv'
  <1>1. UNCHANGED <<granted, remaining, reservation, settled, linked>>
    BY DEF creditVars
  <1>2. CreditTypeOK' /\ Conservation'
    BY <1>1 DEF Inv, TypeOK, CreditTypeOK, Conservation, Held
  <1>3. SettlementMatchesOutcome'
    <2>1. OutcomeSettled(g)'
      BY <1>1 DEF OutcomeSettled, Exists, Active, Inv, SettlementMatchesOutcome
    <2> QED BY <1>1, <2>1, OthersSettled
  <1>4. TablesOK'
    BY DEF TablesOK, Inv, TypeOK
  <1> QED BY <1>2, <1>3, <1>4, OneActiveKept, InvParts

LEMMA ClaimPreserves ==
    ASSUME Inv, NEW w \in Workers, Claim(w)
    PROVE  Inv'
  <1>1. PICK g \in Generations : g = worker[w].gen
    BY BusyWorker DEF Claim, Is, Inv
  <1> DEFINE token == gen[g].attempts + 1
             claimed == [gen[g] EXCEPT !.status = "PROCESSING", !.token = token,
                                       !.lease = JobTimeout, !.attempts = token]
             running == [worker[w] EXCEPT !.step = "run", !.token = token, !.deadline = JobTimeout]
  <1>2. token \in Nat /\ token > 0 /\ gen[g] \in GenRows
    BY DEF Inv, TypeOK, GenRows
  <1>3. claimed \in GenRows /\ claimed.status = "PROCESSING" /\ claimed.report = gen[g].report
    <2>1. "PROCESSING" \in GenStatus /\ JobTimeout \in Int
      BY LifecycleConstants DEF GenStatus
    <2>2. claimed \in GenRows
      BY <1>2, <2>1, LeaseUpdate, Zenon
    <2>3. claimed.status = "PROCESSING" /\ claimed.report = gen[g].report
      BY <1>2 DEF GenRows
    <2> QED BY <2>2, <2>3
  <1>4. running \in BusyWorkers
    <2>1. worker[w] \in BusyWorkers /\ JobTimeout \in Nat /\ token \in Nat
      BY <1>2, LifecycleConstants DEF Inv, InFlight
    <2>2. worker[w].gen \in Generations /\ token > 0
      BY <1>1, <1>2
    <2> HIDE DEF token
    <2> QED BY <2>1, <2>2 DEF BusyWorkers, WorkerRows, WorkerSteps
  <1>5. /\ Claimable(g)
        /\ gen' = [gen EXCEPT ![g] = claimed]
        /\ report' = [report EXCEPT ![ReportOf(g)].status = IF @ \in Active THEN "PROCESSING" ELSE @]
        /\ worker' = [worker EXCEPT ![w] = running]
        /\ UNCHANGED <<creditVars, job, call, objects, cleanup, crashes>>
    BY <1>1 DEF Claim
  <1> HIDE DEF claimed, running
  <1>6. gen' \in [Generations -> GenRows] /\ Only(g) /\ gen'[g] = claimed
    BY <1>3, <1>5 DEF Inv, TypeOK, Only
  <1>7. report' \in [Reports -> ReportRows]
    <2> DEFINE r == ReportOf(g)
               status == IF report[r].status \in Active THEN "PROCESSING" ELSE report[r].status
    <2>1. report \in [Reports -> ReportRows]
      BY DEF Inv, TypeOK
    <2>2. r \in Reports => status \in ReportStatus
      BY <2>1 DEF ReportRows, ReportStatus
    <2>3. report' = [report EXCEPT ![r].status = status]
      BY <1>5
    <2> HIDE DEF r, status
    <2> QED BY <2>1, <2>2, <2>3, ReportUpdate
  <1>8. InFlight'
    BY <1>4, <1>5 DEF Inv, InFlight
  <1>9. gen[g].status \in Active /\ gen'[g].status \in Active /\ gen'[g].report = gen[g].report
    BY <1>3, <1>5, <1>6 DEF Claimable, Active
  <1> QED BY <1>5, <1>6, <1>7, <1>8, <1>9, StillActive

LEMMA PrepareRetryPreserves ==
    ASSUME Inv, NEW w \in Workers, PrepareRetry(w)
    PROVE  Inv'
  <1>1. PICK g \in Generations : g = worker[w].gen
    BY BusyWorker DEF PrepareRetry, Is, Inv
  <1>2. InFlight'
    BY WorkerGoes DEF PrepareRetry, Is, WorkerSteps, Inv
  <1>3. CASE ~Owns(w)
    <2>1. Quiet /\ TablesOK'
      BY <1>3 DEF PrepareRetry, Quiet, Inv, TypeOK, TablesOK
    <2> QED BY <1>2, <2>1, QuietStep
  <1>4. CASE Owns(w)
    <2> DEFINE queued == [gen[g] EXCEPT !.status = "QUEUED", !.token = 0, !.lease = 0]
    <2>1. queued \in GenRows /\ queued.status = "QUEUED" /\ queued.report = gen[g].report
      <3>1. gen[g] \in GenRows
        BY DEF Inv, TypeOK
      <3>2. "QUEUED" \in GenStatus /\ 0 \in Nat /\ 0 \in Int
        BY DEF GenStatus
      <3>3. queued \in GenRows
        BY <3>1, <3>2, LeaseUpdate, Zenon
      <3>4. queued.status = "QUEUED" /\ queued.report = gen[g].report
        BY <3>1 DEF GenRows
      <3> QED BY <3>3, <3>4
    <2>2. /\ gen' = [gen EXCEPT ![g] = queued]
          /\ report' = [report EXCEPT ![ReportOf(g)].status = RequeuedReport(@)]
          /\ UNCHANGED <<creditVars, job, objects, cleanup, crashes>>
      BY <1>1, <1>4 DEF PrepareRetry
    <2> HIDE DEF queued
    <2>3. gen' \in [Generations -> GenRows] /\ Only(g) /\ gen'[g] = queued
      BY <2>1, <2>2 DEF Inv, TypeOK, Only
    <2>4. report' \in [Reports -> ReportRows]
      <3> DEFINE r == ReportOf(g)
                 status == RequeuedReport(report[r].status)
      <3>1. report \in [Reports -> ReportRows]
        BY DEF Inv, TypeOK
      <3>2. r \in Reports => status \in ReportStatus
        BY <3>1 DEF ReportRows, ReportStatus, RequeuedReport
      <3>3. report' = [report EXCEPT ![r].status = status]
        BY <2>2
      <3> HIDE DEF r, status
      <3> QED BY <3>1, <3>2, <3>3, ReportUpdate
    <2>5. gen[g].status \in Active /\ gen'[g].status \in Active /\ gen'[g].report = gen[g].report
      BY <1>1, <1>4, <2>1, <2>3 DEF Owns, HoldsToken, Active
    <2> QED BY <1>2, <2>2, <2>3, <2>4, <2>5, StillActive
  <1> QED BY <1>3, <1>4

\* Publication spends the credit the generation holds.
LEMMA PublishPreserves ==
    ASSUME Inv, NEW w \in Workers, Publish(w), InFlight'
    PROVE  Inv'
  <1>1. PICK g \in Generations : g = worker[w].gen
    BY BusyWorker DEF Publish, Is, Inv
  <1> DEFINE done == [gen[g] EXCEPT !.status = "COMPLETED", !.token = 0, !.lease = 0]
             key == OutputKey(w)
  <1>2. done \in GenRows /\ done.status = "COMPLETED" /\ done.report = gen[g].report
    <2>1. gen[g] \in GenRows
      BY DEF Inv, TypeOK
    <2>2. done \in GenRows
      <3>1. "COMPLETED" \in GenStatus /\ 0 \in Nat /\ 0 \in Int
        BY DEF GenStatus
      <3> QED BY <2>1, <3>1, LeaseUpdate, Zenon
    <2>3. done.status = "COMPLETED" /\ done.report = gen[g].report
      BY <2>1 DEF GenRows
    <2> QED BY <2>2, <2>3
  <1>3. key \in OutputKeys
    BY OutputKeyType DEF Publish, Is, Inv
  <1>4. /\ HoldsToken(w) /\ reservation[g] # NULL
        /\ gen' = [gen EXCEPT ![g] = done]
        /\ report' = [report EXCEPT ![ReportOf(g)] = Published(@, key)]
        /\ WriteConsume(g)
        /\ UNCHANGED <<linked, job, call, objects, cleanup, crashes>>
    BY <1>1 DEF Publish, CanPublish
  <1> HIDE DEF done, key
  <1>5. gen' \in [Generations -> GenRows] /\ Only(g) /\ gen'[g] = done
    BY <1>2, <1>4 DEF Inv, TypeOK, Only
  <1>6. report' \in [Reports -> ReportRows]
    <2>1. \A r \in Reports : Published(report[r], key) \in ReportRows
      BY <1>3 DEF Inv, TypeOK, ReportRows, ReportStatus, Published
    <2> QED BY <2>1, <1>4 DEF Inv, TypeOK
  <1>7. TablesOK'
    BY <1>4, <1>5, <1>6 DEF Inv, TypeOK, TablesOK
  <1>8. CreditTypeOK' /\ Conservation'
    <2>1. linked' \in [Generations -> BOOLEAN]
      BY <1>4 DEF Inv, TypeOK, CreditTypeOK
    <2> QED BY <2>1, <1>4, ConsumeType, ConsumeConserves DEF Inv, TypeOK
  <1>9. gen[g].status = "PROCESSING"
    BY <1>1, <1>4 DEF HoldsToken
  <1>10. linked[g] /\ settled[g] = {}
    BY <1>9 DEF Inv, SettlementMatchesOutcome, OutcomeSettled, Exists, Active
  <1>11. SettlementMatchesOutcome'
    <2>1. /\ settled'[g] = {"CONSUME"} /\ reservation' = reservation
          /\ \A h \in Generations \ {g} : settled'[h] = settled[h]
      BY <1>4, <1>10 DEF WriteConsume, Inv, TypeOK, CreditTypeOK
    <2>2. OutcomeSettled(g)'
      BY <1>2, <1>4, <1>5, <1>10, <2>1 DEF OutcomeSettled, Exists, Active
    <2> QED BY <1>4, <1>5, <2>1, <2>2, OthersSettled
  <1>12. OneActivePerReport'
    BY <1>2, <1>5, <1>9, OneActiveKept DEF Active
  <1> QED BY <1>7, <1>8, <1>11, <1>12, InvParts

LEMMA FinalizePreserves ==
    ASSUME Inv, NEW w \in Workers, FinalizeCommit(w) \/ FinalizeAckLost(w)
    PROVE  Inv'
  <1>1. Publish(w) /\ Is(w, "commit") /\ call' = call
    BY DEF FinalizeCommit, FinalizeAckLost, Publish
  <1>2. CASE FinalizeCommit(w)
    <2>1. InFlight'
      BY <1>1, <1>2, WorkerGoes DEF FinalizeCommit, Is, WorkerSteps, Inv
    <2> QED BY <1>1, <2>1, PublishPreserves
  <1>3. CASE FinalizeAckLost(w)
    <2>1. InFlight'
      BY <1>1, <1>3, WorkerCleans, AfterErrorStep DEF FinalizeAckLost, Is, Inv
    <2> QED BY <1>1, <2>1, PublishPreserves
  <1> QED BY <1>2, <1>3

\* A failure gives the credit back, whatever the throttle does to the report.
LEMMA FailPreserves ==
    ASSUME Inv, NEW w \in Workers, FailGeneration(w)
    PROVE  Inv'
  <1>1. PICK g \in Generations : g = worker[w].gen
    BY BusyWorker DEF FailGeneration, Is, Inv
  <1>2. InFlight'
    BY WorkerGoes DEF FailGeneration, Is, WorkerSteps, Inv
  <1>3. CASE ~Owns(w)
    <2>1. Quiet /\ TablesOK'
      BY <1>3 DEF FailGeneration, Quiet, Inv, TypeOK, TablesOK
    <2> QED BY <1>2, <2>1, QuietStep
  <1>4. CASE Owns(w)
    <2> DEFINE failed == [gen[g] EXCEPT !.status = "FAILED", !.token = 0, !.lease = 0]
               r == ReportOf(g)
               throttled(x) == [Throttled(report[x]) EXCEPT
                                  !.status = IF report[x].output # NULL THEN "READY" ELSE "FAILED"]
    <2>1. failed \in GenRows /\ failed.status = "FAILED" /\ failed.report = gen[g].report
      <3>1. gen[g] \in GenRows
        BY DEF Inv, TypeOK
      <3>2. failed \in GenRows
        <4>1. "FAILED" \in GenStatus /\ 0 \in Nat /\ 0 \in Int
          BY DEF GenStatus
        <4> QED BY <3>1, <4>1, LeaseUpdate, Zenon
      <3>3. failed.status = "FAILED" /\ failed.report = gen[g].report
        BY <3>1 DEF GenRows
      <3> QED BY <3>2, <3>3
    <2>2. /\ gen' = [gen EXCEPT ![g] = failed]
          /\ report' = [report EXCEPT ![r] = throttled(r)]
          /\ releaseInTransaction(g)
          /\ linked' = linked
          /\ UNCHANGED <<job, call, objects, cleanup, crashes>>
      BY <1>1, <1>4 DEF FailGeneration
    <2> HIDE DEF failed
    <2>3. gen' \in [Generations -> GenRows] /\ Only(g) /\ gen'[g] = failed
      BY <2>1, <2>2 DEF Inv, TypeOK, Only
    <2>4. report' \in [Reports -> ReportRows]
      <3>1. ASSUME NEW x \in Reports PROVE throttled(x) \in ReportRows
        <4>1. report[x] \in ReportRows /\ report[x].failures + 1 \in Nat
          BY DEF Inv, TypeOK, ReportRows
        <4>2. Throttled(report[x]) \in ReportRows
          BY <4>1, LifecycleConstants DEF Throttled, ReportRows
        <4> QED BY <4>2 DEF ReportRows, ReportStatus
      <3>2. report \in [Reports -> ReportRows]
        BY DEF Inv, TypeOK
      <3> HIDE DEF throttled
      <3> QED BY <2>2, <3>1, <3>2
    <2>5. TablesOK'
      BY <2>2, <2>3, <2>4 DEF TablesOK, Inv, TypeOK
    <2>6. gen[g].status = "PROCESSING"
      BY <1>1, <1>4 DEF Owns, HoldsToken
    <2>7. /\ CreditTypeOK' /\ Conservation'
          /\ reservation' = reservation /\ reservation[g] # NULL
          /\ \A h \in Generations \ {g} : settled'[h] = settled[h]
          /\ settled'[g] = {"RELEASE"}
      BY <2>2, <2>6, ReleaseOutcome DEF Exists, Active, Inv, TypeOK, CreditTypeOK
    <2>8. SettlementMatchesOutcome'
      <3>1. linked[g]
        BY <2>6 DEF Inv, SettlementMatchesOutcome, OutcomeSettled, Exists
      <3>2. OutcomeSettled(g)'
        BY <2>1, <2>2, <2>3, <2>7, <3>1 DEF OutcomeSettled, Exists, Active
      <3> QED BY <2>2, <2>3, <2>7, <3>2, OthersSettled
    <2>9. OneActivePerReport'
      BY <2>1, <2>3, OneActiveKept DEF Active
    <2> QED BY <1>2, <2>5, <2>7, <2>8, <2>9, InvParts
  <1> QED BY <1>3, <1>4

-----------------------------------------------------------------------------
LEMMA InitInv == Init => Inv
  <1> SUFFICES ASSUME Init PROVE Inv
    OBVIOUS
  <1>1. TablesOK
    BY DEF Init, TablesOK, NoRow, GenRows, GenStatus, ReportRows, ReportStatus, NoJob, JobRows
  <1>2. InFlight
    BY IdleRows DEF Init, InFlight
  <1>3. CreditTypeOK
    BY GrantColumns DEF Init, CreditInit, CreditTypeOK
  <1>4. SettlementMatchesOutcome
    BY DEF Init, CreditInit, SettlementMatchesOutcome, OutcomeSettled, Exists, NoRow, Active
  <1>5. OneActivePerReport
    BY DEF Init, OneActivePerReport, NoRow, Active
  <1>6. Conservation
    <2>1. \A gr \in Grants : Held(gr) = {}
      BY GrantColumns DEF Init, CreditInit, Held
    <2>2. Cardinality({}) = 0
      BY FS_EmptySet
    <2>3. \A gr \in Grants : gr \in granted /\ remaining[gr] = Total[gr] /\ Total[gr] \in Nat
      BY GrantColumns DEF Init, CreditInit
    <2> QED BY <2>1, <2>2, <2>3 DEF Conservation
  <1> QED BY <1>1, <1>2, <1>3, <1>4, <1>5, <1>6, InFlightType DEF Inv, TypeOK, TablesOK

LEMMA NextInv == Inv /\ [Next]_vars => Inv'
  <1> SUFFICES ASSUME Inv, [Next]_vars PROVE Inv'
    OBVIOUS
  <1>1. ASSUME NEW c \in Callers, NEW g \in Generations, NEW r \in Reports, NEW k \in Keys,
               StartNew(c, g, r, k)
        PROVE  Inv'
    BY <1>1, StartPreserves
  <1>2. ASSUME NEW c \in Callers, NEW g \in Generations, StartDuplicate(c, g) \/ CancelBegin(c, g)
        PROVE  Inv'
    BY <1>2, QuietCalls
  <1>3. ASSUME NEW c \in Callers,
               CallStep(c) \/ CancelRemoveError(c) \/ CallDbError(c) \/ ApiCrash(c)
        PROVE  Inv'
    BY <1>3, QuietCalls, CompensatePreserves, CancelPreserves DEF CallStep
  <1>4. ASSUME NEW w \in Workers,
               WorkerStep(w) \/ FinalizeAckLost(w)
        PROVE  Inv'
    BY <1>4, QuietRun, QuietJobs, ClaimPreserves, FinalizePreserves, PrepareRetryPreserves,
       FailPreserves DEF WorkerStep
  <1>5. ASSUME NEW w \in Workers,
               \/ \E retryable \in BOOLEAN : PipelineError(w, retryable)
               \/ UploadError(w) \/ FinalizeError(w) \/ WorkerDbError(w)
        PROVE  Inv'
    BY <1>5, QuietRun
  <1>6. CASE \/ \E w \in Workers, g \in Generations : TakeJob(w, g)
             \/ \E w \in Workers : RenewLease(w) \/ WorkerCrash(w)
             \/ \E g \in Generations : StalledJob(g)
             \/ \E key \in cleanup : RetryCleanup(key)
    BY <1>6, QuietJobs
  <1>7. CASE Tick
    BY <1>7, TickPreserves
  <1>8. CASE UNCHANGED vars
    <2>1. Quiet /\ TablesOK' /\ InFlight'
      BY <1>8 DEF vars, Quiet, Inv, TypeOK, TablesOK, InFlight
    <2> QED BY <2>1, QuietStep
  <1> QED BY <1>1, <1>2, <1>3, <1>4, <1>5, <1>6, <1>7, <1>8 DEF Next

\* The inductive invariant holds of every run of API requests, workers, queue
\* and faults.
THEOREM LifecycleInvariant == Spec => []Inv
  BY InitInv, NextInv, PTL DEF Spec

-----------------------------------------------------------------------------
\* Every row of every table keeps the types of its columns.
THEOREM LifecycleTypeCorrect == Spec => []TypeOK
  <1>1. Inv => TypeOK
    BY DEF Inv
  <1> QED BY <1>1, LifecycleInvariant, PTL

\* Whatever combination of crashes, lost answers, takeovers, cancellations and
\* compensations happens, the credit of a generation is held while it is
\* active, spent when it completed, and given back when it did not.
THEOREM LifecycleSettlement == Spec => []SettlementMatchesOutcome
  <1>1. Inv => SettlementMatchesOutcome
    BY DEF Inv
  <1> QED BY <1>1, LifecycleInvariant, PTL

\* No run of the lifecycle creates or loses a credit of any grant.
THEOREM LifecycleConserves == Spec => []Conservation
  <1>1. Inv => Conservation
    BY DEF Inv
  <1> QED BY <1>1, LifecycleInvariant, PTL

\* A report never has two active generations, retries and requeues included.
THEOREM LifecycleOneActive == Spec => []OneActivePerReport
  <1>1. Inv => OneActivePerReport
    BY DEF Inv
  <1> QED BY <1>1, LifecycleInvariant, PTL

\* The steps that write the generations and their reports.
Writers ==
    \/ \E c \in Callers :
        \/ \E g \in Generations, r \in Reports, k \in Keys : StartNew(c, g, r, k)
        \/ MarkEnqueued(c) \/ CompensateWrite(c) \/ CancelCommit(c)
    \/ \E w \in Workers :
        \/ Claim(w) \/ RenewLease(w) \/ FinalizeCommit(w) \/ FinalizeAckLost(w)
        \/ PrepareRetry(w) \/ FailGeneration(w)
    \/ Tick

LEMMA TableWriters ==
    ASSUME [Next]_vars
    PROVE  Writers \/ UNCHANGED <<gen, report>>
  <1>1. ASSUME NEW c \in Callers,
               \/ \E g \in Generations : StartDuplicate(c, g) \/ CancelBegin(c, g)
               \/ Enqueue(c) \/ EnqueueError(c) \/ CompensateRead(c) \/ CancelRemove(c)
               \/ CancelRemoveError(c) \/ CallDbError(c) \/ ApiCrash(c)
        PROVE  UNCHANGED <<gen, report>>
    BY <1>1 DEF StartDuplicate, CancelBegin, Enqueue, EnqueueError, CompensateRead, CancelRemove,
                CancelRemoveError, CallDbError, ApiCrash
  <1>2. ASSUME NEW w \in Workers,
               \/ \E g \in Generations : TakeJob(w, g)
               \/ \E retryable \in BOOLEAN : PipelineError(w, retryable)
               \/ ClaimRefused(w) \/ RunLost(w) \/ DeadlineExceeded(w) \/ Upload(w)
               \/ FinalizeCheck(w) \/ FinalizeLost(w) \/ OrphanCleanup(w)
               \/ ResultAfterClaimLoss(w) \/ JobCompleted(w) \/ JobFailed(w)
               \/ UploadError(w) \/ FinalizeError(w) \/ WorkerDbError(w) \/ WorkerCrash(w)
        PROVE  UNCHANGED <<gen, report>>
    BY <1>2 DEF TakeJob, PipelineError, ClaimRefused, RunLost, DeadlineExceeded, Upload,
                FinalizeCheck, FinalizeLost, OrphanCleanup, ResultAfterClaimLoss,
                JobCompleted, JobFailed, UploadError, FinalizeError, WorkerDbError, WorkerCrash
  <1>3. ASSUME \/ \E g \in Generations : StalledJob(g)
               \/ \E key \in cleanup : RetryCleanup(key)
               \/ UNCHANGED vars
        PROVE  UNCHANGED <<gen, report>>
    BY <1>3 DEF StalledJob, RetryCleanup, vars
  <1> QED BY <1>1, <1>2, <1>3 DEF Next, CallStep, WorkerStep, Writers

\* No step of any worker takes the token of a lease that has not run out: a
\* takeover happens only after expiry, in every combination of the faults.
THEOREM LifecycleLiveLease == Spec => LiveLeaseNotStolen
  <1> DEFINE Kept(g) == gen[g].status = "PROCESSING" /\ gen[g].lease > 0 /\ gen'[g].status = "PROCESSING"
                          => gen'[g].token = gen[g].token
  <1>1. ASSUME Inv, [Next]_vars, NEW g \in Generations
        PROVE  Kept(g)
    <2>1. gen \in [Generations -> GenRows] /\ InFlight
      BY <1>1 DEF Inv, TypeOK
    <2>2. ASSUME NEW c \in Callers, NEW h \in Generations, NEW r \in Reports, NEW k \in Keys,
                 StartNew(c, h, r, k)
          PROVE  Kept(g)
      BY <2>1, <2>2 DEF StartNew
    <2>3. ASSUME NEW c \in Callers, MarkEnqueued(c)
          PROVE  Kept(g)
      BY <2>1, <2>3 DEF MarkEnqueued, GenRows
    <2>4. ASSUME NEW c \in Callers, CompensateWrite(c) \/ CancelCommit(c)
          PROVE  Kept(g)
      <3>1. PICK h \in Generations : h = call[c].gen
        BY <2>1, <2>4, BusyCall DEF CompensateWrite, CancelCommit, At
      <3>2. NoRow("DELETED").status = "DELETED"
        BY DEF NoRow
      <3>3. CASE CompensateWrite(c)
        BY <2>1, <3>1, <3>2, <3>3 DEF CompensateWrite
      <3>4. CASE CancelCommit(c)
        BY <2>1, <3>1, <3>4 DEF CancelCommit, GenRows
      <3> QED BY <2>4, <3>3, <3>4
    <2>5. ASSUME NEW w \in Workers, Claim(w)
          PROVE  Kept(g)
      <3>1. worker[w].gen \in Generations /\ Claimable(worker[w].gen)
        BY <2>1, <2>5, BusyWorker DEF Claim, Is
      <3>2. CASE worker[w].gen = g
        <4>1. ~(gen[g].status = "PROCESSING" /\ gen[g].lease > 0)
          BY <2>1, <3>1, <3>2 DEF Claimable, GenRows
        <4> QED BY <4>1
      <3>3. CASE worker[w].gen # g
        BY <2>1, <2>5, <3>3 DEF Claim
      <3> QED BY <3>2, <3>3
    <2>6. ASSUME NEW w \in Workers, RenewLease(w)
          PROVE  Kept(g)
      BY <2>1, <2>6 DEF RenewLease, GenRows
    <2>7. ASSUME NEW w \in Workers,
                 FinalizeCommit(w) \/ FinalizeAckLost(w) \/ PrepareRetry(w) \/ FailGeneration(w)
          PROVE  Kept(g)
      <3>1. PICK h \in Generations : h = worker[w].gen
        BY <2>1, <2>7, BusyWorker DEF FinalizeCommit, FinalizeAckLost, Publish, PrepareRetry,
                                      FailGeneration, Is
      <3>2. CASE Publish(w)
        BY <2>1, <3>1, <3>2 DEF Publish, GenRows
      <3>3. CASE PrepareRetry(w)
        BY <2>1, <3>1, <3>3 DEF PrepareRetry, GenRows
      <3>4. CASE FailGeneration(w)
        BY <2>1, <3>1, <3>4 DEF FailGeneration, GenRows
      <3> QED BY <2>7, <3>2, <3>3, <3>4 DEF FinalizeCommit, FinalizeAckLost
    <2>8. CASE Tick
      BY <2>1, <2>8 DEF Tick, GenRows
    <2>9. CASE gen' = gen
      BY <2>9
    <2>10. Writers \/ gen' = gen
      BY <1>1, TableWriters
    <2> QED BY <2>2, <2>3, <2>4, <2>5, <2>6, <2>7, <2>8, <2>9, <2>10 DEF Writers
  <1>2. Inv /\ [Next]_vars => [\A g \in Generations : Kept(g)]_vars
    BY <1>1
  <1>3. Spec => [][\A g \in Generations : Kept(g)]_vars
    BY <1>2, LifecycleInvariant, PTL DEF Spec
  <1> QED BY <1>3 DEF LiveLeaseNotStolen

-----------------------------------------------------------------------------
\* The generation service and its workers use the ledger as the contract
\* allows, whatever fails between them: a credit is taken only where one is
\* left, and the publication, failure, cancellation and compensation that may
\* race for it settle it once.
THEOREM LifecycleImplementsContract == Spec => ImplementsContract
  <1>1. Init => Contract!Init
    BY ContractInit DEF Init
  <1>2. ASSUME Inv, [Next]_vars
        PROVE  [Contract!Next]_(Contract!contractVars)
    <2>1. CreditTypeOK /\ Conservation /\ InFlight /\ SettlementMatchesOutcome
      BY <1>2 DEF Inv, TypeOK
    <2>2. ASSUME NEW c \in Callers, NEW g \in Generations, NEW r \in Reports, NEW k \in Keys,
                 StartNew(c, g, r, k)
          PROVE  [Contract!Next]_(Contract!contractVars)
      <3>1. reserve(User, g, 0)
        BY <2>2 DEF StartNew
      <3> QED BY <2>1, <3>1, ReserveImplements
    <2>3. ASSUME NEW c \in Callers, CompensateWrite(c) \/ CancelCommit(c)
          PROVE  [Contract!Next]_(Contract!contractVars)
      <3>1. call[c].gen \in Generations
        BY <2>1, <2>3, BusyCall DEF CompensateWrite, CancelCommit, At
      <3>2. Exists(call[c].gen) => linked[call[c].gen]
        BY <2>1, <3>1 DEF SettlementMatchesOutcome, OutcomeSettled
      <3>3. CASE UNCHANGED creditVars
        BY <3>3, ContractStutter DEF creditVars
      <3>4. CASE releaseInTransaction(call[c].gen) /\ Exists(call[c].gen)
        BY <2>1, <3>1, <3>2, <3>4, ReleaseImplements
      <3> QED BY <2>3, <3>3, <3>4 DEF CompensateWrite, CancelCommit, Cancellable, Exists
    <2>4. ASSUME NEW w \in Workers, FinalizeCommit(w) \/ FinalizeAckLost(w)
          PROVE  [Contract!Next]_(Contract!contractVars)
      <3>1. Publish(w) /\ worker[w].gen \in Generations
        BY <2>1, <2>4, BusyWorker DEF FinalizeCommit, FinalizeAckLost, Publish, Is
      <3>2. /\ gen[worker[w].gen].status = "PROCESSING"
            /\ reservation[worker[w].gen] # NULL
            /\ WriteConsume(worker[w].gen)
        BY <3>1 DEF Publish, CanPublish, HoldsToken
      <3>3. settled[worker[w].gen] = {}
        BY <2>1, <3>1, <3>2 DEF SettlementMatchesOutcome, OutcomeSettled, Active
      <3> QED BY <2>1, <3>1, <3>2, <3>3, SettleImplements
    <2>5. ASSUME NEW w \in Workers, FailGeneration(w)
          PROVE  [Contract!Next]_(Contract!contractVars)
      <3>1. worker[w].gen \in Generations
        BY <2>1, <2>5, BusyWorker DEF FailGeneration, Is
      <3>2. CASE UNCHANGED creditVars
        BY <3>2, ContractStutter DEF creditVars
      <3>3. CASE Owns(w) /\ releaseInTransaction(worker[w].gen)
        <4>1. linked[worker[w].gen]
          BY <2>1, <3>1, <3>3 DEF SettlementMatchesOutcome, OutcomeSettled, Exists, Owns, HoldsToken
        <4> QED BY <2>1, <3>1, <3>3, <4>1, ReleaseImplements
      <3> QED BY <2>5, <3>2, <3>3 DEF FailGeneration
    <2>6. CASE UNCHANGED creditVars
      BY <2>6, ContractStutter DEF creditVars
    <2>7. \/ \E c \in Callers : \/ \E g \in Generations, r \in Reports, k \in Keys : StartNew(c, g, r, k)
                                \/ CompensateWrite(c) \/ CancelCommit(c)
          \/ \E w \in Workers : FinalizeCommit(w) \/ FinalizeAckLost(w) \/ FailGeneration(w)
          \/ UNCHANGED creditVars
      <3>1. ASSUME NEW c \in Callers,
                   \/ \E g \in Generations : StartDuplicate(c, g) \/ CancelBegin(c, g)
                   \/ Enqueue(c) \/ EnqueueError(c) \/ MarkEnqueued(c) \/ CompensateRead(c)
                   \/ CancelRemove(c) \/ CancelRemoveError(c) \/ CallDbError(c) \/ ApiCrash(c)
            PROVE  UNCHANGED creditVars
        BY <3>1 DEF StartDuplicate, CancelBegin, Enqueue, EnqueueError, MarkEnqueued, CompensateRead,
                    CancelRemove, CancelRemoveError, CallDbError, ApiCrash
      <3>2. ASSUME NEW w \in Workers,
                   \/ \E g \in Generations : TakeJob(w, g)
                   \/ \E retryable \in BOOLEAN : PipelineError(w, retryable)
                   \/ Claim(w) \/ ClaimRefused(w) \/ RenewLease(w) \/ RunLost(w)
                   \/ DeadlineExceeded(w) \/ Upload(w) \/ FinalizeCheck(w) \/ FinalizeLost(w)
            PROVE  UNCHANGED creditVars
        BY <3>2 DEF TakeJob, PipelineError, Claim, ClaimRefused, RenewLease, RunLost,
                    DeadlineExceeded, Upload, FinalizeCheck, FinalizeLost
      <3>3. ASSUME NEW w \in Workers,
                   \/ OrphanCleanup(w) \/ PrepareRetry(w)
                   \/ ResultAfterClaimLoss(w) \/ JobCompleted(w) \/ JobFailed(w)
                   \/ UploadError(w) \/ FinalizeError(w) \/ WorkerDbError(w) \/ WorkerCrash(w)
            PROVE  UNCHANGED creditVars
        BY <3>3 DEF OrphanCleanup, PrepareRetry, ResultAfterClaimLoss, JobCompleted, JobFailed,
                    UploadError, FinalizeError, WorkerDbError, WorkerCrash
      <3>4. ASSUME \/ \E g \in Generations : StalledJob(g)
                   \/ \E key \in cleanup : RetryCleanup(key)
                   \/ Tick
                   \/ UNCHANGED vars
            PROVE  UNCHANGED creditVars
        BY <3>4 DEF StalledJob, RetryCleanup, Tick, vars
      <3> QED BY <1>2, <3>1, <3>2, <3>3, <3>4 DEF Next, CallStep, WorkerStep
    <2> QED BY <2>2, <2>3, <2>4, <2>5, <2>6, <2>7
  <1> QED BY <1>1, <1>2, LifecycleInvariant, PTL DEF Spec, ImplementsContract, Contract!Spec

=============================================================================
