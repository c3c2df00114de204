----------------------- MODULE ProviderAttemptsProofs -----------------------
(***************************************************************************)
(* First part: no worker begins or sends a paid call for a generation that *)
(* is not its own, the calls of all workers, claims and generations        *)
(* together stay within the durable budget, and no attempt outlives the    *)
(* claim it blocks.                                                        *)
(*                                                                         *)
(* The argument: a lease never ends before the deadline of the worker that *)
(* holds the token, so a claim cannot expire before the deadline has       *)
(* (Fenced); a report has one generation under way (Serial), so one worker *)
(* at most can send requests, each of them for the newest attempt of its   *)
(* slot (Metered); an attempt ends with its worker's deadline, so no later *)
(* than the lease (Covered).                                               *)
(*                                                                         *)
(* Second part: what is paid for is stored once and never paid for again.  *)
(* The attempt of a worker that calls or saves is its alone and not yet    *)
(* COMPLETED (Filed); its slot is of its own generation, so only the       *)
(* holder of the token can complete it (Addressed, Fenced); the holder     *)
(* found nothing completed when it began, which nobody else can have       *)
(* changed since (Once, Unread).                                           *)
(***************************************************************************)
EXTENDS ProviderAttempts, SequenceTheorems, FiniteSetTheorems, TLAPS

\* A worker is busy with a generation, and within a call it knows its slot.
InCall == {"lookup", "upsert", "start", "call", "save", "fail", "close", "mark"}
BusyRows ==
    {row \in WorkerRows :
        /\ row.step # "idle" => row.gen \in Generations
        /\ row.step \in InCall => row.slot \in Slots
        /\ row.step \in {"lookup", "upsert", "fail", "mark"} => row.slot[1] = "TRANSCRIPTION"}

Rows == TypeOK /\ worker \in [Workers -> BusyRows]

-----------------------------------------------------------------------------
(* Types.                                                                  *)

LEMMA SlotKinds ==
    /\ \A a \in Audio : <<"TRANSCRIPTION", a>> \in Slots
    /\ \A g \in Generations : <<"MODERATION", g>> \in Slots /\ <<"REPORT_GENERATION", g>> \in Slots
    /\ \A s \in Slots : s[1] \in Operations /\ (s[1] = "TRANSCRIPTION" => s[2] \in Audio)
  BY DEF Slots, Operations

LEMMA IdleRow == Idle \in BusyRows
  BY DEF Idle, BusyRows, WorkerRows, Steps, InCall

\* Where a worker goes and keeps its claim, or leaves.
Continues(w) ==
    /\ worker[w].step # "idle"
    /\ \E row \in BusyRows :
        /\ worker' = [worker EXCEPT ![w] = row]
        /\ \/ row = Idle
           \/ /\ row.step # "idle"
              /\ row.gen = worker[w].gen /\ row.token = worker[w].token
              /\ row.deadline = worker[w].deadline

LEMMA Leaving ==
    ASSUME NEW w \in Workers, worker[w].step # "idle", Leave(w)
    PROVE  Continues(w)
  BY IdleRow DEF Leave, Continues

LEMMA Throwing ==
    ASSUME Rows, NEW w \in Workers, worker[w].step # "idle", NEW retryable \in BOOLEAN,
           Throw(w, retryable)
    PROVE  Continues(w)
  <1> DEFINE row == [Idle EXCEPT !.step = "settle", !.gen = worker[w].gen,
        !.token = worker[w].token, !.deadline = worker[w].deadline, !.retryable = retryable]
  <1>1. row \in BusyRows /\ row.step = "settle" /\ row.gen = worker[w].gen
        /\ row.token = worker[w].token /\ row.deadline = worker[w].deadline
    BY DEF Rows, BusyRows, WorkerRows, Idle, Steps, InCall
  <1>2. worker' = [worker EXCEPT ![w] = row]
    BY DEF Throw
  <1> HIDE DEF row
  <1> QED BY <1>1, <1>2 DEF Continues

LEMMA Returning ==
    ASSUME Rows, NEW w \in Workers, worker[w].step # "idle", NEW done \in SUBSET Audio,
           NEW step \in {"transcribe", "moderate", "report", "publish"}, Return(w, step, done)
    PROVE  Continues(w)
  <1> DEFINE row == [Idle EXCEPT !.step = step, !.gen = worker[w].gen,
        !.token = worker[w].token, !.deadline = worker[w].deadline,
        !.result = worker[w].result, !.done = done]
  <1>1. row \in BusyRows /\ row.step = step /\ row.gen = worker[w].gen
        /\ row.token = worker[w].token /\ row.deadline = worker[w].deadline
    BY DEF Rows, BusyRows, WorkerRows, Idle, Steps, InCall
  <1>2. worker' = [worker EXCEPT ![w] = row]
    BY DEF Return
  <1> HIDE DEF row
  <1> QED BY <1>1, <1>2 DEF Continues

LEMMA Going ==
    ASSUME Rows, NEW w \in Workers, worker[w].step # "idle", NEW step \in Steps \ {"idle"},
           step \in InCall => worker[w].step \in InCall,
           step \in {"lookup", "upsert", "fail", "mark"} => worker[w].slot[1] = "TRANSCRIPTION",
           Go(w, step)
    PROVE  Continues(w)
  <1> DEFINE row == [worker[w] EXCEPT !.step = step]
  <1>1. row \in BusyRows /\ row.step = step /\ row.gen = worker[w].gen
        /\ row.token = worker[w].token /\ row.deadline = worker[w].deadline
    BY DEF Rows, BusyRows, WorkerRows
  <1>2. worker' = [worker EXCEPT ![w] = row]
    BY DEF Go
  <1> HIDE DEF row
  <1> QED BY <1>1, <1>2 DEF Continues

LEMMA Failing ==
    ASSUME Rows, NEW w \in Workers, worker[w].step \in {"call", "save"},
           NEW retryable \in BOOLEAN, NEW lost \in BOOLEAN, Failed(w, retryable, lost)
    PROVE  Continues(w)
  <1> DEFINE step == IF Operation(w) = "TRANSCRIPTION" THEN "fail" ELSE "close"
             row == [worker[w] EXCEPT !.step = step, !.retryable = retryable, !.lost = lost]
  <1>1. step \in {"fail", "close"} /\ (step = "fail" => worker[w].slot[1] = "TRANSCRIPTION")
    BY DEF Operation
  <1>2. worker' = [worker EXCEPT ![w] = row]
    BY DEF Failed
  <1> HIDE DEF step
  <1>3. worker[w] \in BusyRows /\ worker[w].slot \in Slots
    BY DEF Rows, BusyRows, InCall
  <1>4. row \in WorkerRows /\ row.step = step /\ row.gen = worker[w].gen
        /\ row.token = worker[w].token /\ row.deadline = worker[w].deadline
        /\ row.slot = worker[w].slot
    BY <1>1, <1>3 DEF BusyRows, WorkerRows, Steps
  <1> HIDE DEF row
  <1>5. row \in BusyRows
    BY <1>1, <1>3, <1>4 DEF BusyRows
  <1> QED BY <1>1, <1>2, <1>4, <1>5 DEF Continues

-----------------------------------------------------------------------------
\* The rows of attempts.
LEMMA ClosedType ==
    ASSUME NEW row \in AttemptRows, NEW status \in {"COMPLETED", "FAILED"}
    PROVE  Closed(row, status) \in AttemptRows
  BY DEF Closed, AttemptRows

LEMMA RowChange ==
    ASSUME NEW S, NEW rows \in Seq(S), NEW n \in Nat, NEW row, n \in 1 .. Len(rows) => row \in S
    PROVE  /\ [rows EXCEPT ![n] = row] \in Seq(S)
           /\ Len([rows EXCEPT ![n] = row]) = Len(rows)
  <1>1. CASE n \in 1 .. Len(rows)
    BY <1>1, ExceptSeq
  <1>2. CASE n \notin 1 .. Len(rows)
    <2>1. rows \in [1 .. Len(rows) -> S]
      BY LenProperties
    <2>2. [rows EXCEPT ![n] = row] = rows
      BY <1>2, <2>1
    <2> QED BY <2>2
  <1> QED BY <1>1, <1>2

LEMMA SetRowType ==
    ASSUME Rows, NEW w \in Workers, worker[w].slot \in Slots, NEW status \in {"COMPLETED", "FAILED"}
    PROVE  /\ SetRow(w, status) \in [Slots -> Seq(AttemptRows)]
           /\ \A s \in Slots : Len(SetRow(w, status)[s]) = Len(attempts[s])
  <1> DEFINE s == worker[w].slot
             n == worker[w].number
             row == Closed(attempts[s][n], status)
  <1>1. attempts \in [Slots -> Seq(AttemptRows)] /\ n \in Nat
    BY DEF Rows, TypeOK, BusyRows, WorkerRows
  <1>2. n \in 1 .. Len(attempts[s]) => row \in AttemptRows
    BY <1>1, ElementOfSeq, ClosedType
  <1>3. SetRow(w, status) = [attempts EXCEPT ![s] = [@ EXCEPT ![n] = row]]
    BY DEF SetRow
  <1> HIDE DEF row
  <1>4. [attempts[s] EXCEPT ![n] = row] \in Seq(AttemptRows)
        /\ Len([attempts[s] EXCEPT ![n] = row]) = Len(attempts[s])
    <2>1. attempts[s] \in Seq(AttemptRows)
      BY <1>1
    <2> QED BY <1>1, <1>2, <2>1, RowChange
  <1> QED BY <1>1, <1>3, <1>4

\* What start adds.
LEMMA StartType ==
    ASSUME Rows, NEW w \in Workers, worker[w].slot \in Slots, StartAttempt(w)
    PROVE  /\ attempts' \in [Slots -> Seq(AttemptRows)]
           /\ Len(attempts'[worker[w].slot]) = Len(attempts[worker[w].slot]) + 1
           /\ \A s \in Slots \ {worker[w].slot} : attempts'[s] = attempts[s]
  <1> DEFINE slot == worker[w].slot
             new == [token |-> worker[w].token, lease |-> AttemptLease(w),
                     status |-> "STARTED", clean |-> 0]
             closed == CloseStale(attempts[slot])
  <1>1. attempts \in [Slots -> Seq(AttemptRows)] /\ worker[w] \in WorkerRows
    BY DEF Rows, TypeOK
  <1>2. new \in AttemptRows
    BY <1>1 DEF AttemptRows, AttemptLease, WorkerRows
  <1>3. closed \in Seq(AttemptRows) /\ Len(closed) = Len(attempts[slot])
    <2>1. attempts[slot] \in Seq(AttemptRows)
      BY <1>1
    <2>2. \A i \in DOMAIN attempts[slot] : attempts[slot][i] \in AttemptRows
      BY <2>1
    <2>3. \A row \in AttemptRows : Closed(row, "FAILED") \in AttemptRows
      BY DEF Closed, AttemptRows
    <2> QED BY <2>1, <2>2, <2>3 DEF CloseStale
  <1>4. attempts' = [attempts EXCEPT ![slot] = Append(closed, new)]
    BY DEF StartAttempt
  <1> HIDE DEF new, closed
  <1>5. Append(closed, new) \in Seq(AttemptRows) /\ Len(Append(closed, new)) = Len(closed) + 1
    BY <1>2, <1>3
  <1> QED BY <1>1, <1>3, <1>4, <1>5

-----------------------------------------------------------------------------
(* Every step of a worker that has claimed continues or ends that claim.   *)

LEMMA StageContinues ==
    ASSUME Rows, NEW w \in Workers,
           \/ LostStage(w) \/ DeadlineExceeded(w) \/ StageError(w) \/ AllTranscribed(w)
           \/ Lookup(w) \/ Upsert(w) \/ AttemptInProgress(w) \/ BudgetExhausted(w)
           \/ PublishError(w) \/ Publish(w) \/ PrepareRetry(w) \/ FailGeneration(w)
           \/ SettleLost(w) \/ Crash(w)
    PROVE  Continues(w)
  <1>1. worker[w] \in BusyRows /\ worker[w].step # "idle"
    BY DEF Rows, LostStage, DeadlineExceeded, Stage, StageError, AllTranscribed, Lookup, Upsert,
           AttemptInProgress, BudgetExhausted, PublishError, Publish, PrepareRetry, FailGeneration,
           SettleLost, Crash, Is
  <1>2. CASE LostStage(w) \/ Publish(w) \/ PrepareRetry(w) \/ FailGeneration(w) \/ SettleLost(w)
             \/ Crash(w)
    BY <1>1, <1>2, Leaving DEF LostStage, Publish, PrepareRetry, FailGeneration, SettleLost, Crash
  <1>3. CASE DeadlineExceeded(w) \/ StageError(w) \/ AttemptInProgress(w) \/ BudgetExhausted(w)
             \/ PublishError(w)
    <2>1. \E retryable \in BOOLEAN : Throw(w, retryable)
      BY <1>3 DEF DeadlineExceeded, StageError, AttemptInProgress, BudgetExhausted, PublishError
    <2> QED BY <1>1, <2>1, Throwing
  <1>4. CASE AllTranscribed(w)
    BY <1>1, <1>4, Returning DEF AllTranscribed
  <1>5. CASE Lookup(w)
    <2>1. worker[w].slot \in Slots /\ worker[w].slot[1] = "TRANSCRIPTION" /\ worker[w].step = "lookup"
      BY <1>1, <1>5 DEF Lookup, Is, BusyRows, InCall
    <2>2. CASE Transcribed(w)
      <3>1. worker[w].done \cup {Asset(w)} \in SUBSET Audio
        BY <1>1, <2>1, SlotKinds DEF Asset, BusyRows, WorkerRows
      <3> QED BY <1>1, <2>2, <3>1, Returning DEF Transcribed
    <2>3. CASE Go(w, "upsert")
      BY <1>1, <2>1, <2>3, Going DEF Steps, InCall
    <2> QED BY <1>5, <2>2, <2>3 DEF Lookup
  <1>6. CASE Upsert(w)
    BY <1>1, <1>6, Going DEF Upsert, Is, Steps, InCall
  <1> QED BY <1>2, <1>3, <1>4, <1>5, <1>6

\* A worker that enters a call.
LEMMA EnterContinues ==
    ASSUME Rows, NEW w \in Workers, NextRecording(w) \/ Moderate(w) \/ Report(w)
    PROVE  Continues(w)
  <1>1. worker[w] \in BusyRows /\ worker[w].step \in {"transcribe", "moderate", "report"}
        /\ worker[w].gen \in Generations
    BY DEF Rows, NextRecording, Moderate, Report, Stage, Is, BusyRows
  <1>2. ASSUME NEW slot \in Slots, NEW step \in {"lookup", "start"},
               step = "lookup" => slot[1] = "TRANSCRIPTION",
               worker' = [worker EXCEPT ![w].step = step, ![w].slot = slot]
        PROVE  Continues(w)
    <2> DEFINE row == [worker[w] EXCEPT !.step = step, !.slot = slot]
    <2>1. row \in BusyRows /\ row.step = step /\ row.gen = worker[w].gen
          /\ row.token = worker[w].token /\ row.deadline = worker[w].deadline
      BY <1>1, <1>2 DEF BusyRows, WorkerRows, Steps, InCall
    <2>2. worker' = [worker EXCEPT ![w] = row]
      BY <1>2
    <2> HIDE DEF row
    <2> QED BY <1>1, <2>1, <2>2 DEF Continues
  <1>3. CASE NextRecording(w)
    BY <1>2, <1>3, SlotKinds DEF NextRecording
  <1>4. CASE Moderate(w)
    <2>1. CASE StartFor(w, <<"MODERATION", worker[w].gen>>)
      BY <1>1, <1>2, <2>1, SlotKinds DEF StartFor
    <2>2. CASE Go(w, "report")
      BY <1>1, <2>2, Going DEF Steps, InCall
    <2> QED BY <1>4, <2>1, <2>2 DEF Moderate
  <1>5. CASE Report(w)
    <2>1. CASE StartFor(w, <<"REPORT_GENERATION", worker[w].gen>>)
      BY <1>1, <1>2, <2>1, SlotKinds DEF StartFor
    <2>2. CASE Go(w, "publish")
      BY <1>1, <2>2, Going DEF Steps, InCall
    <2> QED BY <1>5, <2>1, <2>2 DEF Report
  <1> QED BY <1>3, <1>4, <1>5

\* A worker inside a call.
LEMMA CallContinues ==
    ASSUME Rows, NEW w \in Workers,
           \/ StartAttempt(w) \/ Transcribe(w) \/ ModerateBatch(w) \/ GenerateReport(w) \/ CallError(w)
           \/ Save(w) \/ SaveUnacknowledged(w) \/ SaveError(w) \/ SaveLost(w)
           \/ FailOwned(w) \/ Close(w) \/ Mark(w) \/ CatchError(w)
    PROVE  Continues(w) /\ worker[w].slot \in Slots
  <1>1. worker[w] \in BusyRows /\ worker[w].step \in InCall /\ worker[w].step # "idle"
    BY DEF Rows, StartAttempt, Transcribe, ModerateBatch, GenerateReport, CallError, Save,
           SaveUnacknowledged, Store, SaveError, SaveLost, FailOwned, Close, Mark, CatchError,
           Is, InCall
  <1>2. worker[w].slot \in Slots
    BY <1>1 DEF BusyRows
  <1>3. CASE StartAttempt(w)
    <2> DEFINE n == Len(attempts'[worker[w].slot])
               row == [worker[w] EXCEPT !.step = "call", !.batch = 0, !.number = n]
    <2>1. n \in Nat
      <3>1. attempts'[worker[w].slot] \in Seq(AttemptRows)
        BY <1>2, <1>3, StartType
      <3> QED BY <3>1, LenProperties
    <2>2. worker' = [worker EXCEPT ![w] = row]
      <3>1. worker' = [worker EXCEPT ![w].step = "call", ![w].batch = 0, ![w].number = n]
        BY <1>3 DEF StartAttempt
      <3> HIDE DEF n
      <3> QED BY <3>1 DEF Rows
    <2> HIDE DEF n
    <2>3. row \in BusyRows /\ row.step = "call" /\ row.gen = worker[w].gen
          /\ row.token = worker[w].token /\ row.deadline = worker[w].deadline
      BY <1>1, <1>2, <2>1 DEF BusyRows, WorkerRows, Steps, InCall
    <2> HIDE DEF row
    <2> QED BY <1>1, <1>2, <2>2, <2>3 DEF Continues
  <1>4. CASE Transcribe(w)
    <2> PICK text \in {"speech", "empty"} :
            worker' = [worker EXCEPT ![w].step = "save", ![w].text = text]
      BY <1>4 DEF Transcribe
    <2> DEFINE row == [worker[w] EXCEPT !.step = "save", !.text = text]
    <2>1. row \in BusyRows /\ row.step = "save" /\ row.gen = worker[w].gen
          /\ row.token = worker[w].token /\ row.deadline = worker[w].deadline
      BY <1>1, <1>2 DEF BusyRows, WorkerRows, Steps, InCall
    <2>2. worker' = [worker EXCEPT ![w] = row]
      OBVIOUS
    <2> HIDE DEF row
    <2> QED BY <1>1, <1>2, <2>1, <2>2 DEF Continues
  <1>5. CASE ModerateBatch(w)
    <2> DEFINE step == IF LastBatch(worker[w].batch + 1) THEN "save" ELSE "call"
               row == [worker[w] EXCEPT !.batch = @ + 1, !.step = step]
    <2>1. step \in {"save", "call"}
      OBVIOUS
    <2>2. worker' = [worker EXCEPT ![w] = row]
      BY <1>5 DEF ModerateBatch
    <2> HIDE DEF step
    <2>3. worker[w] \in WorkerRows /\ worker[w].batch + 1 \in Nat
      BY <1>1 DEF BusyRows, WorkerRows
    <2> DEFINE batch == worker[w].batch + 1
    <2>4. row = [worker[w] EXCEPT !.batch = batch, !.step = step] /\ batch \in Nat
      BY <2>3
    <2> HIDE DEF batch, row
    <2>5. row \in WorkerRows
      BY <2>1, <2>3, <2>4 DEF WorkerRows, Steps
    <2>6. row.step = step /\ row.gen = worker[w].gen /\ row.slot = worker[w].slot
          /\ row.token = worker[w].token /\ row.deadline = worker[w].deadline
      BY <2>3, <2>4 DEF WorkerRows
    <2>7. row \in BusyRows
      BY <1>1, <1>2, <2>1, <2>5, <2>6 DEF BusyRows
    <2> QED BY <1>1, <1>2, <2>1, <2>2, <2>6, <2>7 DEF Continues
  <1>6. CASE GenerateReport(w)
    BY <1>1, <1>2, <1>6, Going DEF GenerateReport, Steps, InCall
  <1>7. CASE CallError(w) \/ SaveUnacknowledged(w) \/ SaveError(w)
    <2>1. worker[w].step \in {"call", "save"}
          /\ \E retryable \in BOOLEAN : Failed(w, retryable, FALSE)
      BY <1>7 DEF CallError, SaveUnacknowledged, SaveError, Store, Is
    <2> QED BY <1>2, <2>1, Failing
  <1>8. CASE SaveLost(w)
    <2>1. worker[w].step \in {"call", "save"} /\ (Leave(w) \/ Failed(w, FALSE, TRUE))
      BY <1>8 DEF SaveLost, Is
    <2> QED BY <1>1, <1>2, <2>1, Leaving, Failing
  <1>9. CASE Save(w)
    <2>1. CASE Operation(w) = "TRANSCRIPTION" /\ Transcribed(w)
      <3>1. worker[w].done \cup {Asset(w)} \in SUBSET Audio
        BY <1>1, <1>2, <2>1, SlotKinds DEF Asset, Operation, BusyRows, WorkerRows
      <3> QED BY <1>1, <1>2, <2>1, <3>1, Returning DEF Transcribed
    <2>2. CASE Return(w, "report", {}) \/ Return(w, "publish", {})
      BY <1>1, <1>2, <2>2, Returning
    <2> QED BY <1>9, <2>1, <2>2 DEF Save
  <1>10. CASE FailOwned(w)
    <2>1. Go(w, "close") \/ Leave(w)
      BY <1>10 DEF FailOwned
    <2> QED BY <1>1, <1>2, <2>1, Going, Leaving DEF Steps, InCall
  <1>11. CASE Close(w)
    <2>1. \/ Leave(w) \/ Go(w, "settle")
          \/ Go(w, "mark") /\ worker[w].slot[1] = "TRANSCRIPTION"
      BY <1>11 DEF Close, Operation
    <2> QED BY <1>1, <1>2, <2>1, Going, Leaving DEF Steps, InCall
  <1>12. CASE Mark(w)
    BY <1>1, <1>2, <1>12, Going DEF Mark, Steps, InCall
  <1>13. CASE CatchError(w)
    BY <1>1, <1>2, <1>13, Throwing DEF CatchError
  <1> QED BY <1>3, <1>4, <1>5, <1>6, <1>7, <1>8, <1>9, <1>10, <1>11, <1>12, <1>13

-----------------------------------------------------------------------------
(* What the steps of a worker do to generations, attempts and the bill.    *)

\* Its generation is settled as it leaves, or stays its own with a full lease.
OwnChange(w) ==
    /\ Owns(w)
    /\ \A g \in Generations \ {worker[w].gen} : gen'[g] = gen[g]
    /\ \/ Leave(w) /\ gen'[worker[w].gen].status # "PROCESSING"
       \/ /\ gen'[worker[w].gen].status = "PROCESSING"
          /\ gen'[worker[w].gen].token = worker[w].token
          /\ gen'[worker[w].gen].lease = JobTimeout

GenChange(w) ==
    /\ gen' \in [Generations -> GenRows]
    /\ gen' = gen \/ OwnChange(w)

LEMMA Progressing ==
    ASSUME Rows, NEW w \in Workers, worker[w].step # "idle", Owns(w), gen' = Progress(worker[w].gen)
    PROVE  GenChange(w)
  <1>1. worker[w].gen \in Generations /\ gen \in [Generations -> GenRows] /\ JobTimeout \in Nat
    BY AttemptConstants DEF Rows, TypeOK, BusyRows
  <1> QED BY <1>1 DEF GenChange, OwnChange, Progress, Owns, HoldsToken, GenRows

LEMMA SettledRow ==
    ASSUME NEW row \in GenRows, NEW status \in GenStatus,
           NEW new, new = [row EXCEPT !.status = status, !.token = 0, !.lease = 0]
    PROVE  new \in GenRows /\ new.status = status
  <1>1. new = [status |-> status, token |-> 0, lease |-> 0, result |-> row.result]
    BY DEF GenRows
  <1>2. row.result \in BOOLEAN
    BY DEF GenRows
  <1> QED BY <1>1, <1>2 DEF GenRows

LEMMA Settling ==
    ASSUME Rows, NEW w \in Workers, worker[w].step # "idle", Owns(w), Leave(w),
           NEW status \in GenStatus \ {"PROCESSING"}, gen' = Settled(worker[w].gen, status)
    PROVE  GenChange(w)
  <1>1. worker[w].gen \in Generations /\ gen \in [Generations -> GenRows]
    BY DEF Rows, TypeOK, BusyRows
  <1> DEFINE own == worker[w].gen
             row == [gen[own] EXCEPT !.status = status, !.token = 0, !.lease = 0]
  <1>2. row \in GenRows /\ row.status = status
    <2>1. gen[own] \in GenRows
      BY <1>1
    <2>2. status \in GenStatus
      OBVIOUS
    <2> QED BY <2>1, <2>2, SettledRow
  <1>3. gen' = [g \in Generations |-> IF g = own THEN row ELSE gen[g]]
    BY <1>1 DEF Settled
  <1> HIDE DEF own, row
  <1>4. gen' \in [Generations -> GenRows] /\ \A g \in Generations \ {own} : gen'[g] = gen[g]
    BY <1>1, <1>2, <1>3
  <1>5. own \in Generations /\ gen'[own].status = status
    BY <1>1, <1>2, <1>3 DEF own
  <1> QED BY <1>4, <1>5 DEF GenChange, OwnChange, own

LEMMA Storing ==
    ASSUME Rows, NEW w \in Workers, Store(w)
    PROVE  GenChange(w)
  <1>1. worker[w].gen \in Generations /\ gen \in [Generations -> GenRows] /\ JobTimeout \in Nat
    BY AttemptConstants DEF Rows, TypeOK, BusyRows, Store, Is
  <1>2. Owns(w)
    BY DEF Store, CanSave
  <1>3. CASE gen' = gen
    BY <1>1, <1>3 DEF GenChange
  <1>4. CASE gen' = [gen EXCEPT ![worker[w].gen].result = TRUE, ![worker[w].gen].lease = JobTimeout]
    <2> DEFINE row == [gen[worker[w].gen] EXCEPT !.result = TRUE, !.lease = JobTimeout]
    <2>1. gen' = [gen EXCEPT ![worker[w].gen] = row]
      BY <1>1, <1>4
    <2> DEFINE old == gen[worker[w].gen]
    <2>2. old \in GenRows /\ old.status = "PROCESSING" /\ old.token = worker[w].token
      BY <1>1, <1>2 DEF Owns, HoldsToken
    <2> DEFINE read == [old EXCEPT !.result = TRUE]
    <2>3. row = [read EXCEPT !.lease = JobTimeout]
      OBVIOUS
    <2> HIDE DEF old, row
    <2>4. read \in GenRows /\ read.status = old.status /\ read.token = old.token
      BY <2>2 DEF GenRows
    <2> HIDE DEF read
    <2>5. row \in GenRows /\ row.status = "PROCESSING" /\ row.token = worker[w].token
          /\ row.lease = JobTimeout
      BY <1>1, <2>2, <2>3, <2>4 DEF GenRows
    <2> QED BY <1>1, <1>2, <2>1, <2>5 DEF GenChange, OwnChange
  <1> QED BY <1>3, <1>4 DEF Store

\* A worker whose deadline is still to come and that may send a request.
Sends(w) == worker[w].step = "call" /\ worker[w].deadline > 0
Requests(s) == IF s[1] = "MODERATION" THEN Batches ELSE 1

\* Nothing is billed and the attempts are as many as before.
Free(w) ==
    /\ paid' = paid
    /\ attempts' \in [Slots -> Seq(AttemptRows)]
    /\ \A s \in Slots : Len(attempts'[s]) = Len(attempts[s])
    /\ worker'[w].step # "call" \/ worker'[w].deadline = 0

\* A request is billed; the next one of the call, if any, is another batch.
Billed(w) ==
    /\ Sends(w)
    /\ paid' = Paid(w)
    /\ attempts' \in [Slots -> Seq(AttemptRows)]
    /\ \A s \in Slots : Len(attempts'[s]) = Len(attempts[s])
    /\ \/ worker'[w].step # "call"
       \/ /\ worker'[w].slot = worker[w].slot
          /\ worker[w].slot[1] = "MODERATION"
          /\ worker'[w].batch = worker[w].batch + 1
          /\ worker[w].batch + 1 # Batches

LEMMA NotCalling ==
    ASSUME Rows, NEW w \in Workers, worker[w].step # "idle",
           \/ Leave(w)
           \/ \E retryable \in BOOLEAN : Throw(w, retryable)
           \/ \E step \in Steps \ {"call"}, done \in SUBSET Audio : Return(w, step, done)
           \/ \E step \in Steps \ {"call"} : Go(w, step)
           \/ \E retryable, lost \in BOOLEAN : Failed(w, retryable, lost)
    PROVE  worker'[w].step # "call"
  <1>1. worker \in [Workers -> WorkerRows]
    BY DEF Rows, TypeOK
  <1>2. CASE Leave(w)
    BY <1>1, <1>2 DEF Leave, Idle
  <1>3. CASE \E retryable \in BOOLEAN : Throw(w, retryable)
    BY <1>1, <1>3 DEF Throw, Idle
  <1>4. CASE \E step \in Steps \ {"call"}, done \in SUBSET Audio : Return(w, step, done)
    BY <1>1, <1>4 DEF Return, Idle
  <1>5. CASE \E step \in Steps \ {"call"} : Go(w, step)
    BY <1>1, <1>5 DEF Go, WorkerRows
  <1>6. CASE \E retryable, lost \in BOOLEAN : Failed(w, retryable, lost)
    <2> PICK retryable \in BOOLEAN, lost \in BOOLEAN : Failed(w, retryable, lost)
      BY <1>6
    <2> DEFINE step == IF Operation(w) = "TRANSCRIPTION" THEN "fail" ELSE "close"
    <2>1. step # "call"
      OBVIOUS
    <2>2. worker' = [worker EXCEPT ![w].step = step, ![w].retryable = retryable, ![w].lost = lost]
      BY DEF Failed
    <2> HIDE DEF step
    <2> QED BY <1>1, <2>1, <2>2 DEF WorkerRows
  <1> QED BY <1>2, <1>3, <1>4, <1>5, <1>6

\* The tables and the bill keep their types.
Tables(w) ==
    /\ GenChange(w)
    /\ transcription' \in [Audio -> Transcripts]
    /\ claims' = claims
    /\ Free(w) \/ Billed(w) \/ StartAttempt(w)

LEMMA KeptTypes ==
    ASSUME Rows
    PROVE  /\ attempts \in [Slots -> Seq(AttemptRows)]
           /\ transcription \in [Audio -> Transcripts]
           /\ gen \in [Generations -> GenRows]
  BY DEF Rows, TypeOK

LEMMA StageTables ==
    ASSUME Rows, NEW w \in Workers,
           \/ LostStage(w) \/ DeadlineExceeded(w) \/ StageError(w) \/ AllTranscribed(w)
           \/ Lookup(w) \/ Upsert(w) \/ AttemptInProgress(w) \/ BudgetExhausted(w)
           \/ PublishError(w) \/ Publish(w) \/ PrepareRetry(w) \/ FailGeneration(w)
           \/ SettleLost(w) \/ Crash(w)
    PROVE  Tables(w)
  <1>1. worker[w] \in BusyRows /\ worker[w].step # "idle"
    BY DEF Rows, LostStage, DeadlineExceeded, Stage, StageError, AllTranscribed, Lookup, Upsert,
           AttemptInProgress, BudgetExhausted, PublishError, Publish, PrepareRetry, FailGeneration,
           SettleLost, Crash, Is
  <1>2. paid' = paid /\ attempts' = attempts /\ claims' = claims
    BY DEF LostStage, DeadlineExceeded, Stage, StageError, AllTranscribed, Lookup, Upsert,
           AttemptInProgress, BudgetExhausted, PublishError, Publish, PrepareRetry, FailGeneration,
           SettleLost, Crash
  <1>3. worker'[w].step # "call"
    <2>1. CASE LostStage(w) \/ Publish(w) \/ PrepareRetry(w) \/ FailGeneration(w) \/ SettleLost(w)
               \/ Crash(w)
      BY <1>1, <2>1, NotCalling DEF LostStage, Publish, PrepareRetry, FailGeneration, SettleLost, Crash
    <2>2. CASE DeadlineExceeded(w) \/ StageError(w) \/ AttemptInProgress(w) \/ BudgetExhausted(w)
               \/ PublishError(w)
      <3>1. \E retryable \in BOOLEAN : Throw(w, retryable)
        BY <2>2 DEF DeadlineExceeded, StageError, AttemptInProgress, BudgetExhausted, PublishError
      <3> QED BY <1>1, <3>1, NotCalling
    <2>3. CASE AllTranscribed(w)
      BY <1>1, <2>3, NotCalling DEF AllTranscribed, Steps
    <2>4. CASE Lookup(w)
      <3>1. CASE Transcribed(w)
        <4>1. Asset(w) \in Audio /\ worker[w].done \subseteq Audio
          BY <1>1, <2>4, SlotKinds DEF Lookup, Is, Asset, BusyRows, WorkerRows, InCall
        <4>2. worker[w].done \cup {Asset(w)} \in SUBSET Audio
          BY <4>1
        <4> QED BY <1>1, <3>1, <4>2, NotCalling DEF Transcribed, Steps
      <3>2. CASE Go(w, "upsert")
        BY <1>1, <3>2, NotCalling DEF Steps
      <3> QED BY <2>4, <3>1, <3>2 DEF Lookup
    <2>5. CASE Upsert(w)
      BY <1>1, <2>5, NotCalling DEF Upsert, Steps
    <2> QED BY <2>1, <2>2, <2>3, <2>4, <2>5
  <1>4. Free(w)
    BY <1>2, <1>3, KeptTypes DEF Free
  <1>5. transcription' \in [Audio -> Transcripts]
    <2>1. CASE Upsert(w)
      <3>1. transcription' = [transcription EXCEPT ![Asset(w)].status = "PROCESSING"]
        BY <2>1 DEF Upsert
      <3> QED BY <3>1, KeptTypes DEF Transcripts
    <2>2. CASE ~Upsert(w)
      <3>1. transcription' = transcription
        BY <2>2 DEF LostStage, DeadlineExceeded, Stage, StageError, AllTranscribed, Lookup,
               AttemptInProgress, BudgetExhausted, PublishError, Publish, PrepareRetry, FailGeneration,
               SettleLost, Crash
      <3> QED BY <3>1, KeptTypes
    <2> QED BY <2>1, <2>2
  <1>6. GenChange(w)
    <2>1. CASE gen' = gen
      BY <2>1, KeptTypes DEF GenChange
    <2>2. CASE DeadlineExceeded(w) \/ AllTranscribed(w)
      BY <1>1, <2>2, Progressing DEF DeadlineExceeded, AllTranscribed, Stage
    <2>3. CASE Publish(w) \/ PrepareRetry(w) \/ FailGeneration(w)
      <3>1. Owns(w) /\ Leave(w)
              /\ \E status \in GenStatus \ {"PROCESSING"} : gen' = Settled(worker[w].gen, status)
        BY <2>3 DEF Publish, PrepareRetry, FailGeneration, GenStatus
      <3> QED BY <1>1, <3>1, Settling
    <2> QED BY <2>1, <2>2, <2>3 DEF LostStage, StageError, Lookup, Upsert, AttemptInProgress,
           BudgetExhausted, PublishError, SettleLost, Crash
  <1> QED BY <1>2, <1>4, <1>5, <1>6 DEF Tables

LEMMA EnterTables ==
    ASSUME Rows, NEW w \in Workers, NextRecording(w) \/ Moderate(w) \/ Report(w)
    PROVE  Tables(w)
  <1>1. /\ worker[w] \in BusyRows /\ worker[w].step \in {"transcribe", "moderate", "report"}
        /\ Owns(w) /\ gen' = Progress(worker[w].gen) /\ paid' = paid /\ attempts' = attempts
        /\ transcription' = transcription /\ claims' = claims
    BY DEF Rows, NextRecording, Moderate, Report, Stage, Is
  <1>2. worker'[w].step # "call"
    <2>1. worker \in [Workers -> WorkerRows]
      BY DEF Rows, TypeOK
    <2>2. CASE NextRecording(w)
      BY <2>1, <2>2 DEF NextRecording, WorkerRows
    <2>3. CASE Moderate(w)
      BY <2>1, <2>3 DEF Moderate, Go, StartFor, WorkerRows
    <2>4. CASE Report(w)
      BY <2>1, <2>4 DEF Report, Go, StartFor, WorkerRows
    <2> QED BY <2>2, <2>3, <2>4
  <1>3. Free(w)
    BY <1>1, <1>2, KeptTypes DEF Free
  <1> QED BY <1>1, <1>3, Progressing, KeptTypes DEF Tables

\* The moderation's count of clean batches.
LEMMA CleanType ==
    ASSUME Rows, NEW w \in Workers, worker[w].slot \in Slots, ModerateBatch(w)
    PROVE  /\ attempts' \in [Slots -> Seq(AttemptRows)]
           /\ \A s \in Slots : Len(attempts'[s]) = Len(attempts[s])
  <1> DEFINE s == worker[w].slot
             n == worker[w].number
             row == [attempts[s][n] EXCEPT !.clean = @ + 1]
  <1>1. attempts \in [Slots -> Seq(AttemptRows)] /\ n \in Nat /\ attempts[s] \in Seq(AttemptRows)
    BY DEF Rows, TypeOK, BusyRows, WorkerRows
  <1>2. n \in 1 .. Len(attempts[s]) => row \in AttemptRows
    <2>1. ASSUME NEW old \in AttemptRows
          PROVE  [old EXCEPT !.clean = @ + 1] \in AttemptRows
      BY DEF AttemptRows
    <2> QED BY <1>1, <2>1, ElementOfSeq
  <1>3. attempts' = [attempts EXCEPT ![s] = [@ EXCEPT ![n] = row]]
    BY DEF ModerateBatch
  <1> HIDE DEF row
  <1>4. [attempts[s] EXCEPT ![n] = row] \in Seq(AttemptRows)
        /\ Len([attempts[s] EXCEPT ![n] = row]) = Len(attempts[s])
    BY <1>1, <1>2, RowChange
  <1> QED BY <1>1, <1>3, <1>4

\* The end of a call that may have been billed.
LEMMA SendTables ==
    ASSUME Rows, NEW w \in Workers, worker[w].slot \in Slots,
           Transcribe(w) \/ ModerateBatch(w) \/ GenerateReport(w) \/ CallError(w)
    PROVE  Tables(w)
  <1>1. /\ worker[w] \in WorkerRows /\ worker[w].step = "call" /\ worker \in [Workers -> WorkerRows]
        /\ gen' = gen /\ transcription' = transcription /\ claims' = claims
    BY DEF Rows, TypeOK, Transcribe, ModerateBatch, GenerateReport, CallError, Is
  <1>2. CASE Transcribe(w)
    <2>1. worker'[w].step # "call"
      <3>1. PICK text : worker' = [worker EXCEPT ![w].step = "save", ![w].text = text]
        BY <1>2 DEF Transcribe
      <3>2. worker'[w].step = "save"
        BY <1>1, <3>1 DEF WorkerRows
      <3> QED BY <3>2
    <2>2. Sends(w) /\ paid' = Paid(w) /\ attempts' = attempts
      BY <1>1, <1>2 DEF Sends, Transcribe
    <2> QED BY <1>1, <2>1, <2>2, KeptTypes DEF Tables, GenChange, Billed
  <1>3. CASE GenerateReport(w)
    <2>1. worker'[w].step # "call"
      BY <1>1, <1>3, NotCalling DEF GenerateReport, Steps
    <2>2. Sends(w) /\ paid' = Paid(w) /\ attempts' = attempts
      BY <1>1, <1>3 DEF Sends, GenerateReport
    <2> QED BY <1>1, <2>1, <2>2, KeptTypes DEF Tables, GenChange, Billed
  <1>4. CASE ModerateBatch(w)
    <2> DEFINE step == IF LastBatch(worker[w].batch + 1) THEN "save" ELSE "call"
               batch == worker[w].batch + 1
    <2>1. step = "call" => batch # Batches
      BY DEF LastBatch
    <2>2. worker' = [worker EXCEPT ![w].batch = batch, ![w].step = step]
      BY <1>1, <1>4 DEF ModerateBatch
    <2> HIDE DEF step, batch
    <2>3. worker'[w].step = step /\ worker'[w].slot = worker[w].slot /\ worker'[w].batch = batch
      BY <1>1, <2>2 DEF WorkerRows
    <2>4. Sends(w) /\ paid' = Paid(w) /\ worker[w].slot[1] = "MODERATION"
      BY <1>1, <1>4 DEF Sends, ModerateBatch, Operation
    <2>5. Billed(w)
      BY <1>4, <2>1, <2>3, <2>4, CleanType DEF Billed, batch
    <2> QED BY <1>1, <2>5, KeptTypes DEF Tables, GenChange
  <1>5. CASE CallError(w)
    <2>1. worker'[w].step # "call" /\ attempts' = attempts
      BY <1>1, <1>5, NotCalling DEF CallError
    <2>2. CASE worker[w].deadline > 0
      <3>1. Sends(w) /\ paid' = Paid(w)
        BY <1>1, <1>5, <2>2 DEF Sends, CallError
      <3> QED BY <1>1, <2>1, <3>1, KeptTypes DEF Tables, GenChange, Billed
    <2>3. CASE ~(worker[w].deadline > 0)
      <3>1. paid' = paid
        BY <1>5, <2>3 DEF CallError
      <3> QED BY <1>1, <2>1, <3>1, KeptTypes DEF Tables, GenChange, Free
    <2> QED BY <2>2, <2>3
  <1> QED BY <1>2, <1>3, <1>4, <1>5

\* What is stored.
LEMMA StoreTypes ==
    ASSUME Rows, NEW w \in Workers, worker[w].slot \in Slots, Store(w)
    PROVE  /\ transcription' \in [Audio -> Transcripts]
           /\ attempts' \in [Slots -> Seq(AttemptRows)]
           /\ \A s \in Slots : Len(attempts'[s]) = Len(attempts[s])
           /\ paid' = paid /\ claims' = claims
  <1>1. worker[w] \in WorkerRows /\ attempts' = SetRow(w, "COMPLETED")
    BY DEF Rows, TypeOK, Store
  <1>2. transcription' \in [Audio -> Transcripts]
    <2>1. CASE transcription' = transcription
      BY <2>1, KeptTypes
    <2>2. CASE transcription' = [transcription EXCEPT
                   ![Asset(w)] = [status |-> "COMPLETED", text |-> worker[w].text]]
      <3>1. [status |-> "COMPLETED", text |-> worker[w].text] \in Transcripts
        BY <1>1 DEF WorkerRows, Transcripts
      <3> QED BY <2>2, <3>1, KeptTypes
    <2> QED BY <2>1, <2>2 DEF Store
  <1> QED BY <1>1, <1>2, SetRowType DEF Store

LEMMA SaveTables ==
    ASSUME Rows, NEW w \in Workers, worker[w].slot \in Slots,
           Save(w) \/ SaveUnacknowledged(w) \/ SaveError(w) \/ SaveLost(w)
    PROVE  Tables(w)
  <1>1. worker[w] \in BusyRows /\ worker[w].step = "save"
    BY DEF Rows, Save, SaveUnacknowledged, Store, SaveError, SaveLost, Is
  <1>2. CASE Save(w)
    <2>1. Store(w)
      BY <1>2 DEF Save
    <2>2. worker'[w].step # "call"
      <3>1. CASE Operation(w) = "TRANSCRIPTION" /\ Transcribed(w)
        <4>1. Asset(w) \in Audio /\ worker[w].done \subseteq Audio
          BY <1>1, <3>1, SlotKinds DEF Operation, Asset, BusyRows, WorkerRows
        <4>2. worker[w].done \cup {Asset(w)} \in SUBSET Audio
          BY <4>1
        <4> QED BY <1>1, <3>1, <4>2, NotCalling DEF Transcribed, Steps
      <3>2. CASE Return(w, "report", {}) \/ Return(w, "publish", {})
        BY <1>1, <3>2, NotCalling DEF Steps
      <3> QED BY <1>2, <3>1, <3>2 DEF Save
    <2> QED BY <2>1, <2>2, Storing, StoreTypes DEF Tables, Free
  <1>3. CASE SaveUnacknowledged(w)
    <2>1. Store(w) /\ worker'[w].step # "call"
      BY <1>1, <1>3, NotCalling DEF SaveUnacknowledged
    <2> QED BY <2>1, Storing, StoreTypes DEF Tables, Free
  <1>4. CASE SaveError(w) \/ SaveLost(w)
    <2>1. worker'[w].step # "call"
      BY <1>1, <1>4, NotCalling DEF SaveError, SaveLost
    <2> QED BY <1>4, <2>1, KeptTypes DEF SaveError, SaveLost, Tables, GenChange, Free
  <1> QED BY <1>2, <1>3, <1>4

LEMMA CatchTables ==
    ASSUME Rows, NEW w \in Workers, worker[w].slot \in Slots,
           FailOwned(w) \/ Close(w) \/ Mark(w) \/ CatchError(w)
    PROVE  Tables(w)
  <1>1. /\ worker[w] \in BusyRows /\ worker[w].step # "idle"
        /\ gen' = gen /\ paid' = paid /\ claims' = claims
    BY DEF Rows, FailOwned, Close, Mark, CatchError, Is
  <1>2. worker'[w].step # "call"
    <2>1. \/ Leave(w)
          \/ \E step \in Steps \ {"call"} : Go(w, step)
          \/ Throw(w, TRUE)
      BY DEF FailOwned, Close, Mark, CatchError, Steps
    <2> QED BY <1>1, <2>1, NotCalling
  <1>3. attempts' \in [Slots -> Seq(AttemptRows)]
        /\ \A s \in Slots : Len(attempts'[s]) = Len(attempts[s])
    BY SetRowType, KeptTypes DEF FailOwned, Close, CloseAttempt, Mark, CatchError
  <1>4. transcription' \in [Audio -> Transcripts]
    <2>1. CASE Mark(w)
      <3>1. transcription' = [transcription EXCEPT ![Asset(w)].status = "FAILED"]
        BY <2>1 DEF Mark
      <3> QED BY <3>1, KeptTypes DEF Transcripts
    <2>2. CASE ~Mark(w)
      BY <2>2, KeptTypes DEF FailOwned, Close, CatchError
    <2> QED BY <2>1, <2>2
  <1> QED BY <1>1, <1>2, <1>3, <1>4, KeptTypes DEF Tables, GenChange, Free

-----------------------------------------------------------------------------
(* A step of a worker, seen from outside.                                  *)

Proceeds(w) == Continues(w) /\ Tables(w) /\ (StartAttempt(w) => worker[w].slot \in Slots)

LEMMA WorkCases ==
    ASSUME Rows, NEW w \in Workers, Work(w)
    PROVE  (\E g \in Generations : Claim(w, g)) \/ Heartbeat(w) \/ Proceeds(w)
  <1>1. CASE \/ LostStage(w) \/ DeadlineExceeded(w) \/ StageError(w) \/ AllTranscribed(w)
             \/ Lookup(w) \/ Upsert(w) \/ AttemptInProgress(w) \/ BudgetExhausted(w)
             \/ PublishError(w) \/ Publish(w) \/ PrepareRetry(w) \/ FailGeneration(w)
             \/ SettleLost(w) \/ Crash(w)
    <2>1. Continues(w) /\ Tables(w)
      BY <1>1, StageContinues, StageTables
    <2>2. StartAttempt(w) => worker[w].slot \in Slots
      BY CallContinues
    <2> QED BY <2>1, <2>2 DEF Proceeds
  <1>2. CASE NextRecording(w) \/ Moderate(w) \/ Report(w)
    <2>1. Continues(w) /\ Tables(w)
      BY <1>2, EnterContinues, EnterTables
    <2>2. StartAttempt(w) => worker[w].slot \in Slots
      BY CallContinues
    <2> QED BY <2>1, <2>2 DEF Proceeds
  <1>3. CASE \/ StartAttempt(w) \/ Transcribe(w) \/ ModerateBatch(w) \/ GenerateReport(w)
             \/ CallError(w) \/ Save(w) \/ SaveUnacknowledged(w) \/ SaveError(w) \/ SaveLost(w)
             \/ FailOwned(w) \/ Close(w) \/ Mark(w) \/ CatchError(w)
    <2>1. Continues(w) /\ worker[w].slot \in Slots
      BY <1>3, CallContinues
    <2>2. CASE StartAttempt(w)
      BY <2>1, <2>2, KeptTypes DEF Proceeds, Tables, GenChange, StartAttempt
    <2>3. CASE Transcribe(w) \/ ModerateBatch(w) \/ GenerateReport(w) \/ CallError(w)
      BY <2>1, <2>3, SendTables DEF Proceeds
    <2>4. CASE Save(w) \/ SaveUnacknowledged(w) \/ SaveError(w) \/ SaveLost(w)
      BY <2>1, <2>4, SaveTables DEF Proceeds
    <2>5. CASE FailOwned(w) \/ Close(w) \/ Mark(w) \/ CatchError(w)
      BY <2>1, <2>5, CatchTables DEF Proceeds
    <2> QED BY <1>3, <2>2, <2>3, <2>4, <2>5
  <1> QED BY <1>1, <1>2, <1>3 DEF Work

\* The claim a worker has after a step is the one it had, or none.
LEMMA ClaimsKept ==
    ASSUME Rows, NEW w \in Workers, Continues(w)
    PROVE  /\ worker' \in [Workers -> BusyRows]
           /\ \A v \in Workers \ {w} : worker'[v] = worker[v]
           /\ \/ worker'[w] = Idle
              \/ /\ worker'[w].step # "idle"
                 /\ worker'[w].gen = worker[w].gen /\ worker'[w].token = worker[w].token
                 /\ worker'[w].deadline = worker[w].deadline
  <1>1. worker \in [Workers -> BusyRows]
    BY DEF Rows
  <1>2. PICK row \in BusyRows :
            /\ worker' = [worker EXCEPT ![w] = row]
            /\ \/ row = Idle
               \/ /\ row.step # "idle"
                  /\ row.gen = worker[w].gen /\ row.token = worker[w].token
                  /\ row.deadline = worker[w].deadline
    BY DEF Continues
  <1> QED BY <1>1, <1>2

LEMMA Claiming ==
    ASSUME Rows, NEW w \in Workers, NEW g \in Generations, Claim(w, g)
    PROVE  /\ worker' \in [Workers -> BusyRows] /\ gen' \in [Generations -> GenRows]
           /\ \A v \in Workers \ {w} : worker'[v] = worker[v]
           /\ worker'[w].step = "transcribe" /\ worker'[w].gen = g
           /\ worker'[w].token = claims + 1 /\ worker'[w].deadline = JobTimeout
           /\ \A h \in Generations \ {g} : gen'[h] = gen[h]
           /\ gen'[g].status = "PROCESSING" /\ gen'[g].token = claims + 1
           /\ gen'[g].lease = JobTimeout
           /\ claims' = claims + 1 /\ claims \in Nat
           /\ Claimable(g)
  <1>1. gen \in [Generations -> GenRows] /\ worker \in [Workers -> BusyRows] /\ claims \in Nat
        /\ claims' = claims + 1 /\ JobTimeout \in Nat
    BY AttemptConstants DEF Rows, TypeOK, Claim
  <1> DEFINE next == claims + 1
             row == [Idle EXCEPT !.step = "transcribe", !.gen = g,
                    !.token = next, !.deadline = JobTimeout, !.result = gen[g].result]
             old == gen[g]
             new == [old EXCEPT !.status = "PROCESSING", !.token = next, !.lease = JobTimeout]
  <1>2. next \in Nat /\ claims' = next
    BY <1>1
  <1>3. worker' = [worker EXCEPT ![w] = row]
    BY <1>2 DEF Claim
  <1>4. gen' = [gen EXCEPT ![g] = new]
    BY <1>1, <1>2 DEF Claim
  <1> HIDE DEF next
  <1>5. row \in BusyRows /\ row.step = "transcribe" /\ row.gen = g /\ row.token = next
        /\ row.deadline = JobTimeout
    <2>1. gen[g].result \in BOOLEAN
      BY <1>1 DEF GenRows
    <2> QED BY <1>1, <1>2, <2>1 DEF Idle, BusyRows, WorkerRows, Steps, InCall
  <1>6. old \in GenRows
    BY <1>1
  <1> HIDE DEF old, row
  <1>7. new \in GenRows /\ new.status = "PROCESSING" /\ new.token = next
        /\ new.lease = JobTimeout
    <2> DEFINE status == [old EXCEPT !.status = "PROCESSING"]
               token == [status EXCEPT !.token = next]
    <2>1. new = [token EXCEPT !.lease = JobTimeout]
      OBVIOUS
    <2> HIDE DEF new
    <2>2. token = [status EXCEPT !.token = next]
      OBVIOUS
    <2> HIDE DEF token
    <2>3. status \in GenRows /\ status.status = "PROCESSING"
      BY <1>6 DEF GenRows, GenStatus
    <2> HIDE DEF status
    <2>4. token \in GenRows /\ token.status = "PROCESSING" /\ token.token = next
      BY <1>2, <2>2, <2>3 DEF GenRows
    <2> QED BY <1>1, <2>1, <2>4 DEF GenRows
  <1> HIDE DEF new
  <1>8. /\ worker' \in [Workers -> BusyRows]
        /\ \A v \in Workers \ {w} : worker'[v] = worker[v]
        /\ worker'[w] = row
    BY <1>1, <1>5, <1>3
  <1>9. /\ gen' \in [Generations -> GenRows]
        /\ \A h \in Generations \ {g} : gen'[h] = gen[h]
        /\ gen'[g] = new
    BY <1>1, <1>4, <1>7
  <1>10. Claimable(g)
    BY DEF Claim
  <1> QED BY <1>1, <1>5, <1>7, <1>8, <1>9, <1>10, <1>2

LEMMA Beating ==
    ASSUME Rows, NEW w \in Workers, Heartbeat(w)
    PROVE  /\ gen' \in [Generations -> GenRows] /\ worker[w].gen \in Generations
           /\ Owns(w)
           /\ \A h \in Generations \ {worker[w].gen} : gen'[h] = gen[h]
           /\ gen'[worker[w].gen].status = "PROCESSING"
           /\ gen'[worker[w].gen].token = worker[w].token
           /\ gen'[worker[w].gen].lease = JobTimeout
  <1>1. worker[w].gen \in Generations /\ gen \in [Generations -> GenRows] /\ JobTimeout \in Nat
        /\ Owns(w)
    BY AttemptConstants DEF Rows, TypeOK, BusyRows, Heartbeat, Is
  <1>2. gen' = [gen EXCEPT ![worker[w].gen].lease = JobTimeout]
    BY DEF Heartbeat
  <1> QED BY <1>1, <1>2 DEF Owns, HoldsToken, GenRows

LEMMA Enqueueing ==
    ASSUME Rows, NEW g \in Generations, Enqueue(g)
    PROVE  /\ gen' \in [Generations -> GenRows]
           /\ \A h \in Generations \ {g} : gen'[h] = gen[h]
           /\ gen'[g].status = "QUEUED"
  <1>1. gen \in [Generations -> GenRows] /\ gen' = [gen EXCEPT ![g].status = "QUEUED"]
    BY DEF Rows, TypeOK, Enqueue
  <1> QED BY <1>1 DEF GenRows, GenStatus

\* The passing of time.
LEMMA Ticking ==
    ASSUME Rows, Tick
    PROVE  /\ gen' \in [Generations -> GenRows]
           /\ \A g \in Generations :
                /\ gen'[g].status = gen[g].status /\ gen'[g].token = gen[g].token
                /\ gen'[g].lease >= gen[g].lease - 1
           /\ worker' \in [Workers -> BusyRows]
           /\ \A w \in Workers :
                /\ worker'[w].step = worker[w].step /\ worker'[w].gen = worker[w].gen
                /\ worker'[w].token = worker[w].token /\ worker'[w].slot = worker[w].slot
                /\ worker'[w].batch = worker[w].batch
                /\ worker'[w].deadline = Down(worker[w].deadline)
           /\ attempts' \in [Slots -> Seq(AttemptRows)]
           /\ \A s \in Slots : Len(attempts'[s]) = Len(attempts[s])
  <1>1. /\ gen \in [Generations -> GenRows] /\ worker \in [Workers -> BusyRows]
        /\ attempts \in [Slots -> Seq(AttemptRows)]
    BY DEF Rows, TypeOK
  <1>2. \A n \in Nat : Down(n) \in Nat
    BY DEF Down
  <1>3. ASSUME NEW g \in Generations
        PROVE  /\ gen'[g] \in GenRows
               /\ gen'[g].status = gen[g].status /\ gen'[g].token = gen[g].token
               /\ gen'[g].lease >= gen[g].lease - 1
    <2> DEFINE old == gen[g]
    <2>1. old \in GenRows
      BY <1>1
    <2>2. gen'[g] = [old EXCEPT !.lease = @ - 1] \/ gen'[g] = old
      BY DEF Tick
    <2> HIDE DEF old
    <2>3. gen'[g] \in GenRows /\ gen'[g].status = old.status /\ gen'[g].token = old.token
          /\ gen'[g].lease >= old.lease - 1
      BY <2>1, <2>2 DEF GenRows
    <2> QED BY <2>3 DEF old
  <1>4. ASSUME NEW w \in Workers
        PROVE  /\ worker'[w] \in BusyRows
               /\ worker'[w].step = worker[w].step /\ worker'[w].gen = worker[w].gen
               /\ worker'[w].token = worker[w].token /\ worker'[w].slot = worker[w].slot
               /\ worker'[w].batch = worker[w].batch
               /\ worker'[w].deadline = Down(worker[w].deadline)
    <2> DEFINE old == worker[w]
               deadline == Down(old.deadline)
    <2>1. old \in BusyRows /\ old.deadline \in Nat
      BY <1>1 DEF BusyRows, WorkerRows
    <2>2. worker'[w] = [old EXCEPT !.deadline = deadline] /\ deadline \in Nat
      BY <1>2, <2>1 DEF Tick
    <2> HIDE DEF old, deadline
    <2>3. worker'[w] \in WorkerRows
          /\ worker'[w].step = old.step /\ worker'[w].gen = old.gen
          /\ worker'[w].token = old.token /\ worker'[w].slot = old.slot
          /\ worker'[w].batch = old.batch /\ worker'[w].deadline = deadline
      BY <2>1, <2>2 DEF BusyRows, WorkerRows
    <2>4. worker'[w] \in BusyRows
      BY <2>1, <2>3 DEF BusyRows
    <2> QED BY <2>3, <2>4 DEF old, deadline
  <1>5. ASSUME NEW s \in Slots
        PROVE  attempts'[s] \in Seq(AttemptRows) /\ Len(attempts'[s]) = Len(attempts[s])
    <2>1. attempts[s] \in Seq(AttemptRows)
      BY <1>1
    <2>2. attempts'[s] = [i \in DOMAIN attempts[s] |-> [attempts[s][i] EXCEPT !.lease = Down(@)]]
      BY DEF Tick
    <2>3. \A row \in AttemptRows : [row EXCEPT !.lease = Down(@)] \in AttemptRows
      BY <1>2 DEF AttemptRows
    <2>4. \A i \in 1 .. Len(attempts[s]) :
             attempts[s][i] \in AttemptRows /\ [attempts[s][i] EXCEPT !.lease = Down(@)] \in AttemptRows
      BY <2>1, <2>3, ElementOfSeq
    <2>5. Len(attempts[s]) \in Nat /\ DOMAIN attempts[s] = 1 .. Len(attempts[s])
      BY <2>1, LenProperties
    <2>6. attempts'[s] \in [1 .. Len(attempts[s]) -> AttemptRows]
      BY <2>2, <2>4, <2>5
    <2> QED BY <2>5, <2>6, IsASeq, LenProperties
  <1>6. /\ gen' = [g \in Generations |-> gen'[g]]
        /\ worker' = [w \in Workers |-> worker'[w]]
        /\ attempts' = [s \in Slots |-> attempts'[s]]
    BY DEF Tick
  <1>7. /\ gen' \in [Generations -> GenRows]
        /\ worker' \in [Workers -> BusyRows]
        /\ attempts' \in [Slots -> Seq(AttemptRows)]
    BY <1>3, <1>4, <1>5, <1>6
  <1> QED BY <1>3, <1>4, <1>5, <1>7

-----------------------------------------------------------------------------
(* Types, the one generation under way, and the fence.                     *)

\* enqueue waits until no other generation of the report is under way.
Serial ==
    \A g, h \in Generations :
        gen[g].status \notin {"ABSENT", "FAILED"} /\ gen[h].status \notin {"ABSENT", "FAILED"}
            => g = h

Busy(w) == worker[w].step # "idle"
Fenced ==
    /\ \A w \in Workers : Busy(w) =>
          worker[w].token <= claims /\ worker[w].deadline <= JobTimeout
    /\ \A w \in Workers : Busy(w) /\ worker[w].deadline > 0 =>
          HoldsToken(w) /\ gen[worker[w].gen].lease >= worker[w].deadline
    /\ \A v, w \in Workers : Busy(v) /\ Busy(w) /\ worker[v].token = worker[w].token => v = w

LEMMA RowsStep ==
    ASSUME Rows, Next
    PROVE  Rows'
  <1>1. /\ gen \in [Generations -> GenRows] /\ attempts \in [Slots -> Seq(AttemptRows)]
        /\ transcription \in [Audio -> Transcripts] /\ worker \in [Workers -> BusyRows]
        /\ paid \in [Slots -> Nat] /\ claims \in Nat
    BY DEF Rows, TypeOK
  <1>2. ASSUME gen' \in [Generations -> GenRows], attempts' \in [Slots -> Seq(AttemptRows)],
               transcription' \in [Audio -> Transcripts], worker' \in [Workers -> BusyRows],
               paid' \in [Slots -> Nat], claims' \in Nat
        PROVE  Rows'
    <2>1. worker' \in [Workers -> WorkerRows]
      BY <1>2 DEF BusyRows
    <2> QED BY <1>2, <2>1 DEF Rows, TypeOK
  <1>3. ASSUME NEW g \in Generations, Enqueue(g)
        PROVE  Rows'
    BY <1>1, <1>2, <1>3, Enqueueing DEF Enqueue
  <1>4. ASSUME NEW w \in Workers, NEW g \in Generations, Claim(w, g)
        PROVE  Rows'
    <2>1. gen' \in [Generations -> GenRows] /\ worker' \in [Workers -> BusyRows] /\ claims' \in Nat
      BY <1>1, <1>4, Claiming
    <2>2. attempts' = attempts /\ transcription' = transcription /\ paid' = paid
      BY <1>4 DEF Claim
    <2> QED BY <1>1, <1>2, <2>1, <2>2
  <1>5. ASSUME NEW w \in Workers, Heartbeat(w)
        PROVE  Rows'
    BY <1>1, <1>2, <1>5, Beating DEF Heartbeat
  <1>6. ASSUME NEW w \in Workers, Proceeds(w)
        PROVE  Rows'
    <2>1. /\ gen' \in [Generations -> GenRows] /\ transcription' \in [Audio -> Transcripts]
          /\ worker' \in [Workers -> BusyRows] /\ claims' \in Nat
      BY <1>1, <1>6, ClaimsKept DEF Proceeds, Tables, GenChange
    <2>2. CASE Free(w)
      BY <1>1, <1>2, <2>1, <2>2 DEF Free
    <2>3. CASE Billed(w)
      <3>1. paid' \in [Slots -> Nat]
        <4>1. worker[w].slot \in Slots /\ paid' = [paid EXCEPT ![worker[w].slot] = @ + 1]
          BY <1>1, <2>3 DEF Billed, Paid, Sends, BusyRows, InCall
        <4> QED BY <1>1, <4>1
      <3> QED BY <1>2, <2>1, <2>3, <3>1 DEF Billed
    <2>4. CASE StartAttempt(w)
      <3>1. paid' = paid /\ attempts' \in [Slots -> Seq(AttemptRows)]
        BY <1>6, <2>4, StartType DEF Proceeds, StartAttempt
      <3> QED BY <1>1, <1>2, <2>1, <3>1
    <2> QED BY <1>6, <2>2, <2>3, <2>4 DEF Proceeds, Tables
  <1>7. CASE Tick
    BY <1>1, <1>2, <1>7, Ticking DEF Tick
  <1> QED BY <1>3, <1>4, <1>5, <1>6, <1>7, WorkCases DEF Next

LEMMA SerialStep ==
    ASSUME Rows, Serial, Next
    PROVE  Serial'
  <1>1. ASSUME \A g \in Generations : gen'[g].status \notin {"ABSENT", "FAILED"}
                  => gen[g].status \notin {"ABSENT", "FAILED"}
        PROVE  Serial'
    BY <1>1 DEF Serial
  <1>2. ASSUME NEW g \in Generations, Enqueue(g)
        PROVE  Serial'
    <2>1. \A h \in Generations \ {g} :
             gen'[h] = gen[h] /\ gen[h].status \in {"ABSENT", "FAILED"}
      BY <1>2, Enqueueing DEF Enqueue
    <2> QED BY <2>1 DEF Serial
  <1>3. ASSUME NEW w \in Workers, NEW g \in Generations, Claim(w, g)
        PROVE  Serial'
    <2>1. gen[g].status \in {"QUEUED", "PROCESSING"}
      BY <1>3, Claiming DEF Claimable
    <2> QED BY <1>1, <1>3, <2>1, Claiming
  <1>4. ASSUME NEW w \in Workers, Heartbeat(w)
        PROVE  Serial'
    <2>1. gen[worker[w].gen].status = "PROCESSING"
      BY <1>4, Beating DEF Owns, HoldsToken
    <2> QED BY <1>1, <1>4, <2>1, Beating
  <1>5. ASSUME NEW w \in Workers, Proceeds(w)
        PROVE  Serial'
    <2>1. gen' = gen \/ OwnChange(w)
      BY <1>5 DEF Proceeds, Tables, GenChange
    <2>2. CASE OwnChange(w)
      <3>1. gen[worker[w].gen].status = "PROCESSING"
            /\ \A g \in Generations \ {worker[w].gen} : gen'[g] = gen[g]
        BY <2>2 DEF OwnChange, Owns, HoldsToken
      <3> QED BY <1>1, <3>1
    <2> QED BY <1>1, <2>1, <2>2
  <1>6. CASE Tick
    BY <1>1, <1>6, Ticking
  <1> QED BY <1>2, <1>3, <1>4, <1>5, <1>6, WorkCases DEF Next

LEMMA FencedStep ==
    ASSUME Rows, Fenced, Next
    PROVE  Fenced'
  <1>1. /\ \A w \in Workers : worker[w] \in BusyRows /\ worker[w].token \in Nat
                /\ worker[w].deadline \in Nat
        /\ \A g \in Generations : gen[g] \in GenRows /\ gen[g].lease \in Int
        /\ \A w \in Workers : Busy(w) => worker[w].gen \in Generations
        /\ claims \in Nat /\ JobTimeout \in Nat
    BY AttemptConstants DEF Rows, TypeOK, BusyRows, WorkerRows, GenRows, Busy
  \* Workers keep their claims, the generation of one is settled or renewed.
  <1>2. ASSUME NEW w \in Workers, claims' = claims,
               \A v \in Workers \ {w} : worker'[v] = worker[v],
               \/ worker'[w] = Idle
               \/ /\ Busy(w) /\ worker'[w].step # "idle"
                  /\ worker'[w].gen = worker[w].gen /\ worker'[w].token = worker[w].token
                  /\ worker'[w].deadline = worker[w].deadline,
               \/ gen' = gen
               \/ Busy(w) /\ OwnChange(w)
        PROVE  Fenced'
    <2>1. ASSUME NEW v \in Workers, Busy(v)'
          PROVE  /\ Busy(v) /\ worker'[v].gen = worker[v].gen /\ worker'[v].token = worker[v].token
                 /\ worker'[v].deadline = worker[v].deadline
      BY <1>2, <2>1 DEF Busy, Idle
    <2>2. ASSUME NEW v \in Workers, Busy(v)', worker'[v].deadline > 0
          PROVE  HoldsToken(v)' /\ gen'[worker'[v].gen].lease >= worker'[v].deadline
      <3>1. /\ Busy(v) /\ worker[v].deadline > 0 /\ worker[v].gen \in Generations
            /\ HoldsToken(v) /\ gen[worker[v].gen].lease >= worker[v].deadline
            /\ worker[v].deadline <= JobTimeout
            /\ worker'[v].gen = worker[v].gen /\ worker'[v].token = worker[v].token
            /\ worker'[v].deadline = worker[v].deadline
        BY <1>1, <2>1, <2>2 DEF Fenced
      <3>2. CASE gen'[worker[v].gen] = gen[worker[v].gen]
        BY <3>1, <3>2 DEF HoldsToken
      <3>3. CASE gen'[worker[v].gen] # gen[worker[v].gen]
        <4>1. Busy(w) /\ OwnChange(w) /\ worker[w].gen = worker[v].gen
          BY <1>2, <3>1, <3>3 DEF OwnChange
        <4>2. v = w
          <5>1. worker[v].token = worker[w].token
            BY <3>1, <4>1 DEF OwnChange, Owns, HoldsToken
          <5> QED BY <3>1, <4>1, <5>1 DEF Fenced
        <4>3. ~Leave(w)
          BY <2>2, <4>2 DEF Leave, Busy, Idle, Rows, TypeOK
        <4> QED BY <1>1, <3>1, <4>1, <4>2, <4>3 DEF OwnChange, HoldsToken
      <3> QED BY <3>2, <3>3
    <2>3. \A v \in Workers : Busy(v)' => worker'[v].token <= claims' /\ worker'[v].deadline <= JobTimeout
      BY <1>2, <2>1 DEF Fenced
    <2>4. \A u, v \in Workers : Busy(u)' /\ Busy(v)' /\ worker'[u].token = worker'[v].token => u = v
      BY <2>1 DEF Fenced
    <2> QED BY <2>2, <2>3, <2>4 DEF Fenced
  <1>3. ASSUME NEW g \in Generations, Enqueue(g)
        PROVE  Fenced'
    <2>1. ASSUME NEW w \in Workers, Busy(w), worker[w].deadline > 0
          PROVE  worker[w].gen \in Generations \ {g}
      BY <1>1, <1>3, <2>1 DEF Enqueue, Fenced, HoldsToken
    <2>2. \A h \in Generations \ {g} : gen'[h] = gen[h]
      BY <1>3, Enqueueing
    <2>3. worker' = worker /\ claims' = claims
      BY <1>3 DEF Enqueue
    <2> QED BY <2>1, <2>2, <2>3 DEF Fenced, Busy, HoldsToken
  <1>4. ASSUME NEW w \in Workers, NEW g \in Generations, Claim(w, g)
        PROVE  Fenced'
    <2>1. /\ \A v \in Workers \ {w} : worker'[v] = worker[v]
          /\ worker'[w].gen = g /\ worker'[w].token = claims + 1 /\ worker'[w].deadline = JobTimeout
          /\ \A h \in Generations \ {g} : gen'[h] = gen[h]
          /\ gen'[g].status = "PROCESSING" /\ gen'[g].token = claims + 1
          /\ gen'[g].lease = JobTimeout /\ claims' = claims + 1
          /\ Claimable(g)
      BY <1>4, Claiming
    <2>2. ASSUME NEW v \in Workers, Busy(v), worker[v].deadline > 0
          PROVE  worker[v].gen \in Generations \ {g}
      BY <1>1, <2>1, <2>2 DEF Fenced, HoldsToken, Claimable
    <2>3. ASSUME NEW v \in Workers, Busy(v)', worker'[v].deadline > 0
          PROVE  HoldsToken(v)' /\ gen'[worker'[v].gen].lease >= worker'[v].deadline
      <3>1. CASE v = w
        BY <1>1, <2>1, <3>1 DEF HoldsToken
      <3>2. CASE v # w
        <4>1. worker'[v] = worker[v] /\ Busy(v) /\ worker[v].deadline > 0
          BY <2>1, <2>3, <3>2 DEF Busy
        <4>2. gen'[worker[v].gen] = gen[worker[v].gen]
          BY <2>1, <2>2, <4>1
        <4> QED BY <4>1, <4>2 DEF Fenced, HoldsToken
      <3> QED BY <3>1, <3>2
    <2>4. \A v \in Workers : Busy(v)' => worker'[v].token <= claims' /\ worker'[v].deadline <= JobTimeout
      BY <1>1, <2>1 DEF Fenced, Busy
    <2>5. \A u, v \in Workers : Busy(u)' /\ Busy(v)' /\ worker'[u].token = worker'[v].token => u = v
      <3> SUFFICES ASSUME NEW u \in Workers, NEW v \in Workers, Busy(u)', Busy(v)',
                          worker'[u].token = worker'[v].token
                   PROVE  u = v
        OBVIOUS
      <3>1. \A x \in Workers \ {w} : Busy(x)' => Busy(x) /\ worker'[x].token = worker[x].token
                                              /\ worker[x].token <= claims
        BY <2>1 DEF Fenced, Busy
      <3>2. CASE u # w /\ v # w
        BY <3>1, <3>2 DEF Fenced
      <3>3. CASE u = w \/ v = w
        BY <1>1, <2>1, <3>1, <3>3
      <3> QED BY <3>2, <3>3
    <2> QED BY <2>3, <2>4, <2>5 DEF Fenced
  <1>5. ASSUME NEW w \in Workers, Heartbeat(w)
        PROVE  Fenced'
    <2>1. OwnChange(w)
      BY <1>5, Beating DEF OwnChange
    <2>2. Busy(w) /\ worker' = worker /\ claims' = claims
      BY <1>5 DEF Heartbeat, Busy, Is
    <2> QED BY <1>2, <2>1, <2>2 DEF Busy
  <1>6. ASSUME NEW w \in Workers, Proceeds(w)
        PROVE  Fenced'
    <2>1. Busy(w) /\ claims' = claims /\ (gen' = gen \/ OwnChange(w)) /\ Continues(w)
      BY <1>6 DEF Proceeds, Tables, GenChange, Continues, Busy
    <2> QED BY <1>2, <2>1, ClaimsKept
  <1>7. CASE Tick
    <2>1. claims' = claims
      BY <1>7 DEF Tick
    <2>2. ASSUME NEW w \in Workers
          PROVE  /\ Busy(w)' = Busy(w) /\ worker'[w].token = worker[w].token
                 /\ worker'[w].gen = worker[w].gen
                 /\ worker'[w].deadline <= worker[w].deadline /\ worker'[w].deadline \in Nat
                 /\ worker'[w].deadline > 0 => worker'[w].deadline = worker[w].deadline - 1
      BY <1>1, <1>7, Ticking DEF Busy, Down
    <2>3. ASSUME NEW w \in Workers, Busy(w)', worker'[w].deadline > 0
          PROVE  HoldsToken(w)' /\ gen'[worker'[w].gen].lease >= worker'[w].deadline
      <3>1. /\ Busy(w) /\ worker[w].deadline > 0 /\ worker[w].gen \in Generations
            /\ worker'[w].deadline = worker[w].deadline - 1
        BY <1>1, <2>2, <2>3
      <3>2. HoldsToken(w) /\ gen[worker[w].gen].lease >= worker[w].deadline
        BY <3>1 DEF Fenced
      <3>3. gen' \in [Generations -> GenRows]
        BY <1>7, Ticking
      <3>4. gen'[worker[w].gen].lease \in Int
        BY <3>1, <3>3 DEF GenRows
      <3>5. /\ gen'[worker[w].gen].status = gen[worker[w].gen].status
            /\ gen'[worker[w].gen].token = gen[worker[w].gen].token
            /\ gen'[worker[w].gen].lease >= gen[worker[w].gen].lease - 1
        BY <1>7, <3>1, Ticking
      <3> QED BY <1>1, <2>2, <3>1, <3>2, <3>4, <3>5 DEF HoldsToken
    <2>4. \A w \in Workers : Busy(w)' => worker'[w].token <= claims' /\ worker'[w].deadline <= JobTimeout
      BY <1>1, <2>1, <2>2 DEF Fenced
    <2>5. \A u, v \in Workers : Busy(u)' /\ Busy(v)' /\ worker'[u].token = worker'[v].token => u = v
      BY <2>2 DEF Fenced
    <2> QED BY <2>3, <2>4, <2>5 DEF Fenced
  <1> QED BY <1>3, <1>4, <1>5, <1>6, <1>7, WorkCases DEF Next

-----------------------------------------------------------------------------
(* The budget: what the attempts of a slot allow covers what was sent, and *)
(* what the call under way may still send.                                 *)

Allowed(s) == Len(attempts[s]) * Requests(s)
Metered ==
    \A s \in Slots :
        /\ Len(attempts[s]) <= Maximum(s)
        /\ paid[s] <= Allowed(s)
        /\ \A w \in Workers : Sends(w) /\ worker[w].slot = s =>
              /\ worker[w].batch < Requests(s)
              /\ paid[s] + Requests(s) <= Allowed(s) + worker[w].batch

LEMMA Products ==
    ASSUME NEW k \in Nat, NEW n \in Nat
    PROVE  n * k \in Nat /\ (n + 1) * k = n * k + k
  OBVIOUS

\* No two workers may send requests.
LEMMA OneSender ==
    ASSUME Rows, Serial, Fenced, NEW v \in Workers, NEW w \in Workers, Sends(v), Sends(w)
    PROVE  v = w
  <1>1. worker[v].gen \in Generations /\ worker[w].gen \in Generations
    BY DEF Rows, BusyRows, Sends
  <1>2. HoldsToken(v) /\ HoldsToken(w) /\ Busy(v) /\ Busy(w)
    BY DEF Fenced, Busy, Sends
  <1>3. worker[v].gen = worker[w].gen
    BY <1>1, <1>2 DEF Serial, HoldsToken
  <1> QED BY <1>2, <1>3 DEF Fenced, HoldsToken

LEMMA MeteredStep ==
    ASSUME Rows, Serial, Fenced, Metered, Next
    PROVE  Metered'
  <1>1. /\ \A s \in Slots : paid[s] \in Nat /\ Len(attempts[s]) \in Nat /\ Requests(s) \in Nat \ {0}
                            /\ Allowed(s) \in Nat /\ Maximum(s) \in Nat
        /\ \A w \in Workers : worker[w].batch \in Nat /\ worker[w].deadline \in Nat
    <2>1. \A s \in Slots : Requests(s) \in Nat \ {0} /\ Maximum(s) \in Nat
      BY AttemptConstants DEF Requests, Maximum
    <2>2. \A s \in Slots : paid[s] \in Nat /\ Len(attempts[s]) \in Nat
      BY LenProperties DEF Rows, TypeOK
    <2>3. \A s \in Slots : Allowed(s) \in Nat
      BY <2>1, <2>2, Products DEF Allowed
    <2>4. \A w \in Workers : worker[w].batch \in Nat /\ worker[w].deadline \in Nat
      BY DEF Rows, BusyRows, WorkerRows
    <2> QED BY <2>1, <2>2, <2>3, <2>4
  \* Nothing is sent, and whoever may still send could before.
  <1>2. ASSUME paid' = paid, \A s \in Slots : Len(attempts'[s]) = Len(attempts[s]),
               \A w \in Workers : Sends(w)' =>
                  Sends(w) /\ worker'[w].slot = worker[w].slot /\ worker'[w].batch = worker[w].batch
        PROVE  Metered'
    <2>1. \A s \in Slots : Allowed(s)' = Allowed(s)
      BY <1>2 DEF Allowed, Requests
    <2> QED BY <1>2, <2>1 DEF Metered, Requests, Maximum
  <1>3. ASSUME NEW g \in Generations, Enqueue(g)
        PROVE  Metered'
    BY <1>2, <1>3 DEF Enqueue, Sends
  <1>4. ASSUME NEW w \in Workers, NEW g \in Generations, Claim(w, g)
        PROVE  Metered'
    <2>1. \A v \in Workers : Sends(v)' => worker'[v] = worker[v] /\ Sends(v)
      BY <1>4, Claiming DEF Sends
    <2>2. paid' = paid /\ attempts' = attempts
      BY <1>4 DEF Claim
    <2> QED BY <1>2, <2>1, <2>2
  <1>5. ASSUME NEW w \in Workers, Heartbeat(w)
        PROVE  Metered'
    BY <1>2, <1>5 DEF Heartbeat, Sends
  <1>6. ASSUME NEW w \in Workers, Proceeds(w)
        PROVE  Metered'
    <2>1. /\ \A v \in Workers \ {w} : worker'[v] = worker[v]
          /\ worker'[w].step # "idle" => worker'[w].deadline = worker[w].deadline
      BY <1>6, ClaimsKept DEF Proceeds, Idle
    <2>2. CASE Free(w)
      <3>1. \A v \in Workers : Sends(v)' => worker'[v] = worker[v] /\ Sends(v)
        BY <2>1, <2>2 DEF Free, Sends
      <3> QED BY <1>2, <2>2, <3>1 DEF Free
    <2>3. CASE Billed(w)
      <3>0. worker[w].slot \in Slots
        BY <2>3 DEF Billed, Sends, Rows, BusyRows, InCall
      <3> PICK s \in Slots : s = worker[w].slot
        BY <3>0
      <3>1. s = worker[w].slot /\ Sends(w)
        BY <2>3 DEF Billed
      <3>2. paid'[s] = paid[s] + 1 /\ \A r \in Slots \ {s} : paid'[r] = paid[r]
        BY <2>3, <3>1 DEF Billed, Paid, Rows, TypeOK
      <3>3. \A r \in Slots : Allowed(r)' = Allowed(r) /\ Len(attempts'[r]) = Len(attempts[r])
        BY <2>3 DEF Billed, Allowed, Requests
      <3>4. worker[w].batch < Requests(s) /\ paid[s] + Requests(s) <= Allowed(s) + worker[w].batch
        BY <3>1 DEF Metered
      <3>5. \A v \in Workers : Sends(v)' =>
                v = w /\ worker'[w].slot = s /\ s[1] = "MODERATION"
                /\ worker'[w].batch = worker[w].batch + 1 /\ worker[w].batch + 1 # Batches
        <4>1. \A v \in Workers \ {w} : ~Sends(v)'
          BY <2>1, <3>1, OneSender DEF Sends
        <4>2. Sends(w)' => worker'[w].slot = s /\ s[1] = "MODERATION"
                /\ worker'[w].batch = worker[w].batch + 1 /\ worker[w].batch + 1 # Batches
          BY <2>3 DEF Billed, Sends
        <4> QED BY <4>1, <4>2
      <3>6. ASSUME NEW r \in Slots
            PROVE  /\ Len(attempts'[r]) <= Maximum(r)
                   /\ paid'[r] <= Allowed(r)'
        <4>1. CASE r = s
          BY <1>1, <3>1, <3>2, <3>3, <3>4, <4>1 DEF Metered
        <4>2. CASE r # s
          BY <3>2, <3>3, <4>2 DEF Metered
        <4> QED BY <4>1, <4>2
      <3>7. ASSUME NEW r \in Slots, NEW v \in Workers, Sends(v)', worker'[v].slot = r
            PROVE  /\ worker'[v].batch < Requests(r)
                   /\ paid'[r] + Requests(r) <= Allowed(r)' + worker'[v].batch
        <4>1. v = w /\ r = s /\ Requests(s) = Batches /\ Batches \in Nat
              /\ worker'[v].batch = worker[w].batch + 1 /\ worker[w].batch + 1 # Batches
          BY <3>5, <3>7, AttemptConstants DEF Requests
        <4>2. paid'[r] = paid[s] + 1 /\ Allowed(r)' = Allowed(s) /\ Requests(r) = Batches
          BY <3>2, <3>3, <4>1
        <4>3. worker[w].batch < Batches /\ paid[s] + Batches <= Allowed(s) + worker[w].batch
          BY <3>4, <4>1
        <4>4. worker[w].batch \in Nat /\ paid[s] \in Nat /\ Allowed(s) \in Nat
          BY <1>1
        <4>5. ASSUME NEW p \in Nat, NEW a \in Nat, NEW b \in Nat, NEW n \in Nat,
                     b < n, b + 1 # n, p + n <= a + b
              PROVE  b + 1 < n /\ (p + 1) + n <= a + (b + 1)
          BY <4>5
        <4> HIDE DEF Requests, Allowed
        <4> QED BY <4>1, <4>2, <4>3, <4>4, <4>5
      <3> QED BY <3>6, <3>7 DEF Metered, Maximum, Requests
    <2>4. CASE StartAttempt(w)
      <3>0. worker[w].slot \in Slots
        BY <1>6, <2>4 DEF Proceeds
      <3> PICK s \in Slots : s = worker[w].slot
        BY <3>0
      <3>1. /\ Len(attempts'[s]) = Len(attempts[s]) + 1
            /\ \A r \in Slots \ {s} : attempts'[r] = attempts[r]
            /\ paid' = paid /\ Len(attempts[s]) < Maximum(s)
        BY <1>6, <2>4, StartType DEF Proceeds, StartAttempt
      <3>2. Allowed(s)' = Allowed(s) + Requests(s) /\ \A r \in Slots \ {s} : Allowed(r)' = Allowed(r)
        <4>1. (Len(attempts[s]) + 1) * Requests(s) = Len(attempts[s]) * Requests(s) + Requests(s)
          BY <1>1, <3>1, Products
        <4>2. Allowed(s)' = Len(attempts'[s]) * Requests(s)
          BY DEF Allowed, Requests
        <4> QED BY <3>1, <4>1, <4>2 DEF Allowed, Requests
      <3>3. worker'[w].slot = s /\ worker'[w].batch = 0
        <4> DEFINE n == Len(attempts'[s])
        <4>1. worker' = [worker EXCEPT ![w].step = "call", ![w].batch = 0, ![w].number = n]
          BY <2>4 DEF StartAttempt
        <4> HIDE DEF n
        <4> QED BY <4>1 DEF Rows, TypeOK, WorkerRows
      <3>4. ASSUME NEW r \in Slots
            PROVE  /\ Len(attempts'[r]) <= Maximum(r)
                   /\ paid'[r] <= Allowed(r)'
        <4>1. CASE r = s
          BY <1>1, <3>1, <3>2, <4>1 DEF Metered
        <4>2. CASE r # s
          BY <3>1, <3>2, <4>2 DEF Metered
        <4> QED BY <4>1, <4>2
      <3>5. ASSUME NEW r \in Slots, NEW v \in Workers, Sends(v)', worker'[v].slot = r
            PROVE  /\ worker'[v].batch < Requests(r)
                   /\ paid'[r] + Requests(r) <= Allowed(r)' + worker'[v].batch
        <4>1. CASE v = w
          BY <1>1, <3>1, <3>2, <3>3, <3>5, <4>1 DEF Metered
        <4>2. CASE v # w
          <5>1. Sends(v) /\ worker'[v] = worker[v]
            BY <2>1, <3>5, <4>2 DEF Sends
          <5>2. /\ worker[v].batch < Requests(r)
                /\ paid[r] + Requests(r) <= Allowed(r) + worker[v].batch
            BY <3>5, <5>1 DEF Metered
          <5>3. Allowed(r)' >= Allowed(r)
            BY <1>1, <3>1, <3>2
          <5>4. Allowed(r)' \in Nat
            BY <1>1, <3>1, <3>2
          <5>5. Requests(r) \in Nat /\ paid[r] \in Nat /\ worker[v].batch \in Nat /\ Allowed(r) \in Nat
            BY <1>1
          <5>6. ASSUME NEW p \in Nat, NEW n \in Nat, NEW a \in Nat, NEW c \in Nat, NEW b \in Nat,
                       p + n <= a + b, c >= a
                PROVE  p + n <= c + b
            BY <5>6
          <5>7. worker'[v].batch = worker[v].batch /\ paid'[r] = paid[r]
            BY <3>1, <5>1
          <5> HIDE DEF Requests, Allowed
          <5> QED BY <5>2, <5>3, <5>4, <5>5, <5>6, <5>7
        <4> QED BY <4>1, <4>2
      <3> QED BY <3>4, <3>5 DEF Metered, Maximum, Requests
    <2> QED BY <1>6, <2>2, <2>3, <2>4 DEF Proceeds, Tables
  <1>7. CASE Tick
    <2>1. \A w \in Workers : Sends(w)' =>
             Sends(w) /\ worker'[w].slot = worker[w].slot /\ worker'[w].batch = worker[w].batch
      BY <1>1, <1>7, Ticking DEF Sends, Down
    <2> QED BY <1>2, <1>7, <2>1, Ticking DEF Tick
  <1> QED BY <1>3, <1>4, <1>5, <1>6, <1>7, WorkCases DEF Next

-----------------------------------------------------------------------------
(* The leases of attempts end before those of the generation under way.    *)

Covered ==
    \A s \in Slots : \A i \in 1 .. Len(attempts[s]) :
        /\ attempts[s][i].lease <= JobTimeout
        /\ \A g \in Generations :
              gen[g].status = "PROCESSING" /\ attempts[s][i].lease > 0
                  => attempts[s][i].lease <= gen[g].lease

\* No attempt that was there before lasts longer than it did.
NotProlonged ==
    \A s \in Slots : /\ Len(attempts'[s]) = Len(attempts[s])
                     /\ \A i \in 1 .. Len(attempts[s]) :
                           attempts'[s][i].lease <= attempts[s][i].lease

LEMMA LeaseTypes ==
    ASSUME Rows, NEW s \in Slots
    PROVE  /\ attempts[s] \in Seq(AttemptRows) /\ Len(attempts[s]) \in Nat
           /\ DOMAIN attempts[s] = 1 .. Len(attempts[s])
           /\ \A i \in 1 .. Len(attempts[s]) :
                attempts[s][i] \in AttemptRows /\ attempts[s][i].lease \in Nat
  <1>1. attempts[s] \in Seq(AttemptRows)
    BY DEF Rows, TypeOK
  <1>2. \A i \in 1 .. Len(attempts[s]) : attempts[s][i] \in AttemptRows
    BY <1>1, ElementOfSeq
  <1>3. \A row \in AttemptRows : row.lease \in Nat
    BY DEF AttemptRows
  <1> QED BY <1>1, <1>2, <1>3, LenProperties

LEMMA SetRowLease ==
    ASSUME Rows, NEW w \in Workers, worker[w].slot \in Slots, NEW status \in {"COMPLETED", "FAILED"},
           attempts' = SetRow(w, status)
    PROVE  NotProlonged
  <1> SUFFICES ASSUME NEW s \in Slots, NEW i \in 1 .. Len(attempts[s])
               PROVE  attempts'[s][i].lease <= attempts[s][i].lease
    BY SetRowType DEF NotProlonged
  <1>1. attempts[s][i].lease \in Nat /\ DOMAIN attempts[s] = 1 .. Len(attempts[s])
    BY LeaseTypes
  <1>2. CASE s = worker[w].slot /\ i = worker[w].number
    <2> DEFINE row == Closed(attempts[s][i], status)
    <2>1. attempts'[s] = [attempts[s] EXCEPT ![i] = row]
      BY <1>2 DEF SetRow, Rows, TypeOK
    <2>2. attempts[s][i] \in AttemptRows
      BY LeaseTypes
    <2>3. row.lease = 0
      BY <2>2 DEF Closed, AttemptRows
    <2> HIDE DEF row
    <2>4. attempts'[s][i] = row
      BY <1>1, <2>1
    <2> QED BY <1>1, <2>3, <2>4
  <1>3. CASE ~(s = worker[w].slot /\ i = worker[w].number)
    <2>1. attempts'[s][i] = attempts[s][i]
      BY <1>1, <1>3 DEF SetRow, Rows, TypeOK
    <2> QED BY <1>1, <2>1
  <1> QED BY <1>2, <1>3

LEMMA CleanLease ==
    ASSUME Rows, NEW w \in Workers, worker[w].slot \in Slots, ModerateBatch(w)
    PROVE  NotProlonged
  <1> SUFFICES ASSUME NEW s \in Slots, NEW i \in 1 .. Len(attempts[s])
               PROVE  attempts'[s][i].lease <= attempts[s][i].lease
    BY CleanType DEF NotProlonged
  <1>1. attempts[s][i].lease \in Nat /\ DOMAIN attempts[s] = 1 .. Len(attempts[s])
    BY LeaseTypes
  <1>2. CASE s = worker[w].slot /\ i = worker[w].number
    <2> DEFINE row == [attempts[s][i] EXCEPT !.clean = @ + 1]
    <2>1. attempts'[s] = [attempts[s] EXCEPT ![i] = row]
      BY <1>2 DEF ModerateBatch, Rows, TypeOK
    <2>2. attempts[s][i] \in AttemptRows
      BY LeaseTypes
    <2>3. row.lease = attempts[s][i].lease
      BY <2>2 DEF AttemptRows
    <2> HIDE DEF row
    <2>4. attempts'[s][i] = row
      BY <1>1, <2>1
    <2> QED BY <1>1, <2>3, <2>4
  <1>3. CASE ~(s = worker[w].slot /\ i = worker[w].number)
    <2>1. attempts'[s][i] = attempts[s][i]
      BY <1>1, <1>3 DEF ModerateBatch, Rows, TypeOK
    <2> QED BY <1>1, <2>1
  <1> QED BY <1>2, <1>3

\* The rows of a slot after start.
LEMMA StartLease ==
    ASSUME Rows, NEW w \in Workers, NEW s \in Slots, s = worker[w].slot, StartAttempt(w)
    PROVE  /\ \A i \in 1 .. Len(attempts[s]) : attempts'[s][i].lease <= attempts[s][i].lease
           /\ attempts'[s][Len(attempts[s]) + 1].lease = worker[w].deadline
  <1> DEFINE new == [token |-> worker[w].token, lease |-> AttemptLease(w),
                     status |-> "STARTED", clean |-> 0]
             closed == CloseStale(attempts[s])
  <1>1. attempts[s] \in Seq(AttemptRows) /\ Len(attempts[s]) \in Nat
        /\ DOMAIN attempts[s] = 1 .. Len(attempts[s])
        /\ \A i \in 1 .. Len(attempts[s]) :
              attempts[s][i] \in AttemptRows /\ attempts[s][i].lease \in Nat
    BY LeaseTypes
  <1>2. new.lease = worker[w].deadline /\ new \in AttemptRows
    <2>1. worker[w].token \in Nat /\ worker[w].deadline \in Nat
      BY DEF Rows, TypeOK, WorkerRows
    <2> QED BY <2>1 DEF AttemptLease, AttemptRows
  <1>3. \A row \in AttemptRows : Closed(row, "FAILED").lease = 0
    BY DEF Closed, AttemptRows
  <1>4. /\ Len(closed) = Len(attempts[s]) /\ closed \in Seq(AttemptRows)
        /\ \A i \in 1 .. Len(attempts[s]) : closed[i].lease <= attempts[s][i].lease
    <2>1. \A row \in AttemptRows : Closed(row, "FAILED") \in AttemptRows
      BY ClosedType
    <2>2. closed \in [1 .. Len(attempts[s]) -> AttemptRows]
      BY <1>1, <2>1 DEF CloseStale
    <2>3. closed \in Seq(AttemptRows) /\ Len(closed) = Len(attempts[s])
      BY <1>1, <2>2, IsASeq, LenProperties
    <2>4. \A i \in 1 .. Len(attempts[s]) :
             closed[i] = Closed(attempts[s][i], "FAILED") \/ closed[i] = attempts[s][i]
      BY <1>1 DEF CloseStale
    <2>5. \A i \in 1 .. Len(attempts[s]) : closed[i].lease <= attempts[s][i].lease
      BY <1>1, <1>3, <2>4
    <2> QED BY <2>3, <2>5
  <1>5. attempts'[s] = Append(closed, new)
    BY DEF StartAttempt, Rows, TypeOK
  <1> HIDE DEF closed, new
  <1>6. /\ \A i \in 1 .. Len(attempts[s]) : attempts'[s][i] = closed[i]
        /\ attempts'[s][Len(attempts[s]) + 1] = new
    <2> DEFINE all == Append(closed, new)
    <2>1. /\ \A i \in 1 .. Len(closed) : all[i] = closed[i]
          /\ all[Len(closed) + 1] = new
      BY <1>2, <1>4, AppendProperties
    <2> HIDE DEF all
    <2>2. attempts'[s] = all
      BY <1>5 DEF all
    <2> QED BY <1>4, <2>1, <2>2
  <1> QED BY <1>2, <1>4, <1>6

LEMMA LeaseCases ==
    ASSUME Rows, NEW w \in Workers, Work(w)
    PROVE  NotProlonged \/ (StartAttempt(w) /\ worker[w].slot \in Slots)
  <1>1. CASE attempts' = attempts
    BY <1>1, LeaseTypes DEF NotProlonged
  <1>2. CASE ModerateBatch(w)
    BY <1>2, CallContinues, CleanLease
  <1>3. CASE Save(w) \/ SaveUnacknowledged(w)
    <2>1. worker[w].slot \in Slots /\ attempts' = SetRow(w, "COMPLETED")
      BY <1>3, CallContinues DEF Save, SaveUnacknowledged, Store
    <2> QED BY <2>1, SetRowLease
  <1>4. CASE Close(w) /\ attempts' # attempts
    <2>1. worker[w].slot \in Slots /\ attempts' = SetRow(w, "FAILED")
      BY <1>4, CallContinues DEF Close, CloseAttempt
    <2> QED BY <2>1, SetRowLease
  <1>5. CASE StartAttempt(w)
    BY <1>5, CallContinues
  <1>6. CASE \/ LostStage(w) \/ DeadlineExceeded(w) \/ StageError(w) \/ AllTranscribed(w)
             \/ Lookup(w) \/ Upsert(w) \/ AttemptInProgress(w) \/ BudgetExhausted(w)
             \/ PublishError(w) \/ Publish(w) \/ PrepareRetry(w) \/ FailGeneration(w)
             \/ SettleLost(w) \/ Crash(w) \/ NextRecording(w) \/ Moderate(w) \/ Report(w)
    BY <1>1, <1>6 DEF LostStage, DeadlineExceeded, Stage, StageError, AllTranscribed, Lookup, Upsert,
           AttemptInProgress, BudgetExhausted, PublishError, Publish, PrepareRetry, FailGeneration,
           SettleLost, Crash, NextRecording, Moderate, Report
  <1>7. CASE \/ Transcribe(w) \/ GenerateReport(w) \/ CallError(w) \/ SaveError(w) \/ SaveLost(w)
             \/ FailOwned(w) \/ Mark(w) \/ CatchError(w)
    BY <1>1, <1>7 DEF Transcribe, GenerateReport, CallError, SaveError, SaveLost, FailOwned, Mark,
           CatchError
  <1>8. CASE (\E g \in Generations : Claim(w, g)) \/ Heartbeat(w)
    BY <1>1, <1>8 DEF Claim, Heartbeat
  <1> QED BY <1>1, <1>2, <1>3, <1>4, <1>5, <1>6, <1>7, <1>8 DEF Work

\* The lease of a generation that a worker holds is renewed, never shortened.
LEMMA CoveredStep ==
    ASSUME Rows, Serial, Fenced, Covered, Next
    PROVE  Covered'
  <1>1. /\ gen \in [Generations -> GenRows] /\ JobTimeout \in Nat
        /\ \A w \in Workers : worker[w].deadline \in Nat /\ (Busy(w) => worker[w].gen \in Generations)
        /\ \A g \in Generations : gen[g].lease \in Int
    BY AttemptConstants DEF Rows, TypeOK, BusyRows, WorkerRows, GenRows, Busy
  <1>2. Rows'
    BY RowsStep
  <1>3. ASSUME NEW s \in Slots, NEW i \in 1 .. Len(attempts'[s])
        PROVE  attempts'[s][i].lease \in Nat
    <2>1. attempts'[s] \in Seq(AttemptRows)
      BY <1>2 DEF Rows, TypeOK
    <2>2. attempts'[s][i] \in AttemptRows
      BY <1>3, <2>1, ElementOfSeq
    <2> QED BY <2>2 DEF AttemptRows
  \* A generation that is being processed was, with a lease as short, or has a full one.
  <1>4. ASSUME NotProlonged,
               \A g \in Generations : gen'[g].status = "PROCESSING" =>
                  gen'[g].lease = JobTimeout \/ gen'[g] = gen[g]
        PROVE  Covered'
    <2> SUFFICES ASSUME NEW s \in Slots, NEW i \in 1 .. Len(attempts'[s])
                 PROVE  /\ attempts'[s][i].lease <= JobTimeout
                        /\ \A g \in Generations :
                              gen'[g].status = "PROCESSING" /\ attempts'[s][i].lease > 0
                                  => attempts'[s][i].lease <= gen'[g].lease
      BY DEF Covered
    <2>1. i \in 1 .. Len(attempts[s]) /\ attempts'[s][i].lease <= attempts[s][i].lease
      BY <1>4 DEF NotProlonged
    <2>2. attempts[s][i].lease \in Nat /\ attempts'[s][i].lease \in Nat
      BY <1>3, <2>1, LeaseTypes
    <2>3. /\ attempts[s][i].lease <= JobTimeout
          /\ \A g \in Generations :
                gen[g].status = "PROCESSING" /\ attempts[s][i].lease > 0
                    => attempts[s][i].lease <= gen[g].lease
      BY <2>1 DEF Covered
    <2>4. ASSUME NEW g \in Generations, gen'[g].status = "PROCESSING", attempts'[s][i].lease > 0
          PROVE  attempts'[s][i].lease <= gen'[g].lease
      <3>1. CASE gen'[g].lease = JobTimeout
        BY <1>1, <2>1, <2>2, <2>3, <3>1
      <3>2. CASE gen'[g] = gen[g]
        <4>1. attempts[s][i].lease > 0 /\ gen[g].status = "PROCESSING"
          BY <2>1, <2>2, <2>4, <3>2
        <4>2. attempts[s][i].lease <= gen[g].lease
          BY <2>3, <4>1
        <4> QED BY <1>1, <2>1, <2>2, <3>2, <4>2
      <3> QED BY <1>4, <2>4, <3>1, <3>2
    <2>5. attempts'[s][i].lease <= JobTimeout
      BY <1>1, <2>1, <2>2, <2>3
    <2> QED BY <2>4, <2>5
  <1>5. ASSUME NEW g \in Generations, Enqueue(g)
        PROVE  Covered'
    <2>1. NotProlonged
      BY <1>5, LeaseTypes DEF Enqueue, NotProlonged
    <2> QED BY <1>4, <1>5, <2>1, Enqueueing
  <1>6. ASSUME NEW w \in Workers, NEW g \in Generations, Claim(w, g)
        PROVE  Covered'
    <2>1. NotProlonged
      BY <1>6, LeaseTypes DEF Claim, NotProlonged
    <2>2. gen'[g].lease = JobTimeout /\ \A h \in Generations \ {g} : gen'[h] = gen[h]
      BY <1>6, Claiming
    <2> QED BY <1>4, <2>1, <2>2
  <1>7. ASSUME NEW w \in Workers, Heartbeat(w)
        PROVE  Covered'
    <2>1. NotProlonged
      BY <1>7, LeaseTypes DEF Heartbeat, NotProlonged
    <2> QED BY <1>4, <1>7, <2>1, Beating
  <1>8. ASSUME NEW w \in Workers, Work(w), Proceeds(w), NotProlonged
        PROVE  Covered'
    <2>1. ASSUME NEW g \in Generations, gen'[g].status = "PROCESSING"
          PROVE  gen'[g].lease = JobTimeout \/ gen'[g] = gen[g]
      <3>1. CASE gen' = gen
        BY <3>1
      <3>2. CASE OwnChange(w) /\ g # worker[w].gen
        BY <3>2 DEF OwnChange
      <3>3. CASE OwnChange(w) /\ g = worker[w].gen
        BY <2>1, <3>3 DEF OwnChange
      <3> QED BY <1>8, <3>1, <3>2, <3>3 DEF Proceeds, Tables, GenChange
    <2> QED BY <1>4, <1>8, <2>1
  <1>9. ASSUME NEW w \in Workers, StartAttempt(w), worker[w].slot \in Slots
        PROVE  Covered'
    <2> PICK slot \in Slots : slot = worker[w].slot
      BY <1>9
    <2>1. /\ gen' = gen /\ Busy(w)
          /\ Len(attempts'[slot]) = Len(attempts[slot]) + 1
          /\ \A s \in Slots \ {slot} : attempts'[s] = attempts[s]
      BY <1>9, StartType DEF StartAttempt, Is, Busy
    <2> SUFFICES ASSUME NEW s \in Slots, NEW i \in 1 .. Len(attempts'[s])
                 PROVE  /\ attempts'[s][i].lease <= JobTimeout
                        /\ \A g \in Generations :
                              gen[g].status = "PROCESSING" /\ attempts'[s][i].lease > 0
                                  => attempts'[s][i].lease <= gen[g].lease
      BY <2>1 DEF Covered
    <2>2. CASE s # slot
      BY <2>1, <2>2 DEF Covered
    <2>3. CASE s = slot /\ i <= Len(attempts[slot])
      <3>1. i \in 1 .. Len(attempts[s]) /\ attempts'[s][i].lease <= attempts[s][i].lease
        BY <1>9, <2>3, StartLease, LeaseTypes
      <3>2. attempts[s][i].lease \in Nat /\ attempts'[s][i].lease \in Nat
        BY <1>3, <3>1, LeaseTypes
      <3>3. /\ attempts[s][i].lease <= JobTimeout
            /\ \A g \in Generations :
                  gen[g].status = "PROCESSING" /\ attempts[s][i].lease > 0
                      => attempts[s][i].lease <= gen[g].lease
        BY <3>1 DEF Covered
      <3> QED BY <1>1, <3>1, <3>2, <3>3
    <2>4. CASE s = slot /\ i > Len(attempts[slot])
      <3>1. i = Len(attempts[slot]) + 1
        BY <2>1, <2>4, LeaseTypes
      <3>2. attempts'[s][i].lease = worker[w].deadline
        BY <1>9, <2>4, <3>1, StartLease
      <3>3. worker[w].deadline <= JobTimeout
        BY <2>1 DEF Fenced
      <3>4. ASSUME NEW g \in Generations, gen[g].status = "PROCESSING", worker[w].deadline > 0
            PROVE  worker[w].deadline <= gen[g].lease
        <4>1. HoldsToken(w) /\ gen[worker[w].gen].lease >= worker[w].deadline
          BY <2>1, <3>4 DEF Fenced
        <4>2. g = worker[w].gen
          BY <1>1, <2>1, <3>4, <4>1 DEF HoldsToken, Serial
        <4> QED BY <1>1, <4>1, <4>2
      <3> QED BY <3>2, <3>3, <3>4
    <2> QED BY <2>1, <2>2, <2>3, <2>4, LeaseTypes
  <1>10. CASE Tick
    <2> SUFFICES ASSUME NEW s \in Slots, NEW i \in 1 .. Len(attempts'[s])
                 PROVE  /\ attempts'[s][i].lease <= JobTimeout
                        /\ \A g \in Generations :
                              gen'[g].status = "PROCESSING" /\ attempts'[s][i].lease > 0
                                  => attempts'[s][i].lease <= gen'[g].lease
      BY DEF Covered
    <2>1. i \in 1 .. Len(attempts[s])
      BY <1>10, Ticking
    <2> DEFINE row == attempts[s][i]
    <2>2. row \in AttemptRows /\ row.lease \in Nat /\ DOMAIN attempts[s] = 1 .. Len(attempts[s])
      BY <2>1, LeaseTypes
    <2>3. attempts'[s][i] = [row EXCEPT !.lease = Down(@)]
      BY <1>10, <2>1, <2>2 DEF Tick
    <2>4. /\ row.lease <= JobTimeout
          /\ \A g \in Generations :
                gen[g].status = "PROCESSING" /\ row.lease > 0 => row.lease <= gen[g].lease
      BY <2>1 DEF Covered
    <2> HIDE DEF row
    <2>5. attempts'[s][i].lease = Down(row.lease)
      BY <2>2, <2>3 DEF AttemptRows
    <2>6. \A g \in Generations :
             gen'[g].status = gen[g].status /\ gen'[g].lease >= gen[g].lease - 1 /\ gen'[g].lease \in Int
      BY <1>10, <1>2, Ticking DEF Rows, TypeOK, GenRows
    <2> QED BY <1>1, <2>2, <2>4, <2>5, <2>6 DEF Down
  <1> QED BY <1>5, <1>6, <1>7, <1>8, <1>9, <1>10, WorkCases, LeaseCases DEF Next

-----------------------------------------------------------------------------
(* The theorems.                                                           *)

IInv == Rows /\ Serial /\ Fenced /\ Metered /\ Covered

LEMMA InitIInv ==
    ASSUME Init
    PROVE  IInv
  <1>1. Idle \in WorkerRows /\ Idle \in BusyRows /\ Idle.step = "idle"
    BY IdleRow DEF BusyRows, Idle
  <1>2. \A s \in Slots : attempts[s] = << >> /\ Len(attempts[s]) = 0 /\ paid[s] = 0
    BY DEF Init
  <1>3. \A w \in Workers : worker[w].step = "idle"
    BY <1>1 DEF Init
  <1>4. Rows
    <2>1. gen \in [Generations -> GenRows]
      BY DEF Init, GenRows, GenStatus
    <2>2. attempts \in [Slots -> Seq(AttemptRows)] /\ transcription \in [Audio -> Transcripts]
          /\ paid \in [Slots -> Nat] /\ claims \in Nat
      BY DEF Init, Transcripts
    <2>3. worker \in [Workers -> WorkerRows] /\ worker \in [Workers -> BusyRows]
      BY <1>1 DEF Init
    <2> QED BY <2>1, <2>2, <2>3 DEF Rows, TypeOK
  <1>5. Serial
    BY DEF Init, Serial
  <1>6. Fenced
    BY <1>3 DEF Fenced, Busy
  <1>7. Metered
    <2>1. \A s \in Slots : Requests(s) \in Nat /\ Maximum(s) \in Nat
      BY AttemptConstants DEF Requests, Maximum
    <2>2. \A s \in Slots : Allowed(s) = 0
      BY <1>2, <2>1 DEF Allowed
    <2> QED BY <1>2, <1>3, <2>1, <2>2 DEF Metered, Sends
  <1>8. Covered
    BY <1>2 DEF Covered
  <1> QED BY <1>4, <1>5, <1>6, <1>7, <1>8 DEF IInv

LEMMA StepIInv ==
    ASSUME IInv, [Next]_vars
    PROVE  IInv'
  <1>1. CASE Next
    BY <1>1, RowsStep, SerialStep, FencedStep, MeteredStep, CoveredStep DEF IInv
  <1>2. CASE UNCHANGED vars
    <2>1. Rows' /\ Serial'
      BY <1>2 DEF vars, IInv, Rows, TypeOK, Serial
    <2>2. Fenced'
      BY <1>2 DEF vars, IInv, Fenced, Busy, HoldsToken
    <2>3. Metered'
      BY <1>2 DEF vars, IInv, Metered, Sends, Allowed, Requests, Maximum
    <2>4. Covered'
      BY <1>2 DEF vars, IInv, Covered
    <2> QED BY <2>1, <2>2, <2>3, <2>4 DEF IInv
  <1> QED BY <1>1, <1>2

LEMMA AlwaysIInv == Spec => []IInv
  BY InitIInv, StepIInv, PTL DEF Spec

\* Every row of every table keeps its type.
THEOREM AttemptsTypes == Spec => []TypeOK
  <1>1. IInv => TypeOK
    BY DEF IInv, Rows
  <1> QED BY <1>1, AlwaysIInv, PTL

\* Until its deadline, a worker owns its generation: what start and the provider
\* client do without asking for the claim is done by its owner.
THEOREM AttemptsByOwner == Spec => []OwnerUntilDeadline
  <1>1. IInv => OwnerUntilDeadline
    BY DEF IInv, Fenced, Busy, OwnerUntilDeadline
  <1> QED BY <1>1, AlwaysIInv, PTL

\* No retry, takeover, crash or further generation sends more than the budget.
THEOREM AttemptsBudget == Spec => []BudgetKept
  <1>1. IInv => BudgetKept
    <2> SUFFICES ASSUME IInv, NEW s \in Slots
                 PROVE  paid[s] <= Maximum(s) * Requests(s)
      BY DEF BudgetKept, Requests
    <2>1. paid[s] <= Len(attempts[s]) * Requests(s) /\ Len(attempts[s]) <= Maximum(s)
      BY DEF IInv, Metered, Allowed
    <2>2. Len(attempts[s]) \in Nat /\ Maximum(s) \in Nat /\ Requests(s) \in Nat /\ paid[s] \in Nat
      BY AttemptConstants, LenProperties DEF IInv, Rows, TypeOK, Maximum, Requests
    <2>3. Len(attempts[s]) * Requests(s) <= Maximum(s) * Requests(s)
      <3>1. \A k, m, n \in Nat : n <= m => n * k <= m * k
        OBVIOUS
      <3> QED BY <2>1, <2>2, <3>1
    <2>4. Len(attempts[s]) * Requests(s) \in Nat /\ Maximum(s) * Requests(s) \in Nat
      BY <2>2, Products
    <2> QED BY <2>1, <2>2, <2>3, <2>4
  <1> QED BY <1>1, AlwaysIInv, PTL

\* A worker that takes an expired claim over finds no attempt in progress.
THEOREM AttemptsTakeover == Spec => []TakeoverNotBlocked
  <1>1. IInv => TakeoverNotBlocked
    <2> SUFFICES ASSUME IInv, NEW g \in Generations, gen[g].status = "PROCESSING", Claimable(g),
                        NEW s \in SlotsOf(g), NEW i \in DOMAIN attempts[s], Live(attempts[s][i])
                 PROVE  FALSE
      BY DEF TakeoverNotBlocked, HasLive
    <2>1. s \in Slots /\ gen[g].lease < 0 /\ gen[g].lease \in Int
      BY DEF SlotsOf, Claimable, IInv, Rows, TypeOK, GenRows
    <2>2. i \in 1 .. Len(attempts[s]) /\ attempts[s][i].lease \in Nat /\ attempts[s][i].lease > 0
      BY <2>1, LeaseTypes DEF IInv, Live
    <2>3. attempts[s][i].lease <= gen[g].lease
      BY <2>1, <2>2 DEF IInv, Covered
    <2> QED BY <2>1, <2>2, <2>3
  <1> QED BY <1>1, AlwaysIInv, PTL

-----------------------------------------------------------------------------
(* Second part: results.                                                   *)

Reading == {"transcribe", "lookup", "upsert", "moderate", "report"}
Calling == {"call", "save"}
Paying == {"start"} \cup Calling

\* The attempt of a call is there, not completed, and of no other call.
Filed ==
    /\ \A w \in Workers : worker[w].step \in Calling =>
          worker[w].number \in 1 .. Len(attempts[worker[w].slot]) /\ Row(w).status # "COMPLETED"
    /\ \A v, w \in Workers :
          worker[v].step \in Calling /\ worker[w].step \in Calling
          /\ worker[v].slot = worker[w].slot /\ worker[v].number = worker[w].number
              => v = w

\* A worker moderates and writes its own generation.
Addressed ==
    \A w \in Workers : worker[w].step \in Paying /\ Operation(w) # "TRANSCRIPTION" =>
        worker[w].slot[2] = worker[w].gen

\* The batches that an attempt of the moderation has found clean: those its
\* worker is past, and all of them once there is a result to save.
Checked ==
    /\ \A w \in Workers : worker[w].step \in Calling /\ Operation(w) = "MODERATION" =>
          Row(w).clean = IF worker[w].step = "call" THEN worker[w].batch ELSE Batches
    /\ \A g \in Generations : \A i \in Completed(<<"MODERATION", g>>) :
          attempts[<<"MODERATION", g>>][i].clean = Batches

\* What is to be stored of a recording is a text.
Heard ==
    \A w \in Workers : worker[w].step = "save" /\ Operation(w) = "TRANSCRIPTION" =>
        worker[w].text # "null"

\* The owner pays for what is not completed yet.
Once ==
    /\ \A w \in Workers :
          worker[w].step \in Paying /\ Operation(w) # "TRANSCRIPTION" /\ HoldsToken(w) =>
              ~HasCompleted(worker[w].slot)
    /\ \A s \in Slots : s[1] # "TRANSCRIPTION" => \A i, j \in Completed(s) : i = j

\* The owner knows of the report that is stored.
Unread ==
    \A w \in Workers :
        worker[w].step \in Reading \cup Paying /\ HoldsToken(w) /\ ~worker[w].result =>
            ~gen[worker[w].gen].result

\* The moderation is completed when the report is due.
Passed ==
    /\ \A w \in Workers :
          worker[w].step = "report"
          \/ (worker[w].step \in Paying /\ Operation(w) = "REPORT_GENERATION")
              => HasCompleted(<<"MODERATION", worker[w].gen>>)
    /\ \A g \in Generations :
          paid[<<"REPORT_GENERATION", g>>] > 0 => HasCompleted(<<"MODERATION", g>>)

Mirrored ==
    /\ \A g \in Generations : gen[g].result <=> HasCompleted(<<"REPORT_GENERATION", g>>)
    /\ \A a \in Audio : transcription[a].text # "null" <=> HasCompleted(<<"TRANSCRIPTION", a>>)

-----------------------------------------------------------------------------
(* The rows of attempts.                                                   *)

KeptRow(s, i) ==
    /\ attempts'[s][i].clean = attempts[s][i].clean
    /\ attempts'[s][i].status = "COMPLETED" <=> attempts[s][i].status = "COMPLETED"
KeptRows ==
    \A s \in Slots : /\ Len(attempts'[s]) = Len(attempts[s])
                     /\ \A i \in 1 .. Len(attempts[s]) : KeptRow(s, i)

\* One row changes, the others are as they were.
OnlyRow(slot, number) ==
    \A s \in Slots : /\ Len(attempts'[s]) = Len(attempts[s])
                     /\ \A i \in 1 .. Len(attempts[s]) :
                           ~(s = slot /\ i = number) => attempts'[s][i] = attempts[s][i]

LEMMA RowSet ==
    ASSUME Rows, NEW slot \in Slots, NEW number \in 1 .. Len(attempts[slot]), NEW row,
           attempts' = [attempts EXCEPT ![slot] = [@ EXCEPT ![number] = row]]
    PROVE  attempts'[slot][number] = row /\ OnlyRow(slot, number)
  <1>1. \A s \in Slots : attempts[s] \in Seq(AttemptRows)
                         /\ DOMAIN attempts[s] = 1 .. Len(attempts[s]) /\ Len(attempts[s]) \in Nat
    BY LeaseTypes
  <1>2. attempts'[slot] = [attempts[slot] EXCEPT ![number] = row]
        /\ \A s \in Slots \ {slot} : attempts'[s] = attempts[s]
    BY DEF Rows, TypeOK
  <1>3. Len(attempts'[slot]) = Len(attempts[slot])
    <2>1. DOMAIN attempts'[slot] = 1 .. Len(attempts[slot])
          /\ attempts'[slot] \in Seq(AttemptRows \cup {row})
      <3>1. attempts[slot] \in Seq(AttemptRows \cup {row})
        <4>1. \A i \in 1 .. Len(attempts[slot]) : attempts[slot][i] \in AttemptRows
          BY LeaseTypes
        <4>2. attempts[slot] \in [1 .. Len(attempts[slot]) -> AttemptRows \cup {row}]
          BY <1>1, <4>1, LenProperties
        <4> QED BY <1>1, <4>2, IsASeq
      <3> QED BY <1>1, <1>2, <3>1, ExceptSeq
    <2> QED BY <1>1, <2>1, LenProperties
  <1>4. attempts'[slot][number] = row
        /\ \A i \in 1 .. Len(attempts[slot]) : i # number => attempts'[slot][i] = attempts[slot][i]
    BY <1>1, <1>2
  <1> QED BY <1>2, <1>3, <1>4 DEF OnlyRow

LEMMA StoredRows ==
    ASSUME Rows, NEW w \in Workers, worker[w].slot \in Slots,
           worker[w].number \in 1 .. Len(attempts[worker[w].slot]),
           attempts' = SetRow(w, "COMPLETED")
    PROVE  /\ OnlyRow(worker[w].slot, worker[w].number)
           /\ attempts'[worker[w].slot][worker[w].number].status = "COMPLETED"
           /\ attempts'[worker[w].slot][worker[w].number].clean = Row(w).clean
  <1> DEFINE slot == worker[w].slot
             number == worker[w].number
             row == Closed(attempts[slot][number], "COMPLETED")
  <1>1. attempts' = [attempts EXCEPT ![slot] = [@ EXCEPT ![number] = row]]
    BY DEF SetRow
  <1>2. attempts[slot][number] \in AttemptRows
    BY LeaseTypes
  <1>3. row.status = "COMPLETED" /\ row.clean = attempts[slot][number].clean
    BY <1>2 DEF Closed, AttemptRows
  <1> HIDE DEF row
  <1>4. attempts'[slot][number] = row /\ OnlyRow(slot, number)
    BY <1>1, RowSet
  <1> QED BY <1>3, <1>4 DEF Row

LEMMA CleanRows ==
    ASSUME Rows, NEW w \in Workers, worker[w].slot \in Slots,
           worker[w].number \in 1 .. Len(attempts[worker[w].slot]), ModerateBatch(w)
    PROVE  /\ OnlyRow(worker[w].slot, worker[w].number)
           /\ attempts'[worker[w].slot][worker[w].number].status = Row(w).status
           /\ attempts'[worker[w].slot][worker[w].number].clean = Row(w).clean + 1
  <1> DEFINE slot == worker[w].slot
             number == worker[w].number
             row == [attempts[slot][number] EXCEPT !.clean = @ + 1]
  <1>1. attempts' = [attempts EXCEPT ![slot] = [@ EXCEPT ![number] = row]]
    BY DEF ModerateBatch
  <1>2. attempts[slot][number] \in AttemptRows
    BY LeaseTypes
  <1>3. row.status = attempts[slot][number].status /\ row.clean = attempts[slot][number].clean + 1
    BY <1>2 DEF AttemptRows
  <1> HIDE DEF row
  <1>4. attempts'[slot][number] = row /\ OnlyRow(slot, number)
    BY <1>1, RowSet
  <1> QED BY <1>3, <1>4 DEF Row

\* attempts.fail leaves a completed attempt alone.
LEMMA ClosingKeeps ==
    ASSUME Rows, NEW w \in Workers, worker[w].slot \in Slots, attempts' = CloseAttempt(w)
    PROVE  KeptRows
  <1> DEFINE slot == worker[w].slot
             number == worker[w].number
             row == Closed(attempts[slot][number], "FAILED")
  <1>1. CASE attempts' = attempts
    BY <1>1 DEF KeptRows, KeptRow
  <1>2. CASE attempts' # attempts
    <2>1. attempts' = [attempts EXCEPT ![slot] = [@ EXCEPT ![number] = row]]
          /\ attempts[slot][number].status = "STARTED"
      BY <1>2 DEF CloseAttempt, SetRow, Row
    <2>2. number \in 1 .. Len(attempts[slot])
      <3>1. attempts \in [Slots -> Seq(AttemptRows)] /\ DOMAIN attempts[slot] = 1 .. Len(attempts[slot])
        BY LeaseTypes DEF Rows, TypeOK
      <3>2. attempts[slot] \in [1 .. Len(attempts[slot]) -> AttemptRows]
        BY <3>1, LenProperties
      <3>3. number \notin 1 .. Len(attempts[slot]) => [attempts[slot] EXCEPT ![number] = row] = attempts[slot]
        BY <3>2
      <3> HIDE DEF row
      <3> QED BY <1>2, <2>1, <3>1, <3>3
    <2>3. attempts[slot][number] \in AttemptRows
      BY <2>2, LeaseTypes
    <2>4. row.status = "FAILED" /\ row.clean = attempts[slot][number].clean
      BY <2>3 DEF Closed, AttemptRows
    <2> HIDE DEF row
    <2>5. attempts'[slot][number] = row /\ OnlyRow(slot, number)
      BY <2>1, <2>2, RowSet
    <2> QED BY <2>1, <2>4, <2>5 DEF OnlyRow, KeptRows, KeptRow
  <1> QED BY <1>1, <1>2

\* start closes what is stale and adds a row.
LEMMA StartedRows ==
    ASSUME Rows, NEW w \in Workers, worker[w].slot \in Slots, StartAttempt(w)
    PROVE  LET slot == worker[w].slot
               next == Len(attempts[slot]) + 1
           IN  /\ Len(attempts'[slot]) = next
               /\ attempts'[slot][next].status = "STARTED" /\ attempts'[slot][next].clean = 0
               /\ \A i \in 1 .. Len(attempts[slot]) : KeptRow(slot, i)
               /\ \A s \in Slots \ {slot} : attempts'[s] = attempts[s]
  <1> DEFINE s == worker[w].slot
             new == [token |-> worker[w].token, lease |-> AttemptLease(w),
                     status |-> "STARTED", clean |-> 0]
             closed == CloseStale(attempts[s])
  <1>1. attempts[s] \in Seq(AttemptRows) /\ Len(attempts[s]) \in Nat
        /\ DOMAIN attempts[s] = 1 .. Len(attempts[s])
        /\ \A i \in 1 .. Len(attempts[s]) : attempts[s][i] \in AttemptRows
    BY LeaseTypes
  <1>2. new.status = "STARTED" /\ new.clean = 0
    OBVIOUS
  <1>3. /\ Len(closed) = Len(attempts[s]) /\ closed \in Seq(AttemptRows)
        /\ \A i \in 1 .. Len(attempts[s]) :
              /\ closed[i].clean = attempts[s][i].clean
              /\ closed[i].status = "COMPLETED" <=> attempts[s][i].status = "COMPLETED"
    <2>1. \A row \in AttemptRows : Closed(row, "FAILED") \in AttemptRows
      BY ClosedType
    <2>2. closed \in [1 .. Len(attempts[s]) -> AttemptRows]
      BY <1>1, <2>1 DEF CloseStale
    <2>3. closed \in Seq(AttemptRows) /\ Len(closed) = Len(attempts[s])
      BY <1>1, <2>2, IsASeq, LenProperties
    <2>4. \A row \in AttemptRows :
             Closed(row, "FAILED").clean = row.clean /\ Closed(row, "FAILED").status = "FAILED"
      BY DEF Closed, AttemptRows
    <2>5. ASSUME NEW i \in 1 .. Len(attempts[s])
          PROVE  /\ closed[i].clean = attempts[s][i].clean
                 /\ closed[i].status = "COMPLETED" <=> attempts[s][i].status = "COMPLETED"
      <3>1. \/ closed[i] = Closed(attempts[s][i], "FAILED") /\ attempts[s][i].status = "STARTED"
            \/ closed[i] = attempts[s][i]
        BY <1>1 DEF CloseStale, Stale
      <3> HIDE DEF closed
      <3> QED BY <1>1, <2>4, <3>1
    <2> QED BY <2>3, <2>5
  <1>4. attempts'[s] = Append(closed, new)
    BY DEF StartAttempt, Rows, TypeOK
  <1>5. new \in AttemptRows
    <2>1. worker[w].token \in Nat /\ worker[w].deadline \in Nat
      BY DEF Rows, TypeOK, WorkerRows
    <2> QED BY <2>1 DEF AttemptLease, AttemptRows
  <1> HIDE DEF closed, new
  <1>6. /\ \A i \in 1 .. Len(attempts[s]) : attempts'[s][i] = closed[i]
        /\ attempts'[s][Len(attempts[s]) + 1] = new
    <2> DEFINE all == Append(closed, new)
    <2>1. /\ \A i \in 1 .. Len(closed) : all[i] = closed[i]
          /\ all[Len(closed) + 1] = new
      BY <1>3, <1>5, AppendProperties
    <2> HIDE DEF all
    <2>2. attempts'[s] = all
      BY <1>4 DEF all
    <2> QED BY <1>3, <2>1, <2>2
  <1>7. \A i \in 1 .. Len(attempts[s]) : KeptRow(s, i)
    BY <1>3, <1>6 DEF KeptRow
  <1>8. Len(attempts'[s]) = Len(attempts[s]) + 1 /\ \A r \in Slots \ {s} : attempts'[r] = attempts[r]
    BY StartType
  <1> QED BY <1>2, <1>6, <1>7, <1>8

Stores(w) == Save(w) \/ SaveUnacknowledged(w)

LEMMA RowCases ==
    ASSUME Rows, NEW w \in Workers, Work(w)
    PROVE  KeptRows \/ Stores(w) \/ StartAttempt(w) \/ ModerateBatch(w)
  <1>1. CASE attempts' = attempts
    BY <1>1 DEF KeptRows, KeptRow
  <1>2. CASE Close(w)
    BY <1>2, CallContinues, ClosingKeeps DEF Close
  <1>3. CASE Save(w) \/ SaveUnacknowledged(w)
    BY <1>3 DEF Stores
  <1>4. CASE \/ LostStage(w) \/ DeadlineExceeded(w) \/ StageError(w) \/ AllTranscribed(w)
             \/ Lookup(w) \/ Upsert(w) \/ AttemptInProgress(w) \/ BudgetExhausted(w)
             \/ PublishError(w) \/ Publish(w) \/ PrepareRetry(w) \/ FailGeneration(w)
             \/ SettleLost(w) \/ Crash(w) \/ NextRecording(w) \/ Moderate(w) \/ Report(w)
    BY <1>1, <1>4 DEF LostStage, DeadlineExceeded, Stage, StageError, AllTranscribed, Lookup, Upsert,
           AttemptInProgress, BudgetExhausted, PublishError, Publish, PrepareRetry, FailGeneration,
           SettleLost, Crash, NextRecording, Moderate, Report
  <1>5. CASE \/ Transcribe(w) \/ GenerateReport(w) \/ CallError(w) \/ SaveError(w) \/ SaveLost(w)
             \/ FailOwned(w) \/ Mark(w) \/ CatchError(w)
    BY <1>1, <1>5 DEF Transcribe, GenerateReport, CallError, SaveError, SaveLost, FailOwned, Mark,
           CatchError
  <1>6. CASE (\E g \in Generations : Claim(w, g)) \/ Heartbeat(w)
    BY <1>1, <1>6 DEF Claim, Heartbeat
  <1> QED BY <1>2, <1>3, <1>4, <1>5, <1>6 DEF Work

LEMMA SameCompleted ==
    ASSUME Rows, Rows', NEW s \in Slots, Len(attempts'[s]) = Len(attempts[s]),
           \A i \in 1 .. Len(attempts[s]) : KeptRow(s, i)
    PROVE  Completed(s)' = Completed(s)
  <1>1. DOMAIN attempts[s] = 1 .. Len(attempts[s])
    BY LeaseTypes
  <1>2. DOMAIN attempts'[s] = 1 .. Len(attempts'[s])
    <2>1. attempts'[s] \in Seq(AttemptRows)
      BY DEF Rows, TypeOK
    <2> QED BY <2>1, LenProperties
  <1> QED BY <1>1, <1>2 DEF Completed, KeptRow

LEMMA HasCompletedSet == \A s : HasCompleted(s) <=> Completed(s) # {}
  BY DEF HasCompleted, Completed

LEMMA Domains ==
    ASSUME Rows, Rows', NEW s \in Slots
    PROVE  DOMAIN attempts[s] = 1 .. Len(attempts[s]) /\ DOMAIN attempts'[s] = 1 .. Len(attempts'[s])
  <1>1. attempts'[s] \in Seq(AttemptRows)
    BY DEF Rows, TypeOK
  <1> QED BY <1>1, LeaseTypes, LenProperties

\* Storing a result completes the attempt of the worker, and no other.
LEMMA Completing ==
    ASSUME Rows, Filed, Rows', NEW w \in Workers, Stores(w)
    PROVE  \E slot \in Slots :
              /\ worker[w].slot = slot
              /\ Completed(slot)' = Completed(slot) \cup {worker[w].number}
              /\ \A s \in Slots \ {slot} : Completed(s)' = Completed(s)
  <1>1. worker[w].step = "save" /\ attempts' = SetRow(w, "COMPLETED")
    BY DEF Stores, Save, SaveUnacknowledged, Store, Is
  <1> PICK slot \in Slots, number \in {worker[w].number} :
          slot = worker[w].slot /\ number = worker[w].number
    BY <1>1 DEF Rows, BusyRows, InCall
  <1>2. number \in 1 .. Len(attempts[slot])
    BY <1>1 DEF Filed, Calling
  <1>3. OnlyRow(slot, number) /\ attempts'[slot][number].status = "COMPLETED"
    BY <1>1, <1>2, StoredRows
  <1>4. Completed(slot)' = Completed(slot) \cup {number}
    BY <1>2, <1>3, Domains DEF OnlyRow, Completed
  <1>5. \A s \in Slots \ {slot} : Completed(s)' = Completed(s)
    BY <1>3, Domains DEF OnlyRow, Completed
  <1> QED BY <1>4, <1>5

LEMMA TickingRows ==
    ASSUME Rows, Tick
    PROVE  KeptRows
  <1> SUFFICES ASSUME NEW s \in Slots, NEW i \in 1 .. Len(attempts[s])
               PROVE  KeptRow(s, i)
    BY Ticking DEF KeptRows
  <1> DEFINE row == attempts[s][i]
  <1>1. row \in AttemptRows
    BY LeaseTypes
  <1>2. attempts'[s][i] = [row EXCEPT !.lease = Down(@)]
    BY LeaseTypes DEF Tick
  <1> HIDE DEF row
  <1>3. attempts'[s][i].clean = row.clean /\ attempts'[s][i].status = row.status
    BY <1>1, <1>2 DEF AttemptRows
  <1> QED BY <1>3 DEF KeptRow, row

\* No other step completes an attempt, or undoes one.
LEMMA CompletedKept ==
    ASSUME Rows, Filed, Rows', Next, \A w \in Workers : ~Stores(w)
    PROVE  \A s \in Slots : Completed(s)' = Completed(s)
  <1>1. CASE KeptRows
    BY <1>1, SameCompleted DEF KeptRows
  <1>2. ASSUME NEW g \in Generations, Enqueue(g)
        PROVE  KeptRows
    BY <1>2 DEF Enqueue, KeptRows, KeptRow
  <1>3. CASE Tick
    BY <1>1, <1>3, TickingRows
  <1>4. ASSUME NEW w \in Workers, StartAttempt(w)
        PROVE  \A s \in Slots : Completed(s)' = Completed(s)
    <2> PICK slot \in Slots : slot = worker[w].slot
      BY <1>4, CallContinues
    <2> DEFINE next == Len(attempts[slot]) + 1
    <2>1. /\ Len(attempts'[slot]) = next /\ attempts'[slot][next].status = "STARTED"
          /\ \A i \in 1 .. Len(attempts[slot]) : KeptRow(slot, i)
          /\ \A s \in Slots \ {slot} : attempts'[s] = attempts[s]
      BY <1>4, StartedRows
    <2>2. Len(attempts[slot]) \in Nat
      BY LeaseTypes
    <2>3. Completed(slot)' = Completed(slot)
      <3>1. DOMAIN attempts[slot] = 1 .. Len(attempts[slot]) /\ DOMAIN attempts'[slot] = 1 .. next
        BY <2>1, Domains
      <3>2. \A i \in 1 .. Len(attempts[slot]) :
               attempts'[slot][i].status = "COMPLETED" <=> attempts[slot][i].status = "COMPLETED"
        BY <2>1 DEF KeptRow
      <3>3. attempts'[slot][next].status # "COMPLETED"
        BY <2>1
      <3>4. 1 .. next = 1 .. Len(attempts[slot]) \cup {next}
        BY <2>2
      <3> HIDE DEF next
      <3> QED BY <3>1, <3>2, <3>3, <3>4 DEF Completed
    <2> QED BY <2>1, <2>3 DEF Completed
  <1>5. ASSUME NEW w \in Workers, ModerateBatch(w)
        PROVE  \A s \in Slots : Completed(s)' = Completed(s)
    <2> PICK slot \in Slots, number \in {worker[w].number} : slot = worker[w].slot /\ number = worker[w].number
      BY <1>5, CallContinues
    <2>1. worker[w].step = "call"
      BY <1>5 DEF ModerateBatch, Is
    <2>2. number \in 1 .. Len(attempts[slot])
      BY <2>1 DEF Filed, Calling
    <2>3. OnlyRow(slot, number) /\ attempts'[slot][number].status = attempts[slot][number].status
      BY <1>5, <2>2, CleanRows DEF Row
    <2>4. ASSUME NEW s \in Slots
          PROVE  Completed(s)' = Completed(s)
      <3>1. Len(attempts'[s]) = Len(attempts[s])
            /\ \A i \in 1 .. Len(attempts[s]) : attempts'[s][i].status = attempts[s][i].status
        BY <2>3 DEF OnlyRow
      <3> QED BY <3>1, Domains DEF Completed
    <2> QED BY <2>4
  <1> QED BY <1>1, <1>2, <1>3, <1>4, <1>5, RowCases DEF Next

-----------------------------------------------------------------------------
(* Where a step takes a worker.                                            *)

Rests(w) == worker'[w].step \notin Paying

\* It is going to start an attempt.
Enters(w) ==
    /\ attempts' = attempts
    /\ worker'[w].step = "start"
    /\ \/ worker'[w].slot[1] = "TRANSCRIPTION"
       \/ /\ worker'[w].slot = <<"MODERATION", worker[w].gen>>
          /\ ~HasCompleted(worker'[w].slot)
       \/ /\ worker[w].step = "report" /\ ~worker[w].result
          /\ worker'[w].slot = <<"REPORT_GENERATION", worker[w].gen>>

\* It has an answer to save.
Answers(w) ==
    /\ attempts' = attempts
    /\ worker[w].step = "call" /\ worker'[w].step = "save"
    /\ worker'[w].slot = worker[w].slot /\ worker'[w].number = worker[w].number
    /\ Operation(w) # "MODERATION"
    /\ Operation(w) = "TRANSCRIPTION" => worker'[w].text # "null"

LEMMA Resting ==
    ASSUME Rows, NEW w \in Workers, worker[w].step # "idle",
           \/ Leave(w)
           \/ \E retryable \in BOOLEAN : Throw(w, retryable)
           \/ \E step \in Steps \ Paying : \E done : Return(w, step, done)
           \/ \E step \in Steps \ Paying : Go(w, step)
           \/ \E retryable, lost \in BOOLEAN : Failed(w, retryable, lost)
    PROVE  Rests(w)
  <1>1. worker \in [Workers -> WorkerRows]
    BY DEF Rows, TypeOK
  <1>2. CASE Leave(w)
    BY <1>1, <1>2 DEF Leave, Idle, Rests, Paying, Calling
  <1>3. CASE \E retryable \in BOOLEAN : Throw(w, retryable)
    <2>1. worker'[w].step = "settle"
      BY <1>1, <1>3 DEF Throw, Idle
    <2> QED BY <2>1 DEF Rests, Paying, Calling
  <1>4. CASE \E step \in Steps \ Paying : \E done : Return(w, step, done)
    BY <1>1, <1>4 DEF Return, Idle, Rests
  <1>5. CASE \E step \in Steps \ Paying : Go(w, step)
    BY <1>1, <1>5 DEF Go, WorkerRows, Rests
  <1>6. CASE \E retryable, lost \in BOOLEAN : Failed(w, retryable, lost)
    <2> PICK retryable \in BOOLEAN, lost \in BOOLEAN : Failed(w, retryable, lost)
      BY <1>6
    <2> DEFINE step == IF Operation(w) = "TRANSCRIPTION" THEN "fail" ELSE "close"
    <2>1. step \notin Paying
      BY DEF Paying, Calling
    <2>2. worker' = [worker EXCEPT ![w].step = step, ![w].retryable = retryable, ![w].lost = lost]
      BY DEF Failed
    <2> HIDE DEF step
    <2> QED BY <1>1, <2>1, <2>2 DEF WorkerRows, Rests
  <1> QED BY <1>2, <1>3, <1>4, <1>5, <1>6

LEMMA WorkerCases ==
    ASSUME Rows, NEW w \in Workers, Work(w)
    PROVE  Rests(w) \/ Heartbeat(w) \/ Enters(w) \/ Answers(w) \/ StartAttempt(w) \/ ModerateBatch(w)
  <1>1. worker \in [Workers -> WorkerRows] /\ worker \in [Workers -> BusyRows]
    BY DEF Rows, TypeOK
  <1>2. CASE LostStage(w) \/ Publish(w) \/ PrepareRetry(w) \/ FailGeneration(w) \/ SettleLost(w)
             \/ Crash(w)
    BY <1>2, Resting DEF LostStage, Publish, PrepareRetry, FailGeneration, SettleLost, Crash, Is
  <1>3. CASE DeadlineExceeded(w) \/ StageError(w) \/ AttemptInProgress(w) \/ BudgetExhausted(w)
             \/ PublishError(w) \/ CatchError(w)
    <2>1. \E retryable \in BOOLEAN : Throw(w, retryable)
      BY <1>3 DEF DeadlineExceeded, StageError, AttemptInProgress, BudgetExhausted, PublishError,
             CatchError
    <2>2. worker[w].step # "idle"
      BY <1>3 DEF DeadlineExceeded, Stage, StageError, AttemptInProgress, BudgetExhausted,
             PublishError, CatchError, Is
    <2> QED BY <2>1, <2>2, Resting
  <1>4. CASE CallError(w) \/ SaveError(w) \/ SaveUnacknowledged(w)
    <2>1. worker[w].step # "idle" /\ \E retryable \in BOOLEAN : Failed(w, retryable, FALSE)
      BY <1>4 DEF CallError, SaveError, SaveUnacknowledged, Store, Is
    <2> QED BY <2>1, Resting
  <1>5. CASE SaveLost(w) \/ FailOwned(w) \/ Close(w) \/ Mark(w)
    <2>1. worker[w].step # "idle"
      BY <1>5 DEF SaveLost, FailOwned, Close, Mark, Is
    <2>2. {"close", "mark", "settle"} \subseteq Steps \ Paying
      BY DEF Steps, Paying, Calling
    <2>3. \/ Leave(w) \/ Failed(w, FALSE, TRUE)
          \/ \E step \in {"close", "mark", "settle"} : Go(w, step)
      BY <1>5 DEF SaveLost, FailOwned, Close, Mark
    <2> QED BY <2>1, <2>2, <2>3, Resting
  <1>6. CASE Save(w) \/ AllTranscribed(w)
    <2>1. worker[w].step # "idle"
      BY <1>6 DEF Save, Store, AllTranscribed, Stage, Is
    <2>2. {"report", "publish", "transcribe", "moderate"} \subseteq Steps \ Paying
      BY DEF Steps, Paying, Calling
    <2>3. \E step \in {"report", "publish", "transcribe", "moderate"} : \E done : Return(w, step, done)
      BY <1>6 DEF Save, AllTranscribed, Transcribed
    <2> QED BY <2>1, <2>2, <2>3, Resting
  <1>7. CASE Lookup(w)
    <2>1. worker[w].step # "idle"
      BY <1>7 DEF Lookup, Is
    <2>2. "upsert" \in Steps \ Paying /\ "transcribe" \in Steps \ Paying
      BY DEF Steps, Paying, Calling
    <2>3. Go(w, "upsert") \/ \E done : Return(w, "transcribe", done)
      BY <1>7 DEF Lookup, Transcribed
    <2> QED BY <2>1, <2>2, <2>3, Resting
  <1>8. CASE NextRecording(w)
    <2>1. worker'[w].step = "lookup"
      BY <1>1, <1>8 DEF NextRecording, WorkerRows
    <2> QED BY <2>1 DEF Rests, Paying, Calling
  <1>9. CASE Upsert(w)
    <2>1. worker[w] \in BusyRows /\ worker[w].step = "upsert" /\ attempts' = attempts
          /\ worker' = [worker EXCEPT ![w].step = "start"]
      BY <1>1, <1>9 DEF Upsert, Is, Go
    <2>2. worker'[w].step = "start" /\ worker'[w].slot = worker[w].slot
      BY <1>1, <2>1 DEF WorkerRows
    <2>3. worker[w].slot[1] = "TRANSCRIPTION"
      BY <2>1 DEF BusyRows
    <2> QED BY <2>1, <2>2, <2>3 DEF Enters
  <1>10. CASE Moderate(w)
    <2> DEFINE slot == <<"MODERATION", worker[w].gen>>
    <2>1. CASE Go(w, "report")
      BY <1>10, <2>1, Resting DEF Moderate, Stage, Is, Steps, Paying, Calling
    <2>2. CASE StartFor(w, slot) /\ ~HasCompleted(slot)
      <3>1. worker' = [worker EXCEPT ![w].step = "start", ![w].slot = slot]
        BY <2>2 DEF StartFor
      <3> HIDE DEF slot
      <3>2. worker'[w].step = "start" /\ worker'[w].slot = slot
        BY <1>1, <3>1 DEF WorkerRows
      <3> QED BY <1>10, <2>2, <3>2 DEF Moderate, Stage, Enters, slot
    <2> QED BY <1>10, <2>1, <2>2 DEF Moderate
  <1>11. CASE Report(w)
    <2> DEFINE slot == <<"REPORT_GENERATION", worker[w].gen>>
    <2>1. CASE Go(w, "publish")
      BY <1>11, <2>1, Resting DEF Report, Stage, Is, Steps, Paying, Calling
    <2>2. CASE StartFor(w, slot) /\ ~worker[w].result
      <3>1. worker' = [worker EXCEPT ![w].step = "start", ![w].slot = slot]
        BY <2>2 DEF StartFor
      <3> HIDE DEF slot
      <3>2. worker'[w].step = "start" /\ worker'[w].slot = slot
        BY <1>1, <3>1 DEF WorkerRows
      <3> QED BY <1>11, <2>2, <3>2 DEF Report, Stage, Is, Enters, slot
    <2> QED BY <1>11, <2>1, <2>2 DEF Report, Resumes
  <1>12. CASE Transcribe(w)
    <2>1. PICK text \in {"speech", "empty"} :
              worker' = [worker EXCEPT ![w].step = "save", ![w].text = text]
      BY <1>12 DEF Transcribe
    <2>2. worker'[w].step = "save" /\ worker'[w].text = text
          /\ worker'[w].slot = worker[w].slot /\ worker'[w].number = worker[w].number
      BY <1>1, <2>1 DEF WorkerRows
    <2> QED BY <1>12, <2>2 DEF Transcribe, Is, Answers
  <1>13. CASE GenerateReport(w)
    <2>1. worker' = [worker EXCEPT ![w].step = "save"]
      BY <1>13 DEF GenerateReport, Go
    <2>2. worker'[w].step = "save"
          /\ worker'[w].slot = worker[w].slot /\ worker'[w].number = worker[w].number
      BY <1>1, <2>1 DEF WorkerRows
    <2> QED BY <1>13, <2>2 DEF GenerateReport, Is, Answers
  <1>14. ASSUME NEW g \in Generations, Claim(w, g)
         PROVE  Rests(w)
    BY <1>14, Claiming DEF Rests, Paying, Calling
  <1> QED BY <1>2, <1>3, <1>4, <1>5, <1>6, <1>7, <1>8, <1>9, <1>10, <1>11, <1>12, <1>13, <1>14 DEF Work

\* A worker on its way to a call was so before, or has just claimed.
LEMMA ReadingCases ==
    ASSUME Rows, NEW w \in Workers, Work(w), worker'[w].step \in Reading \cup Paying
    PROVE  \/ \E g \in Generations : Claim(w, g)
           \/ worker[w].step \in Reading \cup Paying /\ worker'[w].result = worker[w].result
  <1>1. worker \in [Workers -> WorkerRows]
    BY DEF Rows, TypeOK
  <1>2. CASE \/ LostStage(w) \/ Publish(w) \/ PrepareRetry(w) \/ FailGeneration(w) \/ SettleLost(w)
             \/ Crash(w) \/ Leave(w)
    <2>1. worker'[w].step = "idle"
      BY <1>1, <1>2 DEF LostStage, Publish, PrepareRetry, FailGeneration, SettleLost,
             Crash, Leave, Idle
    <2> QED BY <2>1 DEF Reading, Paying, Calling
  <1>3. CASE \E retryable \in BOOLEAN : Throw(w, retryable)
    <2>1. worker'[w].step = "settle"
      BY <1>1, <1>3 DEF Throw, Idle
    <2> QED BY <2>1 DEF Reading, Paying, Calling
  <1>4. CASE \E retryable, lost \in BOOLEAN : Failed(w, retryable, lost)
    <2> PICK retryable \in BOOLEAN, lost \in BOOLEAN : Failed(w, retryable, lost)
      BY <1>4
    <2> DEFINE step == IF Operation(w) = "TRANSCRIPTION" THEN "fail" ELSE "close"
    <2>1. step \notin Reading \cup Paying
      BY DEF Reading, Paying, Calling
    <2>2. worker' = [worker EXCEPT ![w].step = step, ![w].retryable = retryable, ![w].lost = lost]
      BY DEF Failed
    <2> HIDE DEF step
    <2>3. worker'[w].step = step
      BY <1>1, <2>2 DEF WorkerRows
    <2> QED BY <2>1, <2>3
  <1>5. CASE FailOwned(w) \/ Close(w) \/ Mark(w)
    <2>1. CASE \E step \in {"close", "mark", "settle"} : Go(w, step)
      <3>1. worker'[w].step \in {"close", "mark", "settle"}
        BY <1>1, <2>1 DEF Go, WorkerRows
      <3> QED BY <3>1 DEF Reading, Paying, Calling
    <2> QED BY <1>2, <1>5, <2>1 DEF FailOwned, Close, Mark
  <1>6. ASSUME NEW step, NEW done, Return(w, step, done)
        PROVE  worker'[w].result = worker[w].result
    BY <1>1, <1>6 DEF Return, Idle
  <1>7. ASSUME NEW step, Go(w, step)
        PROVE  worker'[w].result = worker[w].result
    BY <1>1, <1>7 DEF Go, WorkerRows
  <1>8. CASE Save(w) \/ AllTranscribed(w) \/ Lookup(w)
    <2>1. worker[w].step \in Reading \cup Paying
      BY <1>8 DEF Save, Store, AllTranscribed, Lookup, Stage, Is, Reading, Paying, Calling
    <2>2. (\E step, done : Return(w, step, done)) \/ Go(w, "upsert")
      BY <1>8 DEF Save, AllTranscribed, Lookup, Transcribed
    <2> QED BY <1>6, <1>7, <2>1, <2>2
  <1>9. CASE Upsert(w) \/ GenerateReport(w)
    <2>1. worker[w].step \in Reading \cup Paying
      BY <1>9 DEF Upsert, GenerateReport, Is, Reading, Paying, Calling
    <2> QED BY <1>7, <1>9, <2>1 DEF Upsert, GenerateReport
  <1>10. CASE NextRecording(w) \/ Moderate(w) \/ Report(w)
    <2>1. worker[w].step \in Reading
      BY <1>10 DEF NextRecording, Moderate, Report, Stage, Is, Reading
    <2>2. ASSUME NEW slot, NEW step, worker' = [worker EXCEPT ![w].step = step, ![w].slot = slot]
          PROVE  worker'[w].result = worker[w].result
      BY <1>1, <2>2 DEF WorkerRows
    <2> QED BY <1>7, <1>10, <2>1, <2>2 DEF NextRecording, Moderate, Report, StartFor
  <1>11. CASE StartAttempt(w) \/ Transcribe(w) \/ ModerateBatch(w)
    <2>1. worker[w].step \in Paying
      BY <1>11 DEF StartAttempt, Transcribe, ModerateBatch, Is, Paying, Calling
    <2>2. ASSUME NEW n, worker' = [worker EXCEPT ![w].step = "call", ![w].batch = 0, ![w].number = n]
          PROVE  worker'[w].result = worker[w].result
      BY <1>1, <2>2 DEF WorkerRows
    <2>3. ASSUME NEW text, worker' = [worker EXCEPT ![w].step = "save", ![w].text = text]
          PROVE  worker'[w].result = worker[w].result
      BY <1>1, <2>3 DEF WorkerRows
    <2>4. ASSUME NEW step, worker' = [worker EXCEPT ![w].batch = @ + 1, ![w].step = step]
          PROVE  worker'[w].result = worker[w].result
      BY <1>1, <2>4 DEF WorkerRows
    <2>5. CASE StartAttempt(w)
      BY <2>1, <2>2, <2>5 DEF StartAttempt
    <2>6. CASE Transcribe(w)
      BY <2>1, <2>3, <2>6 DEF Transcribe
    <2>7. CASE ModerateBatch(w)
      BY <2>1, <2>4, <2>7 DEF ModerateBatch
    <2> QED BY <1>11, <2>5, <2>6, <2>7
  <1>12. CASE Heartbeat(w)
    BY <1>12 DEF Heartbeat
  <1>13. CASE SaveLost(w) \/ SaveError(w) \/ SaveUnacknowledged(w) \/ CallError(w)
    <2>1. Leave(w) \/ \E retryable, lost \in BOOLEAN : Failed(w, retryable, lost)
      BY <1>13 DEF SaveLost, SaveError, SaveUnacknowledged, CallError
    <2> QED BY <1>2, <1>4, <2>1
  <1>14. CASE DeadlineExceeded(w) \/ StageError(w) \/ AttemptInProgress(w) \/ BudgetExhausted(w)
              \/ PublishError(w) \/ CatchError(w)
    <2>1. \E retryable \in BOOLEAN : Throw(w, retryable)
      BY <1>14 DEF DeadlineExceeded, StageError, AttemptInProgress, BudgetExhausted, PublishError,
             CatchError
    <2> QED BY <1>3, <2>1
  <1> QED BY <1>2, <1>5, <1>8, <1>9, <1>10, <1>11, <1>12, <1>13, <1>14 DEF Work

\* The report is due once the moderation is completed, by this step or before.
LEMMA ReportCases ==
    ASSUME Rows, NEW w \in Workers, Work(w), worker'[w].step = "report"
    PROVE  \/ worker' = worker
           \/ Stores(w) /\ Operation(w) = "MODERATION"
           \/ HasCompleted(<<"MODERATION", worker[w].gen>>)
  <1>1. worker \in [Workers -> WorkerRows]
    BY DEF Rows, TypeOK
  <1>2. CASE LostStage(w) \/ Publish(w) \/ PrepareRetry(w) \/ FailGeneration(w) \/ SettleLost(w)
             \/ Crash(w) \/ Leave(w)
    BY <1>1, <1>2 DEF LostStage, Publish, PrepareRetry, FailGeneration, SettleLost, Crash, Leave, Idle
  <1>3. ASSUME NEW retryable \in BOOLEAN, Throw(w, retryable)
        PROVE  FALSE
    BY <1>1, <1>3 DEF Throw, Idle
  <1>4. ASSUME NEW retryable \in BOOLEAN, NEW lost \in BOOLEAN, Failed(w, retryable, lost)
        PROVE  FALSE
    <2> DEFINE step == IF Operation(w) = "TRANSCRIPTION" THEN "fail" ELSE "close"
    <2>1. step # "report"
      OBVIOUS
    <2>2. worker' = [worker EXCEPT ![w].step = step, ![w].retryable = retryable, ![w].lost = lost]
      BY <1>4 DEF Failed
    <2> HIDE DEF step
    <2> QED BY <1>1, <2>1, <2>2 DEF WorkerRows
  <1>5. ASSUME NEW step, NEW done, Return(w, step, done)
        PROVE  step = "report"
    BY <1>1, <1>5 DEF Return, Idle
  <1>6. ASSUME NEW step, Go(w, step)
        PROVE  step = "report"
    BY <1>1, <1>6 DEF Go, WorkerRows
  <1>7. CASE Save(w)
    BY <1>5, <1>7 DEF Save, Transcribed, Stores
  <1>8. CASE AllTranscribed(w) \/ Lookup(w) \/ Upsert(w) \/ GenerateReport(w)
    <2>1. \/ \E done : Return(w, "moderate", done)
          \/ \E done : Return(w, "transcribe", done)
          \/ \E step \in {"upsert", "start", "save"} : Go(w, step)
      BY <1>8 DEF AllTranscribed, Lookup, Upsert, GenerateReport, Transcribed
    <2> QED BY <1>5, <1>6, <2>1
  <1>9. CASE FailOwned(w) \/ Close(w) \/ Mark(w)
    <2>1. Leave(w) \/ \E step \in {"close", "mark", "settle"} : Go(w, step)
      BY <1>9 DEF FailOwned, Close, Mark
    <2> QED BY <1>2, <1>6, <2>1
  <1>10. CASE NextRecording(w) \/ Moderate(w) \/ Report(w)
    <2>1. ASSUME NEW slot, NEW step, step # "report",
                 worker' = [worker EXCEPT ![w].step = step, ![w].slot = slot]
          PROVE  FALSE
      BY <1>1, <2>1 DEF WorkerRows
    <2>2. CASE NextRecording(w)
      BY <2>1, <2>2 DEF NextRecording
    <2>3. CASE Moderate(w)
      BY <2>1, <2>3 DEF Moderate, StartFor
    <2>4. CASE Report(w)
      BY <1>6, <2>1, <2>4 DEF Report, StartFor
    <2> QED BY <1>10, <2>2, <2>3, <2>4
  <1>11. CASE StartAttempt(w)
    <2>1. PICK n : worker' = [worker EXCEPT ![w].step = "call", ![w].batch = 0, ![w].number = n]
      BY <1>11 DEF StartAttempt
    <2> QED BY <1>1, <2>1 DEF WorkerRows
  <1>12. CASE Transcribe(w)
    <2>1. PICK text : worker' = [worker EXCEPT ![w].step = "save", ![w].text = text]
      BY <1>12 DEF Transcribe
    <2> QED BY <1>1, <2>1 DEF WorkerRows
  <1>13. CASE ModerateBatch(w)
    <2>1. PICK step \in {"call", "save"} :
              worker' = [worker EXCEPT ![w].batch = @ + 1, ![w].step = step]
      BY <1>13 DEF ModerateBatch
    <2> QED BY <1>1, <2>1 DEF WorkerRows
  <1>14. CASE Heartbeat(w)
    BY <1>14 DEF Heartbeat
  <1>15. CASE SaveLost(w) \/ SaveError(w) \/ SaveUnacknowledged(w) \/ CallError(w)
    <2>1. Leave(w) \/ \E retryable, lost \in BOOLEAN : Failed(w, retryable, lost)
      BY <1>15 DEF SaveLost, SaveError, SaveUnacknowledged, CallError
    <2> QED BY <1>2, <1>4, <2>1
  <1>16. CASE DeadlineExceeded(w) \/ StageError(w) \/ AttemptInProgress(w) \/ BudgetExhausted(w)
              \/ PublishError(w) \/ CatchError(w)
    <2>1. \E retryable \in BOOLEAN : Throw(w, retryable)
      BY <1>16 DEF DeadlineExceeded, StageError, AttemptInProgress, BudgetExhausted, PublishError,
             CatchError
    <2> QED BY <1>3, <2>1
  <1>17. ASSUME NEW g \in Generations, Claim(w, g)
         PROVE  FALSE
    BY <1>17, Claiming
  <1> QED BY <1>2, <1>7, <1>8, <1>9, <1>10, <1>11, <1>12, <1>13, <1>14, <1>15, <1>16, <1>17 DEF Work

-----------------------------------------------------------------------------
(* The tables that results are stored in, the tokens and the bill.         *)

LEMMA StoresResult ==
    ASSUME Rows, NEW w \in Workers, Stores(w)
    PROVE  /\ worker[w].step = "save" /\ worker[w].slot \in Slots /\ worker[w].gen \in Generations
           /\ HoldsToken(w)
           /\ \A g \in Generations : gen'[g].result <=>
                 gen[g].result \/ (Operation(w) = "REPORT_GENERATION" /\ g = worker[w].gen)
           /\ \A a \in Audio : transcription'[a].text =
                 IF Operation(w) = "TRANSCRIPTION" /\ a = Asset(w) THEN worker[w].text
                 ELSE transcription[a].text
  <1>0. Store(w)
    BY DEF Stores, Save, SaveUnacknowledged
  <1>1. worker[w].step = "save" /\ worker[w].slot \in Slots /\ worker[w].gen \in Generations
        /\ HoldsToken(w) /\ gen \in [Generations -> GenRows]
        /\ transcription \in [Audio -> Transcripts]
    BY <1>0 DEF Store, CanSave, Owns, Is, Rows, TypeOK, BusyRows, InCall
  <1>2. \A g \in Generations : gen'[g].result <=>
           gen[g].result \/ (Operation(w) = "REPORT_GENERATION" /\ g = worker[w].gen)
    <2>1. CASE gen' = gen /\ Operation(w) # "REPORT_GENERATION"
      BY <2>1
    <2>2. CASE /\ gen' = [gen EXCEPT ![worker[w].gen].result = TRUE,
                                     ![worker[w].gen].lease = JobTimeout]
               /\ Operation(w) = "REPORT_GENERATION"
      <3> PICK own \in Generations : own = worker[w].gen
        BY <1>1
      <3> DEFINE old == gen[own]
                 new == [old EXCEPT !.result = TRUE, !.lease = JobTimeout]
      <3>1. gen' = [gen EXCEPT ![own] = new]
        BY <1>1, <2>2
      <3>2. old \in GenRows
        BY <1>1
      <3> HIDE DEF old
      <3>3. new.result = TRUE
        BY <3>2 DEF GenRows
      <3> HIDE DEF new
      <3>4. gen'[own] = new /\ \A g \in Generations \ {own} : gen'[g] = gen[g]
        BY <1>1, <3>1
      <3> QED BY <2>2, <3>3, <3>4
    <2> QED BY <1>0, <2>1, <2>2 DEF Store
  <1>3. \A a \in Audio : transcription'[a].text =
           IF Operation(w) = "TRANSCRIPTION" /\ a = Asset(w) THEN worker[w].text
           ELSE transcription[a].text
    BY <1>0, <1>1 DEF Store
  <1> QED BY <1>1, <1>2, <1>3

LEMMA ResultFields ==
    ASSUME NEW row \in GenRows
    PROVE  /\ \A status, token, lease :
                 [row EXCEPT !.status = status, !.token = token, !.lease = lease].result = row.result
           /\ \A status : [row EXCEPT !.status = status].result = row.result
           /\ \A lease : [row EXCEPT !.lease = lease].result = row.result
  BY DEF GenRows

LEMMA ResultsKept ==
    ASSUME Rows, Next, \A w \in Workers : ~Stores(w)
    PROVE  /\ \A g \in Generations : gen'[g].result = gen[g].result
           /\ \A a \in Audio : transcription'[a].text = transcription[a].text
  <1>1. gen \in [Generations -> GenRows] /\ transcription \in [Audio -> Transcripts]
    BY DEF Rows, TypeOK
  <1>2. ASSUME NEW g \in Generations, Enqueue(g)
        PROVE  \A h \in Generations : gen'[h].result = gen[h].result
    <2>1. gen' = [gen EXCEPT ![g] = [gen[g] EXCEPT !.status = "QUEUED"]]
      BY <1>1, <1>2 DEF Enqueue
    <2>2. [gen[g] EXCEPT !.status = "QUEUED"].result = gen[g].result
      BY <1>1, ResultFields
    <2> QED BY <1>1, <2>1, <2>2
  <1>3. ASSUME NEW w \in Workers, NEW g \in Generations, Claim(w, g)
        PROVE  \A h \in Generations : gen'[h].result = gen[h].result
    <2> DEFINE new == [gen[g] EXCEPT !.status = "PROCESSING", !.token = claims', !.lease = JobTimeout]
    <2>1. gen' = [gen EXCEPT ![g] = new]
      BY <1>1, <1>3 DEF Claim
    <2>2. new.result = gen[g].result
      BY <1>1, ResultFields
    <2> HIDE DEF new
    <2> QED BY <1>1, <2>1, <2>2
  <1>4. ASSUME NEW own, gen' = Progress(own)
        PROVE  \A h \in Generations : gen'[h].result = gen[h].result
    <2>1. gen' = [gen EXCEPT ![own] = [gen[own] EXCEPT !.lease = JobTimeout]]
      BY <1>1, <1>4 DEF Progress
    <2>2. own \in Generations => [gen[own] EXCEPT !.lease = JobTimeout].result = gen[own].result
      BY <1>1, ResultFields
    <2> QED BY <1>1, <2>1, <2>2
  <1>5. ASSUME NEW own, NEW status, gen' = Settled(own, status)
        PROVE  \A h \in Generations : gen'[h].result = gen[h].result
    <2> DEFINE new == [gen[own] EXCEPT !.status = status, !.token = 0, !.lease = 0]
    <2>1. gen' = [gen EXCEPT ![own] = new]
      BY <1>1, <1>5 DEF Settled
    <2>2. own \in Generations => new.result = gen[own].result
      BY <1>1, ResultFields
    <2> HIDE DEF new
    <2> QED BY <1>1, <2>1, <2>2
  <1>6. CASE Tick
    <2> SUFFICES ASSUME NEW g \in Generations
                 PROVE  gen'[g].result = gen[g].result
      BY <1>6 DEF Tick
    <2> DEFINE old == gen[g]
    <2>1. gen'[g] = [old EXCEPT !.lease = @ - 1] \/ gen'[g] = old
      BY <1>6 DEF Tick
    <2>2. old \in GenRows
      BY <1>1
    <2> HIDE DEF old
    <2>3. gen'[g].result = old.result
      BY <2>1, <2>2 DEF GenRows
    <2> QED BY <2>3 DEF old
  <1>7. ASSUME NEW w \in Workers, Work(w)
        PROVE  \A h \in Generations : gen'[h].result = gen[h].result
    <2>1. CASE gen' = gen
      BY <2>1
    <2>2. CASE DeadlineExceeded(w) \/ NextRecording(w) \/ AllTranscribed(w) \/ Moderate(w) \/ Report(w)
               \/ Heartbeat(w)
      BY <1>4, <2>2 DEF DeadlineExceeded, NextRecording, AllTranscribed, Moderate, Report, Stage,
             Heartbeat, Progress
    <2>3. CASE Publish(w) \/ PrepareRetry(w) \/ FailGeneration(w)
      BY <1>5, <2>3 DEF Publish, PrepareRetry, FailGeneration
    <2>4. CASE \/ LostStage(w) \/ StageError(w) \/ Lookup(w) \/ Upsert(w) \/ AttemptInProgress(w)
               \/ BudgetExhausted(w) \/ StartAttempt(w) \/ PublishError(w) \/ SettleLost(w) \/ Crash(w)
      BY <2>1, <2>4 DEF LostStage, StageError, Lookup, Upsert, AttemptInProgress, BudgetExhausted,
             StartAttempt, PublishError, SettleLost, Crash
    <2>5. CASE \/ Transcribe(w) \/ ModerateBatch(w) \/ GenerateReport(w) \/ CallError(w)
               \/ SaveError(w) \/ SaveLost(w) \/ FailOwned(w) \/ Close(w) \/ Mark(w) \/ CatchError(w)
      BY <2>1, <2>5 DEF Transcribe, ModerateBatch, GenerateReport, CallError, SaveError, SaveLost,
             FailOwned, Close, Mark, CatchError
    <2>6. ~Save(w) /\ ~SaveUnacknowledged(w)
      BY DEF Stores
    <2> QED BY <1>3, <1>7, <2>2, <2>3, <2>4, <2>5, <2>6 DEF Work
  <1>8. ASSUME NEW w \in Workers, Work(w)
        PROVE  \A a \in Audio : transcription'[a].text = transcription[a].text
    <2>1. CASE transcription' = transcription
      BY <2>1
    <2>2. CASE Upsert(w) \/ Mark(w)
      <3>1. PICK status : transcription' = [transcription EXCEPT ![Asset(w)].status = status]
        BY <2>2 DEF Upsert, Mark
      <3> QED BY <1>1, <3>1 DEF Transcripts
    <2>3. ~Save(w) /\ ~SaveUnacknowledged(w)
      BY DEF Stores
    <2>4. CASE \/ LostStage(w) \/ DeadlineExceeded(w) \/ StageError(w) \/ NextRecording(w)
               \/ AllTranscribed(w) \/ Lookup(w) \/ Moderate(w) \/ Report(w) \/ AttemptInProgress(w)
               \/ BudgetExhausted(w) \/ StartAttempt(w) \/ Publish(w) \/ PublishError(w)
               \/ PrepareRetry(w) \/ FailGeneration(w) \/ SettleLost(w) \/ Crash(w) \/ Heartbeat(w)
      BY <2>1, <2>4 DEF LostStage, DeadlineExceeded, StageError, NextRecording, AllTranscribed, Lookup,
             Moderate, Report, Stage, AttemptInProgress, BudgetExhausted, StartAttempt, Publish,
             PublishError, PrepareRetry, FailGeneration, SettleLost, Crash, Heartbeat
    <2>5. CASE \/ Transcribe(w) \/ ModerateBatch(w) \/ GenerateReport(w) \/ CallError(w)
               \/ SaveError(w) \/ SaveLost(w) \/ FailOwned(w) \/ Close(w) \/ CatchError(w)
               \/ \E g \in Generations : Claim(w, g)
      BY <2>1, <2>5 DEF Transcribe, ModerateBatch, GenerateReport, CallError, SaveError, SaveLost,
             FailOwned, Close, CatchError, Claim
    <2> QED BY <1>8, <2>2, <2>3, <2>4, <2>5 DEF Work
  <1> QED BY <1>2, <1>6, <1>7, <1>8 DEF Next, Enqueue, Tick

\* A token that a worker holds after a step it held before, or has just been given.
LEMMA HeldBefore ==
    ASSUME Rows, Fenced, Next, NEW w \in Workers, Busy(w)', HoldsToken(w)'
    PROVE  \/ \E g \in Generations : Claim(w, g)
           \/ Busy(w) /\ HoldsToken(w) /\ worker'[w].gen = worker[w].gen
  <1>1. /\ \A v \in Workers : Busy(v) => worker[v].gen \in Generations
        /\ \A v \in Workers : worker[v].token \in Nat
        /\ claims \in Nat
    BY DEF Rows, TypeOK, BusyRows, WorkerRows, Busy
  <1>2. ASSUME NEW g \in Generations, Enqueue(g)
        PROVE  Busy(w) /\ HoldsToken(w) /\ worker'[w].gen = worker[w].gen
    BY <1>1, <1>2, Enqueueing DEF Enqueue, Busy, HoldsToken
  <1>3. ASSUME NEW v \in Workers, NEW g \in Generations, Claim(v, g), v # w
        PROVE  Busy(w) /\ HoldsToken(w) /\ worker'[w].gen = worker[w].gen
    <2>1. worker'[w] = worker[w] /\ Busy(w)
      BY <1>3, Claiming DEF Busy
    <2>2. worker[w].token <= claims
      BY <2>1 DEF Fenced
    <2>3. worker[w].gen # g
      <3>1. gen'[g].token = claims + 1
        BY <1>3, Claiming
      <3> QED BY <1>1, <2>1, <2>2, <3>1 DEF HoldsToken
    <2>4. gen'[worker[w].gen] = gen[worker[w].gen]
      BY <1>1, <1>3, <2>1, <2>3, Claiming
    <2> QED BY <2>1, <2>4 DEF HoldsToken
  <1>4. ASSUME NEW v \in Workers, Busy(v), gen' = gen \/ OwnChange(v),
               worker'[w].gen = worker[w].gen, worker'[w].token = worker[w].token, Busy(w),
               worker'[v] # Idle \/ v # w
        PROVE  HoldsToken(w)
    <2>1. CASE gen' = gen
      BY <1>4, <2>1 DEF HoldsToken
    <2>2. CASE OwnChange(v) /\ worker[w].gen # worker[v].gen
      BY <1>1, <1>4, <2>2 DEF OwnChange, HoldsToken
    <2>3. CASE OwnChange(v) /\ worker[w].gen = worker[v].gen
      BY <1>4, <2>3 DEF OwnChange, Owns, HoldsToken
    <2> QED BY <1>4, <2>1, <2>2, <2>3
  <1>5. ASSUME NEW v \in Workers, Heartbeat(v)
        PROVE  Busy(w) /\ HoldsToken(w) /\ worker'[w].gen = worker[w].gen
    <2>1. OwnChange(v) /\ worker' = worker /\ Busy(v)
      BY <1>5, Beating DEF OwnChange, Heartbeat, Busy, Is
    <2>2. worker'[v] # Idle
      BY <2>1 DEF Busy, Idle
    <2> QED BY <1>4, <2>1, <2>2 DEF Busy
  <1>6. ASSUME NEW v \in Workers, Proceeds(v)
        PROVE  Busy(w) /\ HoldsToken(w) /\ worker'[w].gen = worker[w].gen
    <2>1. Continues(v) /\ (gen' = gen \/ OwnChange(v)) /\ Busy(v)
      BY <1>6 DEF Proceeds, Tables, GenChange, Continues, Busy
    <2>2. worker'[w] # Idle
      BY DEF Busy, Idle
    <2>3. /\ worker'[w].gen = worker[w].gen /\ worker'[w].token = worker[w].token /\ Busy(w)
      BY <2>1, <2>2, ClaimsKept DEF Busy
    <2> QED BY <1>4, <2>1, <2>2, <2>3
  <1>7. CASE Tick
    BY <1>1, <1>7, Ticking DEF Busy, HoldsToken
  <1> QED BY <1>2, <1>3, <1>5, <1>6, <1>7, WorkCases DEF Next

\* What is paid for is a request of a worker before its deadline.
LEMMA PaidCases ==
    ASSUME Rows, Next
    PROVE  \/ paid' = paid
           \/ \E w \in Workers, slot \in Slots :
                /\ Sends(w) /\ slot = worker[w].slot
                /\ paid' = [paid EXCEPT ![slot] = @ + 1]
  <1>1. ASSUME NEW w \in Workers, Work(w), paid' # paid
        PROVE  \E slot \in Slots : /\ Sends(w) /\ slot = worker[w].slot
                                   /\ paid' = [paid EXCEPT ![slot] = @ + 1]
    <2>1. Proceeds(w)
      BY <1>1, WorkCases DEF Claim, Heartbeat
    <2>2. Billed(w)
      BY <1>1, <2>1 DEF Proceeds, Tables, Free, StartAttempt
    <2>3. worker[w].slot \in Slots
      BY <2>2 DEF Billed, Sends, Rows, BusyRows, InCall
    <2> QED BY <2>2, <2>3 DEF Billed, Paid
  <1> QED BY <1>1 DEF Next, Enqueue, Tick

-----------------------------------------------------------------------------
(* The attempts of the calls under way.                                    *)

LEMMA OthersKept ==
    ASSUME Rows, NEW w \in Workers, Work(w)
    PROVE  \A v \in Workers \ {w} : worker'[v] = worker[v]
  <1>1. CASE Proceeds(w)
    BY <1>1, ClaimsKept DEF Proceeds
  <1>2. CASE Heartbeat(w)
    BY <1>2 DEF Heartbeat
  <1> QED BY <1>1, <1>2, WorkCases, Claiming

LEMMA TickingWorkers ==
    ASSUME Rows, Tick, NEW w \in Workers
    PROVE  /\ worker'[w].number = worker[w].number /\ worker'[w].batch = worker[w].batch
           /\ worker'[w].text = worker[w].text /\ worker'[w].result = worker[w].result
           /\ worker'[w].step = worker[w].step /\ worker'[w].slot = worker[w].slot
           /\ worker'[w].gen = worker[w].gen /\ worker'[w].token = worker[w].token
  <1>1. worker[w] \in WorkerRows
    BY DEF Rows, TypeOK
  <1>2. PICK deadline : worker'[w] = [worker[w] EXCEPT !.deadline = deadline]
    BY DEF Tick
  <1> QED BY <1>1, <1>2 DEF WorkerRows

LEMMA StartFields ==
    ASSUME Rows, NEW w \in Workers, StartAttempt(w)
    PROVE  /\ worker[w].step = "start" /\ worker'[w].step = "call"
           /\ worker'[w].slot = worker[w].slot /\ worker'[w].gen = worker[w].gen
           /\ worker'[w].batch = 0 /\ worker'[w].number = Len(attempts'[worker[w].slot])
           /\ worker'[w].token = worker[w].token
  <1>1. worker \in [Workers -> WorkerRows]
    BY DEF Rows, TypeOK
  <1>2. PICK n : /\ worker' = [worker EXCEPT ![w].step = "call", ![w].batch = 0, ![w].number = n]
                 /\ n = Len(attempts'[worker[w].slot])
    BY DEF StartAttempt
  <1> QED BY <1>1, <1>2 DEF WorkerRows, StartAttempt, Is

LEMMA BatchFields ==
    ASSUME Rows, NEW w \in Workers, ModerateBatch(w)
    PROVE  /\ worker[w].step = "call" /\ Operation(w) = "MODERATION"
           /\ worker'[w].step = IF worker[w].batch + 1 = Batches THEN "save" ELSE "call"
           /\ worker'[w].slot = worker[w].slot /\ worker'[w].gen = worker[w].gen
           /\ worker'[w].batch = worker[w].batch + 1 /\ worker'[w].number = worker[w].number
           /\ worker'[w].token = worker[w].token
  <1>1. worker \in [Workers -> WorkerRows]
    BY DEF Rows, TypeOK
  <1>2. PICK step, batch : /\ worker' = [worker EXCEPT ![w].batch = batch, ![w].step = step]
                           /\ batch = worker[w].batch + 1
                           /\ step = IF worker[w].batch + 1 = Batches THEN "save" ELSE "call"
    BY <1>1 DEF ModerateBatch, LastBatch
  <1> QED BY <1>1, <1>2 DEF WorkerRows, ModerateBatch, Is

\* No step of one worker touches the attempt of another.
LEMMA OtherRow ==
    ASSUME Rows, Filed, NEW w \in Workers, Work(w), NEW v \in Workers \ {w},
           worker[v].step \in Calling, NEW slot \in Slots, slot = worker[v].slot,
           NEW number, number = worker[v].number
    PROVE  number \in 1 .. Len(attempts'[slot]) /\ KeptRow(slot, number)
  <1>1. number \in 1 .. Len(attempts[slot])
    BY DEF Filed
  <1>2. CASE KeptRows
    BY <1>1, <1>2 DEF KeptRows
  <1>3. CASE Stores(w) \/ ModerateBatch(w)
    <2>1. worker[w].step \in Calling
      BY <1>3 DEF Stores, Save, SaveUnacknowledged, Store, ModerateBatch, Is, Calling
    <2> PICK own \in Slots, mine \in {worker[w].number} : own = worker[w].slot /\ mine = worker[w].number
      BY <2>1 DEF Rows, BusyRows, InCall, Calling
    <2>2. mine \in 1 .. Len(attempts[own]) /\ ~(slot = own /\ number = mine)
      BY <2>1 DEF Filed
    <2>3. OnlyRow(own, mine)
      BY <1>3, <2>2, StoredRows, CleanRows DEF Stores, Save, SaveUnacknowledged, Store
    <2> QED BY <1>1, <2>2, <2>3 DEF OnlyRow, KeptRow
  <1>4. CASE StartAttempt(w)
    <2> PICK own \in Slots : own = worker[w].slot
      BY <1>4, CallContinues
    <2>1. /\ Len(attempts'[own]) = Len(attempts[own]) + 1
          /\ \A i \in 1 .. Len(attempts[own]) : KeptRow(own, i)
          /\ \A s \in Slots \ {own} : attempts'[s] = attempts[s]
      BY <1>4, StartedRows
    <2>2. Len(attempts[own]) \in Nat
      BY LeaseTypes
    <2>3. CASE slot = own
      BY <1>1, <2>1, <2>2, <2>3
    <2>4. CASE slot # own
      BY <1>1, <2>1, <2>4 DEF KeptRow
    <2> QED BY <2>3, <2>4
  <1> QED BY <1>2, <1>3, <1>4, RowCases

LEMMA FiledStep ==
    ASSUME Rows, Rows', Filed, Next
    PROVE  Filed'
  <1>1. ASSUME NEW w \in Workers, worker[w].step \in Calling
        PROVE  worker[w].slot \in Slots /\ worker[w].number \in 1 .. Len(attempts[worker[w].slot])
               /\ Row(w).status # "COMPLETED"
    BY <1>1 DEF Filed, Rows, BusyRows, InCall, Calling
  <1>2. CASE KeptRows /\ \A w \in Workers : /\ worker'[w].step = worker[w].step
                                            /\ worker'[w].slot = worker[w].slot
                                            /\ worker'[w].number = worker[w].number
    <2>1. ASSUME NEW w \in Workers, worker'[w].step \in Calling
          PROVE  /\ worker'[w].number \in 1 .. Len(attempts'[worker'[w].slot])
                 /\ attempts'[worker'[w].slot][worker'[w].number].status # "COMPLETED"
      BY <1>1, <1>2, <2>1 DEF KeptRows, KeptRow, Row
    <2> QED BY <1>2, <2>1 DEF Filed, Row
  <1>3. ASSUME NEW g \in Generations, Enqueue(g)
        PROVE  Filed'
    BY <1>2, <1>3 DEF Enqueue, KeptRows, KeptRow
  <1>4. CASE Tick
    BY <1>2, <1>4, TickingRows, TickingWorkers
  <1>5. ASSUME NEW w \in Workers, Work(w)
        PROVE  Filed'
    <2>1. \A v \in Workers \ {w} : worker'[v] = worker[v]
      BY <1>5, OthersKept
    <2>2. ASSUME NEW v \in Workers \ {w}, worker'[v].step \in Calling
          PROVE  /\ worker'[v].number \in 1 .. Len(attempts'[worker'[v].slot])
                 /\ attempts'[worker'[v].slot][worker'[v].number].status # "COMPLETED"
      BY <1>1, <1>5, <2>1, <2>2, OtherRow DEF KeptRow, Row
    \* Its attempt is the one it had, or a new one.
    <2>3. ASSUME worker'[w].step \in Calling
          PROVE  /\ worker'[w].number \in 1 .. Len(attempts'[worker'[w].slot])
                 /\ attempts'[worker'[w].slot][worker'[w].number].status # "COMPLETED"
                 /\ \/ /\ worker[w].step \in Calling
                       /\ worker'[w].slot = worker[w].slot /\ worker'[w].number = worker[w].number
                    \/ /\ worker'[w].slot \in Slots
                       /\ worker'[w].number = Len(attempts[worker'[w].slot]) + 1
      <3>1. CASE Heartbeat(w) \/ Answers(w)
        <4>1. /\ attempts' = attempts /\ worker[w].step \in Calling
              /\ worker'[w].slot = worker[w].slot /\ worker'[w].number = worker[w].number
          BY <2>3, <3>1 DEF Heartbeat, Answers, Calling
        <4> QED BY <1>1, <4>1 DEF Row
      <3>2. CASE StartAttempt(w)
        <4> PICK slot \in Slots : slot = worker[w].slot
          BY <3>2, CallContinues
        <4>1. /\ Len(attempts'[slot]) = Len(attempts[slot]) + 1
              /\ attempts'[slot][Len(attempts[slot]) + 1].status = "STARTED"
              /\ Len(attempts[slot]) \in Nat
          BY <3>2, StartedRows, LeaseTypes
        <4>2. worker'[w].slot = slot /\ worker'[w].number = Len(attempts[slot]) + 1
          BY <3>2, <4>1, StartFields
        <4> QED BY <4>1, <4>2
      <3>3. CASE ModerateBatch(w)
        <4> PICK slot, number : slot = worker[w].slot /\ number = worker[w].number
          OBVIOUS
        <4>1. worker[w].step \in Calling /\ worker'[w].slot = slot /\ worker'[w].number = number
          BY <3>3, BatchFields DEF Calling
        <4>2. slot \in Slots /\ number \in 1 .. Len(attempts[slot])
              /\ attempts[slot][number].status # "COMPLETED"
          BY <1>1, <4>1 DEF Row
        <4>3. OnlyRow(slot, number) /\ attempts'[slot][number].status = attempts[slot][number].status
          BY <3>3, <4>2, CleanRows DEF Row
        <4> QED BY <4>1, <4>2, <4>3 DEF OnlyRow
      <3> QED BY <1>5, <2>3, <3>1, <3>2, <3>3, WorkerCases DEF Rests, Enters, Paying, Calling
    <2>4. ASSUME NEW v \in Workers \ {w}, worker'[v].step \in Calling, worker'[w].step \in Calling,
                 worker'[v].slot = worker'[w].slot, worker'[v].number = worker'[w].number
          PROVE  FALSE
      <3>1. worker'[v] = worker[v] /\ worker[v].slot \in Slots
            /\ worker[v].number \in 1 .. Len(attempts[worker[v].slot])
        BY <1>1, <2>1, <2>4
      <3>2. Len(attempts[worker[v].slot]) \in Nat
        BY <3>1, LeaseTypes
      <3>3. worker[w].step \in Calling
            /\ worker'[w].slot = worker[w].slot /\ worker'[w].number = worker[w].number
        BY <2>3, <2>4, <3>1, <3>2
      <3> QED BY <2>4, <3>1, <3>3 DEF Filed
    <2>5. \A u, v \in Workers :
             worker'[u].step \in Calling /\ worker'[v].step \in Calling
             /\ worker'[u].slot = worker'[v].slot /\ worker'[u].number = worker'[v].number
                 => u = v
      <3> SUFFICES ASSUME NEW u \in Workers, NEW v \in Workers, worker'[u].step \in Calling,
                          worker'[v].step \in Calling, worker'[u].slot = worker'[v].slot,
                          worker'[u].number = worker'[v].number
                   PROVE  u = v
        OBVIOUS
      <3>1. CASE u = w \/ v = w
        BY <2>4, <3>1
      <3>2. CASE u # w /\ v # w
        BY <2>1, <3>2 DEF Filed
      <3> QED BY <3>1, <3>2
    <2>6. ASSUME NEW v \in Workers, worker'[v].step \in Calling
          PROVE  /\ worker'[v].number \in 1 .. Len(attempts'[worker'[v].slot])
                 /\ attempts'[worker'[v].slot][worker'[v].number].status # "COMPLETED"
      <3>1. CASE v = w
        BY <2>3, <2>6, <3>1
      <3>2. CASE v # w
        BY <2>2, <2>6, <3>2
      <3> QED BY <3>1, <3>2
    <2>7. \A v \in Workers : worker'[v].step \in Calling =>
             worker'[v].number \in 1 .. Len(attempts'[worker'[v].slot]) /\ Row(v)'.status # "COMPLETED"
      BY <2>6 DEF Row
    <2> QED BY <2>5, <2>7 DEF Filed
  <1> QED BY <1>3, <1>4, <1>5 DEF Next

-----------------------------------------------------------------------------
(* The verdicts of the moderation.                                         *)

LEMMA CheckedStep ==
    ASSUME Rows, Rows', Filed, Checked, Next
    PROVE  Checked'
  <1>1. ASSUME NEW w \in Workers, worker[w].step \in Calling
        PROVE  worker[w].slot \in Slots /\ worker[w].number \in 1 .. Len(attempts[worker[w].slot])
    BY <1>1 DEF Filed, Rows, BusyRows, InCall, Calling
  \* The attempts of calls that go on.
  <1>2. ASSUME NEW w \in Workers, worker[w].step \in Calling, Operation(w) = "MODERATION",
               worker'[w].step = worker[w].step, worker'[w].slot = worker[w].slot,
               worker'[w].number = worker[w].number, worker'[w].batch = worker[w].batch,
               KeptRow(worker[w].slot, worker[w].number)
        PROVE  attempts'[worker'[w].slot][worker'[w].number].clean =
                   IF worker'[w].step = "call" THEN worker'[w].batch ELSE Batches
    BY <1>2 DEF Checked, KeptRow, Row
  <1>3. ASSUME NEW w \in Workers, worker'[w].step \in Calling, worker'[w].slot[1] = "MODERATION"
        PROVE  attempts'[worker'[w].slot][worker'[w].number].clean =
                   IF worker'[w].step = "call" THEN worker'[w].batch ELSE Batches
    <2>1. ASSUME NEW g \in Generations, Enqueue(g)
          PROVE  worker' = worker /\ attempts' = attempts
      BY <2>1 DEF Enqueue
    <2>2. CASE worker' = worker /\ attempts' = attempts
      BY <1>2, <1>3, <2>2 DEF KeptRow, Operation
    <2>3. CASE Tick
      <3>1. /\ worker'[w].step = worker[w].step /\ worker'[w].slot = worker[w].slot
            /\ worker'[w].number = worker[w].number /\ worker'[w].batch = worker[w].batch
        BY <2>3, TickingWorkers
      <3>2. KeptRow(worker[w].slot, worker[w].number)
        BY <1>1, <1>3, <2>3, <3>1, TickingRows DEF KeptRows
      <3> QED BY <1>2, <1>3, <3>1, <3>2 DEF Operation
    <2>4. ASSUME NEW v \in Workers \ {w}, Work(v)
          PROVE  attempts'[worker'[w].slot][worker'[w].number].clean =
                     IF worker'[w].step = "call" THEN worker'[w].batch ELSE Batches
      <3>1. worker'[w] = worker[w]
        BY <2>4, OthersKept
      <3>2. KeptRow(worker[w].slot, worker[w].number)
        BY <1>1, <1>3, <2>4, <3>1, OtherRow
      <3> QED BY <1>2, <1>3, <3>1, <3>2 DEF Operation
    <2>5. CASE Work(w)
      <3>1. CASE Heartbeat(w)
        BY <2>2, <3>1 DEF Heartbeat
      <3>2. ~Answers(w)
        BY <1>3 DEF Answers, Operation
      <3>3. CASE StartAttempt(w)
        <4> PICK slot \in Slots : slot = worker[w].slot
          BY <3>3, CallContinues
        <4>1. /\ Len(attempts'[slot]) = Len(attempts[slot]) + 1
              /\ attempts'[slot][Len(attempts[slot]) + 1].clean = 0
          BY <3>3, StartedRows
        <4> QED BY <3>3, <4>1, StartFields
      <3>4. CASE ModerateBatch(w)
        <4> PICK slot, number : slot = worker[w].slot /\ number = worker[w].number
          OBVIOUS
        <4>1. /\ worker[w].step = "call" /\ Operation(w) = "MODERATION"
              /\ worker'[w].slot = slot /\ worker'[w].number = number
              /\ worker'[w].batch = worker[w].batch + 1
              /\ worker'[w].step = IF worker[w].batch + 1 = Batches THEN "save" ELSE "call"
          BY <3>4, BatchFields
        <4>2. slot \in Slots /\ number \in 1 .. Len(attempts[slot])
          BY <1>1, <4>1 DEF Calling
        <4>3. attempts'[slot][number].clean = Row(w).clean + 1
          BY <3>4, <4>2, CleanRows
        <4>4. Row(w).clean = worker[w].batch
          BY <4>1 DEF Checked, Calling
        <4> QED BY <4>1, <4>3, <4>4
      <3> QED BY <1>3, <2>5, <3>1, <3>2, <3>3, <3>4, WorkerCases DEF Rests, Enters, Paying, Calling
    <2> QED BY <2>1, <2>2, <2>3, <2>4, <2>5 DEF Next
  \* The completed ones.
  <1>4. ASSUME NEW s \in Slots, s[1] = "MODERATION", NEW i \in Completed(s)'
        PROVE  attempts'[s][i].clean = Batches
    <2>1. i \in 1 .. Len(attempts'[s])
      BY Domains DEF Completed
    <2>2. \E g \in Generations : s = <<"MODERATION", g>>
      BY <1>4 DEF Slots
    <2>3. CASE i \in Completed(s) /\ KeptRow(s, i)
      BY <2>2, <2>3 DEF Checked, KeptRow
    <2>4. CASE KeptRows
      <3>1. i \in Completed(s)
        BY <2>4, SameCompleted DEF KeptRows
      <3>2. i \in 1 .. Len(attempts[s])
        BY <2>1, <2>4 DEF KeptRows
      <3> QED BY <2>3, <2>4, <3>1, <3>2 DEF KeptRows
    <2>5. ASSUME NEW w \in Workers, Stores(w)
          PROVE  attempts'[s][i].clean = Batches
      <3>1. worker[w].step = "save" /\ attempts' = SetRow(w, "COMPLETED")
        BY <2>5 DEF Stores, Save, SaveUnacknowledged, Store, Is
      <3> PICK slot \in Slots, number \in {worker[w].number} : slot = worker[w].slot /\ number = worker[w].number
        BY <3>1 DEF Rows, BusyRows, InCall
      <3>2. number \in 1 .. Len(attempts[slot])
        BY <1>1, <3>1 DEF Calling
      <3>3. OnlyRow(slot, number) /\ attempts'[slot][number].clean = Row(w).clean
        BY <3>1, <3>2, StoredRows
      <3>4. CASE s = slot /\ i = number
        BY <1>4, <3>1, <3>3, <3>4 DEF Checked, Calling, Operation
      <3>5. CASE ~(s = slot /\ i = number)
        <4>1. i \in 1 .. Len(attempts[s]) /\ attempts'[s][i] = attempts[s][i]
          BY <2>1, <3>3, <3>5 DEF OnlyRow
        <4>2. i \in Completed(s)
          BY <1>4, <4>1, Domains DEF Completed
        <4> QED BY <2>3, <4>1, <4>2 DEF KeptRow
      <3> QED BY <3>4, <3>5
    <2>6. ASSUME NEW w \in Workers, StartAttempt(w)
          PROVE  attempts'[s][i].clean = Batches
      <3> PICK slot \in Slots : slot = worker[w].slot
        BY <2>6, CallContinues
      <3>1. /\ Len(attempts'[slot]) = Len(attempts[slot]) + 1
            /\ attempts'[slot][Len(attempts[slot]) + 1].status = "STARTED"
            /\ \A j \in 1 .. Len(attempts[slot]) : KeptRow(slot, j)
            /\ \A r \in Slots \ {slot} : attempts'[r] = attempts[r]
        BY <2>6, StartedRows
      <3>2. Len(attempts[slot]) \in Nat
        BY LeaseTypes
      <3>3. attempts'[s][i].status = "COMPLETED"
        BY <1>4 DEF Completed
      <3>4. i \in 1 .. Len(attempts[s]) /\ KeptRow(s, i)
        <4>1. CASE s = slot
          <5>1. i # Len(attempts[slot]) + 1
            BY <3>1, <3>3, <4>1
          <5>2. i \in 1 .. Len(attempts[slot])
            BY <2>1, <3>1, <3>2, <4>1, <5>1
          <5> QED BY <3>1, <4>1, <5>2
        <4>2. CASE s # slot
          BY <2>1, <3>1, <4>2 DEF KeptRow
        <4> QED BY <4>1, <4>2
      <3>5. i \in Completed(s)
        BY <3>3, <3>4, Domains DEF Completed, KeptRow
      <3> QED BY <2>3, <3>4, <3>5
    <2>7. ASSUME NEW w \in Workers, ModerateBatch(w)
          PROVE  attempts'[s][i].clean = Batches
      <3> PICK slot \in Slots, number \in {worker[w].number} : slot = worker[w].slot /\ number = worker[w].number
        BY <2>7, CallContinues
      <3>1. worker[w].step = "call"
        BY <2>7, BatchFields
      <3>2. number \in 1 .. Len(attempts[slot]) /\ Row(w).status # "COMPLETED"
        BY <1>1, <3>1 DEF Filed, Calling
      <3>3. OnlyRow(slot, number) /\ attempts'[slot][number].status = Row(w).status
        BY <2>7, <3>2, CleanRows
      <3>4. attempts'[s][i].status = "COMPLETED"
        BY <1>4 DEF Completed
      <3>5. i \in 1 .. Len(attempts[s]) /\ attempts'[s][i] = attempts[s][i]
        BY <2>1, <3>2, <3>3, <3>4 DEF OnlyRow
      <3>6. i \in Completed(s)
        BY <3>4, <3>5, Domains DEF Completed
      <3> QED BY <2>3, <3>5, <3>6 DEF KeptRow
    <2>8. ASSUME NEW g \in Generations, Enqueue(g)
          PROVE  KeptRows
      BY <2>8 DEF Enqueue, KeptRows, KeptRow
    <2> QED BY <2>4, <2>5, <2>6, <2>7, <2>8, RowCases, TickingRows DEF Next
  <1>5. \A g \in Generations : \A i \in Completed(<<"MODERATION", g>>)' :
           attempts'[<<"MODERATION", g>>][i].clean = Batches
    BY <1>4, SlotKinds
  <1> QED BY <1>3, <1>5 DEF Checked, Row, Operation

-----------------------------------------------------------------------------
(* Whose attempts and what for.                                            *)

LEMMA GenKept ==
    ASSUME Rows, NEW w \in Workers, Work(w), worker'[w].step \notin {"idle", "transcribe"}
    PROVE  worker'[w].gen = worker[w].gen /\ worker'[w].token = worker[w].token
  <1>1. CASE Proceeds(w)
    <2>1. worker'[w] # Idle
      BY DEF Idle
    <2> QED BY <1>1, <2>1, ClaimsKept DEF Proceeds
  <1>2. CASE Heartbeat(w)
    BY <1>2 DEF Heartbeat
  <1>3. ASSUME NEW g \in Generations, Claim(w, g)
        PROVE  FALSE
    BY <1>3, Claiming
  <1> QED BY <1>1, <1>2, <1>3, WorkCases

\* A worker in a payment after a step was in it before, or has just entered it.
LEMMA PayingCases ==
    ASSUME Rows, NEW w \in Workers, Work(w), worker'[w].step \in Paying
    PROVE  /\ worker'[w].gen = worker[w].gen /\ worker'[w].token = worker[w].token
           /\ \/ Enters(w)
              \/ worker[w].step \in Paying /\ worker'[w].slot = worker[w].slot
  <1>1. worker'[w].gen = worker[w].gen /\ worker'[w].token = worker[w].token
    BY GenKept DEF Paying, Calling
  <1>2. CASE Heartbeat(w)
    BY <1>1, <1>2 DEF Heartbeat
  <1>3. CASE Answers(w)
    BY <1>1, <1>3 DEF Answers, Paying, Calling
  <1>4. CASE StartAttempt(w)
    BY <1>1, <1>4, StartFields DEF Paying, Calling
  <1>5. CASE ModerateBatch(w)
    BY <1>1, <1>5, BatchFields DEF Paying, Calling
  <1> QED BY <1>1, <1>2, <1>3, <1>4, <1>5, WorkerCases DEF Rests

\* The same of a step of any worker or none.
LEMMA PayingBefore ==
    ASSUME Rows, Next, NEW w \in Workers, worker'[w].step \in Paying
    PROVE  /\ worker'[w].gen = worker[w].gen /\ worker'[w].token = worker[w].token
           /\ \/ Work(w) /\ Enters(w)
              \/ worker[w].step \in Paying /\ worker'[w].slot = worker[w].slot
  <1>1. CASE Work(w)
    BY <1>1, PayingCases
  <1>2. ASSUME NEW v \in Workers \ {w}, Work(v)
        PROVE  worker'[w] = worker[w]
    BY <1>2, OthersKept
  <1>3. CASE Tick
    BY <1>3, TickingWorkers
  <1>4. ASSUME NEW g \in Generations, Enqueue(g)
        PROVE  worker' = worker
    BY <1>4 DEF Enqueue
  <1> QED BY <1>1, <1>2, <1>3, <1>4 DEF Next

LEMMA AddressedStep ==
    ASSUME Rows, Addressed, Next
    PROVE  Addressed'
  <1> SUFFICES ASSUME NEW w \in Workers, worker'[w].step \in Paying,
                      worker'[w].slot[1] # "TRANSCRIPTION"
               PROVE  worker'[w].slot[2] = worker'[w].gen
    BY DEF Addressed, Operation
  <1>1. CASE Enters(w)
    BY <1>1, PayingBefore DEF Enters
  <1>2. CASE worker[w].step \in Paying /\ worker'[w].slot = worker[w].slot
    BY <1>2, PayingBefore DEF Addressed, Operation
  <1> QED BY <1>1, <1>2, PayingBefore

LEMMA HeardStep ==
    ASSUME Rows, Heard, Next
    PROVE  Heard'
  <1> SUFFICES ASSUME NEW w \in Workers, worker'[w].step = "save",
                      worker'[w].slot[1] = "TRANSCRIPTION"
               PROVE  worker'[w].text # "null"
    BY DEF Heard, Operation
  <1>1. CASE /\ worker'[w].step = worker[w].step /\ worker'[w].slot = worker[w].slot
             /\ worker'[w].text = worker[w].text
    BY <1>1 DEF Heard, Operation
  <1>2. CASE Work(w)
    <2>1. CASE Heartbeat(w)
      BY <1>1, <2>1 DEF Heartbeat
    <2>2. CASE Answers(w)
      BY <2>2 DEF Answers, Operation
    <2>3. ~ModerateBatch(w)
      BY BatchFields DEF Operation
    <2>4. ~StartAttempt(w)
      BY StartFields
    <2> QED BY <1>2, <2>1, <2>2, <2>3, <2>4, WorkerCases DEF Rests, Enters, Paying, Calling
  <1>3. ASSUME NEW v \in Workers \ {w}, Work(v)
        PROVE  worker'[w] = worker[w]
    BY <1>3, OthersKept
  <1>4. CASE Tick
    BY <1>1, <1>4, TickingWorkers
  <1>5. ASSUME NEW g \in Generations, Enqueue(g)
        PROVE  worker' = worker
    BY <1>5 DEF Enqueue
  <1> QED BY <1>1, <1>2, <1>3, <1>4, <1>5 DEF Next

\* A worker that has stored a result pays for nothing next; after the report,
\* nothing is left to pay for.
LEMMA StoresRests ==
    ASSUME Rows, NEW w \in Workers, Stores(w)
    PROVE  Rests(w) /\ (Operation(w) = "REPORT_GENERATION" => worker'[w].step \notin Reading)
  <1>1. worker \in [Workers -> WorkerRows] /\ worker[w].step = "save"
    BY DEF Rows, TypeOK, Stores, Save, SaveUnacknowledged, Store, Is
  <1>2. ASSUME NEW step, NEW done, Return(w, step, done)
        PROVE  worker'[w].step = step
    BY <1>1, <1>2 DEF Return, Idle
  <1>3. CASE Save(w)
    <2>1. CASE Operation(w) = "REPORT_GENERATION"
      <3>1. worker'[w].step = "publish"
        BY <1>2, <1>3, <2>1 DEF Save
      <3> QED BY <3>1 DEF Rests, Reading, Paying, Calling
    <2>2. CASE Operation(w) # "REPORT_GENERATION"
      <3>1. worker'[w].step \in {"transcribe", "report"}
        BY <1>2, <1>3, <2>2 DEF Save, Transcribed
      <3> QED BY <2>2, <3>1 DEF Rests, Paying, Calling
    <2> QED BY <2>1, <2>2
  <1>4. CASE SaveUnacknowledged(w)
    <2>1. PICK step \in {"fail", "close"} :
              worker' = [worker EXCEPT ![w].step = step, ![w].retryable = TRUE, ![w].lost = FALSE]
      BY <1>4 DEF SaveUnacknowledged, Failed
    <2>2. worker'[w].step \in {"fail", "close"}
      BY <1>1, <2>1 DEF WorkerRows
    <2> QED BY <2>2 DEF Rests, Reading, Paying, Calling
  <1> QED BY <1>3, <1>4 DEF Stores

LEMMA SlotPair ==
    \A s \in Slots : s = <<s[1], s[2]>>
  BY DEF Slots

\* Two workers that hold the token of one generation are one.
LEMMA OneHolder ==
    ASSUME Fenced, NEW v \in Workers, NEW w \in Workers, Busy(v), Busy(w),
           HoldsToken(v), HoldsToken(w), worker[v].gen = worker[w].gen
    PROVE  v = w
  BY DEF Fenced, HoldsToken

\* A worker that completes an attempt of a slot of one generation has its token,
\* and there was none completed.
LEMMA StoresOnce ==
    ASSUME Rows, Addressed, Once, NEW w \in Workers, Stores(w), Operation(w) # "TRANSCRIPTION"
    PROVE  /\ Busy(w) /\ HoldsToken(w) /\ worker[w].slot[2] = worker[w].gen
           /\ Completed(worker[w].slot) = {}
  <1>1. worker[w].step = "save" /\ HoldsToken(w)
    BY StoresResult
  <1>2. worker[w].step \in Paying /\ Busy(w)
    BY <1>1 DEF Paying, Calling, Busy
  <1> QED BY <1>1, <1>2, HasCompletedSet DEF Addressed, Once

LEMMA OnceStep ==
    ASSUME Rows, Rows', Fenced, Filed, Addressed, Addressed', Once, Unread, Mirrored, Next
    PROVE  Once'
  <1>1. ASSUME NEW w \in Workers, NEW s \in Slots, worker'[w].step \in Paying, s = worker'[w].slot,
               s[1] # "TRANSCRIPTION", HoldsToken(w)'
        PROVE  ~HasCompleted(s)'
    <2>1. Busy(w) /\ HoldsToken(w) /\ worker'[w].gen = worker[w].gen
      <3>1. Busy(w)'
        BY <1>1 DEF Busy, Paying, Calling
      <3>2. ASSUME NEW g \in Generations, Claim(w, g)
            PROVE  FALSE
        BY <1>1, <3>2, Claiming DEF Paying, Calling
      <3> QED BY <1>1, <3>1, <3>2, HeldBefore
    \* There was none before,
    <2>2. Completed(s) = {}
      <3>1. CASE worker[w].step \in Paying /\ worker'[w].slot = worker[w].slot
        BY <1>1, <2>1, <3>1, HasCompletedSet DEF Once, Operation
      <3>2. CASE Enters(w)
        <4>1. CASE worker[w].step = "report" /\ ~worker[w].result
                   /\ s = <<"REPORT_GENERATION", worker[w].gen>>
          <5>1. worker[w].gen \in Generations /\ ~gen[worker[w].gen].result
            BY <2>1, <4>1 DEF Unread, Reading, Rows, BusyRows, Busy
          <5> QED BY <4>1, <5>1, HasCompletedSet DEF Mirrored
        <4> QED BY <1>1, <3>2, <4>1, HasCompletedSet DEF Enters
      <3> QED BY <1>1, <3>1, <3>2, PayingBefore
    \* and nobody else could complete one.
    <2>3. ASSUME NEW v \in Workers, Stores(v), worker[v].slot = s
          PROVE  FALSE
      <3>1. Busy(v) /\ HoldsToken(v) /\ s[2] = worker[v].gen
        BY <1>1, <2>3, StoresOnce DEF Operation
      <3>2. s[2] = worker[w].gen
        BY <1>1, <2>1 DEF Addressed, Operation
      <3>3. v = w
        BY <2>1, <3>1, <3>2, OneHolder
      <3> QED BY <1>1, <2>3, <3>3, StoresRests DEF Rests
    <2>4. Completed(s)' = Completed(s)
      BY <2>3, Completing, CompletedKept
    <2> QED BY <2>2, <2>4, HasCompletedSet DEF HasCompleted, Completed
  <1>2. ASSUME NEW s \in Slots, s[1] # "TRANSCRIPTION", NEW i \in Completed(s)', NEW j \in Completed(s)'
        PROVE  i = j
    <2>1. CASE Completed(s)' = Completed(s)
      BY <1>2, <2>1 DEF Once
    <2>2. ASSUME NEW w \in Workers, Stores(w)
          PROVE  i = j
      <3>1. PICK slot \in Slots :
                /\ worker[w].slot = slot
                /\ Completed(slot)' = Completed(slot) \cup {worker[w].number}
                /\ \A r \in Slots \ {slot} : Completed(r)' = Completed(r)
        BY <2>2, Completing
      <3>2. CASE s = slot
        <4>1. Completed(s) = {}
          BY <1>2, <2>2, <3>1, <3>2, StoresOnce DEF Operation
        <4> QED BY <1>2, <3>1, <3>2, <4>1
      <3> QED BY <2>1, <3>1, <3>2
    <2> QED BY <2>1, <2>2, CompletedKept
  <1>3. ASSUME NEW w \in Workers, worker'[w].step \in Paying
        PROVE  worker'[w].slot \in Slots
    BY <1>3 DEF Rows, BusyRows, Paying, Calling, InCall
  <1>4. \A w \in Workers :
           worker'[w].step \in Paying /\ Operation(w)' # "TRANSCRIPTION" /\ HoldsToken(w)' =>
              ~HasCompleted(worker[w].slot)'
    <2> SUFFICES ASSUME NEW w \in Workers, worker'[w].step \in Paying,
                        Operation(w)' # "TRANSCRIPTION", HoldsToken(w)'
                 PROVE  ~HasCompleted(worker[w].slot)'
      OBVIOUS
    <2> PICK s \in Slots : s = worker'[w].slot
      BY <1>3
    <2>1. ~HasCompleted(s)'
      BY <1>1 DEF Operation
    <2> QED BY <2>1 DEF HasCompleted
  <1> QED BY <1>2, <1>4 DEF Once

\* What a claim reads of its generation.
LEMMA ClaimReads ==
    ASSUME Rows, NEW w \in Workers, NEW g \in Generations, Claim(w, g)
    PROVE  worker'[w].gen = g /\ worker'[w].result = gen[g].result /\ gen'[g].result = gen[g].result
  <1> DEFINE new == [gen[g] EXCEPT !.status = "PROCESSING", !.token = claims', !.lease = JobTimeout]
  <1>1. gen \in [Generations -> GenRows] /\ worker \in [Workers -> WorkerRows]
    BY DEF Rows, TypeOK
  <1>2. gen'[g] = new
    BY <1>1 DEF Claim
  <1>3. new.result = gen[g].result
    BY <1>1, ResultFields
  <1> HIDE DEF new
  <1> QED BY <1>1, <1>2, <1>3 DEF Claim, Idle

LEMMA UnreadStep ==
    ASSUME Rows, Rows', Fenced, Addressed, Once, Unread, Next
    PROVE  Unread'
  <1> SUFFICES ASSUME NEW w \in Workers, worker'[w].step \in Reading \cup Paying, HoldsToken(w)',
                      ~worker'[w].result
               PROVE  ~gen'[worker'[w].gen].result
    BY DEF Unread
  <1>1. CASE \E g \in Generations : Claim(w, g)
    BY <1>1, ClaimReads
  <1>2. CASE ~\E g \in Generations : Claim(w, g)
    <2>1. Busy(w) /\ HoldsToken(w) /\ worker'[w].gen = worker[w].gen /\ worker[w].gen \in Generations
      <3>1. Busy(w)'
        BY DEF Busy, Reading, Paying, Calling
      <3> QED BY <1>2, <3>1, HeldBefore DEF Rows, BusyRows, Busy
    <2>2. worker[w].step \in Reading \cup Paying /\ ~worker[w].result
      <3>1. CASE Work(w)
        BY <1>2, <3>1, ReadingCases
      <3>2. ASSUME NEW v \in Workers \ {w}, Work(v)
            PROVE  worker'[w] = worker[w]
        BY <3>2, OthersKept
      <3>3. CASE Tick
        BY <3>3, TickingWorkers
      <3>4. ASSUME NEW g \in Generations, Enqueue(g)
            PROVE  worker' = worker
        BY <3>4 DEF Enqueue
      <3> QED BY <3>1, <3>2, <3>3, <3>4 DEF Next
    <2>3. ~gen[worker[w].gen].result
      BY <2>1, <2>2 DEF Unread
    <2>4. ASSUME NEW v \in Workers, Stores(v)
          PROVE  ~gen'[worker[w].gen].result
      <3>1. CASE Operation(v) = "REPORT_GENERATION" /\ worker[v].gen = worker[w].gen
        <4>1. Busy(v) /\ HoldsToken(v)
          BY <2>4, <3>1, StoresOnce
        <4>2. v = w
          BY <2>1, <3>1, <4>1, OneHolder
        <4> QED BY <2>4, <3>1, <4>2, StoresRests DEF Rests
      <3> QED BY <2>1, <2>3, <2>4, <3>1, StoresResult
    <2> QED BY <2>1, <2>3, <2>4, ResultsKept
  <1> QED BY <1>1, <1>2

\* What is completed stays so.
LEMMA CompletedGrows ==
    ASSUME Rows, Filed, Rows', Next, NEW s \in Slots, HasCompleted(s)
    PROVE  HasCompleted(s)'
  <1>1. Completed(s) \subseteq Completed(s)'
    <2>1. ASSUME NEW w \in Workers, Stores(w)
          PROVE  Completed(s) \subseteq Completed(s)'
      BY <2>1, Completing
    <2> QED BY <2>1, CompletedKept
  <1> QED BY <1>1 DEF HasCompleted, Completed

LEMMA PassedStep ==
    ASSUME Rows, Rows', Filed, Addressed, Passed, Next
    PROVE  Passed'
  <1>1. ASSUME NEW w \in Workers, NEW g \in Generations, g = worker'[w].gen,
               worker'[w].step = "report"
               \/ (worker'[w].step \in Paying /\ worker'[w].slot[1] = "REPORT_GENERATION")
        PROVE  HasCompleted(<<"MODERATION", g>>)'
    <2>1. CASE /\ worker'[w].step = worker[w].step /\ worker'[w].slot = worker[w].slot
               /\ worker'[w].gen = worker[w].gen
      <3>1. HasCompleted(<<"MODERATION", g>>)
        BY <1>1, <2>1 DEF Passed, Operation
      <3> QED BY <3>1, CompletedGrows, SlotKinds
    <2>2. CASE Work(w) /\ worker'[w].step = "report"
      <3>1. worker'[w].gen = worker[w].gen
        BY <2>2, GenKept
      <3>2. CASE worker' = worker
        BY <2>1, <3>2
      <3>3. CASE Stores(w) /\ Operation(w) = "MODERATION"
        <4>1. worker[w].slot = <<"MODERATION", g>>
          <5>1. worker[w].slot \in Slots /\ worker[w].step = "save"
            BY <3>3, StoresResult
          <5>2. worker[w].slot[2] = worker[w].gen
            BY <3>3, <5>1 DEF Addressed, Paying, Calling
          <5> QED BY <1>1, <3>1, <3>3, <5>1, <5>2, SlotPair DEF Operation
        <4>2. worker[w].number \in Completed(<<"MODERATION", g>>)'
          BY <3>3, <4>1, Completing
        <4> QED BY <4>2 DEF HasCompleted, Completed
      <3>4. CASE HasCompleted(<<"MODERATION", worker[w].gen>>)
        BY <1>1, <3>1, <3>4, CompletedGrows, SlotKinds
      <3> QED BY <2>2, <3>2, <3>3, <3>4, ReportCases
    <2>3. CASE worker'[w].step \in Paying /\ worker'[w].slot[1] = "REPORT_GENERATION"
      <3>1. worker'[w].gen = worker[w].gen
        BY <2>3, PayingBefore
      <3>2. worker[w].step = "report" \/ (worker[w].step \in Paying /\ Operation(w) = "REPORT_GENERATION")
        BY <2>3, PayingBefore DEF Enters, Operation
      <3>3. HasCompleted(<<"MODERATION", worker[w].gen>>)
        BY <3>2 DEF Passed
      <3> QED BY <1>1, <3>1, <3>3, CompletedGrows, SlotKinds
    <2>4. ASSUME NEW v \in Workers \ {w}, Work(v)
          PROVE  worker'[w] = worker[w]
      BY <2>4, OthersKept
    <2>5. CASE Tick
      BY <2>1, <2>5, TickingWorkers
    <2>6. ASSUME NEW h \in Generations, Enqueue(h)
          PROVE  worker' = worker
      BY <2>6 DEF Enqueue
    <2> QED BY <1>1, <2>1, <2>2, <2>3, <2>4, <2>5, <2>6 DEF Next
  <1>2. ASSUME NEW w \in Workers, worker'[w].step = "report" \/ worker'[w].step \in Paying
        PROVE  worker'[w].gen \in Generations
    BY <1>2 DEF Rows, BusyRows, Paying, Calling
  <1>3. \A w \in Workers :
           worker'[w].step = "report"
           \/ (worker'[w].step \in Paying /\ Operation(w)' = "REPORT_GENERATION")
               => HasCompleted(<<"MODERATION", worker[w].gen>>)'
    <2> SUFFICES ASSUME NEW w \in Workers,
                        worker'[w].step = "report"
                        \/ (worker'[w].step \in Paying /\ Operation(w)' = "REPORT_GENERATION")
                 PROVE  HasCompleted(<<"MODERATION", worker[w].gen>>)'
      OBVIOUS
    <2> PICK g \in Generations : g = worker'[w].gen
      BY <1>2
    <2>1. HasCompleted(<<"MODERATION", g>>)'
      BY <1>1 DEF Operation
    <2> QED BY <2>1 DEF HasCompleted
  <1>4. ASSUME NEW g \in Generations, paid'[<<"REPORT_GENERATION", g>>] > 0
        PROVE  HasCompleted(<<"MODERATION", g>>)'
    <2>1. CASE paid'[<<"REPORT_GENERATION", g>>] = paid[<<"REPORT_GENERATION", g>>]
      BY <1>4, <2>1, CompletedGrows, SlotKinds DEF Passed
    <2>2. CASE paid'[<<"REPORT_GENERATION", g>>] # paid[<<"REPORT_GENERATION", g>>]
      <3>1. PICK w \in Workers : Sends(w) /\ worker[w].slot = <<"REPORT_GENERATION", g>>
        BY <2>2, PaidCases, SlotKinds DEF Rows, TypeOK
      <3>2. worker[w].step \in Paying /\ Operation(w) = "REPORT_GENERATION" /\ worker[w].gen = g
        BY <3>1 DEF Sends, Paying, Calling, Operation, Addressed
      <3>3. HasCompleted(<<"MODERATION", g>>)
        BY <3>2 DEF Passed
      <3> QED BY <3>3, CompletedGrows, SlotKinds
    <2> QED BY <2>1, <2>2
  <1> QED BY <1>3, <1>4 DEF Passed

LEMMA MirroredStep ==
    ASSUME Rows, Rows', Filed, Addressed, Heard, Mirrored, Next
    PROVE  Mirrored'
  <1>1. CASE \A w \in Workers : ~Stores(w)
    <2>1. \A s \in Slots : HasCompleted(s)' = HasCompleted(s)
      BY <1>1, CompletedKept DEF HasCompleted, Completed
    <2> QED BY <1>1, <2>1, ResultsKept, SlotKinds DEF Mirrored
  <1>2. ASSUME NEW w \in Workers, Stores(w)
        PROVE  Mirrored'
    <2>1. PICK slot \in Slots :
              /\ worker[w].slot = slot
              /\ Completed(slot)' = Completed(slot) \cup {worker[w].number}
              /\ \A s \in Slots \ {slot} : Completed(s)' = Completed(s)
      BY <1>2, Completing
    <2>2. /\ HasCompleted(slot)' = TRUE
          /\ \A s \in Slots \ {slot} : HasCompleted(s)' = HasCompleted(s)
      BY <2>1 DEF HasCompleted, Completed
    <2>3. /\ worker[w].step = "save" /\ worker[w].gen \in Generations
          /\ \A g \in Generations : gen'[g].result <=>
                gen[g].result \/ (slot[1] = "REPORT_GENERATION" /\ g = worker[w].gen)
          /\ \A a \in Audio : transcription'[a].text =
                IF slot[1] = "TRANSCRIPTION" /\ a = slot[2] THEN worker[w].text
                ELSE transcription[a].text
      BY <1>2, <2>1, StoresResult DEF Operation, Asset
    <2>4. slot[1] # "TRANSCRIPTION" => slot[2] = worker[w].gen
      BY <2>1, <2>3 DEF Addressed, Operation, Paying, Calling
    <2>5. slot = <<slot[1], slot[2]>>
      BY SlotPair
    <2>6. ASSUME NEW g \in Generations
          PROVE  gen'[g].result <=> HasCompleted(<<"REPORT_GENERATION", g>>)'
      <3>1. CASE slot = <<"REPORT_GENERATION", g>>
        BY <2>2, <2>3, <2>4, <3>1
      <3>2. CASE slot # <<"REPORT_GENERATION", g>>
        <4>1. gen'[g].result <=> gen[g].result
          BY <2>3, <2>4, <2>5, <3>2
        <4>2. HasCompleted(<<"REPORT_GENERATION", g>>)' = HasCompleted(<<"REPORT_GENERATION", g>>)
          BY <2>2, <3>2, SlotKinds
        <4> QED BY <4>1, <4>2 DEF Mirrored
      <3> QED BY <3>1, <3>2
    <2>7. ASSUME NEW a \in Audio
          PROVE  transcription'[a].text # "null" <=> HasCompleted(<<"TRANSCRIPTION", a>>)'
      <3>1. CASE slot = <<"TRANSCRIPTION", a>>
        <4>1. worker[w].text # "null"
          BY <2>1, <2>3, <3>1 DEF Heard, Operation
        <4> QED BY <2>2, <2>3, <3>1, <4>1
      <3>2. CASE slot # <<"TRANSCRIPTION", a>>
        <4>1. transcription'[a].text = transcription[a].text
          BY <2>3, <2>5, <3>2
        <4>2. HasCompleted(<<"TRANSCRIPTION", a>>)' = HasCompleted(<<"TRANSCRIPTION", a>>)
          BY <2>2, <3>2, SlotKinds
        <4> QED BY <4>1, <4>2 DEF Mirrored
      <3> QED BY <3>1, <3>2
    <2> QED BY <2>6, <2>7 DEF Mirrored
  <1> QED BY <1>1, <1>2

-----------------------------------------------------------------------------
(* The invariant of the results, and what follows from it.                 *)

RInv ==
    IInv /\ Filed /\ Addressed /\ Checked /\ Heard /\ Once /\ Unread /\ Passed /\ Mirrored

LEMMA InitRInv ==
    ASSUME Init
    PROVE  RInv
  <1>1. IInv
    BY InitIInv
  <1>2. \A w \in Workers : worker[w] = Idle /\ worker[w].step = "idle"
    BY DEF Init, Idle
  <1>3. \A s \in Slots : attempts[s] = << >> /\ Completed(s) = {} /\ paid[s] = 0
    BY DEF Init, Completed
  <1>4. \A s \in Slots : ~HasCompleted(s)
    BY <1>3, HasCompletedSet
  <1>5. Filed /\ Addressed /\ Heard /\ Unread
    BY <1>2 DEF Filed, Addressed, Heard, Unread, Calling, Paying, Reading
  <1>6. Checked /\ Once
    BY <1>2, <1>3, SlotKinds DEF Checked, Once, Calling, Paying
  <1>7. Passed
    BY <1>2, <1>3, SlotKinds DEF Passed, Calling, Paying
  <1>8. Mirrored
    BY <1>4, SlotKinds DEF Mirrored, Init
  <1> QED BY <1>1, <1>5, <1>6, <1>7, <1>8 DEF RInv

LEMMA StepRInv ==
    ASSUME RInv, [Next]_vars
    PROVE  RInv'
  <1>1. IInv /\ IInv'
    BY StepIInv DEF RInv
  <1>2. Rows /\ Rows' /\ Fenced
    BY <1>1 DEF IInv
  <1>3. CASE Next
    <2>1. Filed' /\ Addressed'
      BY <1>2, <1>3, FiledStep, AddressedStep DEF RInv
    <2>2. Checked' /\ Heard' /\ Passed' /\ Mirrored'
      BY <1>2, <1>3, CheckedStep, HeardStep, PassedStep, MirroredStep DEF RInv
    <2>3. Once' /\ Unread'
      BY <1>2, <1>3, <2>1, OnceStep, UnreadStep DEF RInv
    <2> QED BY <1>1, <2>1, <2>2, <2>3 DEF RInv
  <1>4. CASE UNCHANGED vars
    <2>1. Filed' /\ Addressed' /\ Checked' /\ Heard'
      BY <1>4 DEF vars, RInv, Filed, Addressed, Checked, Heard, Operation, Row, Completed
    <2>2. Once' /\ Unread' /\ Passed' /\ Mirrored'
      BY <1>4 DEF vars, RInv, Once, Unread, Passed, Mirrored, Operation, Completed, HasCompleted,
             HoldsToken
    <2> QED BY <1>1, <2>1, <2>2 DEF RInv
  <1> QED BY <1>3, <1>4

LEMMA AlwaysRInv == Spec => []RInv
  BY InitRInv, StepRInv, PTL DEF Spec

\* An attempt is recorded as COMPLETED exactly when its result is stored, and
\* one moderation and one report of a generation at most: the transactions of
\* completeOwned, persistReportResult and getOrCreate.
THEOREM ResultsStoredOnce == Spec => []ResultsMatchAttempts
  <1>1. RInv => ResultsMatchAttempts
    <2> SUFFICES ASSUME RInv
                 PROVE  ResultsMatchAttempts
      OBVIOUS
    <2>1. ASSUME NEW s \in Slots, s[1] # "TRANSCRIPTION"
          PROVE  Cardinality(Completed(s)) <= 1
      <3>1. CASE Completed(s) = {}
        <4>1. Cardinality(Completed(s)) = 0
          BY <3>1, FS_EmptySet, Zenon
        <4> QED BY <4>1
      <3>2. CASE Completed(s) # {}
        <4> PICK i : i \in Completed(s)
          BY <3>2
        <4>1. Completed(s) = {i}
          BY <2>1 DEF RInv, Once
        <4>2. Cardinality({i}) = 1
          BY FS_Singleton, Zenon
        <4>3. Cardinality(Completed(s)) = 1
          BY <4>1, <4>2, Zenon
        <4> QED BY <4>3
      <3> QED BY <3>1, <3>2
    <2> QED BY <2>1 DEF RInv, Mirrored, ResultsMatchAttempts
  <1> QED BY <1>1, AlwaysRInv, PTL

\* The report model is asked about nothing that a moderation attempt of the
\* generation has not found clean in all its batches: process moderates first,
\* and goes on only behind a completed moderation.
THEOREM ReportsModerated == Spec => []ModeratedFirst
  <1>1. RInv => ModeratedFirst
    <2> SUFFICES ASSUME RInv, NEW g \in Generations, paid[<<"REPORT_GENERATION", g>>] > 0
                 PROVE  \E i \in Completed(<<"MODERATION", g>>) :
                            attempts[<<"MODERATION", g>>][i].clean = Batches
      BY DEF ModeratedFirst
    <2>1. Completed(<<"MODERATION", g>>) # {}
      BY HasCompletedSet DEF RInv, Passed
    <2> QED BY <2>1 DEF RInv, Checked
  <1> QED BY <1>1, AlwaysRInv, PTL

\* A completed moderation or report call is not paid for again, whoever takes
\* the generation over and whatever acknowledgement was lost.
THEOREM CompletedNotRepeated == Spec => ResumesCompleted
  <1>1. RInv /\ [Next]_vars =>
           [\A s \in Slots : s[1] # "TRANSCRIPTION" /\ HasCompleted(s) => paid'[s] = paid[s]]_vars
    <2> SUFFICES ASSUME RInv, [Next]_vars, NEW s \in Slots, s[1] # "TRANSCRIPTION", HasCompleted(s)
                 PROVE  paid'[s] = paid[s]
      OBVIOUS
    <2>1. Rows /\ Fenced
      BY DEF RInv, IInv
    <2>2. ASSUME NEW w \in Workers, Sends(w)
          PROVE  worker[w].slot # s
      <3>1. worker[w].step \in Paying /\ HoldsToken(w)
        BY <2>1, <2>2 DEF Sends, Fenced, Busy, Paying, Calling
      <3> QED BY <3>1 DEF RInv, Once, Operation
    <2>3. paid \in [Slots -> Nat]
      BY <2>1 DEF Rows, TypeOK
    <2>4. CASE UNCHANGED vars
      BY <2>4 DEF vars
    <2>5. CASE Next
      BY <2>1, <2>2, <2>3, <2>5, PaidCases
    <2> QED BY <2>4, <2>5
  <1> QED BY <1>1, AlwaysRInv, PTL DEF Spec, ResumesCompleted

=============================================================================
