-------------------------- MODULE ReportStorageProofs --------------------------
(***************************************************************************)
(* Proofs about the stored objects of a report, for any number of reports, *)
(* assets and requests.                                                    *)
(*                                                                         *)
(* A request sees the tables and S3 only between its awaits, so most of    *)
(* the argument is about what stays true of a row or a key once a request  *)
(* has decided on it.  What a step does to one asset, report, contract,    *)
(* key or request is stated once, in AssetMoves to RowMoves, and the       *)
(* invariants are proved from those lemmas:                                *)
(*   - Base holds whatever fails.  Its core is Finished: nothing can be    *)
(*     stored any more under a key that is to be deleted (WritableEnds).   *)
(*   - Owned: a stored object is known to a row, a task, a report or the   *)
(*     duplication that made it.                                           *)
(*   - Held: what is marked for deletion can never become READY            *)
(*     (CondemnedStays), while a verified upload is stored and in time.    *)
(*   - LimitsHold: a slot that is being confirmed counts until it is READY *)
(*     (InSlot), and the copies of a duplication fit (CopiesFit).  Sizes   *)
(*     are added up by counting bytes (BytesAreUnits).                     *)
(***************************************************************************)
EXTENDS ReportStorage, FiniteSetTheorems, TLAPS

\* Where a request is, or goes on when the objects of its keys are deleted.
Stage(row) == IF row.step = "erase" THEN row.after ELSE row.step

\* What a request has decided on before it is there.
NamesReport == {"list", "expire", "expireRow", "slot"}
NamesAsset == {"expireRow", "sign", "confirm", "head", "inspect", "ready", "reject",
               "rejectRow", "find", "drop"}
SoundRows ==
    {row \in CallRows :
        /\ row.after \in {"idle", "list", "expire", "expireRow", "rejectRow"}
        /\ Stage(row) \in NamesReport => row.report \in Reports
        /\ Stage(row) \in NamesAsset => row.asset \in Assets}

Types == TypeOK /\ call \in [Calls -> SoundRows]

\* An id that a request knows of was that of a row.
Entered(a) == asset[a].status \in RowStatus \cup {"DELETED"}
Known ==
    \A c \in Calls : /\ call[c].asset # NULL => Entered(call[c].asset)
                     /\ \A a \in call[c].list : Entered(a)

\* Copies are made under ids that nothing else uses.
Drawn ==
    /\ \A c \in Calls : \A a \in call[c].copies : asset[a].status \notin {"ABSENT", "PENDING"}
    /\ \A c \in Calls : \A a \in call[c].copies : At(c, "copy") => asset[a].status = "COPY"
    /\ \A c, d \in Calls : \A a \in call[c].copies \cap call[d].copies :
          At(c, "copy") /\ call[d].step \in {"copy", "rollback"} => c = d

Fresh == \A a \in Assets : asset[a].status = "ABSENT" => contract[a] = "none" /\ objects[a] = "none"

\* What may still be stored under a key.
Writable(k) ==
    \/ k \in Assets /\ asset[k].status = "ABSENT"
    \/ k \in Assets /\ asset[k].status = "PENDING" /\ ~Expired(k) /\ contract[k] # "closed"
    \/ \E r \in Reports : k = Output(r) /\ report[r] # "DELETED"
Erasable(k) == k \in cleanup \/ \E c \in Calls : k \in call[c].todo \cup call[c].done

\* An object is deleted when nothing can be stored under its key any more.
Finished ==
    /\ \A k \in Keys : Erasable(k) => ~Writable(k)
    /\ \A c \in Calls : \A a \in call[c].list : ~Writable(a)

\* An upload is confirmed when its client has stopped uploading.
Closed ==
    \A c \in Calls : call[c].step \in {"confirm", "head", "inspect", "ready", "reject"} =>
        contract[call[c].asset] = "closed"
Erased == \A c \in Calls : \A k \in call[c].done : objects[k] = "none"

\* The slot of a request that has not got its upload contract is empty.
Unsigned ==
    /\ \A c \in Calls : At(c, "sign") => contract[call[c].asset] # "open" /\ objects[call[c].asset] = "none"
    /\ \A c, d \in Calls : At(c, "sign") /\ At(d, "sign") /\ call[c].asset = call[d].asset => c = d

Owned ==
    \A k \in Keys : objects[k] # "none" =>
        \/ k \in cleanup
        \/ k \in Assets /\ HasRow(k)
        \/ \E c \in Calls : k \in call[c].copies /\ call[c].step \in {"copy", "rollback"}
        \/ \E r \in Reports : k \in OutputOf(r)

Doomed(a) == Expired(a) \/ (contract[a] = "closed" /\ objects[a] # "good")
Condemned(a) ==
    \/ asset[a].status \in {"REJECTED", "DELETED"}
    \/ asset[a].status = "PENDING" /\ Doomed(a)
    \/ asset[a].status = "COPY" /\ \A c \in Calls : At(c, "copy") => a \notin call[c].copies

Marked(a) ==
    \/ a \in cleanup
    \/ \E c \in Calls :
        \/ a \in call[c].todo
        \/ At(c, "reject") /\ a = call[c].asset
        \/ Stage(call[c]) \in {"expire", "expireRow"} /\ a \in call[c].list
        \/ At(c, "rollback") /\ a \in call[c].copies
Spared == \A a \in Assets : Marked(a) => Condemned(a)

Verifying ==
    \A c \in Calls :
        /\ call[c].step \in {"head", "inspect", "ready"} /\ asset[call[c].asset].status = "PENDING" =>
              ~Expired(call[c].asset)
        /\ At(c, "ready") /\ asset[call[c].asset].status = "PENDING" => objects[call[c].asset] = "good"

Copying ==
    \A c \in Calls : At(c, "copy") =>
        /\ \A a \in call[c].list : asset[a].status \in {"READY", "DELETED"} /\ objects[a] # "bad"
        /\ \A a \in call[c].copies : objects[a] = "good"

-----------------------------------------------------------------------------
(* Types.                                                                  *)

LEMMA IdleRow == IdleCall \in SoundRows
  BY DEF IdleCall, SoundRows, CallRows, Steps, Stage, NamesReport, NamesAsset

LEMMA StepRow ==
    ASSUME NEW row \in SoundRows, NEW step \in Steps \ {"erase"},
           step \in NamesReport => row.report \in Reports,
           step \in NamesAsset => row.asset \in Assets
    PROVE  [row EXCEPT !.step = step] \in SoundRows
  BY DEF SoundRows, CallRows, Stage

LEMMA ErasingRow ==
    ASSUME NEW row \in SoundRows, NEW keys \in SUBSET Keys,
           NEW after \in {"idle", "list", "expire", "expireRow", "rejectRow"},
           after \in NamesReport => row.report \in Reports,
           after \in NamesAsset => row.asset \in Assets
    PROVE  Erasing(row, keys, after) \in SoundRows
  <1> DEFINE new == Erasing(row, keys, after)
  <1>1. row \in CallRows
    BY DEF SoundRows
  <1>2. new \in CallRows
    BY <1>1 DEF CallRows, Steps, Erasing
  <1>3. /\ new.step = "erase" /\ new.after = after
        /\ new.report = row.report /\ new.asset = row.asset
    BY <1>1 DEF CallRows, Erasing
  <1> HIDE DEF new
  <1>4. Stage(new) = after
    BY <1>3 DEF Stage
  <1>5. new \in SoundRows
    BY <1>2, <1>3, <1>4 DEF SoundRows
  <1> QED BY <1>5 DEF new

LEMMA GoRow ==
    ASSUME Types, NEW c \in Calls, NEW row, Go(c, row)
    PROVE  /\ call'[c] = row /\ \A d \in Calls \ {c} : call'[d] = call[d]
           /\ row \in SoundRows => call' \in [Calls -> SoundRows]
  BY DEF Types, Go

LEMMA Fields ==
    ASSUME Types, NEW c \in Calls
    PROVE  /\ call[c] \in SoundRows /\ call[c] \in CallRows
           /\ call[c].list \subseteq Assets /\ call[c].copies \subseteq Assets
           /\ call[c].todo \subseteq Keys /\ call[c].done \subseteq Keys
           /\ Assets \subseteq Keys
  BY DEF Types, SoundRows, CallRows, Keys

\* The steps of a request that write no table and no object.
Quiet(c) ==
    \/ EraseError(c) \/ EraseEnd(c) \/ ListExpired(c) \/ ExpireEnd(c) \/ SlotRefused(c)
    \/ ConfirmCheck(c) \/ ConfirmHead(c) \/ ConfirmInspect(c) \/ ConfirmReadError(c)
    \/ DeleteFind(c) \/ DuplicateError(c) \/ Abort(c)
    \/ \E a \in Assets : DeleteBegin(c, a)
    \/ \E r \in Reports : RequestBegin(c, r) \/ DuplicateBegin(c, r)

LEMMA QuietKeeps ==
    ASSUME NEW c \in Calls, Quiet(c)
    PROVE  UNCHANGED <<report, sources, asset, contract, objects, cleanup>>
  BY DEF Quiet, EraseError, EraseEnd, ListExpired, ExpireEnd, SlotRefused, ConfirmCheck, ConfirmHead,
         ConfirmInspect, ConfirmReadError, DeleteFind, DuplicateError, Abort, DeleteBegin,
         RequestBegin, DuplicateBegin

\* A step of a request goes on at a named step, or ends it.
LEMMA GoToRow ==
    ASSUME Types, NEW c \in Calls, NEW step \in Steps \ {"erase"}, GoTo(c, step),
           step \in NamesReport => call[c].report \in Reports,
           step \in NamesAsset => call[c].asset \in Assets
    PROVE  call' \in [Calls -> SoundRows]
  BY GoRow, StepRow, Fields DEF GoTo

LEMMA EndRow ==
    ASSUME Types, NEW c \in Calls, EndCall(c)
    PROVE  call' \in [Calls -> SoundRows]
  BY GoRow, IdleRow DEF EndCall

LEMMA QuietCalls ==
    ASSUME Types, NEW c \in Calls, Quiet(c)
    PROVE  call' \in [Calls -> SoundRows]
  <1> DEFINE row == call[c]
  <1>1. /\ row \in SoundRows /\ row \in CallRows
        /\ row.todo \in SUBSET Keys /\ row.done \in SUBSET Keys /\ row.list \in SUBSET Assets
    BY Fields
  <1>2. CASE EraseError(c)
    <2>1. CASE EndCall(c)
      BY <2>1, EndRow
    <2>2. CASE ~EndCall(c)
      <3>1. PICK k \in row.todo, after \in {row.after, "expire"} :
               /\ row.step = "erase" /\ (after = row.after \/ row.after = "expireRow")
               /\ Go(c, [[row EXCEPT !.todo = @ \ {k}] EXCEPT !.after = after])
        BY <1>2, <2>2 DEF EraseError, At
      <3>2. [[row EXCEPT !.todo = @ \ {k}] EXCEPT !.after = after] \in SoundRows
        BY <1>1, <3>1 DEF SoundRows, CallRows, Stage, Steps, NamesReport, NamesAsset
      <3> QED BY <3>1, <3>2, GoRow
    <2> QED BY <2>1, <2>2
  <1>3. CASE EraseEnd(c)
    <2>1. CASE EndCall(c)
      BY <2>1, EndRow
    <2>2. CASE GoTo(c, row.after)
      <3>1. row.step = "erase"
        BY <1>3 DEF EraseEnd, At
      <3> QED BY <1>1, <2>2, <3>1, GoToRow DEF SoundRows, Stage, Steps
    <2> QED BY <1>3, <2>1, <2>2 DEF EraseEnd
  <1>4. CASE ListExpired(c)
    <2>1. PICK step \in {"slot", "expire"}, list \in SUBSET Assets :
             row.step = "list" /\ Go(c, [row EXCEPT !.step = step, !.list = list])
      BY <1>4 DEF ListExpired, At, AssetsOf
    <2>2. [row EXCEPT !.step = step, !.list = list] \in SoundRows
      BY <1>1, <2>1 DEF SoundRows, CallRows, Stage, Steps, NamesReport, NamesAsset
    <2> QED BY <2>1, <2>2, GoRow
  <1>5. CASE ExpireEnd(c)
    BY <1>1, <1>5, GoToRow DEF ExpireEnd, At, SoundRows, Stage, Steps, NamesReport, NamesAsset
  <1>6. CASE ConfirmCheck(c) \/ ConfirmHead(c) \/ ConfirmInspect(c) \/ ConfirmReadError(c)
    <2>1. row.step \in {"confirm", "head", "inspect"}
          /\ (EndCall(c) \/ \E step \in {"reject", "head", "inspect", "ready"} : GoTo(c, step))
      BY <1>6 DEF ConfirmCheck, ConfirmHead, ConfirmInspect, ConfirmReadError, At
    <2>2. row.asset \in Assets
      BY <1>1, <2>1 DEF SoundRows, Stage, NamesAsset
    <2> QED BY <2>1, <2>2, EndRow, GoToRow DEF Steps, NamesReport
  <1>7. CASE DeleteFind(c) \/ DuplicateError(c)
    <2>1. \/ EndCall(c)
          \/ row.step = "find" /\ GoTo(c, "drop")
          \/ GoTo(c, "rollback")
      BY <1>7 DEF DeleteFind, DuplicateError, At
    <2>2. row.step = "find" => row.asset \in Assets
      BY <1>1 DEF SoundRows, Stage, NamesAsset
    <2> QED BY <2>1, <2>2, EndRow, GoToRow DEF Steps, NamesReport, NamesAsset
  <1>8. CASE SlotRefused(c) \/ Abort(c)
    BY <1>8, EndRow DEF SlotRefused, Abort
  <1>9. ASSUME NEW a \in Assets, DeleteBegin(c, a)
        PROVE  call' \in [Calls -> SoundRows]
    <2>1. HasRow(a) /\ asset[a].report \in Reports \cup {NULL}
      BY <1>9 DEF DeleteBegin, Types, TypeOK, AssetRows
    <2>2. [IdleCall EXCEPT !.step = "find", !.report = asset[a].report, !.asset = a] \in SoundRows
      BY <2>1 DEF IdleCall, SoundRows, CallRows, Steps, Stage, NamesReport, NamesAsset
    <2> QED BY <1>9, <2>2, GoRow DEF DeleteBegin
  <1>10. ASSUME NEW r \in Reports, RequestBegin(c, r)
         PROVE  call' \in [Calls -> SoundRows]
    <2>1. [IdleCall EXCEPT !.report = r] \in SoundRows /\ [IdleCall EXCEPT !.report = r].report = r
      BY DEF IdleCall, SoundRows, CallRows, Steps, Stage, NamesReport, NamesAsset
    <2>2. cleanup \in SUBSET Keys
      BY DEF Types, TypeOK
    <2>3. Erasing([IdleCall EXCEPT !.report = r], cleanup, "list") \in SoundRows
      BY <2>1, <2>2, ErasingRow DEF NamesAsset
    <2> QED BY <1>10, <2>3, GoRow DEF RequestBegin
  <1>11. ASSUME NEW r \in Reports, DuplicateBegin(c, r)
         PROVE  call' \in [Calls -> SoundRows]
    <2>1. PICK list \in SUBSET Assets :
             Go(c, [IdleCall EXCEPT !.step = "copy", !.report = r, !.list = list])
      BY <1>11 DEF DuplicateBegin, AssetsOf
    <2>2. [IdleCall EXCEPT !.step = "copy", !.report = r, !.list = list] \in SoundRows
      BY DEF IdleCall, SoundRows, CallRows, Steps, Stage, NamesReport, NamesAsset
    <2> QED BY <2>1, <2>2, GoRow
  <1> QED BY <1>2, <1>3, <1>4, <1>5, <1>6, <1>7, <1>8, <1>9, <1>10, <1>11 DEF Quiet

\* The other steps of a request, which write tables or objects.
Writes(c) ==
    \/ EraseObject(c) \/ EraseTask(c) \/ Expire(c) \/ ExpireRow(c) \/ Sign(c) \/ SignError(c)
    \/ ConfirmReady(c) \/ Reject(c) \/ RejectRowEnd(c) \/ DeleteRow(c)
    \/ CopyObject(c) \/ CopyError(c) \/ Rollback(c)
    \/ \E a \in Assets : ReserveSlot(c, a) \/ ConfirmBegin(c, a)
    \/ \E r \in Reports : DeleteReport(c, r) \/ DuplicateCommit(c, r) \/ DuplicateAckLost(c, r)

\* What others do.
Outside ==
    \/ \E a \in Assets : Upload(a)
    \/ \E r \in Reports : StartGeneration(r) \/ EndGeneration(r)
    \/ Tick

LEMMA NextCases ==
    ASSUME Next
    PROVE  (\E c \in Calls : Quiet(c) \/ Writes(c)) \/ Outside
  BY DEF Next, Quiet, Writes, Outside

LEMMA WritingCalls ==
    ASSUME Types, NEW c \in Calls, Writes(c)
    PROVE  call' \in [Calls -> SoundRows]
  <1> DEFINE row == call[c]
  <1>1. /\ row \in SoundRows /\ row \in CallRows /\ row.copies \in SUBSET Keys
        /\ row.todo \in SUBSET Keys /\ row.done \in SUBSET Keys /\ Assets \subseteq Keys
    BY Fields
  <1>2. CASE EraseObject(c) \/ EraseTask(c)
    <2>1. PICK todo \in SUBSET Keys, done \in SUBSET Keys : Go(c, [row EXCEPT !.todo = todo, !.done = done])
      <3>1. CASE EraseObject(c)
        BY <1>1, <3>1 DEF EraseObject
      <3>2. CASE EraseTask(c)
        <4>1. PICK k \in row.done : Go(c, [row EXCEPT !.done = @ \ {k}])
          BY <3>2 DEF EraseTask
        <4>2. [row EXCEPT !.done = @ \ {k}] = [row EXCEPT !.todo = row.todo, !.done = row.done \ {k}]
          BY <1>1 DEF CallRows
        <4> QED BY <1>1, <4>1, <4>2
      <3> QED BY <1>2, <3>1, <3>2
    <2>2. [row EXCEPT !.todo = todo, !.done = done] \in SoundRows
      BY <1>1 DEF SoundRows, CallRows, Stage
    <2> QED BY <2>1, <2>2, GoRow
  <1>3. CASE Expire(c)
    <2>1. PICK a \in row.list, list \in SUBSET Assets :
             Go(c, Erasing([row EXCEPT !.asset = a, !.list = list], {a}, "expireRow"))
      BY <1>3, Fields DEF Expire
    <2>2. row.step = "expire" /\ a \in Assets
      BY <1>3, Fields DEF Expire, At
    <2> DEFINE new == [row EXCEPT !.asset = a, !.list = list]
    <2>3. new \in SoundRows /\ new.report \in Reports /\ new.asset = a
      BY <1>1, <2>2 DEF SoundRows, CallRows, Stage, NamesReport, NamesAsset
    <2> HIDE DEF new
    <2>4. Erasing(new, {a}, "expireRow") \in SoundRows
      BY <1>1, <2>2, <2>3, ErasingRow
    <2> QED BY <2>1, <2>4, GoRow DEF new
  <1>4. CASE ExpireRow(c)
    <2>1. row.step = "expireRow" /\ row.report \in Reports
      BY <1>1, <1>4 DEF ExpireRow, At, SoundRows, Stage, NamesReport
    <2> QED BY <1>4, <2>1, GoToRow DEF ExpireRow, Steps, NamesAsset
  <1>5. CASE \/ Sign(c) \/ SignError(c) \/ ConfirmReady(c) \/ RejectRowEnd(c)
             \/ \E r \in Reports : DuplicateCommit(c, r)
    BY <1>5, EndRow DEF Sign, SignError, ConfirmReady, RejectRowEnd, DuplicateCommit
  <1>6. CASE Reject(c) \/ DeleteRow(c)
    <2>1. row.step \in {"reject", "drop"}
          /\ \E after \in {"rejectRow", "idle"} : Go(c, Erasing(row, {row.asset}, after))
      BY <1>6 DEF Reject, DeleteRow, At
    <2>2. row.asset \in Assets
      BY <1>1, <2>1 DEF SoundRows, Stage, NamesAsset
    <2>3. \A after \in {"rejectRow", "idle"} : Erasing(row, {row.asset}, after) \in SoundRows
      BY <1>1, <2>2, ErasingRow DEF NamesReport
    <2> QED BY <2>1, <2>3, GoRow
  <1>7. CASE CopyObject(c) \/ CopyError(c) \/ \E r \in Reports : DuplicateAckLost(c, r)
    <2>1. CASE GoTo(c, "rollback")
      BY <2>1, GoToRow DEF Steps, NamesReport, NamesAsset
    <2>2. CASE CopyObject(c) /\ ~GoTo(c, "rollback")
      <3>1. PICK a \in row.list, b \in Assets :
               Go(c, [row EXCEPT !.list = @ \ {a}, !.copies = @ \cup {b}])
        BY <2>2 DEF CopyObject
      <3>2. [row EXCEPT !.list = @ \ {a}, !.copies = @ \cup {b}] \in SoundRows
        BY <1>1 DEF SoundRows, CallRows, Stage
      <3> QED BY <3>1, <3>2, GoRow
    <2> QED BY <1>7, <2>1, <2>2 DEF CopyError, DuplicateAckLost
  <1>8. CASE Rollback(c)
    <2>1. Go(c, Erasing(row, row.copies, "idle"))
      BY <1>8 DEF Rollback
    <2>2. Erasing(row, row.copies, "idle") \in SoundRows
      BY <1>1, ErasingRow DEF NamesReport, NamesAsset
    <2> QED BY <2>1, <2>2, GoRow
  <1>9. ASSUME NEW a \in Assets, ReserveSlot(c, a)
        PROVE  call' \in [Calls -> SoundRows]
    <2>1. [row EXCEPT !.step = "sign", !.asset = a] \in SoundRows
      BY <1>1 DEF SoundRows, CallRows, Stage, Steps, NamesReport, NamesAsset
    <2> QED BY <1>9, <2>1, GoRow DEF ReserveSlot
  <1>10. ASSUME NEW a \in Assets, ConfirmBegin(c, a)
         PROVE  call' \in [Calls -> SoundRows]
    <2>1. asset[a].report \in Reports \cup {NULL}
      BY DEF Types, TypeOK, AssetRows
    <2>2. [IdleCall EXCEPT !.step = "confirm", !.report = asset[a].report, !.asset = a] \in SoundRows
      BY <2>1 DEF IdleCall, SoundRows, CallRows, Steps, Stage, NamesReport, NamesAsset
    <2> QED BY <1>10, <2>2, GoRow DEF ConfirmBegin
  <1>11. ASSUME NEW r \in Reports, DeleteReport(c, r)
         PROVE  call' \in [Calls -> SoundRows]
    <2>1. AssetsOf(r) \cup OutputOf(r) \in SUBSET Keys
      BY DEF AssetsOf, OutputOf, Keys
    <2>2. Erasing(IdleCall, AssetsOf(r) \cup OutputOf(r), "idle") \in SoundRows
      BY <2>1, IdleRow, ErasingRow DEF NamesReport, NamesAsset
    <2> QED BY <1>11, <2>2, GoRow DEF DeleteReport
  <1> QED BY <1>2, <1>3, <1>4, <1>5, <1>6, <1>7, <1>8, <1>9, <1>10, <1>11 DEF Writes

LEMMA OutsideCalls ==
    ASSUME Outside
    PROVE  call' = call
  BY DEF Outside, Upload, StartGeneration, EndGeneration, Tick

LEMMA CallsStep ==
    ASSUME Types, Next
    PROVE  call' \in [Calls -> SoundRows]
  BY NextCases, QuietCalls, WritingCalls, OutsideCalls DEF Types

-----------------------------------------------------------------------------
(* What a step does to a row of an asset.                                  *)

Draws(a) == asset[a].status = "ABSENT" /\ asset'[a] = [asset[a] EXCEPT !.status = "COPY"]
Slots(a) ==
    /\ asset[a].status = "ABSENT"
    /\ \E c \in Calls : ReserveSlot(c, a)
    /\ \E r \in Reports : Editable(r) /\ report' = report
                          /\ asset'[a] = [NoRow("PENDING") EXCEPT !.report = r]
Rejects(a) == asset[a].status = "PENDING" /\ asset'[a] = [asset[a] EXCEPT !.status = "REJECTED"]
Verifies(a) ==
    /\ asset[a].status = "PENDING" /\ asset'[a] = [asset[a] EXCEPT !.status = "READY"]
    /\ objects' = objects
    /\ \E c \in Calls : At(c, "ready") /\ call[c].asset = a
Ages(a) ==
    /\ asset[a].status = "PENDING" /\ ~Expired(a)
    /\ asset'[a] = [asset[a] EXCEPT !.age = @ + 1]
    /\ "overlap" \in Faults \/ (asset[a].age = PendingTtl => ~Handled(a))
    /\ call' = call
Drops(a) ==
    /\ asset'[a] = NoRow("DELETED")
    /\ \/ /\ a \in cleanup'
          /\ HasRow(a) \/ \E c \in Calls : call[c].asset = a
       \/ /\ asset[a].status = "PENDING"
          /\ \E c \in Calls : At(c, "sign") /\ call[c].asset = a
          /\ objects' = objects
Commits(a) ==
    \E c \in Calls, d \in Reports :
        /\ At(c, "copy") /\ a \in call[c].copies
        /\ call'[c].step # "copy" /\ (call'[c].step = "idle" \/ "commitAck" \in Faults)
        /\ report[d] = "ABSENT" /\ report' = [report EXCEPT ![d] = "DRAFT"]
        /\ asset'[a] = [NoRow("READY") EXCEPT !.report = d]
        /\ objects' = objects /\ cleanup' = cleanup

AssetMove(a) ==
    \/ asset'[a] = asset[a] \/ Draws(a) \/ Slots(a) \/ Rejects(a) \/ Verifies(a) \/ Ages(a)
    \/ Drops(a) \/ Commits(a)

LEMMA AssetKept ==
    ASSUME Next
    PROVE  \/ asset' = asset
           \/ \E c \in Calls :
                \/ ExpireRow(c) \/ SignError(c) \/ ConfirmReady(c) \/ RejectRowEnd(c) \/ DeleteRow(c)
                \/ CopyObject(c) \/ CopyError(c)
                \/ \E a \in Assets : ReserveSlot(c, a)
                \/ \E r \in Reports : DeleteReport(c, r) \/ DuplicateCommit(c, r) \/ DuplicateAckLost(c, r)
           \/ Tick
  <1>1. ASSUME NEW c \in Calls, EraseObject(c) \/ EraseTask(c) \/ Expire(c) \/ Sign(c) \/ Reject(c)
                                \/ Rollback(c) \/ \E a \in Assets : ConfirmBegin(c, a)
        PROVE  asset' = asset
    BY <1>1 DEF EraseObject, EraseTask, Expire, Sign, Reject, Rollback, ConfirmBegin
  <1>2. ASSUME NEW a \in Assets, Upload(a)
        PROVE  asset' = asset
    BY <1>2 DEF Upload
  <1>3. ASSUME NEW r \in Reports, StartGeneration(r) \/ EndGeneration(r)
        PROVE  asset' = asset
    BY <1>3 DEF StartGeneration, EndGeneration
  <1> QED BY <1>1, <1>2, <1>3, NextCases, QuietKeeps DEF Writes, Outside

LEMMA AssetMoves ==
    ASSUME Types, Next, NEW a
    PROVE  (a \in Assets => AssetMove(a)) /\ asset' \in [Assets -> AssetRows]
  <1>1. /\ asset \in [Assets -> AssetRows] /\ (a \in Assets => asset[a] \in AssetRows) /\ PendingTtl \in Nat
        /\ \A c \in Calls : call[c].step \in NamesAsset => call[c].asset \in Assets
        /\ \A c \in Calls : call[c].step \in NamesReport => call[c].report \in Reports
        /\ \A c \in Calls : call[c].copies \subseteq Assets
    <2>1. \A c \in Calls : call[c] \in SoundRows /\ call[c].copies \subseteq Assets
      BY Fields
    <2>2. \A c \in Calls : call[c].step \in NamesAsset \cup NamesReport => Stage(call[c]) = call[c].step
      BY DEF Stage, NamesAsset, NamesReport
    <2>3. asset \in [Assets -> AssetRows] /\ PendingTtl \in Nat
      BY StorageConstants DEF Types, TypeOK
    <2> QED BY <2>1, <2>2, <2>3 DEF SoundRows
  <1>2. CASE asset' = asset
    BY <1>1, <1>2 DEF AssetMove
  <1>3. ASSUME NEW c \in Calls, ExpireRow(c) \/ RejectRowEnd(c)
        PROVE  (a \in Assets => AssetMove(a)) /\ asset' \in [Assets -> AssetRows]
    <2>1. RejectRow(call[c].asset) /\ call[c].asset \in Assets
      BY <1>1, <1>3 DEF ExpireRow, RejectRowEnd, At, NamesAsset
    <2> QED BY <1>1, <2>1 DEF RejectRow, AssetMove, Rejects, AssetRows, RowStatus
  <1>4. ASSUME NEW c \in Calls, SignError(c)
        PROVE  (a \in Assets => AssetMove(a)) /\ asset' \in [Assets -> AssetRows]
    <2>1. /\ call[c].asset \in Assets /\ At(c, "sign") /\ objects' = objects
          /\ asset' = IF asset[call[c].asset].status = "PENDING"
                      THEN [asset EXCEPT ![call[c].asset] = NoRow("DELETED")] ELSE asset
      BY <1>1, <1>4 DEF SignError, At, NamesAsset
    <2>2. NoRow("DELETED") \in AssetRows
      BY <1>1 DEF NoRow, AssetRows
    <2> QED BY <1>1, <2>1, <2>2 DEF AssetMove, Drops
  <1>5. ASSUME NEW c \in Calls, ConfirmReady(c)
        PROVE  (a \in Assets => AssetMove(a)) /\ asset' \in [Assets -> AssetRows]
    <2>1. /\ call[c].asset \in Assets /\ At(c, "ready") /\ objects' = objects
          /\ asset' = IF asset[call[c].asset].status = "PENDING"
                      THEN [asset EXCEPT ![call[c].asset].status = "READY"] ELSE asset
      BY <1>1, <1>5 DEF ConfirmReady, Confirmable, At, NamesAsset
    <2> QED BY <1>1, <2>1 DEF AssetMove, Verifies, AssetRows, RowStatus
  <1>6. ASSUME NEW c \in Calls, DeleteRow(c)
        PROVE  (a \in Assets => AssetMove(a)) /\ asset' \in [Assets -> AssetRows]
    <2>1. /\ call[c].asset \in Assets /\ cleanup' = cleanup \cup {call[c].asset}
          /\ asset' = [asset EXCEPT ![call[c].asset] = NoRow("DELETED")]
      BY <1>1, <1>6 DEF DeleteRow, At, NamesAsset
    <2>2. NoRow("DELETED") \in AssetRows
      BY <1>1 DEF NoRow, AssetRows
    <2> QED BY <1>1, <2>1, <2>2 DEF AssetMove, Drops
  <1>7. ASSUME NEW c \in Calls, CopyObject(c) \/ CopyError(c)
        PROVE  (a \in Assets => AssetMove(a)) /\ asset' \in [Assets -> AssetRows]
    <2>1. PICK b \in Assets : asset[b].status = "ABSENT" /\ asset' = [asset EXCEPT ![b].status = "COPY"]
      BY <1>7 DEF CopyObject, CopyError, FreshCopy
    <2> QED BY <1>1, <2>1 DEF AssetMove, Draws, AssetRows
  <1>8. ASSUME NEW c \in Calls, NEW b \in Assets, ReserveSlot(c, b)
        PROVE  (a \in Assets => AssetMove(a)) /\ asset' \in [Assets -> AssetRows]
    <2> DEFINE new == [NoRow("PENDING") EXCEPT !.report = call[c].report]
    <2>1. /\ asset[b].status = "ABSENT" /\ asset' = [asset EXCEPT ![b] = new]
          /\ call[c].report \in Reports /\ Editable(call[c].report) /\ report' = report
      BY <1>1, <1>8 DEF ReserveSlot, At, NamesReport
    <2>2. new \in AssetRows
      BY <1>1, <2>1 DEF NoRow, AssetRows, RowStatus
    <2>3. CASE a = b
      <3>1. asset'[a] = new
        BY <1>1, <2>1, <2>3
      <3> QED BY <1>1, <1>8, <2>1, <2>2, <2>3, <3>1 DEF AssetMove, Slots
    <2>4. CASE a # b
      BY <1>1, <2>1, <2>2, <2>4 DEF AssetMove
    <2> QED BY <2>3, <2>4
  <1>9. ASSUME NEW c \in Calls, NEW r \in Reports, DeleteReport(c, r)
        PROVE  (a \in Assets => AssetMove(a)) /\ asset' \in [Assets -> AssetRows]
    <2>1. asset' = Cascade(r) /\ AssetsOf(r) \subseteq cleanup'
      BY <1>9 DEF DeleteReport
    <2>2. NoRow("DELETED") \in AssetRows
      BY <1>1 DEF NoRow, AssetRows
    <2>3. \A b \in AssetsOf(r) : HasRow(b)
      BY DEF AssetsOf
    <2> QED BY <1>1, <2>1, <2>2, <2>3 DEF Cascade, AssetMove, Drops
  <1>10. ASSUME NEW c \in Calls, NEW d \in Reports, DuplicateCommit(c, d) \/ DuplicateAckLost(c, d)
         PROVE  (a \in Assets => AssetMove(a)) /\ asset' \in [Assets -> AssetRows]
    <2>1. /\ Duplicated(c, d) /\ call'[c].step # "copy"
          /\ call'[c].step = "idle" \/ "commitAck" \in Faults
          /\ asset' = [b \in Assets |-> IF b \in call[c].copies
                                        THEN [NoRow("READY") EXCEPT !.report = d] ELSE asset[b]]
      <3>1. Duplicated(c, d) /\ (EndCall(c) \/ (GoTo(c, "rollback") /\ "commitAck" \in Faults))
        BY <1>10 DEF DuplicateCommit, DuplicateAckLost
      <3>2. call'[c].step # "copy" /\ (call'[c].step = "idle" \/ "commitAck" \in Faults)
        <4>1. CASE EndCall(c)
          BY <4>1, GoRow DEF EndCall, IdleCall
        <4>2. CASE GoTo(c, "rollback") /\ "commitAck" \in Faults
          <5>1. call'[c] = [call[c] EXCEPT !.step = "rollback"] /\ call[c] \in CallRows
            BY <4>2, GoRow, Fields DEF GoTo
          <5> QED BY <3>1, <4>2, <5>1 DEF CallRows
        <4> QED BY <3>1, <4>1, <4>2
      <3> QED BY <3>1, <3>2 DEF Duplicated
    <2>2. [NoRow("READY") EXCEPT !.report = d] \in AssetRows
      BY <1>1 DEF NoRow, AssetRows, RowStatus
    <2>3. CASE a \in call[c].copies
      BY <1>1, <2>1, <2>2, <2>3 DEF AssetMove, Commits, Duplicated
    <2>4. CASE a \notin call[c].copies
      BY <1>1, <2>1, <2>2, <2>4 DEF AssetMove
    <2> QED BY <2>3, <2>4
  <1>11. CASE Tick
    <2> DEFINE aging == {b \in Assets : asset[b].status = "PENDING" /\ ~Expired(b)}
    <2>1. /\ asset' = [b \in Assets |-> IF b \in aging THEN [asset[b] EXCEPT !.age = @ + 1] ELSE asset[b]]
          /\ call' = call
          /\ "overlap" \in Faults \/ \A b \in aging : asset[b].age = PendingTtl => ~Handled(b)
      BY <1>11 DEF Tick
    <2>2. \A b \in aging : [asset[b] EXCEPT !.age = @ + 1] \in AssetRows
      <3> SUFFICES ASSUME NEW b \in aging
                   PROVE  [asset[b] EXCEPT !.age = @ + 1] \in AssetRows
        OBVIOUS
      <3>1. asset[b] \in AssetRows /\ asset[b].age <= PendingTtl /\ asset[b].age \in Nat
        BY <1>1 DEF Expired, AssetRows
      <3>2. asset[b].age + 1 \in 0 .. (PendingTtl + 1)
        BY <1>1, <3>1
      <3> QED BY <3>1, <3>2 DEF AssetRows
    <2>3. asset' \in [Assets -> AssetRows]
      BY <1>1, <2>1, <2>2
    <2>4. a \in Assets /\ a \in aging => Ages(a)
      BY <2>1 DEF Ages
    <2>5. a \in Assets /\ a \notin aging => asset'[a] = asset[a]
      BY <2>1
    <2> HIDE DEF aging
    <2> QED BY <2>3, <2>4, <2>5 DEF AssetMove
  <1> QED BY <1>2, <1>3, <1>4, <1>5, <1>6, <1>7, <1>8, <1>9, <1>10, <1>11, AssetKept

-----------------------------------------------------------------------------
(* What a step does to a report, a contract, an object and a task.         *)

ReportMove(r) ==
    \/ report'[r] = report[r]
    \/ report[r] = "ABSENT" /\ report'[r] = "DRAFT" /\ objects' = objects
    \/ /\ Editable(r) /\ report'[r] = "ACTIVE" /\ asset' = asset
       /\ \A a \in AssetsOf(r) : asset[a].status = "READY"
    \/ report[r] = "ACTIVE" /\ report'[r] = "READY" /\ objects'[Output(r)] = "good"
    \/ report[r] = "ACTIVE" /\ report'[r] = "FAILED"
    \/ /\ Exists(r) /\ report'[r] = "DELETED"
       /\ \A a \in AssetsOf(r) : asset'[a] = NoRow("DELETED")
       /\ OutputOf(r) \subseteq cleanup'

LEMMA ReportMoves ==
    ASSUME Types, Next, NEW r
    PROVE  (r \in Reports => ReportMove(r))
           /\ report' \in [Reports -> {"ABSENT", "DRAFT", "ACTIVE", "FAILED", "READY", "DELETED"}]
           /\ sources' \in [Reports -> SUBSET Assets]
  <1>1. /\ report \in [Reports -> {"ABSENT", "DRAFT", "ACTIVE", "FAILED", "READY", "DELETED"}]
        /\ sources \in [Reports -> SUBSET Assets]
        /\ objects \in [Keys -> {"none", "good", "bad"}]
        /\ \A s \in Reports : Output(s) \in Keys
    BY DEF Types, TypeOK, Keys
  <1>2. CASE UNCHANGED <<report, sources>>
    BY <1>1, <1>2 DEF ReportMove
  <1>3. ASSUME NEW c \in Calls, NEW d \in Reports, DuplicateCommit(c, d) \/ DuplicateAckLost(c, d)
        PROVE  (r \in Reports => ReportMove(r))
               /\ report' \in [Reports -> {"ABSENT", "DRAFT", "ACTIVE", "FAILED", "READY", "DELETED"}]
               /\ sources' \in [Reports -> SUBSET Assets]
    BY <1>1, <1>3 DEF DuplicateCommit, DuplicateAckLost, Duplicated, ReportMove
  <1>4. ASSUME NEW c \in Calls, NEW d \in Reports, DeleteReport(c, d)
        PROVE  (r \in Reports => ReportMove(r))
               /\ report' \in [Reports -> {"ABSENT", "DRAFT", "ACTIVE", "FAILED", "READY", "DELETED"}]
               /\ sources' \in [Reports -> SUBSET Assets]
    <2>1. /\ Exists(d) /\ report' = [report EXCEPT ![d] = "DELETED"] /\ sources' = sources
          /\ OutputOf(d) \subseteq cleanup' /\ asset' = Cascade(d)
      BY <1>4 DEF DeleteReport
    <2>2. \A a \in AssetsOf(d) : asset'[a] = NoRow("DELETED")
      BY <2>1 DEF Cascade, AssetsOf
    <2> QED BY <1>1, <2>1, <2>2 DEF ReportMove
  <1>5. ASSUME NEW d \in Reports, StartGeneration(d)
        PROVE  (r \in Reports => ReportMove(r))
               /\ report' \in [Reports -> {"ABSENT", "DRAFT", "ACTIVE", "FAILED", "READY", "DELETED"}]
               /\ sources' \in [Reports -> SUBSET Assets]
    BY <1>1, <1>5 DEF StartGeneration, ReportMove, AssetsOf
  <1>6. ASSUME NEW d \in Reports, EndGeneration(d)
        PROVE  (r \in Reports => ReportMove(r))
               /\ report' \in [Reports -> {"ABSENT", "DRAFT", "ACTIVE", "FAILED", "READY", "DELETED"}]
               /\ sources' \in [Reports -> SUBSET Assets]
    BY <1>1, <1>6 DEF EndGeneration, ReportMove
  <1>7. ASSUME NEW c \in Calls, Writes(c),
               ~\E d \in Reports : DuplicateCommit(c, d) \/ DuplicateAckLost(c, d) \/ DeleteReport(c, d)
        PROVE  UNCHANGED <<report, sources>>
    BY <1>7 DEF Writes, EraseObject, EraseTask, Expire, ExpireRow, Sign, SignError, ConfirmReady,
           Reject, RejectRowEnd, DeleteRow, CopyObject, CopyError, Rollback, ReserveSlot, ConfirmBegin
  <1>8. ASSUME Outside, ~\E d \in Reports : StartGeneration(d) \/ EndGeneration(d)
        PROVE  UNCHANGED <<report, sources>>
    BY <1>8 DEF Outside, Upload, Tick
  <1> QED BY <1>2, <1>3, <1>4, <1>5, <1>6, <1>7, <1>8, NextCases, QuietKeeps

Opens(a) == \E c \in Calls : /\ At(c, "sign") /\ call[c].asset = a /\ call'[c].step # "sign"
                             /\ contract[a] = "none" /\ contract'[a] = "open"
Closes(a) == asset[a].status = "PENDING" /\ contract'[a] = "closed"
ContractMove(a) == contract'[a] = contract[a] \/ Opens(a) \/ Closes(a)

LEMMA ContractMoves ==
    ASSUME Types, Next, NEW a
    PROVE  (a \in Assets => ContractMove(a)) /\ contract' \in [Assets -> {"none", "open", "closed"}]
  <1>1. contract \in [Assets -> {"none", "open", "closed"}]
    BY DEF Types, TypeOK
  <1>2. CASE contract' = contract
    BY <1>1, <1>2 DEF ContractMove
  <1>3. ASSUME NEW c \in Calls, Sign(c)
        PROVE  (a \in Assets => ContractMove(a)) /\ contract' \in [Assets -> {"none", "open", "closed"}]
    <2>1. /\ At(c, "sign")
          /\ contract' = IF contract[call[c].asset] = "none"
                         THEN [contract EXCEPT ![call[c].asset] = "open"] ELSE contract
          /\ call'[c].step # "sign"
      BY <1>3, GoRow DEF Sign, EndCall, IdleCall
    <2> QED BY <1>1, <2>1 DEF ContractMove, Opens
  <1>4. ASSUME NEW c \in Calls, NEW b \in Assets, ConfirmBegin(c, b)
        PROVE  (a \in Assets => ContractMove(a)) /\ contract' \in [Assets -> {"none", "open", "closed"}]
    BY <1>1, <1>4 DEF ConfirmBegin, ContractMove, Closes
  <1>5. ASSUME NEW b \in Assets, Upload(b)
        PROVE  (a \in Assets => ContractMove(a)) /\ contract' \in [Assets -> {"none", "open", "closed"}]
    BY <1>1, <1>5 DEF Upload, ContractMove, Closes
  <1>6. ASSUME NEW c \in Calls, Writes(c), ~Sign(c), ~\E b \in Assets : ConfirmBegin(c, b)
        PROVE  contract' = contract
    BY <1>6 DEF Writes, EraseObject, EraseTask, Expire, ExpireRow, SignError, ConfirmReady,
           Reject, RejectRowEnd, DeleteRow, CopyObject, CopyError, Rollback, ReserveSlot,
           DeleteReport, DuplicateCommit, DuplicateAckLost, Duplicated
  <1>7. ASSUME Outside, ~\E b \in Assets : Upload(b)
        PROVE  contract' = contract
    BY <1>7 DEF Outside, StartGeneration, EndGeneration, Tick
  <1> QED BY <1>2, <1>3, <1>4, <1>5, <1>6, <1>7, NextCases, QuietKeeps

\* An object is deleted by a request, uploaded, copied or published.
Deletes(k) == objects'[k] = "none" /\ \E c \in Calls : k \in call[c].todo
Uploads(k) ==
    /\ k \in Assets /\ asset[k].status = "PENDING" /\ ~Expired(k) /\ contract[k] = "open"
    /\ contract'[k] = "closed" /\ asset' = asset /\ cleanup' = cleanup /\ call' = call
Copies(k) ==
    /\ k \in Assets /\ asset[k].status = "ABSENT" /\ asset'[k].status = "COPY"
    /\ \E c \in Calls : \/ At(c, "copy") /\ call'[c].step = "copy" /\ k \in call'[c].copies
                        \/ CopyError(c)
Publishes(k) ==
    \E r \in Reports : k = Output(r) /\ report[r] = "ACTIVE" /\ report'[r] = "READY"
ObjectMove(k) == objects'[k] = objects[k] \/ Deletes(k) \/ Uploads(k) \/ Copies(k) \/ Publishes(k)

LEMMA ObjectMoves ==
    ASSUME Types, Next, NEW k
    PROVE  (k \in Keys => ObjectMove(k)) /\ objects' \in [Keys -> {"none", "good", "bad"}]
  <1>1. /\ objects \in [Keys -> {"none", "good", "bad"}] /\ Assets \subseteq Keys
        /\ report \in [Reports -> {"ABSENT", "DRAFT", "ACTIVE", "FAILED", "READY", "DELETED"}]
        /\ contract \in [Assets -> {"none", "open", "closed"}]
        /\ asset \in [Assets -> AssetRows]
        /\ \A s \in Reports : Output(s) \in Keys
    BY DEF Types, TypeOK, Keys
  <1>2. CASE objects' = objects
    BY <1>1, <1>2 DEF ObjectMove
  <1>3. ASSUME NEW c \in Calls, EraseObject(c)
        PROVE  (k \in Keys => ObjectMove(k)) /\ objects' \in [Keys -> {"none", "good", "bad"}]
    BY <1>1, <1>3 DEF EraseObject, ObjectMove, Deletes
  <1>4. ASSUME NEW c \in Calls, CopyObject(c)
        PROVE  (k \in Keys => ObjectMove(k)) /\ objects' \in [Keys -> {"none", "good", "bad"}]
    <2>1. PICK a \in call[c].list, b \in Assets :
             /\ At(c, "copy") /\ asset[b].status = "ABSENT" /\ asset' = [asset EXCEPT ![b].status = "COPY"]
             /\ \/ objects' = objects
                \/ /\ objects' = [objects EXCEPT ![b] = objects[a]]
                   /\ Go(c, [call[c] EXCEPT !.list = @ \ {a}, !.copies = @ \cup {b}])
      BY <1>4 DEF CopyObject, FreshCopy
    <2>2. a \in Keys /\ call[c] \in CallRows
      BY Fields
    <2>3. CASE objects' = objects
      BY <1>2, <2>3
    <2>4. CASE objects' # objects
      <3>1. call'[c] = [call[c] EXCEPT !.list = @ \ {a}, !.copies = @ \cup {b}]
        BY <2>1, <2>4, GoRow
      <3>2. call'[c].step = "copy" /\ b \in call'[c].copies
        BY <2>1, <2>2, <3>1 DEF CallRows, At
      <3>3. asset'[b].status = "COPY"
        BY <1>1, <2>1 DEF AssetRows
      <3>4. objects' = [objects EXCEPT ![b] = objects[a]]
        BY <2>1, <2>4
      <3> QED BY <1>1, <2>1, <2>2, <3>2, <3>3, <3>4 DEF ObjectMove, Copies
    <2> QED BY <2>3, <2>4
  <1>5. ASSUME NEW c \in Calls, CopyError(c)
        PROVE  (k \in Keys => ObjectMove(k)) /\ objects' \in [Keys -> {"none", "good", "bad"}]
    <2>1. PICK a \in call[c].list, b \in Assets :
             /\ asset[b].status = "ABSENT" /\ asset' = [asset EXCEPT ![b].status = "COPY"]
             /\ objects' \in {objects, [objects EXCEPT ![b] = objects[a]]}
      BY <1>5 DEF CopyError, FreshCopy
    <2>2. a \in Keys /\ asset'[b].status = "COPY"
      BY <1>1, <2>1, Fields DEF AssetRows
    <2> QED BY <1>1, <1>5, <2>1, <2>2 DEF ObjectMove, Copies
  <1>6. ASSUME NEW a \in Assets, Upload(a)
        PROVE  (k \in Keys => ObjectMove(k)) /\ objects' \in [Keys -> {"none", "good", "bad"}]
    <2>1. PICK content \in {"good", "bad"} : objects' = [objects EXCEPT ![a] = content]
      BY <1>6 DEF Upload
    <2>2. /\ asset[a].status = "PENDING" /\ ~Expired(a) /\ contract[a] = "open"
          /\ contract' = [contract EXCEPT ![a] = "closed"]
          /\ asset' = asset /\ cleanup' = cleanup /\ call' = call
      BY <1>6 DEF Upload
    <2> QED BY <1>1, <2>1, <2>2 DEF ObjectMove, Uploads
  <1>7. ASSUME NEW r \in Reports, EndGeneration(r)
        PROVE  (k \in Keys => ObjectMove(k)) /\ objects' \in [Keys -> {"none", "good", "bad"}]
    BY <1>1, <1>7 DEF EndGeneration, ObjectMove, Publishes
  <1>8. ASSUME NEW c \in Calls, Writes(c), ~EraseObject(c), ~CopyObject(c), ~CopyError(c)
        PROVE  objects' = objects
    BY <1>8 DEF Writes, EraseTask, Expire, ExpireRow, Sign, SignError, ConfirmReady,
           Reject, RejectRowEnd, DeleteRow, Rollback, ReserveSlot, ConfirmBegin,
           DeleteReport, DuplicateCommit, DuplicateAckLost, Duplicated
  <1>9. ASSUME NEW r \in Reports, StartGeneration(r)
        PROVE  objects' = objects
    BY <1>9 DEF StartGeneration
  <1>10. CASE Tick
    BY <1>2, <1>10 DEF Tick
  <1> QED BY <1>2, <1>3, <1>4, <1>5, <1>6, <1>7, <1>8, <1>9, <1>10, NextCases, QuietKeeps DEF Outside

\* A key is queued for cleanup when its upload has expired or is rejected, its
\* row is deleted, its report is deleted, or its duplication is given up.
Queues(k) ==
    \/ \E c \in Calls : At(c, "expire") /\ k \in call[c].list /\ asset' = asset
    \/ \E c \in Calls : At(c, "reject") /\ k = call[c].asset /\ asset' = asset
    \/ k \in Assets /\ asset'[k] = NoRow("DELETED")
    \/ \E r \in Reports : k = Output(r) /\ report'[r] = "DELETED"
    \/ \E c \in Calls : At(c, "rollback") /\ k \in call[c].copies /\ asset' = asset
Unqueues(k) == \E c \in Calls : k \in call[c].done /\ UNCHANGED <<objects, asset, report>>

LEMMA CleanupMoves ==
    ASSUME Types, Next
    PROVE  /\ cleanup' \subseteq Keys
           /\ \A k \in cleanup' \ cleanup : Queues(k)
           /\ \A k \in cleanup \ cleanup' : Unqueues(k)
  <1> DEFINE Good == /\ cleanup' \subseteq Keys
                     /\ \A k \in cleanup' \ cleanup : Queues(k)
                     /\ \A k \in cleanup \ cleanup' : Unqueues(k)
  <1>1. /\ cleanup \subseteq Keys /\ Assets \subseteq Keys /\ \A r \in Reports : Output(r) \in Keys
        /\ \A c \in Calls : call[c].step \in {"reject", "drop"} => call[c].asset \in Assets
    <2>1. \A c \in Calls : call[c] \in SoundRows
      BY Fields
    <2>2. \A c \in Calls : call[c].step \in {"reject", "drop"} => Stage(call[c]) \in NamesAsset
      BY DEF Stage, NamesAsset
    <2> QED BY <2>1, <2>2 DEF SoundRows, Types, TypeOK, Keys
  <1>2. CASE cleanup' = cleanup
    BY <1>1, <1>2
  <1>3. ASSUME NEW c \in Calls, EraseTask(c)
        PROVE  Good
    BY <1>1, <1>3 DEF EraseTask, Unqueues
  <1>4. ASSUME NEW c \in Calls, Expire(c)
        PROVE  Good
    BY <1>1, <1>4, Fields DEF Expire, Queues
  <1>5. ASSUME NEW c \in Calls, Reject(c)
        PROVE  Good
    BY <1>1, <1>5 DEF Reject, Queues, At
  <1>6. ASSUME NEW c \in Calls, DeleteRow(c)
        PROVE  Good
    <2>1. /\ cleanup' = cleanup \cup {call[c].asset} /\ call[c].asset \in Assets
          /\ asset' = [asset EXCEPT ![call[c].asset] = NoRow("DELETED")]
      BY <1>1, <1>6 DEF DeleteRow, At
    <2>2. asset'[call[c].asset] = NoRow("DELETED")
      BY <2>1 DEF Types, TypeOK
    <2> QED BY <1>1, <2>1, <2>2 DEF Queues
  <1>7. ASSUME NEW c \in Calls, NEW r \in Reports, DeleteReport(c, r)
        PROVE  Good
    <2>1. /\ cleanup' = cleanup \cup AssetsOf(r) \cup OutputOf(r) /\ asset' = Cascade(r)
          /\ report' = [report EXCEPT ![r] = "DELETED"]
      BY <1>7 DEF DeleteReport
    <2>2. report'[r] = "DELETED" /\ OutputOf(r) \subseteq {Output(r)} /\ AssetsOf(r) \subseteq Assets
      BY <2>1 DEF Types, TypeOK, OutputOf, AssetsOf
    <2>3. \A a \in AssetsOf(r) : asset'[a] = NoRow("DELETED")
      BY <2>1, <2>2 DEF Cascade
    <2> QED BY <1>1, <2>1, <2>2, <2>3 DEF Queues
  <1>8. ASSUME NEW c \in Calls, Rollback(c)
        PROVE  Good
    BY <1>1, <1>8, Fields DEF Rollback, Queues
  <1>9. ASSUME NEW c \in Calls, Writes(c), ~EraseTask(c), ~Expire(c), ~Reject(c), ~DeleteRow(c), ~Rollback(c),
               ~\E r \in Reports : DeleteReport(c, r)
        PROVE  cleanup' = cleanup
    BY <1>9 DEF Writes, EraseObject, ExpireRow, Sign, SignError, ConfirmReady, RejectRowEnd,
           CopyObject, CopyError, ReserveSlot, ConfirmBegin, DuplicateCommit, DuplicateAckLost, Duplicated
  <1>10. CASE Outside
    BY <1>2, <1>10 DEF Outside, Upload, StartGeneration, EndGeneration, Tick
  <1> QED BY <1>2, <1>3, <1>4, <1>5, <1>6, <1>7, <1>8, <1>9, <1>10, NextCases, QuietKeeps

\* Every row has its report.
RowsHaveReport == \A a \in Assets : HasRow(a) => asset[a].report # NULL /\ Exists(asset[a].report)

LEMMA RowsStep ==
    ASSUME Types, Next
    PROVE  RowsHaveReport'
  <1> SUFFICES ASSUME NEW a \in Assets, asset'[a].status \in RowStatus
               PROVE  asset'[a].report # NULL /\ report'[asset'[a].report] \notin {"ABSENT", "DELETED"}
    BY DEF RowsHaveReport, HasRow, Exists
  <1>1. AssetMove(a) /\ \A r \in Reports : ReportMove(r)
    BY AssetMoves, ReportMoves
  <1>2. asset[a] \in AssetRows /\ (HasRow(a) => asset[a].report # NULL /\ Exists(asset[a].report))
    BY DEF Types, TypeOK
  <1>3. CASE HasRow(a) /\ asset'[a].report = asset[a].report
    <2> PICK r \in Reports : r = asset[a].report /\ Exists(r)
      BY <1>2, <1>3 DEF AssetRows
    <2>1. asset'[a].status # "DELETED" /\ a \in AssetsOf(r)
      BY <1>3 DEF AssetsOf, RowStatus
    <2>2. ~\A b \in AssetsOf(r) : asset'[b] = NoRow("DELETED")
      BY <2>1 DEF NoRow
    <2>3. report'[r] \notin {"ABSENT", "DELETED"}
      BY <1>1, <2>2 DEF ReportMove, Exists, Editable
    <2> QED BY <1>3, <2>3, StorageConstants
  <1>4. CASE asset'[a] = asset[a] \/ Rejects(a) \/ Verifies(a) \/ Ages(a)
    BY <1>2, <1>3, <1>4 DEF Rejects, Verifies, Ages, HasRow, RowStatus, AssetRows
  <1>5. CASE Draws(a)
    BY <1>2, <1>5 DEF Draws, RowStatus, AssetRows
  <1>6. CASE Slots(a)
    <2> PICK r \in Reports : Editable(r) /\ report' = report /\ asset'[a] = [NoRow("PENDING") EXCEPT !.report = r]
      BY <1>6 DEF Slots
    <2>1. asset'[a].report = r
      BY DEF NoRow
    <2> QED BY <2>1, StorageConstants DEF Editable
  <1>7. CASE Drops(a)
    BY <1>7 DEF Drops, NoRow, RowStatus
  <1>8. CASE Commits(a)
    <2> PICK d \in Reports : report' = [report EXCEPT ![d] = "DRAFT"] /\ asset'[a] = [NoRow("READY") EXCEPT !.report = d]
      BY <1>8 DEF Commits
    <2>1. asset'[a].report = d /\ report'[d] = "DRAFT"
      BY DEF NoRow, Types, TypeOK
    <2> QED BY <2>1, StorageConstants
  <1> QED BY <1>1, <1>4, <1>5, <1>6, <1>7, <1>8 DEF AssetMove

LEMMA TypesStep ==
    ASSUME Types, Next
    PROVE  Types'
  <1>1. /\ report' \in [Reports -> {"ABSENT", "DRAFT", "ACTIVE", "FAILED", "READY", "DELETED"}]
        /\ sources' \in [Reports -> SUBSET Assets]
    BY ReportMoves
  <1>2. asset' \in [Assets -> AssetRows] /\ contract' \in [Assets -> {"none", "open", "closed"}]
    BY AssetMoves, ContractMoves
  <1>3. objects' \in [Keys -> {"none", "good", "bad"}] /\ cleanup' \subseteq Keys
    BY ObjectMoves, CleanupMoves
  <1>4. call' \in [Calls -> SoundRows] /\ call' \in [Calls -> CallRows]
    BY CallsStep DEF SoundRows
  <1>5. RowsHaveReport'
    BY RowsStep
  <1> QED BY <1>1, <1>2, <1>3, <1>4, <1>5 DEF Types, TypeOK, RowsHaveReport

-----------------------------------------------------------------------------
(* What a step makes of its request.                                       *)

Begins(c) == ListExpired(c) \/ \E r \in Reports : DuplicateBegin(c, r)
Checks(c) == ConfirmCheck(c) \/ ConfirmHead(c) \/ ConfirmInspect(c)
Adds(c) ==
    \E a \in call[c].list, b \in Assets :
        /\ asset[b].status = "ABSENT" /\ asset'[b].status = "COPY"
        /\ Kind[b] = Kind[a] /\ Size[b] = Size[a]
        /\ objects[a] # "none" /\ objects'[b] = objects[a]
        /\ call'[c].copies = call[c].copies \cup {b} /\ call'[c].list = call[c].list \ {a}
        /\ At(c, "copy") /\ call'[c].step = "copy"

RowFacts(c) ==
    /\ call'[c].todo \subseteq call[c].todo \cup cleanup'
    /\ \A k \in call'[c].done : k \in call[c].done \/ (k \in call[c].todo /\ objects'[k] = "none")
    /\ call'[c].list \subseteq call[c].list \/ Begins(c)
    /\ \/ call'[c].asset \in {call[c].asset, NULL} \cup call[c].list
       \/ call'[c].asset \in Assets /\ asset'[call'[c].asset].status \in RowStatus
    /\ call'[c].copies \subseteq call[c].copies \/ Adds(c)
    /\ call'[c].step \in {"copy", "rollback"} =>
          \/ \E r \in Reports : DuplicateBegin(c, r) /\ call'[c].copies = {}
          \/ At(c, "copy") /\ call'[c].step = "rollback"
             /\ call'[c].copies = call[c].copies /\ call'[c].list = call[c].list
          \/ Adds(c)
    /\ call'[c].step = "sign" => \E a \in Assets : ReserveSlot(c, a) /\ call'[c].asset = a
    /\ call'[c].step \in {"confirm", "head", "inspect", "ready", "reject"} =>
          \/ \E a \in Assets : ConfirmBegin(c, a) /\ call'[c].asset = a /\ call'[c].step = "confirm"
          \/ Checks(c) /\ call'[c].asset = call[c].asset /\ call'[c].step # "confirm"
    /\ Stage(call'[c]) \in {"expire", "expireRow"} =>
          ListExpired(c) \/ Stage(call[c]) \in {"expire", "expireRow"}

\* The steps that a request goes on to without anything else to remember.
Passes(c) ==
    \E step \in {"list", "expire", "expireRow", "rejectRow", "slot", "drop",
                 "head", "inspect", "ready", "reject", "rollback"} :
        /\ GoTo(c, step)
        /\ step \in {"expire", "expireRow"} => Stage(call[c]) \in {"expire", "expireRow"}
        /\ step \in {"head", "inspect", "ready", "reject"} => Checks(c)
        /\ step = "rollback" => At(c, "copy")

LEMMA EndFacts ==
    ASSUME Types, NEW c \in Calls, EndCall(c)
    PROVE  RowFacts(c)
  <1>1. call'[c] = IdleCall
    BY GoRow DEF EndCall
  <1> QED BY <1>1 DEF RowFacts, IdleCall, Stage

LEMMA PassFacts ==
    ASSUME Types, NEW c \in Calls, Passes(c)
    PROVE  RowFacts(c)
  <1> PICK step \in {"list", "expire", "expireRow", "rejectRow", "slot", "drop",
                     "head", "inspect", "ready", "reject", "rollback"} :
             /\ GoTo(c, step)
             /\ step \in {"expire", "expireRow"} => Stage(call[c]) \in {"expire", "expireRow"}
             /\ step \in {"head", "inspect", "ready", "reject"} => Checks(c)
             /\ step = "rollback" => At(c, "copy")
    BY DEF Passes
  <1>1. call[c] \in CallRows /\ call'[c] = [call[c] EXCEPT !.step = step]
    BY GoRow, Fields DEF GoTo
  <1>2. /\ call'[c].step = step /\ call'[c].after = call[c].after /\ call'[c].asset = call[c].asset
        /\ call'[c].list = call[c].list /\ call'[c].copies = call[c].copies
        /\ call'[c].todo = call[c].todo /\ call'[c].done = call[c].done
    BY <1>1 DEF CallRows
  <1>3. Stage(call'[c]) = step
    BY <1>2 DEF Stage
  <1> QED BY <1>2, <1>3 DEF RowFacts

LEMMA QuietFacts ==
    ASSUME Types, NEW c \in Calls, Quiet(c)
    PROVE  RowFacts(c)
  <1> DEFINE row == call[c]
  <1>1. row \in SoundRows /\ row \in CallRows
    BY Fields
  <1>2. CASE EndCall(c)
    BY <1>2, EndFacts
  <1>3. CASE EraseEnd(c) /\ ~EndCall(c)
    <2>1. row.step = "erase" /\ GoTo(c, row.after) /\ row.after # "idle"
      BY <1>3 DEF EraseEnd, At
    <2>2. Stage(row) = row.after
      BY <2>1 DEF Stage
    <2> QED BY <1>1, <2>1, <2>2, PassFacts DEF Passes, SoundRows
  <1>4. CASE Checks(c) /\ ~EndCall(c)
    BY <1>4, PassFacts DEF Checks, ConfirmCheck, ConfirmHead, ConfirmInspect, Passes
  <1>5. CASE ExpireEnd(c)
    BY <1>5, PassFacts DEF ExpireEnd, Passes
  <1>6. CASE DeleteFind(c) /\ ~EndCall(c)
    BY <1>6, PassFacts DEF DeleteFind, Passes
  <1>7. CASE DuplicateError(c)
    BY <1>7, PassFacts DEF DuplicateError, Passes, At
  <1>8. CASE EraseError(c) /\ ~EndCall(c)
    <2>1. PICK k \in row.todo, after \in {row.after, "expire"} :
             /\ row.step = "erase" /\ (after = row.after \/ row.after = "expireRow")
             /\ Go(c, [[row EXCEPT !.todo = @ \ {k}] EXCEPT !.after = after])
      BY <1>8 DEF EraseError, At
    <2>2. call'[c] = [[row EXCEPT !.todo = @ \ {k}] EXCEPT !.after = after]
      BY <2>1, GoRow
    <2>3. /\ call'[c].step = "erase" /\ call'[c].after = after /\ call'[c].asset = row.asset
          /\ call'[c].list = row.list /\ call'[c].copies = row.copies
          /\ call'[c].todo = row.todo \ {k} /\ call'[c].done = row.done
      BY <1>1, <2>1, <2>2 DEF CallRows
    <2>4. Stage(call'[c]) = after /\ Stage(row) = row.after
      BY <2>1, <2>3 DEF Stage
    <2> QED BY <2>1, <2>3, <2>4 DEF RowFacts
  <1>9. CASE ListExpired(c)
    <2>1. PICK step \in {"slot", "expire"}, list \in SUBSET Assets :
             Go(c, [row EXCEPT !.step = step, !.list = list])
      BY <1>9 DEF ListExpired, AssetsOf
    <2>2. call'[c] = [row EXCEPT !.step = step, !.list = list]
      BY <2>1, GoRow
    <2>3. /\ call'[c].step = step /\ call'[c].asset = row.asset /\ call'[c].copies = row.copies
          /\ call'[c].todo = row.todo /\ call'[c].done = row.done
      BY <1>1, <2>2 DEF CallRows
    <2> QED BY <1>9, <2>3 DEF RowFacts, Begins
  <1>10. ASSUME NEW a \in Assets, DeleteBegin(c, a)
         PROVE  RowFacts(c)
    <2>1. call'[c] = [IdleCall EXCEPT !.step = "find", !.report = asset[a].report, !.asset = a]
          /\ asset' = asset /\ HasRow(a)
      BY <1>10, GoRow DEF DeleteBegin
    <2>2. /\ call'[c].step = "find" /\ call'[c].asset = a /\ call'[c].list = {} /\ call'[c].copies = {}
          /\ call'[c].todo = {} /\ call'[c].done = {}
      BY <2>1 DEF IdleCall
    <2> QED BY <2>1, <2>2 DEF RowFacts, HasRow, Stage
  <1>11. ASSUME NEW r \in Reports, RequestBegin(c, r)
         PROVE  RowFacts(c)
    <2>1. call'[c] = Erasing([IdleCall EXCEPT !.report = r], cleanup, "list") /\ cleanup' = cleanup
      BY <1>11, GoRow DEF RequestBegin
    <2>2. /\ call'[c].step = "erase" /\ call'[c].after = "list" /\ call'[c].asset = NULL
          /\ call'[c].list = {} /\ call'[c].copies = {}
          /\ call'[c].todo = cleanup /\ call'[c].done = {}
      BY <2>1 DEF IdleCall, Erasing
    <2> QED BY <2>1, <2>2 DEF RowFacts, Stage
  <1>12. ASSUME NEW r \in Reports, DuplicateBegin(c, r)
         PROVE  RowFacts(c)
    <2>1. PICK list : call'[c] = [IdleCall EXCEPT !.step = "copy", !.report = r, !.list = list]
      BY <1>12, GoRow DEF DuplicateBegin
    <2>2. /\ call'[c].step = "copy" /\ call'[c].asset = NULL /\ call'[c].copies = {}
          /\ call'[c].todo = {} /\ call'[c].done = {}
      BY <2>1 DEF IdleCall
    <2> QED BY <1>12, <2>2 DEF RowFacts, Stage, Begins
  <1> QED BY <1>2, <1>3, <1>4, <1>5, <1>6, <1>7, <1>8, <1>9, <1>10, <1>11, <1>12
          DEF Quiet, Checks, SlotRefused, Abort, ConfirmReadError

LEMMA WritesFacts ==
    ASSUME Types, NEW c \in Calls, Writes(c)
    PROVE  RowFacts(c)
  <1> DEFINE row == call[c]
  <1>1. row \in SoundRows /\ row \in CallRows
    BY Fields
  <1>2. CASE EndCall(c)
    BY <1>2, EndFacts
  <1>3. CASE EraseObject(c)
    <2>1. PICK k \in row.todo : /\ call'[c] = [row EXCEPT !.todo = @ \ {k}, !.done = @ \cup {k}]
                                /\ objects' = [objects EXCEPT ![k] = "none"] /\ row.step = "erase"
      BY <1>3, GoRow DEF EraseObject, At
    <2>2. /\ call'[c].step = "erase" /\ call'[c].after = row.after /\ call'[c].asset = row.asset
          /\ call'[c].list = row.list /\ call'[c].copies = row.copies
          /\ call'[c].todo = row.todo \ {k} /\ call'[c].done = row.done \cup {k}
      BY <1>1, <2>1 DEF CallRows
    <2>3. Stage(call'[c]) = Stage(row)
      BY <2>1, <2>2 DEF Stage
    <2>4. objects'[k] = "none"
      BY <2>1, Fields DEF Types, TypeOK
    <2> QED BY <2>2, <2>3, <2>4 DEF RowFacts
  <1>4. CASE EraseTask(c)
    <2>1. PICK k \in row.done : call'[c] = [row EXCEPT !.done = @ \ {k}] /\ row.step = "erase"
      BY <1>4, GoRow DEF EraseTask, At
    <2>2. /\ call'[c].step = "erase" /\ call'[c].after = row.after /\ call'[c].asset = row.asset
          /\ call'[c].list = row.list /\ call'[c].copies = row.copies
          /\ call'[c].todo = row.todo /\ call'[c].done = row.done \ {k}
      BY <1>1, <2>1 DEF CallRows
    <2>3. Stage(call'[c]) = Stage(row)
      BY <2>1, <2>2 DEF Stage
    <2> QED BY <2>2, <2>3 DEF RowFacts
  <1>5. CASE Expire(c)
    <2>1. PICK a \in row.list :
             /\ call'[c] = Erasing([row EXCEPT !.asset = a, !.list = @ \ {a}], {a}, "expireRow")
             /\ cleanup' = cleanup \cup {a} /\ row.step = "expire"
      BY <1>5, GoRow DEF Expire, At
    <2>2. /\ call'[c].step = "erase" /\ call'[c].asset = a
          /\ call'[c].list = row.list \ {a} /\ call'[c].copies = row.copies
          /\ call'[c].todo = {a} /\ call'[c].done = row.done
      BY <1>1, <2>1 DEF CallRows, Erasing
    <2>3. Stage(row) = "expire"
      BY <2>1 DEF Stage
    <2> QED BY <2>1, <2>2, <2>3 DEF RowFacts
  <1>6. CASE ExpireRow(c)
    BY <1>6, PassFacts DEF ExpireRow, Passes, At, Stage
  <1>7. CASE Reject(c) \/ DeleteRow(c)
    <2>1. PICK after \in {"rejectRow", "idle"} : call'[c] = Erasing(row, {row.asset}, after)
      BY <1>7, GoRow DEF Reject, DeleteRow
    <2>2. cleanup' = cleanup \cup {row.asset}
      BY <1>7 DEF Reject, DeleteRow
    <2>3. /\ call'[c].step = "erase" /\ call'[c].after = after /\ call'[c].asset = row.asset
          /\ call'[c].list = row.list /\ call'[c].copies = row.copies
          /\ call'[c].todo = {row.asset} /\ call'[c].done = row.done
      BY <1>1, <2>1 DEF CallRows, Erasing
    <2> QED BY <2>2, <2>3 DEF RowFacts, Stage
  <1>8. CASE CopyObject(c)
    <2>1. CASE GoTo(c, "rollback")
      BY <1>8, <2>1, PassFacts DEF CopyObject, Passes
    <2>2. CASE ~GoTo(c, "rollback")
      <3>1. PICK a \in row.list, b \in Assets :
               /\ row.step = "copy" /\ FreshCopy(b, a)
               /\ asset' = [asset EXCEPT ![b].status = "COPY"]
               /\ objects[a] # "none" /\ objects' = [objects EXCEPT ![b] = objects[a]]
               /\ Go(c, [row EXCEPT !.list = @ \ {a}, !.copies = @ \cup {b}])
        BY <1>8, <2>2 DEF CopyObject, At
      <3>2. call'[c] = [row EXCEPT !.list = @ \ {a}, !.copies = @ \cup {b}]
        BY <3>1, GoRow
      <3>3. /\ call'[c].step = "copy" /\ call'[c].asset = row.asset
            /\ call'[c].list = row.list \ {a} /\ call'[c].copies = row.copies \cup {b}
            /\ call'[c].todo = row.todo /\ call'[c].done = row.done
        BY <1>1, <3>1, <3>2 DEF CallRows
      <3>4. objects'[b] = objects[a] /\ asset'[b].status = "COPY"
        BY <3>1, Fields DEF Types, TypeOK, AssetRows
      <3>5. Adds(c)
        BY <3>1, <3>3, <3>4 DEF Adds, At, FreshCopy
      <3> QED BY <3>3, <3>5 DEF RowFacts, Stage
    <2> QED BY <2>1, <2>2
  <1>9. CASE CopyError(c) \/ \E r \in Reports : DuplicateAckLost(c, r)
    BY <1>9, PassFacts DEF CopyError, DuplicateAckLost, Duplicated, Passes
  <1>10. CASE Rollback(c)
    <2>1. call'[c] = Erasing(row, row.copies, "idle") /\ cleanup' = cleanup \cup row.copies
      BY <1>10, GoRow DEF Rollback
    <2>2. /\ call'[c].step = "erase" /\ call'[c].after = "idle" /\ call'[c].asset = row.asset
          /\ call'[c].list = row.list /\ call'[c].copies = row.copies
          /\ call'[c].todo = row.copies /\ call'[c].done = row.done
      BY <1>1, <2>1 DEF CallRows, Erasing
    <2> QED BY <2>1, <2>2 DEF RowFacts, Stage
  <1>11. ASSUME NEW a \in Assets, ReserveSlot(c, a)
         PROVE  RowFacts(c)
    <2>1. call'[c] = [row EXCEPT !.step = "sign", !.asset = a]
      BY <1>11, GoRow DEF ReserveSlot
    <2>2. asset'[a].status = "PENDING"
      BY <1>11 DEF ReserveSlot, NoRow, Types, TypeOK
    <2>3. /\ call'[c].step = "sign" /\ call'[c].asset = a
          /\ call'[c].list = row.list /\ call'[c].copies = row.copies
          /\ call'[c].todo = row.todo /\ call'[c].done = row.done
      BY <1>1, <2>1 DEF CallRows
    <2> QED BY <1>11, <2>2, <2>3 DEF RowFacts, Stage, RowStatus
  <1>12. ASSUME NEW a \in Assets, ConfirmBegin(c, a)
         PROVE  RowFacts(c)
    <2>1. call'[c] = [IdleCall EXCEPT !.step = "confirm", !.report = asset[a].report, !.asset = a]
          /\ asset' = asset /\ asset[a].status = "PENDING"
      BY <1>12, GoRow DEF ConfirmBegin
    <2>2. /\ call'[c].step = "confirm" /\ call'[c].asset = a /\ call'[c].list = {}
          /\ call'[c].copies = {} /\ call'[c].todo = {} /\ call'[c].done = {}
      BY <2>1 DEF IdleCall
    <2> QED BY <1>12, <2>1, <2>2 DEF RowFacts, Stage, RowStatus
  <1>13. ASSUME NEW r \in Reports, DeleteReport(c, r)
         PROVE  RowFacts(c)
    <2>1. PICK keys : call'[c] = Erasing(IdleCall, keys, "idle") /\ cleanup' = cleanup \cup keys
      BY <1>13, GoRow DEF DeleteReport
    <2>2. /\ call'[c].step = "erase" /\ call'[c].after = "idle" /\ call'[c].asset = NULL
          /\ call'[c].list = {} /\ call'[c].copies = {}
          /\ call'[c].todo = keys /\ call'[c].done = {}
      BY <2>1 DEF IdleCall, Erasing
    <2> QED BY <2>1, <2>2 DEF RowFacts, Stage
  <1> QED BY <1>2, <1>3, <1>4, <1>5, <1>6, <1>7, <1>8, <1>9, <1>10, <1>11, <1>12, <1>13
          DEF Writes, Sign, SignError, ConfirmReady, RejectRowEnd, DuplicateCommit

\* A step is that of one request at most.
LEMMA OtherRows ==
    ASSUME Types, NEW d \in Calls, Quiet(d) \/ Writes(d), NEW c \in Calls, c # d
    PROVE  call'[c] = call[c]
  <1>1. \E row : Go(d, row)
    BY DEF Quiet, Writes, EraseError, EraseEnd, ListExpired, ExpireEnd, SlotRefused,
           ConfirmCheck, ConfirmHead, ConfirmInspect, ConfirmReadError, DeleteFind, DuplicateError,
           Abort, DeleteBegin, RequestBegin, DuplicateBegin, EraseObject, EraseTask, Expire,
           ExpireRow, Sign, SignError, ConfirmReady, Reject, RejectRowEnd, DeleteRow, CopyObject,
           CopyError, Rollback, ReserveSlot, ConfirmBegin, DeleteReport, DuplicateCommit,
           DuplicateAckLost, GoTo, EndCall
  <1> QED BY <1>1, GoRow

LEMMA OneRow ==
    ASSUME Types, Next, NEW c \in Calls, NEW d \in Calls, call'[c] # call[c], call'[d] # call[d]
    PROVE  c = d
  BY NextCases, OtherRows, OutsideCalls

\* Of every request: nothing happens to it, or what its step makes of it.
LEMMA RowMoves ==
    ASSUME Types, Next, NEW c \in Calls
    PROVE  call'[c] = call[c] \/ RowFacts(c)
  BY NextCases, OtherRows, QuietFacts, WritesFacts, OutsideCalls

-----------------------------------------------------------------------------
(* What holds whatever fails.                                              *)

Base ==
    /\ Types /\ Known /\ Drawn /\ Fresh
    /\ Finished /\ Closed /\ Erased /\ Unsigned

\* The keys of assets and of outputs are apart.
LEMMA KeysApart ==
    /\ \A a \in Assets, r \in Reports : a # Output(r)
    /\ \A r, s \in Reports : Output(r) = Output(s) => r = s
  BY KeysDiffer DEF Output

LEMMA Named ==
    ASSUME Types, NEW c \in Calls
    PROVE  /\ call[c].step \in NamesAsset => call[c].asset \in Assets
           /\ call[c].step \in NamesReport => call[c].report \in Reports
           /\ call[c].asset \in Assets \cup {NULL}
  BY Fields DEF SoundRows, CallRows, Stage, NamesAsset, NamesReport

\* What the requests that start a list put on it.
LEMMA BeginsList ==
    ASSUME Types, NEW c \in Calls, Begins(c)
    PROVE  /\ UNCHANGED <<report, sources, asset, contract, objects, cleanup>>
           /\ \A a \in call'[c].list : a \in Assets
           /\ \/ /\ ListExpired(c)
                 /\ \A a \in call'[c].list : asset[a].status = "PENDING" /\ Expired(a)
              \/ /\ At(c, "idle") /\ call'[c].step = "copy"
                 /\ \A a \in call'[c].list : asset[a].status = "READY"
  <1>1. Quiet(c)
    BY DEF Begins, Quiet
  <1>2. UNCHANGED <<report, sources, asset, contract, objects, cleanup>>
    BY <1>1, QuietKeeps
  <1>3. CASE ListExpired(c)
    <2> DEFINE expired == {a \in AssetsOf(call[c].report) : asset[a].status = "PENDING" /\ Expired(a)}
    <2>1. expired \subseteq Assets /\ \A a \in expired : asset[a].status = "PENDING" /\ Expired(a)
      BY DEF AssetsOf
    <2>2. PICK step : Go(c, [call[c] EXCEPT !.step = step, !.list = expired])
      BY <1>3 DEF ListExpired
    <2> HIDE DEF expired
    <2>3. call'[c] = [call[c] EXCEPT !.step = step, !.list = expired]
      BY <2>2, GoRow
    <2>4. call'[c].list = expired
      BY <2>3, Fields DEF CallRows
    <2> QED BY <1>2, <1>3, <2>1, <2>4
  <1>4. ASSUME NEW r \in Reports, DuplicateBegin(c, r)
        PROVE  /\ \A a \in call'[c].list : a \in Assets /\ asset[a].status = "READY"
               /\ At(c, "idle") /\ call'[c].step = "copy"
    <2> DEFINE ready == {a \in AssetsOf(r) : asset[a].status = "READY"}
    <2>1. ready \subseteq Assets /\ \A a \in ready : asset[a].status = "READY"
      BY DEF AssetsOf
    <2>2. At(c, "idle") /\ Go(c, [IdleCall EXCEPT !.step = "copy", !.report = r, !.list = ready])
      BY <1>4 DEF DuplicateBegin, Begin
    <2> HIDE DEF ready
    <2> DEFINE row == [IdleCall EXCEPT !.step = "copy", !.report = r, !.list = ready]
    <2>3. call'[c] = row
      BY <2>2, GoRow
    <2>4. call'[c].list = ready /\ call'[c].step = "copy"
      BY <2>3 DEF IdleCall
    <2> QED BY <2>1, <2>2, <2>4
  <1> QED BY <1>2, <1>3, <1>4 DEF Begins

\* How the status of an id goes on.
LEMMA StatusMoves ==
    ASSUME Types, Next, NEW a \in Assets
    PROVE  \/ asset'[a] = asset[a]
           \/ Draws(a) /\ asset'[a].status = "COPY"
           \/ Slots(a) /\ asset'[a].status = "PENDING"
           \/ Rejects(a) /\ asset'[a].status = "REJECTED"
           \/ Verifies(a) /\ asset'[a].status = "READY"
           \/ Ages(a) /\ asset'[a].status = "PENDING"
           \/ Drops(a) /\ asset'[a].status = "DELETED"
           \/ Commits(a) /\ asset'[a].status = "READY"
  <1>1. AssetMove(a) /\ asset[a] \in AssetRows
    BY AssetMoves DEF Types, TypeOK
  <1>2. Draws(a) => asset'[a].status = "COPY"
    BY <1>1 DEF Draws, AssetRows
  <1>3. Slots(a) => asset'[a].status = "PENDING"
    BY DEF Slots, NoRow
  <1>4. Rejects(a) => asset'[a].status = "REJECTED"
    BY <1>1 DEF Rejects, AssetRows
  <1>5. Verifies(a) => asset'[a].status = "READY"
    BY <1>1 DEF Verifies, AssetRows
  <1>6. Ages(a) => asset'[a].status = "PENDING"
    BY <1>1 DEF Ages, AssetRows
  <1>7. Drops(a) => asset'[a].status = "DELETED"
    BY DEF Drops, NoRow
  <1>8. Commits(a) => asset'[a].status = "READY"
    BY DEF Commits, NoRow
  <1> QED BY <1>1, <1>2, <1>3, <1>4, <1>5, <1>6, <1>7, <1>8 DEF AssetMove

\* No row comes back to an id.
LEMMA EnteredStays ==
    ASSUME Types, Next, NEW a \in Assets, Entered(a)
    PROVE  Entered(a)'
  BY StatusMoves DEF Entered, Draws, RowStatus

LEMMA KnownStep ==
    ASSUME Base, Next
    PROVE  Known'
  <1> SUFFICES ASSUME NEW c \in Calls
               PROVE  /\ call'[c].asset # NULL => Entered(call[c].asset)'
                      /\ \A a \in call'[c].list : Entered(a)'
    BY DEF Known
  <1>1. Types /\ Types'
    BY TypesStep DEF Base
  <1>2. /\ call[c].asset # NULL => Entered(call[c].asset)
        /\ \A a \in call[c].list : Entered(a)
    BY DEF Base, Known
  <1>3. /\ call[c].asset # NULL => Entered(call[c].asset) /\ asset'[call[c].asset].status \in RowStatus \cup {"DELETED"}
        /\ \A a \in call[c].list : asset'[a].status \in RowStatus \cup {"DELETED"}
    BY <1>1, <1>2, EnteredStays, Named, Fields DEF Entered
  <1>4. CASE call'[c] = call[c]
    BY <1>3, <1>4 DEF Entered
  <1>5. CASE RowFacts(c)
    <2>1. call'[c].asset # NULL => asset'[call'[c].asset].status \in RowStatus \cup {"DELETED"}
      BY <1>3, <1>5 DEF RowFacts
    <2>2. CASE call'[c].list \subseteq call[c].list
      BY <1>3, <2>1, <2>2 DEF Entered
    <2>3. CASE Begins(c)
      BY <1>1, <2>1, <2>3, BeginsList DEF Entered, RowStatus
    <2> QED BY <1>5, <2>2, <2>3 DEF RowFacts
  <1> QED BY <1>1, <1>4, <1>5, RowMoves

\* Nothing can be stored again under a key once nothing could be.
LEMMA WritableEnds ==
    ASSUME Types, Next, NEW k, ~Writable(k)
    PROVE  ~Writable(k)'
  <1> SUFFICES ASSUME Writable(k)'
               PROVE  FALSE
    OBVIOUS
  <1>1. CASE k \in Assets /\ asset'[k].status \in {"ABSENT", "PENDING"}
    <2>1. AssetMove(k) /\ ContractMove(k) /\ asset[k] \in AssetRows
      BY <1>1, AssetMoves, ContractMoves DEF Types, TypeOK
    <2>2. asset'[k] = asset[k] \/ Ages(k)
      BY <1>1, StatusMoves DEF Slots, Writable
    <2>3. asset[k].status = "ABSENT" \/ (asset[k].status = "PENDING" /\ ~Expired(k) /\ contract'[k] # "closed")
      <3>1. CASE asset'[k] = asset[k]
        BY <1>1, <3>1, KeysApart DEF Writable, Expired
      <3>2. CASE Ages(k)
        BY <1>1, <2>1, <3>2, KeysApart DEF Writable, Ages, AssetRows
      <3> QED BY <2>2, <3>1, <3>2
    <2> QED BY <1>1, <2>1, <2>3 DEF ContractMove, Opens, Closes, Writable
  <1>2. CASE \E r \in Reports : k = Output(r) /\ report'[r] # "DELETED"
    <2> PICK r \in Reports : k = Output(r) /\ report'[r] # "DELETED"
      BY <1>2
    <2>1. ReportMove(r)
      BY ReportMoves
    <2>2. report[r] # "DELETED"
      BY <2>1 DEF ReportMove, Editable, Exists
    <2> QED BY <2>2 DEF Writable
  <1> QED BY <1>1, <1>2 DEF Writable

\* An id drawn for a copy has that row only, until the duplicate is committed.
LEMMA CopyMoves ==
    ASSUME Base, Next, NEW a \in Assets, asset[a].status = "COPY"
    PROVE  asset'[a] = asset[a] \/ Commits(a)
  <1>1. ~HasRow(a) /\ ~Entered(a)
    BY DEF HasRow, Entered, RowStatus
  <1>2. \A c \in Calls : call[c].asset # a
    <2> SUFFICES ASSUME NEW c \in Calls, call[c].asset = a
                 PROVE  FALSE
      OBVIOUS
    <2>1. call[c].asset # NULL
      BY StorageConstants
    <2> QED BY <1>1, <2>1 DEF Base, Known
  <1>3. ~Drops(a)
    BY <1>1, <1>2 DEF Drops
  <1> QED BY <1>3, StatusMoves DEF Base, Draws, Slots, Rejects, Verifies, Ages

\* A duplication that still copies keeps its ids for itself.
LEMMA CopyStays ==
    ASSUME Base, Next, NEW c \in Calls, NEW a \in call[c].copies, At(c, "copy"), call'[c].step = "copy"
    PROVE  asset'[a] = asset[a] /\ asset[a].status = "COPY"
  <1>1. a \in Assets /\ asset[a].status = "COPY"
    BY Fields DEF Base, Drawn
  <1>2. ~Commits(a)
    BY DEF Base, Drawn, Commits, At
  <1> QED BY <1>1, <1>2, CopyMoves

LEMMA DrawnStep ==
    ASSUME Base, Next
    PROVE  Drawn'
  <1>1. Types /\ Types'
    BY TypesStep DEF Base
  <1>2. ASSUME NEW c \in Calls, NEW a \in call'[c].copies
        PROVE  \/ a \in call[c].copies
               \/ /\ asset[a].status = "ABSENT" /\ asset'[a].status = "COPY" /\ a \in Assets
                  /\ At(c, "copy") /\ call'[c] # call[c]
    <2>1. CASE call'[c] = call[c]
      BY <1>2, <2>1
    <2>2. CASE Adds(c)
      <3>1. PICK b \in call[c].list, d \in Assets :
               /\ asset[d].status = "ABSENT" /\ asset'[d].status = "COPY" /\ At(c, "copy")
               /\ call'[c].copies = call[c].copies \cup {d} /\ call'[c].list = call[c].list \ {b}
        BY <2>2 DEF Adds
      <3>2. call'[c] # call[c]
        BY <3>1
      <3> QED BY <1>2, <3>1, <3>2
    <2> QED BY <1>1, <1>2, <2>1, <2>2, RowMoves DEF RowFacts
  <1>3. ASSUME NEW c \in Calls, NEW a \in call'[c].copies
        PROVE  asset'[a].status \notin {"ABSENT", "PENDING"}
    <2>1. CASE a \in call[c].copies
      <3>1. a \in Assets /\ asset[a].status \notin {"ABSENT", "PENDING"}
        BY <1>1, <2>1, Fields DEF Base, Drawn
      <3> QED BY <1>1, <3>1, StatusMoves DEF Slots, Ages
    <2> QED BY <1>2, <1>3, <2>1
  <1>4. ASSUME NEW c \in Calls, call'[c].step \in {"copy", "rollback"}, NEW a \in call'[c].copies
        PROVE  \/ call[c].step \in {"copy", "rollback"} /\ a \in call[c].copies
               \/ At(c, "copy") /\ asset[a].status = "ABSENT" /\ call'[c] # call[c]
    <2>1. CASE call'[c] = call[c]
      BY <1>4, <2>1
    <2>2. CASE RowFacts(c)
      BY <1>2, <1>4, <2>2 DEF RowFacts, Adds, At
    <2> QED BY <1>1, <2>1, <2>2, RowMoves
  <1>5. ASSUME NEW c \in Calls, call'[c].step = "copy", call'[c].copies # {}
        PROVE  At(c, "copy")
    <2>1. CASE call'[c] = call[c]
      BY <1>5, <2>1 DEF At
    <2>2. CASE RowFacts(c)
      BY <1>5, <2>2 DEF RowFacts, Adds
    <2> QED BY <1>1, <2>1, <2>2, RowMoves
  <1>6. ASSUME NEW c \in Calls, NEW a \in call'[c].copies, call'[c].step = "copy"
        PROVE  asset'[a].status = "COPY"
    BY <1>2, <1>5, <1>6, CopyStays
  <1>7. ASSUME NEW c \in Calls, NEW d \in Calls, NEW a \in call'[c].copies \cap call'[d].copies,
               call'[c].step = "copy", call'[d].step \in {"copy", "rollback"}
        PROVE  c = d
    <2>1. At(c, "copy")
      BY <1>5, <1>7
    <2>2. \A e \in Calls : a \in call[e].copies => asset[a].status # "ABSENT"
      BY DEF Base, Drawn
    <2>3. CASE a \in call[c].copies
      <3>1. a \in call[d].copies /\ call[d].step \in {"copy", "rollback"}
        BY <1>4, <1>7, <2>2, <2>3
      <3> QED BY <2>1, <2>3, <3>1 DEF Base, Drawn
    <2>4. CASE a \notin call[c].copies
      <3>1. asset[a].status = "ABSENT" /\ call'[c] # call[c]
        BY <1>2, <1>7, <2>4
      <3>2. a \notin call[d].copies
        BY <2>2, <3>1
      <3>3. call'[d] # call[d]
        BY <1>2, <1>7, <3>2
      <3> QED BY <1>1, <3>1, <3>3, OneRow
    <2> QED BY <2>3, <2>4
  <1> QED BY <1>3, <1>6, <1>7 DEF Drawn, At

LEMMA FreshStep ==
    ASSUME Base, Next
    PROVE  Fresh'
  <1> SUFFICES ASSUME NEW a \in Assets, asset'[a].status = "ABSENT"
               PROVE  contract'[a] = "none" /\ objects'[a] = "none"
    BY DEF Fresh
  <1>1. Types /\ a \in Keys
    BY DEF Base, Keys
  <1>2. asset[a].status = "ABSENT"
    BY <1>1, StatusMoves
  <1>3. contract[a] = "none" /\ objects[a] = "none"
    BY <1>2 DEF Base, Fresh
  <1>4. ~Opens(a)
    <2> SUFFICES ASSUME NEW c \in Calls, call[c].asset = a
                 PROVE  FALSE
      BY DEF Opens
    <2>1. Entered(a)
      BY StorageConstants DEF Base, Known
    <2> QED BY <1>2, <2>1 DEF Entered, RowStatus
  <1>5. contract'[a] = contract[a]
    BY <1>1, <1>2, <1>4, ContractMoves DEF ContractMove, Closes
  <1>6. ~Publishes(a)
    BY KeysApart DEF Publishes
  <1>7. objects'[a] \in {objects[a], "none"}
    BY <1>1, <1>2, <1>6, ObjectMoves DEF ObjectMove, Deletes, Uploads, Copies
  <1> QED BY <1>3, <1>5, <1>7

LEMMA ClosedStep ==
    ASSUME Base, Next
    PROVE  Closed'
  <1> DEFINE Confirming == {"confirm", "head", "inspect", "ready", "reject"}
  <1> SUFFICES ASSUME NEW c \in Calls, call'[c].step \in Confirming
               PROVE  contract'[call'[c].asset] = "closed"
    BY DEF Closed
  <1>1. Types
    BY DEF Base
  <1>2. CASE call'[c].asset = call[c].asset /\ call[c].step \in Confirming
    <2>1. call[c].asset \in Assets /\ contract[call[c].asset] = "closed"
      BY <1>1, <1>2, Named DEF NamesAsset, Base, Closed
    <2>2. contract'[call[c].asset] = "closed"
      BY <1>1, <2>1, ContractMoves DEF ContractMove, Opens, Closes
    <2> QED BY <1>2, <2>2
  <1>3. CASE RowFacts(c)
    <2>1. CASE Checks(c) /\ call'[c].asset = call[c].asset
      BY <1>2, <2>1 DEF Checks, ConfirmCheck, ConfirmHead, ConfirmInspect, At
    <2>2. ASSUME NEW a \in Assets, ConfirmBegin(c, a), call'[c].asset = a
          PROVE  contract'[a] = "closed"
      BY <1>1, <2>2 DEF ConfirmBegin, Types, TypeOK
    <2> QED BY <1>3, <2>1, <2>2 DEF RowFacts
  <1> QED BY <1>1, <1>2, <1>3, RowMoves

LEMMA ErasedStep ==
    ASSUME Base, Next
    PROVE  Erased'
  <1> SUFFICES ASSUME NEW c \in Calls, NEW k \in call'[c].done
               PROVE  objects'[k] = "none"
    BY DEF Erased
  <1>1. Types
    BY DEF Base
  <1>2. CASE k \in call[c].done
    <2>1. k \in Keys /\ objects[k] = "none" /\ ~Writable(k)
      BY <1>1, <1>2, Fields DEF Base, Erased, Finished, Erasable
    <2>2. ~Uploads(k) /\ ~Copies(k) /\ ~Publishes(k)
      BY <2>1 DEF Writable, Uploads, Copies, Publishes
    <2> QED BY <1>1, <2>1, <2>2, ObjectMoves DEF ObjectMove, Deletes
  <1> QED BY <1>1, <1>2, RowMoves DEF RowFacts

LEMMA UnsignedStep ==
    ASSUME Base, Next
    PROVE  Unsigned'
  <1>1. Types
    BY DEF Base
  <1>2. ASSUME NEW c \in Calls, At(c, "sign")
        PROVE  call[c].asset \in Assets /\ asset[call[c].asset].status # "ABSENT"
    <2>1. call[c].asset \in Assets
      BY <1>1, <1>2, Named DEF At, NamesAsset
    <2>2. Entered(call[c].asset)
      BY <2>1, StorageConstants DEF Base, Known
    <2> QED BY <2>1, <2>2 DEF Entered, RowStatus
  <1>3. ASSUME NEW c \in Calls, call'[c].step = "sign"
        PROVE  \/ call'[c] = call[c]
               \/ /\ call'[c] # call[c] /\ call'[c].asset \in Assets
                  /\ ReserveSlot(c, call'[c].asset)
    BY <1>1, <1>3, RowMoves DEF RowFacts, ReserveSlot, At
  <1>4. ASSUME NEW c \in Calls, call'[c].step = "sign"
        PROVE  contract'[call'[c].asset] # "open" /\ objects'[call'[c].asset] = "none"
    <2>1. CASE call'[c] = call[c]
      <3> DEFINE a == call[c].asset
      <3>1. At(c, "sign") /\ a \in Assets /\ asset[a].status # "ABSENT" /\ a \in Keys
        BY <1>2, <1>4, <2>1 DEF At, Keys
      <3>2. contract[a] # "open" /\ objects[a] = "none"
        BY <3>1 DEF Base, Unsigned
      <3>3. ~Opens(a)
        BY <1>4, <2>1, <3>1 DEF Base, Unsigned, Opens
      <3>4. contract'[a] # "open"
        BY <1>1, <3>1, <3>2, <3>3, ContractMoves DEF ContractMove, Closes
      <3>5. ~Uploads(a) /\ ~Copies(a) /\ ~Publishes(a)
        BY <3>1, <3>2, KeysApart DEF Uploads, Copies, Publishes
      <3> QED BY <1>1, <2>1, <3>1, <3>2, <3>4, <3>5, ObjectMoves DEF ObjectMove, Deletes
    <2>2. CASE call'[c].asset \in Assets /\ ReserveSlot(c, call'[c].asset)
      BY <2>2 DEF ReserveSlot, Base, Fresh
    <2> QED BY <1>3, <1>4, <2>1, <2>2
  <1>5. ASSUME NEW c \in Calls, NEW d \in Calls, call'[c].step = "sign", call'[d].step = "sign",
               call'[c].asset = call'[d].asset
        PROVE  c = d
    <2>1. CASE call'[c] = call[c] /\ call'[d] = call[d]
      BY <1>5, <2>1 DEF Base, Unsigned, At
    <2>2. CASE call'[c] # call[c] /\ call'[d] # call[d]
      BY <1>1, <2>2, OneRow
    <2>3. \A e, f \in Calls : call'[e] = call[e] /\ call'[e].step = "sign" /\ call'[f].step = "sign"
             /\ call'[f] # call[f] => call'[e].asset # call'[f].asset
      <3> SUFFICES ASSUME NEW e \in Calls, NEW f \in Calls, call'[e] = call[e], call'[e].step = "sign",
                          call'[f].step = "sign", call'[f] # call[f]
                   PROVE  call'[e].asset # call'[f].asset
        OBVIOUS
      <3>1. asset[call'[f].asset].status = "ABSENT"
        BY <1>3 DEF ReserveSlot
      <3>2. asset[call'[e].asset].status # "ABSENT"
        BY <1>2 DEF At
      <3> QED BY <3>1, <3>2
    <2> QED BY <1>5, <2>1, <2>2, <2>3
  <1> QED BY <1>4, <1>5 DEF Unsigned, At

LEMMA FinishedStep ==
    ASSUME Base, Next
    PROVE  Finished'
  <1>1. Types
    BY DEF Base
  <1>2. ASSUME NEW k, ~Writable(k)
        PROVE  ~Writable(k)'
    BY <1>1, <1>2, WritableEnds
  <1>3. ASSUME NEW k \in cleanup'
        PROVE  ~Writable(k)'
    <2>1. CASE k \in cleanup
      BY <1>2, <2>1 DEF Base, Finished, Erasable, Types, TypeOK
    <2>2. ASSUME NEW c \in Calls, k \in call[c].list
          PROVE  ~Writable(k)'
      BY <1>2, <2>2 DEF Base, Finished
    <2>3. ASSUME NEW c \in Calls, At(c, "reject"), k = call[c].asset
          PROVE  ~Writable(k)'
      <3>1. k \in Assets /\ contract[k] = "closed" /\ Entered(k)
        BY <1>1, <2>3, Named, StorageConstants DEF At, NamesAsset, Base, Closed, Known
      <3>2. ~Writable(k)
        BY <3>1, KeysApart DEF Writable, Entered, RowStatus
      <3> QED BY <1>2, <3>2
    <2>4. CASE k \in Assets /\ asset'[k] = NoRow("DELETED")
      BY <2>4, KeysApart DEF Writable, NoRow
    <2>5. ASSUME NEW r \in Reports, k = Output(r), report'[r] = "DELETED"
          PROVE  ~Writable(k)'
      BY <2>5, KeysApart DEF Writable
    <2>6. ASSUME NEW c \in Calls, k \in call[c].copies
          PROVE  ~Writable(k)'
      <3>1. k \in Assets /\ asset[k].status \notin {"ABSENT", "PENDING"}
        BY <1>1, <2>6, Fields DEF Base, Drawn
      <3>2. ~Writable(k)
        BY <3>1, KeysApart DEF Writable
      <3> QED BY <1>2, <3>2
    <2>7. k \in cleanup \/ Queues(k)
      BY <1>1, CleanupMoves
    <2> QED BY <2>1, <2>2, <2>3, <2>4, <2>5, <2>6, <2>7 DEF Queues
  <1>4. ASSUME NEW c \in Calls, NEW k \in call'[c].todo \cup call'[c].done
        PROVE  ~Writable(k)'
    <2>1. CASE k \in call[c].todo \cup call[c].done
      BY <1>1, <1>2, <2>1, Fields DEF Base, Finished, Erasable
    <2>2. CASE k \notin call[c].todo \cup call[c].done
      <3>1. k \in cleanup'
        BY <1>1, <1>4, <2>2, RowMoves DEF RowFacts
      <3> QED BY <1>3, <3>1
    <2> QED BY <2>1, <2>2
  <1>5. ASSUME NEW c \in Calls, NEW a \in call'[c].list
        PROVE  ~Writable(a)'
    <2>1. CASE a \in call[c].list
      BY <1>2, <2>1 DEF Base, Finished
    <2>2. CASE Begins(c)
      <3>1. /\ a \in Assets
            /\ \/ asset[a].status = "READY"
               \/ asset[a].status = "PENDING" /\ Expired(a)
        BY <1>1, <1>5, <2>2, BeginsList
      <3>2. ~Writable(a)
        BY <3>1, KeysApart DEF Writable
      <3> QED BY <1>2, <3>2
    <2> QED BY <1>1, <1>5, <2>1, <2>2, RowMoves DEF RowFacts
  <1> QED BY <1>3, <1>4, <1>5 DEF Finished, Erasable

LEMMA BaseInit ==
    ASSUME Init
    PROVE  Base
  <1>1. /\ \A a \in Assets : asset[a] = NoRow("ABSENT") /\ contract[a] = "none"
        /\ \A k \in Keys : objects[k] = "none"
        /\ \A c \in Calls : call[c] = IdleCall
        /\ cleanup = {} /\ Assets \subseteq Keys
    BY DEF Init, Keys
  <1>2. \A a \in Assets : asset[a].status = "ABSENT" /\ objects[a] = "none" /\ ~HasRow(a)
    BY <1>1 DEF NoRow, HasRow, RowStatus
  <1>3. \A c \in Calls : /\ call[c].step = "idle" /\ call[c].asset = NULL /\ call[c].list = {}
                         /\ call[c].copies = {} /\ call[c].todo = {} /\ call[c].done = {}
    BY <1>1 DEF IdleCall
  <1>4. Types
    <2>1. NoRow("ABSENT") \in AssetRows
      BY StorageConstants DEF NoRow, AssetRows
    <2>2. IdleCall \in SoundRows /\ IdleCall \in CallRows
      BY IdleRow DEF SoundRows
    <2> QED BY <1>2, <2>1, <2>2 DEF Init, Types, TypeOK
  <1>5. Known /\ Drawn /\ Fresh /\ Closed /\ Erased /\ Unsigned
    BY <1>1, <1>2, <1>3 DEF Known, Drawn, Fresh, Closed, Erased, Unsigned, At
  <1>6. Finished
    BY <1>1, <1>3 DEF Finished, Erasable
  <1> QED BY <1>4, <1>5, <1>6 DEF Base

LEMMA BaseStep ==
    ASSUME Base, [Next]_vars
    PROVE  Base'
  <1>1. CASE Next
    BY <1>1, TypesStep, KnownStep, DrawnStep, FreshStep, FinishedStep, ClosedStep, ErasedStep,
       UnsignedStep DEF Base
  <1>2. CASE UNCHANGED vars
    BY <1>2 DEF vars, Base, Types, TypeOK, HasRow, Exists, Known, Entered, Drawn, At, Fresh, Finished,
       Erasable, Writable, Expired, Closed, Erased, Unsigned
  <1> QED BY <1>1, <1>2

LEMMA BaseAlways == Spec => []Base
  BY BaseInit, BaseStep, PTL DEF Spec

\* The rows have their types, their foreign keys hold, and the requests work on
\* what they have looked up, whatever interleaves and fails.
THEOREM StorageTypes == Spec => []TypeOK
  <1>1. Base => TypeOK
    BY DEF Base, Types
  <1> QED BY <1>1, BaseAlways, PTL

-----------------------------------------------------------------------------
(* The start of a generation, and the verdicts on uploads.                 *)

LEMMA SourcesInit ==
    ASSUME Init
    PROVE  SourcesReady
  BY DEF Init, SourcesReady

LEMMA SourcesStep ==
    ASSUME Base, SourcesReady, [Next]_vars
    PROVE  SourcesReady'
  <1>1. CASE Next
    <2> SUFFICES ASSUME NEW r \in Reports, report'[r] = "ACTIVE", NEW a \in Assets,
                        asset'[a].status \in RowStatus, asset'[a].report = r
                 PROVE  asset'[a].status = "READY"
      BY DEF SourcesReady, AssetsOf, HasRow
    <2>1. Types /\ ReportMove(r)
      BY <1>1, ReportMoves DEF Base
    <2>2. CASE report[r] = "ACTIVE"
      <3>1. HasRow(a) /\ asset[a].report = r => asset[a].status = "READY"
        BY <2>2 DEF SourcesReady, AssetsOf
      <3>2. asset[a] \in AssetRows
        BY <2>1 DEF Types, TypeOK
      <3>3. CASE asset'[a] = asset[a]
        BY <3>1, <3>3 DEF HasRow
      <3>4. CASE Slots(a)
        BY <2>2, <3>4 DEF Slots, NoRow, Editable
      <3>5. CASE Rejects(a)
        BY <3>1, <3>2, <3>5 DEF Rejects, HasRow, RowStatus, AssetRows
      <3>6. CASE Ages(a)
        BY <3>1, <3>2, <3>6 DEF Ages, HasRow, RowStatus, AssetRows
      <3> QED BY <1>1, <2>1, <3>3, <3>4, <3>5, <3>6, StatusMoves DEF RowStatus
    <2>3. CASE report[r] # "ACTIVE"
      BY <2>1, <2>3 DEF ReportMove, AssetsOf, HasRow
    <2> QED BY <2>2, <2>3
  <1>2. CASE UNCHANGED vars
    BY <1>2 DEF vars, SourcesReady, AssetsOf, HasRow
  <1> QED BY <1>1, <1>2

\* While a generation is active all assets of its report are READY: an upload
\* slot requested, confirmed, expired or copied across the start transaction
\* never shows up in a report that the worker reads.
THEOREM ActiveSourcesReady == Spec => []SourcesReady
  BY BaseAlways, SourcesInit, SourcesStep, PTL DEF Spec

LEMMA VerdictStep ==
    ASSUME Base, [Next]_vars, NEW a \in Assets, asset[a].status \in {"READY", "REJECTED"}
    PROVE  asset'[a].status \in {asset[a].status, "DELETED"}
  <1>1. CASE Next
    <2>1. ~Commits(a)
      BY DEF Base, Drawn, Commits
    <2> QED BY <1>1, <2>1, StatusMoves DEF Base, Draws, Slots, Rejects, Verifies, Ages
  <1>2. CASE UNCHANGED vars
    BY <1>2 DEF vars
  <1> QED BY <1>1, <1>2

\* A verdict on an upload is final: the updates of the row are conditional on
\* PENDING_UPLOAD, and a duplicate's rows are under ids that nothing else uses.
THEOREM VerdictsFinal == Spec => VerdictFinal
  <1>1. Base /\ [Next]_vars =>
          [\A a \in Assets : asset[a].status \in {"READY", "REJECTED"} =>
              asset'[a].status \in {asset[a].status, "DELETED"}]_vars
    BY VerdictStep
  <1> QED BY <1>1, BaseAlways, PTL DEF Spec, VerdictFinal

-----------------------------------------------------------------------------
(* No object is forgotten.                                                 *)

\* What a duplication may not meet: the end of its request before its copies are
\* recorded, and a copyObject that throws after S3 has made the copy, whose key
\* nobody knows.  All other requests may end at any await.
NoLostCopy == "duplicate" \notin Operations \/ Faults \cap {"copy", "abortCopy"} = {}

Duplicating ==
    "duplicate" \notin Operations => \A c \in Calls : call[c].step \notin {"copy", "rollback"}

LEMMA DuplicatingStep ==
    ASSUME Base, Duplicating, [Next]_vars
    PROVE  Duplicating'
  <1>1. CASE Next
    <2> SUFFICES ASSUME "duplicate" \notin Operations, NEW c \in Calls
                 PROVE  call'[c].step \notin {"copy", "rollback"}
      BY DEF Duplicating
    <2>1. call[c].step \notin {"copy", "rollback"}
      BY DEF Duplicating
    <2>2. \A r \in Reports : ~DuplicateBegin(c, r)
      BY DEF DuplicateBegin, Begin
    <2> QED BY <1>1, <2>1, <2>2, RowMoves DEF Base, RowFacts, Adds, At
  <1>2. CASE UNCHANGED vars
    BY <1>2 DEF vars, Duplicating
  <1> QED BY <1>1, <1>2

\* What becomes of a copy when its request goes on.
LEMMA CopyGoesOn ==
    ASSUME Types, Next, "abortCopy" \notin Faults, NEW c \in Calls, NEW a \in call[c].copies,
           call[c].step \in {"copy", "rollback"}
    PROVE  \/ call'[c].step \in {"copy", "rollback"} /\ a \in call'[c].copies
           \/ a \in cleanup'
           \/ HasRow(a)'
  <1>1. call[c] \in CallRows /\ a \in Assets
    BY Fields
  <1>2. CASE call'[c] = call[c]
    BY <1>2
  <1>3. CASE GoTo(c, "rollback")
    <2>1. call'[c] = [call[c] EXCEPT !.step = "rollback"]
      BY <1>3, GoRow DEF GoTo
    <2> QED BY <1>1, <2>1 DEF CallRows
  <1>4. CASE Quiet(c)
    <2>1. DuplicateError(c)
      BY <1>4 DEF Quiet, EraseError, EraseEnd, ListExpired, ExpireEnd, SlotRefused, ConfirmCheck,
             ConfirmHead, ConfirmInspect, ConfirmReadError, DeleteFind, Abort, DeleteBegin,
             RequestBegin, DuplicateBegin, Begin, At
    <2> QED BY <1>3, <2>1 DEF DuplicateError
  <1>5. CASE Writes(c)
    <2>1. \/ CopyObject(c) \/ CopyError(c) \/ Rollback(c)
          \/ \E r \in Reports : DuplicateCommit(c, r) \/ DuplicateAckLost(c, r)
      BY <1>5 DEF Writes, EraseObject, EraseTask, Expire, ExpireRow, Sign, SignError, ConfirmReady,
             Reject, RejectRowEnd, DeleteRow, ReserveSlot, ConfirmBegin, DeleteReport, Begin, At
    <2>2. CASE CopyError(c) \/ \E r \in Reports : DuplicateAckLost(c, r)
      BY <1>3, <2>2 DEF CopyError, DuplicateAckLost
    <2>3. CASE CopyObject(c)
      <3>1. CASE ~GoTo(c, "rollback")
        <4>1. PICK b \in call[c].list, d \in Assets :
                 Go(c, [call[c] EXCEPT !.list = @ \ {b}, !.copies = @ \cup {d}])
          BY <2>3, <3>1 DEF CopyObject
        <4>2. call'[c] = [call[c] EXCEPT !.list = @ \ {b}, !.copies = @ \cup {d}]
          BY <4>1, GoRow
        <4> QED BY <1>1, <4>2 DEF CallRows
      <3> QED BY <1>3, <3>1
    <2>4. CASE Rollback(c)
      BY <2>4 DEF Rollback
    <2>5. ASSUME NEW d \in Reports, DuplicateCommit(c, d)
          PROVE  HasRow(a)'
      <3>1. asset'[a] = [NoRow("READY") EXCEPT !.report = d]
        BY <1>1, <2>5 DEF DuplicateCommit, Duplicated
      <3> QED BY <3>1 DEF HasRow, NoRow, RowStatus
    <2> QED BY <2>1, <2>2, <2>3, <2>4, <2>5
  <1> QED BY <1>2, <1>4, <1>5, NextCases, OtherRows, OutsideCalls

LEMMA OwnedStep ==
    ASSUME NoLostCopy, Base, Duplicating, Owned, Next
    PROVE  Owned'
  <1> SUFFICES ASSUME NEW k \in Keys, objects'[k] # "none"
               PROVE  \/ k \in cleanup'
                      \/ k \in Assets /\ HasRow(k)'
                      \/ \E c \in Calls : k \in call'[c].copies /\ call'[c].step \in {"copy", "rollback"}
                      \/ \E r \in Reports : k \in OutputOf(r)'
    BY DEF Owned
  <1>1. Types /\ ObjectMove(k)
    BY ObjectMoves DEF Base
  <1>2. CASE objects'[k] = objects[k]
    <2>1. CASE k \in cleanup
      <3>1. ~Unqueues(k)
        BY <1>2 DEF Unqueues, Base, Erased
      <3> QED BY <1>1, <2>1, <3>1, CleanupMoves
    <2>2. CASE k \in Assets /\ HasRow(k)
      <3>1. CASE Drops(k)
        <4>1. ~\E c \in Calls : At(c, "sign") /\ call[c].asset = k
          BY <1>2 DEF Base, Unsigned
        <4> QED BY <3>1, <4>1 DEF Drops
      <3> QED BY <1>1, <2>2, <3>1, StatusMoves DEF HasRow, RowStatus, Draws
    <2>3. ASSUME NEW c \in Calls, k \in call[c].copies, call[c].step \in {"copy", "rollback"}
          PROVE  \/ k \in cleanup'
                 \/ k \in Assets /\ HasRow(k)'
                 \/ k \in call'[c].copies /\ call'[c].step \in {"copy", "rollback"}
      <3>1. "abortCopy" \notin Faults
        BY <2>3 DEF NoLostCopy, Duplicating
      <3> QED BY <1>1, <2>3, <3>1, CopyGoesOn, Fields
    <2>4. ASSUME NEW r \in Reports, k \in OutputOf(r)
          PROVE  k \in cleanup' \/ k \in OutputOf(r)'
      BY <1>1, <2>4, ReportMoves DEF ReportMove, OutputOf, Editable
    <2> QED BY <1>2, <2>1, <2>2, <2>3, <2>4 DEF Owned
  <1>3. CASE Deletes(k)
    BY <1>3 DEF Deletes
  <1>4. CASE Uploads(k)
    BY <1>4 DEF Uploads, HasRow, RowStatus
  <1>5. CASE Copies(k)
    <2>1. \A c \in Calls : ~CopyError(c)
      BY DEF CopyError, NoLostCopy, Duplicating, At
    <2> QED BY <1>5, <2>1 DEF Copies
  <1>6. CASE Publishes(k)
    BY <1>6 DEF Publishes, OutputOf
  <1> QED BY <1>1, <1>2, <1>3, <1>4, <1>5, <1>6 DEF ObjectMove

LEMMA OwnedAlways ==
    ASSUME NoLostCopy
    PROVE  Spec => [](Base /\ Duplicating /\ Owned)
  <1>1. Init => Duplicating /\ Owned
    BY DEF Init, IdleCall, Duplicating, Owned
  <1>2. Owned /\ UNCHANGED vars => Owned'
    BY DEF vars, Owned, HasRow, OutputOf
  <1>3. Base /\ Duplicating /\ Owned /\ [Next]_vars => (Base /\ Duplicating /\ Owned)'
    BY <1>2, BaseStep, DuplicatingStep, OwnedStep
  <1> QED BY <1>1, <1>3, BaseInit, PTL DEF Spec

\* Nothing in S3 is forgotten, whatever fails, as long as no duplication is cut
\* off between a copy and the record of its key: every stored object belongs
\* to a row, is queued for cleanup, is published, or is a copy of a request that
\* still runs and records it if it fails.
THEOREM ObjectsOwned ==
    ASSUME NoLostCopy
    PROVE  Spec => []KeysOwned
  <1>1. Owned => KeysOwned
    BY DEF Owned, KeysOwned
  <1> QED BY <1>1, OwnedAlways, PTL

-----------------------------------------------------------------------------
(* What is in use keeps its object.                                        *)

\* What the clean-up of a duplication may not meet, that is committed although
\* its request does not learn so, nor a confirmation, a second one or the
\* expiration of its slot.
NoOverlap == Faults \cap {"overlap", "commitAck"} = {}

\* An upload is verified before its slot expires.
InTime == \A a \in Assets : asset[a].status = "READY" => ~Expired(a)

Held == Spared /\ Verifying /\ Copying /\ InTime /\ ReadyAssetHasObject

\* A row that cannot become READY any more stays so.
LEMMA CondemnedStays ==
    ASSUME Base, Verifying, Next, NEW a \in Assets, Condemned(a)
    PROVE  Condemned(a)'
  <1>1. /\ Types /\ ContractMove(a) /\ ObjectMove(a) /\ asset[a] \in AssetRows /\ PendingTtl \in Nat
    BY ContractMoves, ObjectMoves, StorageConstants DEF Base, Types, TypeOK, Keys
  <1>2. ~Publishes(a)
    BY KeysApart DEF Publishes
  <1>3. CASE asset[a].status \in {"REJECTED", "DELETED"}
    <2>1. ~Commits(a)
      BY <1>3 DEF Base, Drawn, Commits
    <2> QED BY <1>1, <1>3, <2>1, StatusMoves DEF Condemned, Draws, Slots, Rejects, Verifies, Ages
  <1>4. CASE asset[a].status = "PENDING"
    <2>1. Doomed(a)
      BY <1>4 DEF Condemned
    <2>2. contract[a] = "closed" /\ objects[a] # "good" => contract'[a] = "closed" /\ objects'[a] # "good"
      BY <1>1, <1>2, <1>4 DEF ContractMove, Opens, Closes, ObjectMove, Deletes, Uploads, Copies
    <2>3. ~Verifies(a)
      BY <1>4, <2>1 DEF Verifies, Verifying, Doomed, At
    <2>4. ~Commits(a)
      BY <1>4 DEF Base, Drawn, Commits
    <2>5. CASE asset'[a] = asset[a]
      BY <1>4, <2>1, <2>2, <2>5 DEF Condemned, Doomed, Expired
    <2>6. CASE Ages(a) /\ asset'[a].status = "PENDING"
      BY <2>1, <2>2, <2>6 DEF Condemned, Doomed, Ages
    <2> QED BY <1>1, <1>4, <2>3, <2>4, <2>5, <2>6, StatusMoves DEF Condemned, Draws, Slots
  <1>5. CASE asset[a].status = "COPY"
    <2>1. \A c \in Calls : At(c, "copy") => a \notin call[c].copies
      BY <1>5 DEF Condemned
    <2>2. asset'[a] = asset[a]
      BY <1>5, <2>1, CopyMoves DEF Commits
    <2>3. ASSUME NEW c \in Calls, call'[c].step = "copy", a \in call'[c].copies
          PROVE  FALSE
      <3>1. RowFacts(c)
        BY <1>1, <2>1, <2>3, RowMoves DEF At
      <3>2. CASE Adds(c)
        <4>1. PICK b \in Assets : asset[b].status = "ABSENT" /\ call'[c].copies = call[c].copies \cup {b}
                                  /\ At(c, "copy")
          BY <3>2 DEF Adds
        <4> QED BY <1>5, <2>1, <2>3, <4>1
      <3> QED BY <2>3, <3>1, <3>2 DEF RowFacts
    <2> QED BY <1>5, <2>2, <2>3 DEF Condemned, At
  <1> QED BY <1>3, <1>4, <1>5 DEF Condemned

\* An upload that a confirmation turns down cannot become READY.
LEMMA TurnedDown ==
    ASSUME Base, Held, NEW c \in Calls, Checks(c), call'[c].step = "reject",
           call'[c].asset = call[c].asset
    PROVE  Condemned(call[c].asset) /\ call[c].asset \in Assets
  <1> DEFINE a == call[c].asset
  <1>1. /\ call[c].step \in {"confirm", "head", "inspect"}
        /\ Expired(a) \/ objects[a] # "good"
    <2>1. Types /\ call[c] \in CallRows /\ IdleCall.step = "idle"
      BY Fields DEF Base, IdleCall
    <2>2. \A step \in Steps : GoTo(c, step) => step = "reject"
      BY <2>1, GoRow DEF GoTo, CallRows
    <2>3. ~EndCall(c)
      BY <2>1, GoRow DEF EndCall
    <2> QED BY <2>2, <2>3 DEF Checks, ConfirmCheck, ConfirmHead, ConfirmInspect, At, Steps
  <1>2. a \in Assets /\ Entered(a) /\ contract[a] = "closed"
    BY <1>1, Named, StorageConstants DEF NamesAsset, Base, Known, Closed
  <1>3. asset[a].status # "READY"
    BY <1>1, <1>2 DEF Held, InTime, ReadyAssetHasObject
  <1> QED BY <1>1, <1>2, <1>3 DEF Condemned, Doomed, Entered, RowStatus

LEMMA SparedStep ==
    ASSUME NoOverlap, Base, Held, Next
    PROVE  Spared'
  <1>1. Types /\ Base' /\ Types'
    BY BaseStep DEF Base
  <1>2. ASSUME NEW a \in Assets, Marked(a)
        PROVE  Condemned(a)'
    BY <1>2, CondemnedStays DEF Held, Spared
  <1>3. ASSUME NEW a \in Assets, a \in cleanup'
        PROVE  Condemned(a)'
    <2>1. CASE a \in cleanup
      BY <1>2, <2>1 DEF Marked
    <2>2. CASE Queues(a)
      <3>1. \A r \in Reports : a # Output(r)
        BY KeysApart
      <3>2. CASE asset'[a] = NoRow("DELETED")
        BY <3>2 DEF Condemned, NoRow
      <3> QED BY <1>2, <2>2, <3>1, <3>2 DEF Queues, Marked, Stage, At
    <2> QED BY <1>1, <1>3, <2>1, <2>2, CleanupMoves
  <1>4. ASSUME NEW a \in Assets, NEW c \in Calls, a \in call'[c].todo
        PROVE  Condemned(a)'
    <2>1. a \in call[c].todo \/ a \in cleanup'
      BY <1>1, <1>4, RowMoves DEF RowFacts
    <2> QED BY <1>2, <1>3, <2>1 DEF Marked
  <1>5. ASSUME NEW a \in Assets, NEW c \in Calls, call'[c].step = "reject", a = call'[c].asset
        PROVE  Condemned(a)'
    <2>1. CASE call'[c] = call[c]
      BY <1>2, <1>5, <2>1 DEF Marked, At
    <2>2. CASE RowFacts(c)
      <3>1. Checks(c) /\ call'[c].asset = call[c].asset
        BY <1>5, <2>2 DEF RowFacts
      <3> QED BY <1>5, <3>1, TurnedDown, CondemnedStays DEF Held
    <2> QED BY <1>1, <2>1, <2>2, RowMoves
  <1>6. ASSUME NEW a \in Assets, NEW c \in Calls, Stage(call'[c]) \in {"expire", "expireRow"}, a \in call'[c].list
        PROVE  Condemned(a)'
    <2>1. CASE call'[c] = call[c]
      BY <1>2, <1>6, <2>1 DEF Marked
    <2>2. CASE Begins(c)
      <3>1. asset[a].status = "PENDING" /\ Expired(a)
        BY <1>1, <1>6, <2>2, BeginsList DEF Stage
      <3>2. Condemned(a)
        BY <3>1 DEF Condemned, Doomed
      <3> QED BY <3>2, CondemnedStays DEF Held
    <2>3. CASE RowFacts(c) /\ ~Begins(c)
      BY <1>2, <1>6, <2>3 DEF RowFacts, Begins, Marked
    <2> QED BY <1>1, <2>1, <2>2, <2>3, RowMoves
  <1>7. ASSUME NEW a \in Assets, NEW c \in Calls, call'[c].step = "rollback", a \in call'[c].copies
        PROVE  Condemned(a)'
    <2>1. CASE call'[c] = call[c]
      BY <1>2, <1>7, <2>1 DEF Marked, At
    <2>2. CASE RowFacts(c)
      <3>1. At(c, "copy") /\ a \in call[c].copies
        BY <1>7, <2>2 DEF RowFacts, Adds
      <3>2. asset[a].status = "COPY"
        BY <3>1 DEF Base, Drawn
      <3>3. ~Commits(a)
        <4> SUFFICES ASSUME NEW d \in Calls, At(d, "copy"), a \in call[d].copies,
                            call'[d].step = "idle" \/ "commitAck" \in Faults
                     PROVE  FALSE
          BY DEF Commits
        <4>1. c = d
          BY <3>1 DEF Base, Drawn, At
        <4> QED BY <1>7, <4>1 DEF NoOverlap
      <3>4. asset'[a].status = "COPY"
        BY <3>2, <3>3, CopyMoves
      <3>5. \A d \in Calls : call'[d].step = "copy" => a \notin call'[d].copies
        <4> SUFFICES ASSUME NEW d \in Calls, call'[d].step = "copy", a \in call'[d].copies
                     PROVE  FALSE
          OBVIOUS
        <4>1. d = c
          BY <1>1, <1>7 DEF Base, Drawn, At
        <4> QED BY <1>7, <4>1
      <3> QED BY <3>4, <3>5 DEF Condemned, At
    <2> QED BY <1>1, <2>1, <2>2, RowMoves
  <1> QED BY <1>3, <1>4, <1>5, <1>6, <1>7 DEF Spared, Marked, At

LEMMA VerifyingStep ==
    ASSUME NoOverlap, Base, Held, Next
    PROVE  Verifying'
  <1>1. Types
    BY DEF Base
  <1> SUFFICES ASSUME NEW c \in Calls, call'[c].step \in {"head", "inspect", "ready"},
                      asset'[call'[c].asset].status = "PENDING"
               PROVE  ~Expired(call[c].asset)'
                      /\ (call'[c].step = "ready" => objects'[call'[c].asset] = "good")
    BY DEF Verifying, At
  <1>2. CASE call'[c] = call[c]
    <2> DEFINE a == call[c].asset
    <2>1. /\ a \in Assets /\ a \in Keys /\ Entered(a) /\ asset'[a].status = "PENDING"
          /\ contract[a] = "closed" /\ asset[a] \in AssetRows /\ PendingTtl \in Nat
      BY <1>1, <1>2, Named, StorageConstants DEF NamesAsset, Base, Known, Closed, Keys, Types, TypeOK
    <2>2. asset'[a] = asset[a] \/ Ages(a)
      BY <1>1, <2>1, StatusMoves DEF Slots, Entered, RowStatus
    <2>3. asset[a].status = "PENDING" /\ ~Expired(a)
      BY <1>2, <2>1, <2>2 DEF Ages, Held, Verifying
    <2>4. ~Expired(a)'
      <3>1. CASE Ages(a)
        <4>1. Handled(a)
          BY <1>2 DEF Handled, At
        <4>2. asset[a].age # PendingTtl
          BY <3>1, <4>1 DEF Ages, NoOverlap
        <4>3. asset[a].age \in Nat /\ asset[a].age <= PendingTtl /\ asset'[a].age = asset[a].age + 1
          BY <2>1, <2>3, <3>1 DEF Ages, Expired, AssetRows
        <4> QED BY <1>2, <2>1, <4>2, <4>3 DEF Expired
      <3> QED BY <1>2, <2>2, <2>3, <3>1 DEF Expired
    <2>5. ASSUME call[c].step = "ready"
          PROVE  objects'[a] = "good"
      <3>1. objects[a] = "good"
        BY <2>3, <2>5 DEF Held, Verifying, At
      <3>2. ~Deletes(a)
        <4>1. ~Condemned(a)
          BY <2>3, <3>1 DEF Condemned, Doomed
        <4>2. ~Marked(a)
          BY <2>1, <4>1 DEF Held, Spared
        <4> QED BY <4>2 DEF Marked, Deletes
      <3>3. ~Publishes(a)
        BY <2>1, KeysApart DEF Publishes
      <3> QED BY <1>1, <2>1, <3>1, <3>2, <3>3, <2>3, ObjectMoves DEF ObjectMove, Uploads, Copies
    <2> QED BY <1>2, <2>4, <2>5
  <1>3. CASE Checks(c) /\ call'[c].asset = call[c].asset
    <2> DEFINE a == call[c].asset
    <2>1. UNCHANGED <<asset, objects>>
      BY <1>3, QuietKeeps DEF Checks, Quiet
    <2>2. call[c] \in CallRows /\ IdleCall.step = "idle"
      BY <1>1, Fields DEF IdleCall
    <2>3. \A step \in Steps : GoTo(c, step) => call'[c].step = step
      BY <1>1, <2>2, GoRow DEF GoTo, CallRows
    <2>4. ~EndCall(c)
      BY <1>1, <2>2, GoRow DEF EndCall
    <2>5. /\ ~Expired(a) \/ call[c].step \in {"head", "inspect"}
          /\ call'[c].step = "ready" => objects[a] = "good"
      BY <1>3, <2>3, <2>4 DEF Checks, ConfirmCheck, ConfirmHead, ConfirmInspect, At, Steps
    <2>6. ~Expired(a)
      BY <1>3, <2>1, <2>5 DEF Held, Verifying
    <2> QED BY <1>3, <2>1, <2>5, <2>6 DEF Expired
  <1> QED BY <1>1, <1>2, <1>3, RowMoves DEF RowFacts

LEMMA CopyingStep ==
    ASSUME Base, Held, Next
    PROVE  Copying'
  <1>1. Types
    BY DEF Base
  <1>2. ASSUME NEW a \in Assets, asset[a].status \in {"READY", "DELETED"}, objects[a] # "bad"
        PROVE  asset'[a].status \in {"READY", "DELETED"} /\ objects'[a] # "bad"
    <2>1. ~Commits(a)
      BY <1>2 DEF Base, Drawn, Commits
    <2>2. ~Publishes(a) /\ a \in Keys
      BY KeysApart DEF Publishes, Keys
    <2> QED BY <1>1, <1>2, <2>1, <2>2, StatusMoves, ObjectMoves
            DEF Draws, Slots, Rejects, Verifies, Ages, ObjectMove, Deletes, Uploads, Copies
  <1>3. ASSUME NEW c \in Calls, At(c, "copy"), call'[c].step = "copy", NEW a \in call[c].copies
        PROVE  objects'[a] = "good"
    <2>1. asset[a].status = "COPY" /\ objects[a] = "good" /\ a \in Assets /\ a \in Keys
      BY <1>1, <1>3, CopyStays, Fields DEF Held, Copying
    <2>2. ~Condemned(a)
      BY <1>3, <2>1 DEF Condemned
    <2>3. ~Deletes(a)
      BY <2>1, <2>2 DEF Held, Spared, Marked, Deletes
    <2>4. ~Publishes(a)
      BY <2>1, KeysApart DEF Publishes
    <2> QED BY <1>1, <2>1, <2>3, <2>4, ObjectMoves DEF ObjectMove, Uploads, Copies
  <1>4. ASSUME NEW c \in Calls, call'[c].step = "copy"
        PROVE  /\ \A a \in call'[c].list : asset'[a].status \in {"READY", "DELETED"} /\ objects'[a] # "bad"
               /\ \A a \in call'[c].copies : objects'[a] = "good"
    <2>1. CASE call'[c] = call[c]
      <3>1. At(c, "copy") /\ call[c].list \subseteq Assets
        BY <1>1, <1>4, <2>1, Fields DEF At
      <3> QED BY <1>2, <1>3, <1>4, <2>1, <3>1 DEF Held, Copying
    <2>2. ASSUME NEW r \in Reports, DuplicateBegin(c, r), call'[c].copies = {}
          PROVE  \A a \in call'[c].list : asset'[a].status \in {"READY", "DELETED"} /\ objects'[a] # "bad"
      <3>1. /\ UNCHANGED <<asset, objects>>
            /\ \A a \in call'[c].list : a \in Assets /\ asset[a].status = "READY"
        BY <1>1, <1>4, <2>2, BeginsList DEF Begins, ListExpired, DuplicateBegin, Begin, At
      <3> QED BY <3>1 DEF Held, ReadyAssetHasObject
    <2>3. CASE Adds(c)
      <3>1. PICK a \in call[c].list, b \in Assets :
               /\ objects[a] # "none" /\ objects'[b] = objects[a] /\ At(c, "copy")
               /\ call'[c].copies = call[c].copies \cup {b} /\ call'[c].list = call[c].list \ {a}
        BY <2>3 DEF Adds
      <3>2. call[c].list \subseteq Assets /\ objects[a] \in {"none", "good", "bad"}
        BY <1>1, Fields DEF Types, TypeOK
      <3>3. objects[a] = "good"
        BY <3>1, <3>2 DEF Held, Copying
      <3>4. \A e \in call[c].list : asset[e].status \in {"READY", "DELETED"} /\ objects[e] # "bad"
        BY <3>1 DEF Held, Copying
      <3> QED BY <1>2, <1>3, <1>4, <3>1, <3>2, <3>3, <3>4
    <2> QED BY <1>1, <1>4, <2>1, <2>2, <2>3, RowMoves DEF RowFacts
  <1> QED BY <1>4 DEF Copying, At

LEMMA ReadyStep ==
    ASSUME Base, Held, Next
    PROVE  ReadyAssetHasObject' /\ InTime'
  <1> SUFFICES ASSUME NEW a \in Assets, asset'[a].status = "READY"
               PROVE  objects'[a] = "good" /\ ~Expired(a)'
    BY DEF ReadyAssetHasObject, InTime
  <1>1. Types /\ a \in Keys /\ asset[a] \in AssetRows /\ PendingTtl \in Nat
    BY StorageConstants DEF Base, Keys, Types, TypeOK
  <1>2. CASE asset'[a] = asset[a]
    <2>1. objects[a] = "good" /\ ~Expired(a) /\ asset[a].status = "READY"
      BY <1>2 DEF Held, ReadyAssetHasObject, InTime
    <2>2. ~Deletes(a)
      BY <2>1 DEF Held, Spared, Condemned, Marked, Deletes
    <2>3. ~Publishes(a)
      BY KeysApart DEF Publishes
    <2>4. objects'[a] = "good"
      BY <1>1, <2>1, <2>2, <2>3, ObjectMoves DEF ObjectMove, Uploads, Copies
    <2> QED BY <1>2, <2>1, <2>4 DEF Expired
  <1>3. CASE Verifies(a)
    <2>1. objects[a] = "good" /\ ~Expired(a) /\ objects' = objects
      BY <1>3 DEF Held, Verifying, Verifies, At
    <2>2. asset'[a].age = asset[a].age
      BY <1>1, <1>3 DEF Verifies, AssetRows
    <2> QED BY <2>1, <2>2 DEF Expired
  <1>4. CASE Commits(a)
    <2>1. objects'[a] = "good"
      BY <1>4 DEF Held, Copying, Commits
    <2>2. asset'[a].age = 0
      BY <1>4 DEF Commits, NoRow
    <2> QED BY <1>1, <2>1, <2>2 DEF Expired
  <1> QED BY <1>1, <1>2, <1>3, <1>4, StatusMoves

LEMMA HeldAlways ==
    ASSUME NoOverlap
    PROVE  Spec => [](Base /\ Held)
  <1>1. Init => Held
    BY DEF Init, Held, Spared, Marked, Stage, At, IdleCall, Verifying, Copying, InTime,
           ReadyAssetHasObject, NoRow
  <1>2. Held /\ UNCHANGED vars => Held'
    BY DEF vars, Held, Spared, Marked, Condemned, Doomed, Expired, At, Verifying, Copying, InTime,
           ReadyAssetHasObject
  <1>3. Base /\ Held /\ [Next]_vars => (Base /\ Held)'
    BY <1>2, BaseStep, SparedStep, VerifyingStep, CopyingStep, ReadyStep DEF Held
  <1> QED BY <1>1, <1>3, BaseInit, PTL DEF Spec

\* A READY asset has the object that was verified, and a duplicate its copies,
\* whatever aborts, fails or is cleaned up in between, as long as a confirmation
\* meets neither another one nor the expiration of its slot and a failed
\* duplication is not committed after all.
THEOREM ReadyAssetsStored ==
    ASSUME NoOverlap
    PROVE  Spec => []ReadyAssetHasObject
  <1>1. Held => ReadyAssetHasObject
    BY DEF Held
  <1> QED BY <1>1, HeldAlways, PTL

\* Under the same condition the cleanup tasks never name the key of a READY
\* asset or of a published output, so that retryPending deletes nothing in use.
THEOREM UsedKeysSpared ==
    ASSUME NoOverlap
    PROVE  Spec => []CleanupSparesUsed
  <1>1. ASSUME Base, Held, NEW k \in cleanup, k \in Assets
        PROVE  asset[k].status # "READY"
    BY <1>1 DEF Held, Spared, Marked, Condemned
  <1>2. ASSUME Base, NEW k \in cleanup, NEW r \in Reports
        PROVE  k \notin OutputOf(r)
    BY <1>2 DEF Base, Finished, Erasable, Writable, OutputOf, Types, TypeOK
  <1>3. Base /\ Held => CleanupSparesUsed
    BY <1>1, <1>2 DEF CleanupSparesUsed
  <1> QED BY <1>3, HeldAlways, PTL

-----------------------------------------------------------------------------
(* Limits.  A sum over a set is defined by recursion over its subsets.     *)
(* What it is, is shown by counting, and by minimal counterexamples, since *)
(* the order of finite subsets is well-founded.                            *)

\* The bytes of assets, one by one.
Units(assets) == {unit \in Assets \X Nat : unit[1] \in assets /\ unit[2] \in 1..Size[unit[1]]}

\* The recursive function by which Bytes is defined.
Sums(sum, assets) ==
    sum = [s \in SUBSET assets |->
             IF s = {} THEN 0
             ELSE Size[CHOOSE a \in s : TRUE] + sum[s \ {CHOOSE a \in s : TRUE}]]

LEMMA BytesOfSum == \A assets : Bytes(assets) = (CHOOSE sum : Sums(sum, assets))[assets]
  BY DEF Bytes, MapThenSumSet, MapThenFoldSet, Sums

LEMMA UnitsOfOne ==
    ASSUME NEW a \in Assets
    PROVE  IsFiniteSet(Units({a})) /\ Cardinality(Units({a})) = Size[a]
  <1>1. Size[a] \in Nat \ {0}
    BY StorageConstants
  <1>2. IsFiniteSet({a}) /\ Cardinality({a}) = 1
    BY FS_Singleton
  <1>3. IsFiniteSet(1..Size[a]) /\ Cardinality(1..Size[a]) = Size[a]
    BY <1>1, FS_Interval
  <1>4. IsFiniteSet({a} \X (1..Size[a])) /\ Cardinality({a} \X (1..Size[a])) = 1 * Size[a]
    <2> DEFINE one == {a}
               bytes == 1..Size[a]
    <2> HIDE DEF one, bytes
    <2>1. IsFiniteSet(one) /\ Cardinality(one) = 1 /\ IsFiniteSet(bytes) /\ Cardinality(bytes) = Size[a]
      BY <1>2, <1>3 DEF one, bytes
    <2>2. IsFiniteSet(one \X bytes) /\ Cardinality(one \X bytes) = Cardinality(one) * Cardinality(bytes)
      BY <2>1, FS_Product
    <2> QED BY <2>1, <2>2 DEF one, bytes
  <1>5. Units({a}) = {a} \X (1..Size[a])
    <2>1. \A n \in 1..Size[a] : n \in Nat
      BY <1>1
    <2> QED BY <2>1 DEF Units
  <1>6. 1 * Size[a] = Size[a]
    BY <1>1
  <1> QED BY <1>4, <1>5, <1>6

LEMMA UnitsOfMore ==
    ASSUME NEW assets \in SUBSET Assets, NEW a \in Assets \ assets, IsFiniteSet(Units(assets))
    PROVE  /\ IsFiniteSet(Units(assets \cup {a}))
           /\ Cardinality(Units(assets \cup {a})) = Cardinality(Units(assets)) + Size[a]
  <1>1. Units(assets \cup {a}) = Units(assets) \cup Units({a}) /\ Units(assets) \cap Units({a}) = {}
    BY DEF Units
  <1>2. Cardinality({}) = 0
    BY FS_EmptySet
  <1>3. Cardinality(Units(assets)) \in Nat /\ Size[a] \in Nat
    BY FS_CardinalityType, StorageConstants
  <1>4. IsFiniteSet(Units({a})) /\ Cardinality(Units({a})) = Size[a]
    BY UnitsOfOne
  <1> DEFINE old == Units(assets)
             new == Units({a})
  <1> HIDE DEF old, new
  <1>5. /\ IsFiniteSet(old \cup new)
        /\ Cardinality(old \cup new) = Cardinality(old) + Cardinality(new) - Cardinality(old \cap new)
    BY <1>4, FS_Union DEF old, new
  <1>6. Cardinality(old \cap new) = 0
    BY <1>1, <1>2 DEF old, new
  <1>7. Cardinality(old) \in Nat /\ Cardinality(new) = Size[a] /\ Size[a] \in Nat
    BY <1>3, <1>4 DEF old, new
  <1>8. Cardinality(old \cup new) = Cardinality(old) + Size[a]
    BY <1>5, <1>6, <1>7
  <1> QED BY <1>1, <1>5, <1>8 DEF old, new

LEMMA UnitsFinite == \A assets \in SUBSET Assets : IsFiniteSet(Units(assets))
  <1> DEFINE Bad == {assets \in SUBSET Assets : ~IsFiniteSet(Units(assets))}
  <1> SUFFICES ASSUME Bad # {} PROVE FALSE
    OBVIOUS
  <1>1. IsWellFoundedOn(StrictSubsetOrdering(Assets), SUBSET Assets)
    BY StorageConstants, FS_StrictSubsetOrderingWellFounded, FS_FiniteSubsetsOfFinite
  <1>2. PICK assets \in Bad : \A other \in Bad : <<other, assets>> \notin StrictSubsetOrdering(Assets)
    <2> HIDE DEF Bad
    <2>1. Bad \subseteq SUBSET Assets
      BY DEF Bad
    <2> QED BY <1>1, <2>1, WFMin
  <1>3. assets # {}
    <2>1. Units({}) = {}
      BY DEF Units
    <2> QED BY <2>1, FS_EmptySet
  <1>4. PICK a \in assets : TRUE
    BY <1>3
  <1>5. <<assets \ {a}, assets>> \in StrictSubsetOrdering(Assets)
    BY <1>4 DEF StrictSubsetOrdering
  <1>6. IsFiniteSet(Units(assets \ {a}))
    BY <1>2, <1>4, <1>5
  <1>7. (assets \ {a}) \cup {a} = assets
    BY <1>4
  <1> QED BY <1>6, <1>7, <1>4, UnitsOfMore

\* The sum of the sizes is the number of the bytes: counting them satisfies the
\* recursion, and of two functions that do, a smallest set on which they differ
\* would be the result of adding an asset to a set on which they do not.
LEMMA BytesAreUnits ==
    ASSUME NEW assets \in SUBSET Assets
    PROVE  Bytes(assets) = Cardinality(Units(assets))
  <1> DEFINE First(s) == CHOOSE a \in s : TRUE
             count == [s \in SUBSET assets |-> Cardinality(Units(s))]
             sum == CHOOSE f : Sums(f, assets)
  <1>1. Sums(count, assets)
    <2> SUFFICES ASSUME NEW s \in SUBSET assets
                 PROVE  count[s] = IF s = {} THEN 0 ELSE Size[First(s)] + count[s \ {First(s)}]
      BY DEF Sums
    <2>1. Units({}) = {} /\ Cardinality({}) = 0
      BY FS_EmptySet DEF Units
    <2>2. ASSUME s # {}
          PROVE  Cardinality(Units(s)) = Size[First(s)] + Cardinality(Units(s \ {First(s)}))
      <3>1. First(s) \in s
        BY <2>2
      <3> HIDE DEF First
      <3>2. s \ {First(s)} \in SUBSET Assets /\ First(s) \in Assets \ (s \ {First(s)})
        BY <3>1
      <3>3. (s \ {First(s)}) \cup {First(s)} = s
        BY <3>1
      <3>4. IsFiniteSet(Units(s \ {First(s)}))
        BY <3>2, UnitsFinite
      <3>5. Cardinality(Units(s \ {First(s)})) \in Nat /\ Size[First(s)] \in Nat
        BY <3>2, <3>4, FS_CardinalityType, StorageConstants
      <3>6. Cardinality(Units(s)) = Cardinality(Units(s \ {First(s)})) + Size[First(s)]
        BY <3>2, <3>3, <3>4, UnitsOfMore
      <3> QED BY <3>5, <3>6
    <2> HIDE DEF First
    <2> QED BY <2>1, <2>2
  <1>2. Sums(sum, assets)
    BY <1>1
  <1> HIDE DEF count, sum
  <1> DEFINE Bad == {s \in SUBSET assets : sum[s] # count[s]}
  <1>3. Bad = {}
    <2> SUFFICES ASSUME Bad # {} PROVE FALSE
      OBVIOUS
    <2>1. IsFiniteSet(assets)
      BY StorageConstants, FS_Subset
    <2>2. IsWellFoundedOn(StrictSubsetOrdering(assets), SUBSET assets)
      BY <2>1, FS_StrictSubsetOrderingWellFounded, FS_FiniteSubsetsOfFinite
    <2>3. PICK s \in Bad : \A t \in Bad : <<t, s>> \notin StrictSubsetOrdering(assets)
      <3>1. Bad \subseteq SUBSET assets
        OBVIOUS
      <3> HIDE DEF Bad
      <3> QED BY <2>2, <3>1, WFMin
    <2>4. s # {}
      BY <1>1, <1>2 DEF Sums
    <2>5. First(s) \in s
      BY <2>4
    <2>6. /\ sum[s] = Size[First(s)] + sum[s \ {First(s)}]
          /\ count[s] = Size[First(s)] + count[s \ {First(s)}]
      BY <1>1, <1>2, <2>4 DEF Sums
    <2> HIDE DEF First
    <2>7. <<s \ {First(s)}, s>> \in StrictSubsetOrdering(assets)
      BY <2>5 DEF StrictSubsetOrdering
    <2>8. s \ {First(s)} \notin Bad /\ s \ {First(s)} \in SUBSET assets
      BY <2>3, <2>7
    <2> QED BY <2>6, <2>8
  <1>4. Bytes(assets) = sum[assets]
    BY BytesOfSum DEF sum
  <1> QED BY <1>3, <1>4 DEF count
LEMMA BytesOfMore ==
    ASSUME NEW assets \in SUBSET Assets, NEW a \in Assets \ assets
    PROVE  Bytes(assets) \in Nat /\ Bytes(assets \cup {a}) = Bytes(assets) + Size[a]
  <1>1. assets \cup {a} \in SUBSET Assets
    OBVIOUS
  <1>2. Bytes(assets) = Cardinality(Units(assets)) /\ Bytes(assets \cup {a}) = Cardinality(Units(assets \cup {a}))
    BY <1>1, BytesAreUnits
  <1>3. IsFiniteSet(Units(assets))
    BY UnitsFinite
  <1> QED BY <1>2, <1>3, UnitsOfMore, FS_CardinalityType

LEMMA BytesOfFewer ==
    ASSUME NEW more \in SUBSET Assets, NEW fewer \in SUBSET more
    PROVE  Bytes(fewer) \in Nat /\ Bytes(more) \in Nat /\ Bytes(fewer) <= Bytes(more)
  <1>1. fewer \in SUBSET Assets /\ Units(fewer) \subseteq Units(more)
    BY DEF Units
  <1>2. IsFiniteSet(Units(more)) /\ IsFiniteSet(Units(fewer))
    BY <1>1, UnitsFinite
  <1>3. Cardinality(Units(fewer)) <= Cardinality(Units(more))
    BY <1>1, <1>2, FS_Subset
  <1> QED BY <1>1, <1>2, <1>3, BytesAreUnits, FS_CardinalityType

Number(assets, kind) == Cardinality(OfKind(assets, kind))

LEMMA OfKindFinite ==
    ASSUME NEW assets \in SUBSET Assets, NEW kind
    PROVE  IsFiniteSet(OfKind(assets, kind)) /\ Number(assets, kind) \in Nat
  <1>1. OfKind(assets, kind) \in SUBSET Assets
    BY DEF OfKind
  <1>2. IsFiniteSet(OfKind(assets, kind))
    BY <1>1, StorageConstants, FS_Subset
  <1> QED BY <1>2, FS_CardinalityType DEF Number

LEMMA NumberOfMore ==
    ASSUME NEW assets \in SUBSET Assets, NEW a \in Assets \ assets, NEW kind
    PROVE  Number(assets \cup {a}, kind) = IF Kind[a] = kind THEN Number(assets, kind) + 1
                                           ELSE Number(assets, kind)
  <1>1. IsFiniteSet(OfKind(assets, kind)) /\ a \notin OfKind(assets, kind)
    BY OfKindFinite DEF OfKind
  <1>2. CASE Kind[a] = kind
    <2>1. OfKind(assets \cup {a}, kind) = OfKind(assets, kind) \cup {a}
      BY <1>2 DEF OfKind
    <2> QED BY <1>1, <1>2, <2>1, FS_AddElement DEF Number
  <1>3. CASE Kind[a] # kind
    <2>1. OfKind(assets \cup {a}, kind) = OfKind(assets, kind)
      BY <1>3 DEF OfKind
    <2> QED BY <1>3, <2>1 DEF Number
  <1> QED BY <1>2, <1>3

LEMMA NumberOfFewer ==
    ASSUME NEW more \in SUBSET Assets, NEW fewer \in SUBSET more, NEW kind
    PROVE  Number(fewer, kind) <= Number(more, kind)
  <1>1. OfKind(fewer, kind) \in SUBSET OfKind(more, kind)
    BY DEF OfKind
  <1> QED BY <1>1, OfKindFinite, FS_Subset DEF Number

\* Assets that together are within the limits of a report.
Fit(some, others) ==
    /\ \A a \in Assets : Number(some, Kind[a]) + Number(others, Kind[a]) <= MaxCount[Kind[a]]
    /\ Bytes(some) + Bytes(others) <= MaxBytes

LEMMA NothingCounts ==
    /\ \A kind : Number({}, kind) = 0
    /\ Bytes({}) = 0
  <1>1. \A kind : OfKind({}, kind) = {}
    BY DEF OfKind
  <1>2. Units({}) = {} /\ {} \in SUBSET Assets
    BY DEF Units
  <1>3. Bytes({}) = Cardinality({})
    BY <1>2, BytesAreUnits
  <1> QED BY <1>1, <1>3, FS_EmptySet DEF Number

LEMMA LimitsFit ==
    LimitsHold <=> \A r \in Reports : Fit(Reserving(r), {})
  <1>1. ASSUME NEW r \in Reports
        PROVE  /\ Bytes(Reserving(r)) \in Nat
               /\ \A a \in Assets : Number(Reserving(r), Kind[a]) \in Nat
    <2>1. Reserving(r) \in SUBSET Assets
      BY DEF Reserving, AssetsOf
    <2> QED BY <2>1, BytesOfFewer, OfKindFinite
  <1>2. ASSUME NEW r \in Reports
        PROVE  /\ Bytes(Reserving(r)) + Bytes({}) = Bytes(Reserving(r))
               /\ \A a \in Assets : Number(Reserving(r), Kind[a]) + Number({}, Kind[a]) = Number(Reserving(r), Kind[a])
    BY <1>1, <1>2, NothingCounts
  <1> QED BY <1>2 DEF LimitsHold, Fit, Number

LEMMA LimitsFitNext ==
    LimitsHold' <=> \A r \in Reports : Fit(Reserving(r)', {})
  <1>1. (LimitsHold <=> \A r \in Reports : Fit(Reserving(r), {}))'
    BY LimitsFit, PTL
  <1> QED BY <1>1

LEMMA FewerFit ==
    ASSUME NEW some \in SUBSET Assets, NEW others \in SUBSET Assets, Fit(some, others),
           NEW fewer \in SUBSET some
    PROVE  Fit(fewer, others)
  <1>1. Bytes(fewer) <= Bytes(some) /\ Bytes(fewer) \in Nat /\ Bytes(some) \in Nat /\ Bytes(others) \in Nat
    BY BytesOfFewer
  <1>2. ASSUME NEW a \in Assets
        PROVE  Number(fewer, Kind[a]) + Number(others, Kind[a]) <= MaxCount[Kind[a]]
    <2>1. /\ Number(fewer, Kind[a]) <= Number(some, Kind[a])
          /\ Number(fewer, Kind[a]) \in Nat /\ Number(some, Kind[a]) \in Nat /\ Number(others, Kind[a]) \in Nat
      BY NumberOfFewer, OfKindFinite
    <2>2. Number(some, Kind[a]) + Number(others, Kind[a]) <= MaxCount[Kind[a]] /\ MaxCount[Kind[a]] \in Nat
      BY StorageConstants DEF Fit
    <2> QED BY <2>1, <2>2
  <1>3. Bytes(some) + Bytes(others) <= MaxBytes /\ MaxBytes \in Nat
    BY StorageConstants DEF Fit
  <1> QED BY <1>1, <1>2, <1>3 DEF Fit

LEMMA FitAlone ==
    ASSUME NEW some \in SUBSET Assets, NEW others \in SUBSET Assets, Fit(some, others)
    PROVE  Fit(others, {})
  <1>1. Fit({}, others)
    BY FewerFit
  <1>2. Bytes(others) \in Nat /\ \A a \in Assets : Number(others, Kind[a]) \in Nat
    BY BytesOfFewer, OfKindFinite
  <1> QED BY <1>1, <1>2, NothingCounts DEF Fit

\* An asset takes the place of another one of its type and size.
LEMMA CopyFits ==
    ASSUME NEW list \in SUBSET Assets, NEW copies \in SUBSET Assets, Fit(list, copies),
           NEW a \in list, NEW b \in Assets \ copies, Kind[b] = Kind[a], Size[b] = Size[a]
    PROVE  Fit(list \ {a}, copies \cup {b})
  <1> DEFINE left == list \ {a}
  <1>1. left \in SUBSET Assets /\ a \in Assets \ left /\ list = left \cup {a}
    OBVIOUS
  <1> HIDE DEF left
  <1>2. Bytes(left) + Bytes(copies \cup {b}) <= MaxBytes
    <2>1. /\ Bytes(left) \in Nat /\ Bytes(list) = Bytes(left) + Size[a]
          /\ Bytes(copies) \in Nat /\ Bytes(copies \cup {b}) = Bytes(copies) + Size[a]
      BY <1>1, BytesOfMore
    <2>2. Size[a] \in Nat /\ MaxBytes \in Nat /\ Bytes(list) + Bytes(copies) <= MaxBytes
      BY <1>1, StorageConstants DEF Fit
    <2> QED BY <2>1, <2>2
  <1>3. ASSUME NEW e \in Assets
        PROVE  Number(left, Kind[e]) + Number(copies \cup {b}, Kind[e]) <= MaxCount[Kind[e]]
    <2>1. /\ Number(left, Kind[e]) \in Nat /\ Number(copies, Kind[e]) \in Nat
          /\ Number(list, Kind[e]) = IF Kind[a] = Kind[e] THEN Number(left, Kind[e]) + 1 ELSE Number(left, Kind[e])
          /\ Number(copies \cup {b}, Kind[e]) = IF Kind[a] = Kind[e] THEN Number(copies, Kind[e]) + 1
                                                ELSE Number(copies, Kind[e])
      BY <1>1, NumberOfMore, OfKindFinite
    <2>2. MaxCount[Kind[e]] \in Nat /\ Number(list, Kind[e]) + Number(copies, Kind[e]) <= MaxCount[Kind[e]]
      BY StorageConstants DEF Fit
    <2> QED BY <2>1, <2>2
  <1> QED BY <1>2, <1>3 DEF Fit, left

\* What the check of the limits is for.
LEMMA SlotFits ==
    ASSUME NEW r \in Reports, Fit(Reserving(r), {}), NEW a \in Assets \ Reserving(r), WithinLimits(r, a)
    PROVE  Fit(Reserving(r) \cup {a}, {})
  <1> DEFINE old == Reserving(r)
  <1>1. old \in SUBSET Assets
    BY DEF Reserving, AssetsOf
  <1>2. Number(old, Kind[a]) < MaxCount[Kind[a]] /\ Bytes(old) + Size[a] <= MaxBytes
    BY DEF WithinLimits, Number
  <1>3. /\ \A e \in Assets : Number(old, Kind[e]) <= MaxCount[Kind[e]]
    <2>1. \A e \in Assets : Number(old, Kind[e]) \in Nat
      BY <1>1, OfKindFinite
    <2> QED BY <2>1, NothingCounts DEF Fit
  <1> HIDE DEF old
  <1>4. Bytes(old \cup {a}) + Bytes({}) <= MaxBytes
    <2>1. Bytes(old) \in Nat /\ Bytes(old \cup {a}) = Bytes(old) + Size[a] /\ Size[a] \in Nat
      BY <1>1, BytesOfMore, StorageConstants DEF old
    <2> QED BY <1>2, <2>1, NothingCounts
  <1>5. ASSUME NEW e \in Assets
        PROVE  Number(old \cup {a}, Kind[e]) + Number({}, Kind[e]) <= MaxCount[Kind[e]]
    <2>1. /\ Number(old, Kind[e]) \in Nat /\ MaxCount[Kind[e]] \in Nat
          /\ Number(old \cup {a}, Kind[e]) = IF Kind[a] = Kind[e] THEN Number(old, Kind[e]) + 1
                                             ELSE Number(old, Kind[e])
      BY <1>1, NumberOfMore, OfKindFinite, StorageConstants DEF old
    <2>2. Number({}, Kind[e]) = 0 /\ Number(old, Kind[e]) <= MaxCount[Kind[e]]
      BY <1>3, NothingCounts
    <2> QED BY <1>2, <2>1, <2>2
  <1> QED BY <1>4, <1>5 DEF Fit, old

\* A confirmation under way keeps its slot from expiring.
InSlot ==
    \A c \in Calls : call[c].step \in {"head", "inspect", "ready"} /\ asset[call[c].asset].status = "PENDING"
        => ~Expired(call[c].asset)

LEMMA InSlotStep ==
    ASSUME "overlap" \notin Faults, Base, InSlot, Next
    PROVE  InSlot'
  <1>1. Types
    BY DEF Base
  <1> SUFFICES ASSUME NEW c \in Calls, call'[c].step \in {"head", "inspect", "ready"},
                      asset'[call'[c].asset].status = "PENDING"
               PROVE  ~Expired(call[c].asset)'
    BY DEF InSlot
  <1>2. CASE call'[c] = call[c]
    <2> DEFINE a == call[c].asset
    <2>1. /\ a \in Assets /\ Entered(a) /\ asset'[a].status = "PENDING"
          /\ asset[a] \in AssetRows /\ PendingTtl \in Nat
      BY <1>1, <1>2, Named, StorageConstants DEF NamesAsset, Base, Known, Types, TypeOK
    <2>2. asset'[a] = asset[a] \/ Ages(a)
      BY <1>1, <2>1, StatusMoves DEF Slots, Entered, RowStatus
    <2>3. asset[a].status = "PENDING" /\ ~Expired(a)
      BY <1>2, <2>1, <2>2 DEF Ages, InSlot
    <2>4. CASE Ages(a)
      <3>1. Handled(a)
        BY <1>2 DEF Handled, At
      <3>2. asset[a].age # PendingTtl
        BY <2>4, <3>1 DEF Ages
      <3>3. asset[a].age \in Nat /\ asset[a].age <= PendingTtl /\ asset'[a].age = asset[a].age + 1
        BY <2>1, <2>3, <2>4 DEF Ages, Expired, AssetRows
      <3> QED BY <1>2, <2>1, <3>2, <3>3 DEF Expired
    <2> QED BY <1>2, <2>2, <2>3, <2>4 DEF Expired
  <1>3. CASE Checks(c) /\ call'[c].asset = call[c].asset
    <2> DEFINE a == call[c].asset
    <2>1. asset' = asset
      BY <1>3, QuietKeeps DEF Checks, Quiet
    <2>2. call[c] \in CallRows /\ IdleCall.step = "idle"
      BY <1>1, Fields DEF IdleCall
    <2>3. \A step \in Steps : GoTo(c, step) => call'[c].step = step
      BY <1>1, <2>2, GoRow DEF GoTo, CallRows
    <2>4. ~EndCall(c)
      BY <1>1, <2>2, GoRow DEF EndCall
    <2>5. ~Expired(a) \/ call[c].step \in {"head", "inspect"}
      BY <1>3, <2>3, <2>4 DEF Checks, ConfirmCheck, ConfirmHead, ConfirmInspect, At, Steps
    <2>6. ~Expired(a)
      BY <1>3, <2>1, <2>5 DEF InSlot
    <2> QED BY <1>3, <2>1, <2>6 DEF Expired
  <1> QED BY <1>1, <1>2, <1>3, RowMoves DEF RowFacts

\* Of a report that has no more to come, what counts has counted before; a slot
\* or a duplicate adds to it.
LEMMA ReservingMoves ==
    ASSUME Base, InSlot, Next, NEW r \in Reports, NEW a \in Reserving(r)'
    PROVE  \/ a \in Reserving(r)
           \/ \E c \in Calls : ReserveSlot(c, a) /\ call[c].report = r
           \/ report[r] = "ABSENT" /\ Commits(a)
  <1>1. /\ a \in Assets /\ asset'[a].report = r /\ Types /\ asset[a] \in AssetRows
        /\ asset'[a].status = "READY" \/ (asset'[a].status = "PENDING" /\ ~Expired(a)')
    BY DEF Reserving, AssetsOf, Base, Types, TypeOK
  <1>2. CASE asset'[a] = asset[a]
    BY <1>1, <1>2 DEF Reserving, AssetsOf, HasRow, RowStatus, Expired
  <1>3. CASE Slots(a)
    <2>1. PICK c \in Calls : ReserveSlot(c, a)
      BY <1>3 DEF Slots
    <2>2. asset'[a] = [NoRow("PENDING") EXCEPT !.report = call[c].report]
      BY <1>1, <2>1 DEF ReserveSlot, Types, TypeOK
    <2>3. call[c].report = r
      BY <1>1, <2>2 DEF NoRow
    <2> QED BY <2>1, <2>3
  <1>4. CASE Verifies(a)
    <2>1. asset[a].report = r /\ asset[a].status = "PENDING"
      BY <1>1, <1>4 DEF Verifies, AssetRows
    <2>2. ~Expired(a)
      BY <1>4, <2>1 DEF Verifies, InSlot, At
    <2> QED BY <1>1, <2>1, <2>2 DEF Reserving, AssetsOf, HasRow, RowStatus
  <1>5. CASE Ages(a)
    <2>1. asset[a].report = r
      BY <1>1, <1>5 DEF Ages, AssetRows
    <2> QED BY <1>1, <1>5, <2>1 DEF Ages, Reserving, AssetsOf, HasRow, RowStatus
  <1>6. CASE Commits(a)
    <2>1. PICK d \in Reports : report[d] = "ABSENT" /\ asset'[a] = [NoRow("READY") EXCEPT !.report = d]
      BY <1>6 DEF Commits
    <2>2. d = r
      BY <1>1, <2>1 DEF NoRow
    <2> QED BY <1>6, <2>1, <2>2
  <1> QED BY <1>1, <1>2, <1>3, <1>4, <1>5, <1>6, StatusMoves

\* The assets that a duplication has still to copy and those it has made fit
\* into a report.
CopiesFit == \A c \in Calls : At(c, "copy") => Fit(call[c].list, call[c].copies)

LEMMA LimitsStep ==
    ASSUME Base, InSlot, CopiesFit, LimitsHold, Next
    PROVE  LimitsHold'
  <1>1. Types /\ \A r \in Reports : Fit(Reserving(r), {})
    BY LimitsFit DEF Base
  <1> SUFFICES ASSUME NEW r \in Reports
               PROVE  Fit(Reserving(r)', {})
    <2>1. \A s \in Reports : Fit(Reserving(s)', {})
      OBVIOUS
    <2> QED BY <2>1, LimitsFitNext
  <1> DEFINE new == Reserving(r)'
  <1>2. new \in SUBSET Assets /\ Reserving(r) \in SUBSET Assets
    BY DEF Reserving, AssetsOf
  <1> HIDE DEF new
  <1>3. CASE new \subseteq Reserving(r)
    BY <1>1, <1>2, <1>3, FewerFit DEF new
  <1>4. ASSUME NEW c \in Calls, NEW a \in Assets, ReserveSlot(c, a), call[c].report = r
        PROVE  Fit(new, {})
    <2>1. \A b \in Assets \ {a} : asset'[b] = asset[b]
      BY <1>1, <1>4 DEF ReserveSlot, Types, TypeOK
    <2>2. asset[a].status = "ABSENT" /\ WithinLimits(r, a)
      BY <1>4 DEF ReserveSlot
    <2>3. a \in Assets \ Reserving(r)
      BY <2>2 DEF Reserving
    <2>4. new \subseteq Reserving(r) \cup {a}
      <3> SUFFICES ASSUME NEW b \in new, b # a
                   PROVE  b \in Reserving(r)
        OBVIOUS
      <3> QED BY <1>2, <2>1 DEF new, Reserving, AssetsOf, HasRow, Expired
    <2>5. Fit(Reserving(r) \cup {a}, {})
      BY <1>1, <2>2, <2>3, SlotFits
    <2>6. Reserving(r) \cup {a} \in SUBSET Assets
      BY <1>2
    <2> QED BY <1>2, <2>4, <2>5, <2>6, FewerFit
  <1>5. CASE report[r] = "ABSENT" /\ \E a \in new : Commits(a)
    <2>1. PICK a \in new, c \in Calls :
             /\ At(c, "copy") /\ a \in call[c].copies /\ call'[c].step # "copy"
             /\ report[r] = "ABSENT"
      BY <1>5 DEF Commits
    <2>2. Reserving(r) = {}
      BY <2>1 DEF Reserving, AssetsOf, Base, Types, TypeOK, Exists
    <2>3. call'[c] # call[c]
      BY <2>1 DEF At
    <2>4. ASSUME NEW b \in new
          PROVE  b \in call[c].copies
      <3>1. ~\E d \in Calls : ReserveSlot(d, b) /\ call[d].report = r
        <4> SUFFICES ASSUME NEW d \in Calls, ReserveSlot(d, b), call[d].report = r
                     PROVE  FALSE
          OBVIOUS
        <4> QED BY <2>1 DEF ReserveSlot, Editable
      <3>2. Commits(b)
        BY <2>2, <3>1, <2>4, ReservingMoves DEF new
      <3>3. PICK d \in Calls : At(d, "copy") /\ b \in call[d].copies /\ call'[d].step # "copy"
        BY <3>2 DEF Commits
      <3>4. c = d
        BY <1>1, <2>3, <3>3, OneRow DEF At
      <3> QED BY <3>3, <3>4
    <2>5. Fit(call[c].list, call[c].copies) /\ call[c].list \in SUBSET Assets /\ call[c].copies \in SUBSET Assets
      BY <1>1, <2>1, Fields DEF CopiesFit, CallRows
    <2>6. Fit(call[c].copies, {})
      BY <2>5, FitAlone
    <2> QED BY <2>4, <2>5, <2>6, FewerFit DEF new
  <1>6. \/ new \subseteq Reserving(r)
        \/ \E c \in Calls, a \in Assets : ReserveSlot(c, a) /\ call[c].report = r
        \/ report[r] = "ABSENT" /\ \E a \in new : Commits(a)
    <2>1. \A a \in new : \/ a \in Reserving(r)
                         \/ \E c \in Calls : ReserveSlot(c, a) /\ call[c].report = r
                         \/ report[r] = "ABSENT" /\ Commits(a)
      BY ReservingMoves DEF new
    <2> QED BY <1>2, <2>1
  <1> QED BY <1>3, <1>4, <1>5, <1>6 DEF new

LEMMA CopiesFitStep ==
    ASSUME Base, CopiesFit, LimitsHold, Next
    PROVE  CopiesFit'
  <1>1. Types /\ \A r \in Reports : Fit(Reserving(r), {})
    BY LimitsFit DEF Base
  <1>2. ASSUME NEW c \in Calls, call'[c].step = "copy"
        PROVE  Fit(call'[c].list, call'[c].copies)
    <2>1. CASE call'[c] = call[c]
      BY <1>2, <2>1 DEF CopiesFit, At
    <2>2. ASSUME NEW r \in Reports, DuplicateBegin(c, r), call'[c].copies = {}
          PROVE  Fit(call'[c].list, {})
      <3> DEFINE ready == {a \in AssetsOf(r) : asset[a].status = "READY"}
      <3>1. ready \in SUBSET Reserving(r) /\ Reserving(r) \in SUBSET Assets
        BY DEF Reserving, AssetsOf
      <3>2. Go(c, [IdleCall EXCEPT !.step = "copy", !.report = r, !.list = ready])
        BY <2>2 DEF DuplicateBegin
      <3> HIDE DEF ready
      <3>3. call'[c] = [IdleCall EXCEPT !.step = "copy", !.report = r, !.list = ready]
        BY <1>1, <3>2, GoRow
      <3>4. call'[c].list = ready
        BY <3>3 DEF IdleCall
      <3> QED BY <1>1, <3>1, <3>4, FewerFit
    <2>3. CASE Adds(c)
      <3>1. PICK a \in call[c].list, b \in Assets :
               /\ asset[b].status = "ABSENT" /\ Kind[b] = Kind[a] /\ Size[b] = Size[a] /\ At(c, "copy")
               /\ call'[c].copies = call[c].copies \cup {b} /\ call'[c].list = call[c].list \ {a}
        BY <2>3 DEF Adds
      <3>2. call[c].list \in SUBSET Assets /\ call[c].copies \in SUBSET Assets
        BY <1>1, Fields DEF CallRows
      <3>3. b \notin call[c].copies
        BY <3>1 DEF Base, Drawn
      <3> QED BY <3>1, <3>2, <3>3, CopyFits DEF CopiesFit
    <2> QED BY <1>1, <1>2, <2>1, <2>2, <2>3, RowMoves DEF RowFacts
  <1>3. \A c \in Calls : call'[c].step = "copy" => Fit(call'[c].list, call'[c].copies)
    BY <1>2
  <1> QED BY <1>3 DEF CopiesFit, At

LEMMA LimitsInit ==
    ASSUME Init
    PROVE  InSlot /\ CopiesFit /\ LimitsHold
  <1>1. /\ \A c \in Calls : call[c] = IdleCall
        /\ \A a \in Assets : asset[a] = NoRow("ABSENT")
    BY DEF Init
  <1>2. InSlot /\ CopiesFit
    BY <1>1 DEF InSlot, CopiesFit, IdleCall, At
  <1>3. \A r \in Reports : Reserving(r) = {}
    BY <1>1 DEF Reserving, AssetsOf, HasRow, NoRow, RowStatus
  <1>4. Fit({}, {})
    BY NothingCounts, StorageConstants DEF Fit
  <1>5. \A r \in Reports : Fit(Reserving(r), {})
    BY <1>3, <1>4
  <1> QED BY <1>2, <1>5, LimitsFit

\* READY assets and unexpired slots of a report stay within its limits, whatever
\* requests reserve, confirm, expire, copy and fail at the same time, as long as
\* no slot expires between the check and the end of its confirmation.
THEOREM LimitsAlwaysHold ==
    ASSUME "overlap" \notin Faults
    PROVE  Spec => []LimitsHold
  <1> DEFINE Inv == Base /\ InSlot /\ CopiesFit /\ LimitsHold
  <1>1. Init => Inv
    BY BaseInit, LimitsInit
  <1>2. ASSUME Inv, UNCHANGED vars
        PROVE  InSlot' /\ CopiesFit' /\ LimitsHold'
    BY <1>2 DEF vars, InSlot, CopiesFit, LimitsHold, Reserving, AssetsOf, HasRow,
                Expired, At
  <1>3. Inv /\ [Next]_vars => Inv'
    BY <1>2, BaseStep, InSlotStep, CopiesFitStep, LimitsStep
  <1>4. Inv => LimitsHold
    OBVIOUS
  <1> HIDE DEF Inv
  <1> QED BY <1>1, <1>3, <1>4, PTL DEF Spec

=============================================================================
