--------------------------- MODULE PipelineProofs ---------------------------
(***************************************************************************)
(* What holds of Pipeline for every set of references, files and scanners, *)
(* every size of queue, pool, batch and budget, and every set of faults.   *)
(***************************************************************************)
EXTENDS Pipeline, SumTheorems, FiniteSetTheorems, TLAPS

------------------------------------------------------------------------
(* What the statements run against a row of scan_tasks make of it.         *)

\* The missing row is one of the values a row takes.
LEMMA NoRowType == NoRow \in Rows
  BY LedgerAssumption DEF NoRow, Rows, Statuses, Tokens

\* Parking a task without a token gives a pending row.
LEMMA EnqueuePendingType ==
  ASSUME NEW row \in Rows
  PROVE  /\ EnqueuePending(row) \in Rows
         /\ EnqueuePending(row).status = "pending"
  BY LedgerAssumption DEF EnqueuePending, Rows, Statuses, Tokens

\* Parking a continuation gives a pending row that has a token.
LEMMA EnqueueContinuationType ==
  ASSUME NEW row \in Rows
  PROVE  /\ EnqueueContinuation(row) \in Rows
         /\ EnqueueContinuation(row).status = "pending"
         /\ EnqueueContinuation(row).token = "token"
<1>1. EnqueueContinuation(row).status = "pending"
  BY DEF EnqueueContinuation, Rows
<1>2. EnqueueContinuation(row).token = "token"
  BY DEF EnqueueContinuation, Rows
<1>3. 0 \in 0..AgeCap /\ PollInterval \in Nat
  BY LedgerAssumption
<1>4. EnqueueContinuation(row) \in Rows
  BY <1>3 DEF EnqueueContinuation, Rows, Statuses, Tokens
<1> QED
  BY <1>1, <1>2, <1>4

\* Closing gives a row of that status, or leaves the missing one missing.
LEMMA CloseType ==
  ASSUME NEW row \in Rows
  PROVE  /\ MarkDone(row) \in Rows /\ MarkFailed(row) \in Rows
         /\ MarkDone(row).status \in {"done", "absent"}
         /\ MarkFailed(row).status \in {"failed", "absent"}
  BY LedgerAssumption DEF MarkDone, MarkFailed, Close, Rows, Statuses

\* No statement takes a row's token away.
LEMMA TokenKept ==
  ASSUME NEW row \in Rows
  PROVE  /\ EnqueuePending(row).token = row.token
         /\ RescheduleContinuation(row).token = row.token
         /\ MarkDone(row).token = row.token
         /\ MarkFailed(row).token = row.token
<1>1. EnqueuePending(row).token = row.token
  BY DEF EnqueuePending, Rows
<1>2. RescheduleContinuation(row).token = row.token
  BY DEF RescheduleContinuation, Rows
<1>3. Close(row, "done").token = row.token
      /\ Close(row, "failed").token = row.token
  BY DEF Close, Rows
<1> QED
  BY <1>1, <1>2, <1>3 DEF MarkDone, MarkFailed

------------------------------------------------------------------------
(* Type correctness, stage by stage.                                       *)

\* A reservation weighs some whole number of bytes.
LEMMA WeightType ==
  ASSUME NEW r \in Refs
  PROVE  Weight(r) \in Int
  BY PipelineAssumption DEF Weight

\* Freeing a payload, or giving up one reader's part of it, keeps its
\* variables within their types.
LEMMA FreeType ==
  ASSUME TypeOK, NEW r \in Refs, Free(r)
  PROVE  /\ reserved' \in [Refs -> BOOLEAN]
         /\ inFlight' \in Int
         /\ file' \in [Files -> BOOLEAN]
<1>1. Weight(r) \in Int /\ inFlight \in Int
  BY WeightType DEF TypeOK
<1>2. inFlight' \in Int
  BY <1>1 DEF Free, ReleaseBytes
<1>3. reserved' \in [Refs -> BOOLEAN]
  BY DEF TypeOK, Free, ReleaseBytes
<1>4. file' \in [Files -> BOOLEAN]
  BY DEF TypeOK, Free
<1> QED
  BY <1>2, <1>3, <1>4

\* Giving up a task's part of a payload does too.
LEMMA GiveUpType ==
  ASSUME TypeOK, NEW r \in Refs, NEW s \in Scanners, GiveUp(r, s)
  PROVE  /\ refcnt' \in [Refs -> Int]
         /\ reserved' \in [Refs -> BOOLEAN]
         /\ inFlight' \in Int
         /\ file' \in [Files -> BOOLEAN]
  BY FreeType DEF TypeOK, GiveUp, Done, payloadVars

\* A finding is about a document, and one that is no gap about a task.
LEMMA FindingDoc ==
  ASSUME NEW x \in Findings
  PROVE  /\ DocOf(x) \in Docs
         /\ x[2] # SizeGate => DocOf(x) \in Tasks
         /\ DocOf(x)[1] = FileOf[x[1]]
         /\ FileOf[x[1]] \in Files
  BY PipelineAssumption DEF Findings, DocOf, Docs, Tasks

\* A lane's task is one of the findings a run can make, and about a task.
LEMMA TaskFinding ==
  ASSUME NEW r \in Refs, NEW s \in Scanners
  PROVE  <<r, s>> \in Findings /\ <<FileOf[r], s>> \in Tasks
  BY PipelineAssumption DEF Findings, Tasks

\* A statement of the pipeline's keeps the ledger a table of rows.
LEMMA RowsWritten ==
  ASSUME TypeOK, NEW t \in Tasks
  PROVE  /\ EnqueuePending(ledger[t]) \in Rows
         /\ EnqueueContinuation(ledger[t]) \in Rows
         /\ MarkDone(ledger[t]) \in Rows
<1>1. ledger[t] \in Rows
  BY DEF TypeOK, DurableTypeOK
<1> QED
  BY <1>1, EnqueuePendingType, EnqueueContinuationType, CloseType

\* And the assignment of one row of it.
LEMMA SetRowType ==
  ASSUME TypeOK, NEW f, NEW s, <<f, s>> \in Tasks, NEW row \in Rows,
         SetRow(f, s, row)
  PROVE  ledger' \in [Tasks -> Rows]
  BY DEF TypeOK, DurableTypeOK, SetRow

\* The fetch goroutines that have not returned are at least those at work:
\* what their number's type rests on.
FetchersCounted ==
    /\ IsFiniteSet(InFetch)
    /\ Cardinality(InFetch) <= fetchers

WellTyped == TypeOK /\ FetchersCounted

\* A step that leaves the set of references in transfer as it is.
LEMMA FetchUnchanged ==
  ASSUME FetchersCounted, InFetch' = InFetch, fetchers' = fetchers
  PROVE  FetchersCounted'
  BY DEF FetchersCounted

\* Discovery keeps the types.
LEMMA DiscoverTyped == WellTyped /\ DiscoverNext => WellTyped'
<1> SUFFICES ASSUME WellTyped, DiscoverNext PROVE WellTyped'
  OBVIOUS
<1> USE DEF WellTyped, TypeOK, DurableTypeOK, payloadVars, discoverVars,
            publishVars, runVars, durable
<1>0. ASSUME InFetch' = InFetch, fetchers' = fetchers PROVE FetchersCounted'
  BY <1>0, FetchUnchanged
<1>1. ASSUME NEW r \in Refs, ReadRef(r) PROVE WellTyped'
  BY <1>1, <1>0 DEF ReadRef, Stages, InFetch
<1>2. CASE StreamEnds
  BY <1>2, <1>0 DEF StreamEnds, InFetch
<1>3. CASE DedupTimer
  BY <1>3, <1>0 DEF DedupTimer, InFetch
<1>4. CASE QuerySeen
  BY <1>4, <1>0, PipelineAssumption DEF QuerySeen, DedupBatched, InFetch
<1>5. CASE QueryFails
  BY <1>5, <1>0 DEF QueryFails, DropBatch, Stages, InFetch
<1>6. ASSUME NEW r \in Refs, EmitSkipped(r) PROVE WellTyped'
  BY <1>6, <1>0 DEF EmitSkipped, Stages, InFetch
<1>7. ASSUME NEW r \in Refs, EmitGap(r) PROVE WellTyped'
  BY <1>7, <1>0 DEF EmitGap, Stages, TaskStates, InFetch
<1>8. ASSUME NEW r \in Refs, EmitJob(r) PROVE WellTyped'
  BY <1>8, <1>0 DEF EmitJob, Stages, InFetch
<1>9. CASE FlushEnds
  BY <1>9, <1>0 DEF FlushEnds, AfterFlush, InFetch
<1>10. CASE DiscoverCancelled
  BY <1>10, <1>0 DEF DiscoverCancelled, DropBatch, Stages, InFetch
<1> QED
  BY <1>1, <1>2, <1>3, <1>4, <1>5, <1>6, <1>7, <1>8, <1>9, <1>10
     DEF DiscoverNext

\* An idle goroutine that takes a job is one more at work.
LEMMA FetchTaken ==
  ASSUME FetchersCounted, fetchers \in Nat, IdleFetcher,
         NEW r, InFetch' = InFetch \cup {r}, fetchers' = fetchers
  PROVE  FetchersCounted'
<1>1. IsFiniteSet(InFetch) /\ Cardinality(InFetch) \in Nat
  BY FS_CardinalityType DEF FetchersCounted
<1>2. /\ IsFiniteSet(InFetch \cup {r})
      /\ Cardinality(InFetch \cup {r}) =
            IF r \in InFetch THEN Cardinality(InFetch)
                             ELSE Cardinality(InFetch) + 1
  BY <1>1, FS_AddElement
<1>3. Cardinality(InFetch \cup {r}) \in Nat
  BY <1>2, FS_CardinalityType
<1> QED
  BY <1>1, <1>2, <1>3 DEF FetchersCounted, IdleFetcher

\* A goroutine that is done with its job is one fewer at work, whether it goes
\* on to the next one or returns.
LEMMA FetchDone ==
  ASSUME FetchersCounted, fetchers \in Nat,
         NEW r \in InFetch, InFetch' = InFetch \ {r},
         fetchers' \in {fetchers, fetchers - 1}
  PROVE  FetchersCounted' /\ fetchers - 1 \in Nat
<1>1. IsFiniteSet(InFetch) /\ Cardinality(InFetch) \in Nat
  BY FS_CardinalityType DEF FetchersCounted
<1>2. /\ IsFiniteSet(InFetch \ {r})
      /\ Cardinality(InFetch \ {r}) = Cardinality(InFetch) - 1
  BY <1>1, FS_RemoveElement
<1>3. Cardinality(InFetch \ {r}) \in Nat
  BY <1>2, FS_CardinalityType
<1> QED
  BY <1>1, <1>2, <1>3 DEF FetchersCounted

\* An idle goroutine that returns leaves enough of them for those at work.
LEMMA FetchIdle ==
  ASSUME FetchersCounted, fetchers \in Nat, IdleFetcher
  PROVE  /\ fetchers - 1 \in Nat
         /\ InFetch' = InFetch /\ fetchers' = fetchers - 1 => FetchersCounted'
<1>1. IsFiniteSet(InFetch) /\ Cardinality(InFetch) \in Nat
  BY FS_CardinalityType DEF FetchersCounted
<1> QED
  BY <1>1 DEF FetchersCounted, IdleFetcher

\* Fetching keeps the types.
LEMMA FetchTyped == WellTyped /\ FetchNext => WellTyped'
<1> SUFFICES ASSUME WellTyped, FetchNext PROVE WellTyped'
  OBVIOUS
<1> USE DEF WellTyped, TypeOK, DurableTypeOK, payloadVars, discoverVars,
            publishVars, runVars, durable
<1>0. /\ FetchMaxConns \in Nat /\ fetchers \in Nat
      /\ fetchers - 1 \in Nat => fetchers - 1 \in 0..FetchMaxConns
  BY PipelineAssumption
<1>a. ASSUME InFetch' = InFetch, fetchers' = fetchers PROVE FetchersCounted'
  BY <1>a, FetchUnchanged
<1>1. ASSUME NEW r \in Refs, TakeJob(r) PROVE WellTyped'
  <2>1. InFetch' = InFetch \cup {r}
    BY <1>1 DEF TakeJob, InFetch
  <2> QED
    BY <1>0, <1>1, <2>1, FetchTaken DEF TakeJob, Stages
<1>2. ASSUME NEW r \in Refs, TakeJobCancelled(r) PROVE WellTyped'
  <2>1. InFetch' = InFetch
    BY <1>2 DEF TakeJobCancelled, InFetch
  <2> QED
    BY <1>0, <1>2, <2>1, FetchIdle DEF TakeJobCancelled, Stages
<1>3. ASSUME NEW r \in Refs, ReserveBytes(r) PROVE WellTyped'
  <2>1. FetchersCounted'
    BY <1>3, <1>a DEF ReserveBytes, InFetch
  <2>2. reserved' \in [Refs -> BOOLEAN] /\ inFlight' \in Int
    BY <1>3, WeightType DEF ReserveBytes
  <2> QED
    BY <1>3, <2>1, <2>2 DEF ReserveBytes, Stages
<1>4. ASSUME NEW r \in Refs, ReserveFails(r) PROVE WellTyped'
  <2>1. r \in InFetch /\ InFetch' = InFetch \ {r}
    BY <1>4 DEF ReserveFails, InFetch
  <2> QED
    BY <1>0, <1>4, <2>1, FetchDone DEF ReserveFails, Stages
<1>5. ASSUME NEW r \in Refs, StartTransfer(r) PROVE WellTyped'
  <2>1. FetchersCounted'
    BY <1>5, <1>a DEF StartTransfer, InFetch
  <2>2. file' \in [Files -> BOOLEAN]
    BY <1>5 DEF StartTransfer
  <2> QED
    BY <1>5, <2>1, <2>2 DEF StartTransfer, Stages
<1>6. ASSUME NEW r \in Refs, StartFails(r) PROVE WellTyped'
  <2>1. r \in InFetch /\ InFetch' = InFetch \ {r}
    BY <1>6 DEF StartFails, InFetch
  <2>2. FetchersCounted'
    BY <1>0, <1>6, <2>1, FetchDone DEF StartFails
  <2>3. reserved' \in [Refs -> BOOLEAN] /\ inFlight' \in Int
    BY <1>6, WeightType DEF StartFails, ReleaseBytes
  <2> QED
    BY <1>6, <2>2, <2>3 DEF StartFails, Stages
<1>7. ASSUME NEW r \in Refs, FinishTransfer(r) PROVE WellTyped'
  BY <1>7, <1>a DEF FinishTransfer, InFetch, Stages
<1>8. ASSUME NEW r \in Refs, TransferFails(r) PROVE WellTyped'
  <2>1. r \in InFetch /\ InFetch' = InFetch \ {r}
    BY <1>8 DEF TransferFails, InFetch
  <2>2. FetchersCounted'
    BY <1>0, <1>8, <2>1, FetchDone DEF TransferFails
  <2>3. /\ reserved' \in [Refs -> BOOLEAN] /\ inFlight' \in Int
        /\ file' \in [Files -> BOOLEAN]
    BY <1>8, FreeType DEF TransferFails
  <2> QED
    BY <1>8, <2>2, <2>3 DEF TransferFails, Stages
<1>9. ASSUME NEW r \in Refs, SendPayload(r) PROVE WellTyped'
  <2>1. r \in InFetch /\ InFetch' = InFetch \ {r}
    BY <1>9 DEF SendPayload, InFetch
  <2> QED
    BY <1>0, <1>9, <2>1, FetchDone DEF SendPayload, Stages
<1>10. ASSUME NEW r \in Refs, SendPayloadCancelled(r) PROVE WellTyped'
  <2>1. r \in InFetch /\ InFetch' = InFetch \ {r}
    BY <1>10 DEF SendPayloadCancelled, InFetch
  <2>2. FetchersCounted' /\ fetchers' \in 0..FetchMaxConns
    BY <1>0, <1>10, <2>1, FetchDone DEF SendPayloadCancelled
  <2>3. /\ reserved' \in [Refs -> BOOLEAN] /\ inFlight' \in Int
        /\ file' \in [Files -> BOOLEAN]
    BY <1>10, FreeType DEF SendPayloadCancelled
  <2> QED
    BY <1>10, <2>2, <2>3 DEF SendPayloadCancelled, Stages
<1>11. CASE FetcherExits
  <2>1. InFetch' = InFetch
    BY <1>11 DEF FetcherExits, InFetch
  <2> QED
    BY <1>0, <1>11, <2>1, FetchIdle DEF FetcherExits
<1> QED
  BY <1>1, <1>2, <1>3, <1>4, <1>5, <1>6, <1>7, <1>8, <1>9, <1>10, <1>11
     DEF FetchNext

\* Dispatching and scanning keep the types.
LEMMA LanesTyped == WellTyped /\ LanesNext => WellTyped'
<1> SUFFICES ASSUME WellTyped, LanesNext PROVE WellTyped'
  OBVIOUS
<1> USE DEF WellTyped, TypeOK, DurableTypeOK, payloadVars, discoverVars,
            publishVars, runVars, durable
<1>0. ASSUME InFetch' = InFetch, fetchers' = fetchers PROVE FetchersCounted'
  BY <1>0, FetchUnchanged
<1>1. ASSUME NEW r \in Refs, TakePayload(r) PROVE WellTyped'
  <2>1. FetchersCounted'
    BY <1>1, <1>0 DEF TakePayload, InFetch
  <2>2. Cardinality(Readers) \in Nat
    BY PipelineAssumption, FS_Subset, FS_CardinalityType
  <2>3. refcnt' \in [Refs -> Int]
    BY <1>1, <2>2 DEF TakePayload
  <2>4. /\ reserved' \in [Refs -> BOOLEAN] /\ inFlight' \in Int
        /\ file' \in [Files -> BOOLEAN]
    BY <1>1, FreeType DEF TakePayload
  <2> QED
    BY <1>1, <2>1, <2>3, <2>4 DEF TakePayload, Stages
<1>2. ASSUME NEW r \in Refs, NEW s \in Scanners, Offer(r, s) PROVE WellTyped'
  <2>1. FetchersCounted'
    BY <1>2, <1>0 DEF Offer, Dispatched, InFetch
  <2> QED
    BY <1>2, <2>1 DEF Offer, Dispatched, Stages, TaskStates
<1>3. ASSUME NEW r \in Refs, NEW s \in Scanners, Spill(r, s) PROVE WellTyped'
  <2>1. FetchersCounted'
    BY <1>3, <1>0 DEF Spill, Dispatched, InFetch
  <2>2. /\ refcnt' \in [Refs -> Int] /\ reserved' \in [Refs -> BOOLEAN]
        /\ inFlight' \in Int /\ file' \in [Files -> BOOLEAN]
    BY <1>3, GiveUpType DEF Spill
  <2>3. ledger' \in [Tasks -> Rows]
    BY <1>3, TaskFinding, RowsWritten, SetRowType DEF Spill, Park
  <2> QED
    BY <1>3, <2>1, <2>2, <2>3 DEF Spill, Park, Dispatched, Stages, TaskStates
<1>4. ASSUME NEW r \in Refs, NEW s \in Scanners, DispatchCancelled(r, s)
      PROVE  WellTyped'
  <2>1. FetchersCounted'
    BY <1>4, <1>0 DEF DispatchCancelled, InFetch
  <2>2. /\ refcnt' \in [Refs -> Int] /\ reserved' \in [Refs -> BOOLEAN]
        /\ inFlight' \in Int /\ file' \in [Files -> BOOLEAN]
    BY <1>4, GiveUpType DEF DispatchCancelled
  <2> QED
    BY <1>4, <2>1, <2>2 DEF DispatchCancelled, Stages, TaskStates
<1>5. CASE DispatcherExits
  BY <1>5, <1>0 DEF DispatcherExits, InFetch
<1>6. ASSUME NEW r \in Refs, NEW s \in Scanners, TakeTask(r, s)
      PROVE  WellTyped'
  <2>1. FetchersCounted'
    BY <1>6, <1>0 DEF TakeTask, InFetch
  <2>2. /\ refcnt' \in [Refs -> Int] /\ reserved' \in [Refs -> BOOLEAN]
        /\ inFlight' \in Int /\ file' \in [Files -> BOOLEAN]
    BY <1>6, GiveUpType DEF TakeTask
  <2> QED
    BY <1>6, <2>1, <2>2 DEF TakeTask, TaskStates
<1>7. ASSUME NEW r \in Refs, NEW s \in Scanners, Admit(r, s) PROVE WellTyped'
  BY <1>7, <1>0 DEF Admit, TaskStates, InFetch
<1>8. ASSUME NEW r \in Refs, NEW s \in Scanners, AdmitCancelled(r, s)
      PROVE  WellTyped'
  <2>1. FetchersCounted'
    BY <1>8, <1>0 DEF AdmitCancelled, InFetch
  <2>2. /\ refcnt' \in [Refs -> Int] /\ reserved' \in [Refs -> BOOLEAN]
        /\ inFlight' \in Int /\ file' \in [Files -> BOOLEAN]
    BY <1>8, GiveUpType DEF AdmitCancelled
  <2>3. ledger' \in [Tasks -> Rows]
    BY <1>8, TaskFinding, RowsWritten, SetRowType DEF AdmitCancelled, Park
  <2> QED
    BY <1>8, <2>1, <2>2, <2>3 DEF AdmitCancelled, Park, TaskStates
<1>9. ASSUME NEW r \in Refs, NEW s \in Scanners, ScanAnswers(r, s)
      PROVE  WellTyped'
  BY <1>9, <1>0 DEF ScanAnswers, TaskStates, InFetch
<1>10. ASSUME NEW r \in Refs, NEW s \in Scanners, ScanPends(r, s)
       PROVE  WellTyped'
  BY <1>10, <1>0 DEF ScanPends, TaskStates, InFetch
<1>11. ASSUME NEW r \in Refs, NEW s \in Scanners, HandoffRecord(r, s)
       PROVE  WellTyped'
  <2>1. FetchersCounted'
    BY <1>11, <1>0 DEF HandoffRecord, InFetch
  <2>2. ledger' \in [Tasks -> Rows]
    BY <1>11, TaskFinding, RowsWritten, SetRowType DEF HandoffRecord
  <2> QED
    BY <1>11, <2>1, <2>2 DEF HandoffRecord, TaskStates
<1>12. ASSUME NEW r \in Refs, NEW s \in Scanners, HandoffNotify(r, s)
       PROVE  WellTyped'
  <2>1. FetchersCounted'
    BY <1>12, <1>0 DEF HandoffNotify, InFetch
  <2>2. /\ refcnt' \in [Refs -> Int] /\ reserved' \in [Refs -> BOOLEAN]
        /\ inFlight' \in Int /\ file' \in [Files -> BOOLEAN]
    BY <1>12, GiveUpType DEF HandoffNotify
  <2>3. topic' \subseteq Messages
    BY <1>12, LedgerAssumption, PipelineAssumption
       DEF HandoffNotify, Continuation, Messages
  <2> QED
    BY <1>12, <2>1, <2>2, <2>3 DEF HandoffNotify, TaskStates
<1>13. ASSUME NEW r \in Refs, NEW s \in Scanners, SendFinding(r, s)
       PROVE  WellTyped'
  <2>1. FetchersCounted'
    BY <1>13, <1>0 DEF SendFinding, InFetch
  <2>2. /\ refcnt' \in [Refs -> Int] /\ reserved' \in [Refs -> BOOLEAN]
        /\ inFlight' \in Int /\ file' \in [Files -> BOOLEAN]
    BY <1>13, GiveUpType DEF SendFinding
  <2> QED
    BY <1>13, <2>1, <2>2 DEF SendFinding, TaskStates
<1>14. ASSUME NEW r \in Refs, NEW s \in Scanners, SendFindingCancelled(r, s)
       PROVE  WellTyped'
  <2>1. FetchersCounted'
    BY <1>14, <1>0 DEF SendFindingCancelled, InFetch
  <2>2. /\ refcnt' \in [Refs -> Int] /\ reserved' \in [Refs -> BOOLEAN]
        /\ inFlight' \in Int /\ file' \in [Files -> BOOLEAN]
    BY <1>14, GiveUpType DEF SendFindingCancelled
  <2> QED
    BY <1>14, <2>1, <2>2 DEF SendFindingCancelled, TaskStates
<1> QED
  BY <1>1, <1>2, <1>3, <1>4, <1>5, <1>6, <1>7, <1>8, <1>9, <1>10, <1>11,
     <1>12, <1>13, <1>14 DEF LanesNext

\* Publishing keeps the types.
LEMMA PublishTyped == WellTyped /\ PublishNext => WellTyped'
<1> SUFFICES ASSUME WellTyped, PublishNext PROVE WellTyped'
  OBVIOUS
<1> USE DEF WellTyped, TypeOK, DurableTypeOK, payloadVars, discoverVars,
            publishVars, runVars, durable
<1>0. ASSUME InFetch' = InFetch, fetchers' = fetchers PROVE FetchersCounted'
  BY <1>0, FetchUnchanged
<1>1. ASSUME NEW x \in Findings, Collect(x) PROVE WellTyped'
  BY <1>1, <1>0 DEF Collect, TaskStates, InFetch
<1>2. ASSUME NEW x \in Findings, MarkObject(x) PROVE WellTyped'
  <2>1. FetchersCounted'
    BY <1>2, <1>0 DEF MarkObject, InFetch
  <2>2. records' \subseteq Files
    BY <1>2, FindingDoc DEF MarkObject
  <2>3. ledger' \in [Tasks -> Rows]
    <3>1. CASE ledger' = ledger
      BY <3>1
    <3>2. CASE SetRow(FileOf[x[1]], x[2], MarkDone(ledger[DocOf(x)]))
      <4>1. CASE DocOf(x) \in Tasks
        BY <3>2, <4>1, RowsWritten, SetRowType DEF DocOf
      <4>2. CASE DocOf(x) \notin Tasks
        BY <3>2, <4>2 DEF SetRow, DocOf
      <4> QED
        BY <4>1, <4>2
    <3> QED
      BY <1>2, <3>1, <3>2 DEF MarkObject
  <2> QED
    BY <1>2, <2>1, <2>2, <2>3 DEF MarkObject
<1>3. CASE FlushTimer
  BY <1>3, <1>0 DEF FlushTimer, InFetch
<1>4. CASE FindingsDrained
  BY <1>4, <1>0 DEF FindingsDrained, InFetch
<1>5. CASE PublishCancelled
  BY <1>5, <1>0 DEF PublishCancelled, InFetch
<1>6. CASE SendSucceeds
  <2>1. FetchersCounted'
    BY <1>6, <1>0 DEF SendSucceeds, InFetch
  <2>2. sink' \in [Docs -> Documents]
    BY <1>6 DEF SendSucceeds, Accept, Documents
  <2>3. toRecord' \subseteq Findings
    BY <1>6 DEF SendSucceeds, PublishBatch
  <2> QED
    BY <1>6, <2>1, <2>2, <2>3 DEF SendSucceeds, Sent, TaskStates
<1>7. CASE SendFails
  <2>1. FetchersCounted'
    BY <1>7, <1>0 DEF SendFails, InFetch
  <2>2. sink' \in [Docs -> Documents]
    BY <1>7 DEF SendFails, Accept, Documents
  <2> QED
    BY <1>7, <2>1, <2>2 DEF SendFails, Sent, TaskStates
<1>8. CASE MarkingEnds
  BY <1>8, <1>0 DEF MarkingEnds, InFetch
<1> QED
  BY <1>1, <1>2, <1>3, <1>4, <1>5, <1>6, <1>7, <1>8 DEF PublishNext

\* A new process starts with nothing in memory, and in type.
LEMMA NewProcessTyped == WellTyped /\ NewProcess => WellTyped'
<1> SUFFICES ASSUME WellTyped, NewProcess PROVE WellTyped'
  OBVIOUS
<1> USE DEF NewProcess, WellTyped
<1>1. FetchMaxConns \in Nat \ {0} /\ MaxRuns \in Nat \ {0}
  BY PipelineAssumption
<1>2. FetchersCounted'
  <2>1. InFetch' = {}
    BY DEF NextStreams, InFetch
  <2> QED
    BY <1>1, <2>1, FS_EmptySet DEF FetchersCounted
<1>3. stage' \in [Refs -> Stages] /\ runs' \in 1..MaxRuns
  BY <1>1 DEF NextStreams, Stages, TypeOK
<1>4. DurableTypeOK'
  BY DEF TypeOK, DurableTypeOK, durable
<1>5. /\ task' \in [Findings -> TaskStates] /\ refcnt' \in [Refs -> Int]
      /\ reserved' \in [Refs -> BOOLEAN] /\ file' \in [Files -> BOOLEAN]
  BY DEF TaskStates
<1>6. /\ disc' \in {"reading", "querying", "emitting", "lastquerying",
                   "lastemitting", "returned"}
      /\ seen' \subseteq Files /\ toRecord' \subseteq Findings
      /\ disp' \in {"open", "exited"} /\ inFlight' \in Int
      /\ pub' \in {"collecting", "sending", "marking", "lastsending",
                  "detached", "lastmarking", "returned"}
  OBVIOUS
<1>7. cancelled' \in BOOLEAN
  OBVIOUS
<1>8. fetchers' \in 0..FetchMaxConns /\ main' \in Mains
  BY <1>1 DEF Mains
<1> QED
  BY <1>2, <1>3, <1>4, <1>5, <1>6, <1>7, <1>8 DEF TypeOK

\* The first process too.
LEMMA InitTyped == Init => WellTyped
<1> SUFFICES ASSUME Init PROVE WellTyped
  OBVIOUS
<1> USE DEF Init
<1>1. FetchMaxConns \in Nat \ {0} /\ MaxRuns \in Nat \ {0}
  BY PipelineAssumption
<1>2. InFetch = {}
  BY DEF InFetch
<1>3. FetchersCounted
  BY <1>1, <1>2, FS_EmptySet DEF FetchersCounted
<1>4. DurableTypeOK
  BY NoRowType DEF DurableInit, DurableTypeOK, Documents
<1>5. /\ task \in [Findings -> TaskStates] /\ refcnt \in [Refs -> Int]
      /\ stage \in [Refs -> Stages]
      /\ reserved \in [Refs -> BOOLEAN] /\ file \in [Files -> BOOLEAN]
  BY DEF TaskStates, Stages
<1>6. /\ disc \in {"reading", "querying", "emitting", "lastquerying",
                   "lastemitting", "returned"}
      /\ seen \subseteq Files /\ toRecord \subseteq Findings
      /\ disp \in {"open", "exited"} /\ inFlight \in Int
      /\ pub \in {"collecting", "sending", "marking", "lastsending",
                  "detached", "lastmarking", "returned"}
  OBVIOUS
<1>7. cancelled \in BOOLEAN
  OBVIOUS
<1>8. fetchers \in 0..FetchMaxConns /\ main \in Mains /\ runs \in 1..MaxRuns
  BY <1>1 DEF Mains
<1> QED
  BY <1>3, <1>4, <1>5, <1>6, <1>7, <1>8 DEF WellTyped, TypeOK

\* Every step keeps the types.
LEMMA StepTyped == WellTyped /\ [Next]_vars => WellTyped'
<1> SUFFICES ASSUME WellTyped, [Next]_vars PROVE WellTyped'
  OBVIOUS
<1>1. CASE CloseJobs \/ ClosePayloads \/ CloseLanes \/ CloseFindings
           \/ RunReturns \/ Cancel
  <2>1. InFetch' = InFetch /\ fetchers' = fetchers
    BY <1>1 DEF CloseJobs, ClosePayloads, CloseLanes, CloseFindings,
                RunReturns, Cancel, InFetch
  <2>2. main' \in Mains /\ cancelled' \in BOOLEAN
    BY <1>1 DEF CloseJobs, ClosePayloads, CloseLanes, CloseFindings,
                RunReturns, Cancel, WellTyped, TypeOK, Mains
  <2>3. TypeOK'
    BY <1>1, <2>2
       DEF CloseJobs, ClosePayloads, CloseLanes, CloseFindings, RunReturns,
           Cancel, WellTyped, TypeOK, DurableTypeOK, payloadVars,
           discoverVars, publishVars, durable
  <2> QED
    BY <2>1, <2>3, FetchUnchanged DEF WellTyped
<1>2. CASE UNCHANGED vars
  <2>1. InFetch' = InFetch
    BY <1>2 DEF vars, InFetch
  <2>2. TypeOK'
    BY <1>2 DEF vars, WellTyped, TypeOK, DurableTypeOK, payloadVars,
                discoverVars, publishVars, runVars, durable
  <2> QED
    BY <1>2, <2>1, <2>2, FetchUnchanged DEF WellTyped, vars
<1> QED
  BY <1>1, <1>2, DiscoverTyped, FetchTyped, LanesTyped, PublishTyped,
     NewProcessTyped DEF Next, Restart, Crash, Finished

\* Every variable of the pipeline keeps to its type; the count of fetch
\* goroutines, which two kinds of step decrement, never passes zero.
THEOREM TypeCorrect == Spec => []TypeOK
<1>1. Init => WellTyped
  BY InitTyped
<1>2. WellTyped /\ [Next]_vars => WellTyped'
  BY StepTyped
<1>3. WellTyped => TypeOK
  BY DEF WellTyped
<1> QED
  BY <1>1, <1>2, <1>3, PTL DEF Spec

------------------------------------------------------------------------
(* The durable stores.  RecordFollowsSink is not inductive: it needs that  *)
(* what flush has still to record was accepted by the sink, by a scanner   *)
(* and not the size gate.  MessageHasRow needs that a scan whose message   *)
(* is about to be published has its row.                                   *)

ToRecordIsPublished ==
    \A x \in toRecord : x[2] # SizeGate /\ sink[DocOf(x)] # "none"

IInv == WellTyped /\ ToRecordIsPublished /\ RecordFollowsSink

\* What keeps it: the stores, and what is to be recorded, left alone.
StoresKept == UNCHANGED <<records, ledger, sink, toRecord>>

\* A step that leaves those alone keeps the two invariants.
LEMMA KeptInvariant ==
  ASSUME IInv, StoresKept
  PROVE  ToRecordIsPublished' /\ RecordFollowsSink'
  BY DEF IInv, StoresKept, ToRecordIsPublished, RecordFollowsSink, ClosedTasks

\* Writing a row that is not closed closes none.
LEMMA OpenRow ==
  ASSUME TypeOK, NEW f, NEW s, <<f, s>> \in Tasks, NEW row,
         row.status \notin {"done", "failed"}, SetRow(f, s, row)
  PROVE  ClosedTasks' = ClosedTasks \ {<<f, s>>}
  BY DEF TypeOK, DurableTypeOK, SetRow, ClosedTasks

\* Closing a row closes that one at most.
LEMMA ClosedRow ==
  ASSUME TypeOK, NEW f, NEW s, <<f, s>> \in Tasks, NEW row,
         SetRow(f, s, row)
  PROVE  \/ ClosedTasks' = ClosedTasks \ {<<f, s>>}
         \/ ClosedTasks' = ClosedTasks \cup {<<f, s>>}
  BY DEF TypeOK, DurableTypeOK, SetRow, ClosedTasks

\* Marking a row done closes it, unless it is missing: then it stays missing.
LEMMA MarkedRow ==
  ASSUME TypeOK, NEW f, NEW s, <<f, s>> \in Tasks,
         SetRow(f, s, MarkDone(ledger[<<f, s>>]))
  PROVE  \/ ClosedTasks' = ClosedTasks \cup {<<f, s>>}
         \/ ClosedTasks' = ClosedTasks
<1>1. CASE ledger[<<f, s>>].status = "absent"
  <2>1. ledger' = ledger
    BY <1>1 DEF TypeOK, DurableTypeOK, SetRow, MarkDone, Close
  <2> QED
    BY <2>1 DEF ClosedTasks
<1>2. CASE ledger[<<f, s>>].status # "absent"
  <2>1. MarkDone(ledger[<<f, s>>]).status = "done"
    BY <1>2 DEF TypeOK, DurableTypeOK, Rows, MarkDone, Close
  <2> QED
    BY <2>1 DEF TypeOK, DurableTypeOK, SetRow, ClosedTasks
<1> QED
  BY <1>1, <1>2

\* Discovery and fetching write no store.
LEMMA DiscoverKeeps == DiscoverNext => StoresKept
  BY DEF DiscoverNext, ReadRef, StreamEnds, DedupTimer, QuerySeen, QueryFails,
         EmitSkipped, EmitGap, EmitJob, FlushEnds, DiscoverCancelled,
         StoresKept, durable, publishVars

\* Nor does fetching.
LEMMA FetchKeeps == FetchNext => StoresKept
  BY DEF FetchNext, TakeJob, TakeJobCancelled, ReserveBytes, ReserveFails,
         StartTransfer, StartFails, FinishTransfer, TransferFails,
         SendPayload, SendPayloadCancelled, FetcherExits, StoresKept, durable,
         publishVars

\* The lanes write rows, none of them closed.
LEMMA LanesOpen ==
  ASSUME WellTyped, LanesNext
  PROVE  /\ UNCHANGED <<records, sink, toRecord>>
         /\ \/ UNCHANGED ledger
            \/ \E t \in Tasks : ClosedTasks' = ClosedTasks \ {t}
<1> USE DEF durable, publishVars
<1> DEFINE Rest == UNCHANGED <<records, sink, toRecord>>
           Opens == \/ UNCHANGED ledger
                    \/ \E t \in Tasks : ClosedTasks' = ClosedTasks \ {t}
<1>1. ASSUME NEW r \in Refs, NEW s \in Scanners,
             \/ SetRow(FileOf[r], s, EnqueuePending(ledger[<<FileOf[r], s>>]))
             \/ SetRow(FileOf[r], s,
                       EnqueueContinuation(ledger[<<FileOf[r], s>>]))
      PROVE  Opens
  <2>1. <<FileOf[r], s>> \in Tasks /\ ledger[<<FileOf[r], s>>] \in Rows
    BY TaskFinding DEF WellTyped, TypeOK, DurableTypeOK
  <2>2. ClosedTasks' = ClosedTasks \ {<<FileOf[r], s>>}
    BY <1>1, <2>1, OpenRow, EnqueuePendingType, EnqueueContinuationType
       DEF WellTyped
  <2> QED
    BY <2>1, <2>2
<1>2. ASSUME NEW r \in Refs, NEW s \in Scanners, Spill(r, s)
      PROVE  Rest /\ Opens
  BY <1>1, <1>2 DEF Spill, Park
<1>3. ASSUME NEW r \in Refs, NEW s \in Scanners, AdmitCancelled(r, s)
      PROVE  Rest /\ Opens
  BY <1>1, <1>3 DEF AdmitCancelled, Park
<1>4. ASSUME NEW r \in Refs, NEW s \in Scanners, HandoffRecord(r, s)
      PROVE  Rest /\ Opens
  BY <1>1, <1>4 DEF HandoffRecord
<1>5. ASSUME NEW r \in Refs, NEW s \in Scanners, HandoffNotify(r, s)
      PROVE  Rest /\ Opens
  BY <1>5 DEF HandoffNotify
<1>6. ASSUME NEW r \in Refs, NEW s \in Scanners,
             \/ Offer(r, s) \/ DispatchCancelled(r, s)
             \/ TakeTask(r, s) \/ Admit(r, s)
             \/ ScanAnswers(r, s) \/ ScanPends(r, s)
             \/ SendFinding(r, s) \/ SendFindingCancelled(r, s)
      PROVE  Rest /\ Opens
  BY <1>6 DEF Offer, DispatchCancelled, TakeTask, Admit, ScanAnswers,
              ScanPends, SendFinding, SendFindingCancelled
<1>7. ASSUME NEW r \in Refs, TakePayload(r) PROVE Rest /\ Opens
  BY <1>7 DEF TakePayload
<1>8. CASE DispatcherExits
  BY <1>8 DEF DispatcherExits
<1> QED
  BY <1>2, <1>3, <1>4, <1>5, <1>6, <1>7, <1>8 DEF LanesNext

\* A batch the sink accepts is what flush goes on to record; the sink never
\* loses a document.
LEMMA AcceptKeeps ==
  ASSUME TypeOK, NEW batch \in SUBSET Findings, Accept(batch)
  PROVE  /\ \A d \in Docs : sink[d] # "none" => sink'[d] # "none"
         /\ \A x \in batch : sink'[DocOf(x)] = "answer"
  BY FindingDoc DEF Accept, TypeOK, DurableTypeOK

\* Every step keeps the invariant.
LEMMA StepInvariant == IInv /\ [Next]_vars => IInv'
<1> SUFFICES ASSUME IInv, [Next]_vars
             PROVE  ToRecordIsPublished' /\ RecordFollowsSink'
  BY StepTyped DEF IInv
<1> DEFINE Goal == ToRecordIsPublished' /\ RecordFollowsSink'
<1> USE DEF IInv, WellTyped
<1>1. CASE StoresKept
  BY <1>1, KeptInvariant
<1>2. CASE LanesNext
  BY <1>2, <1>1, LanesOpen
     DEF StoresKept, ToRecordIsPublished, RecordFollowsSink
<1>3. ASSUME \A d \in Docs : sink[d] # "none" => sink'[d] # "none",
             UNCHANGED <<records, ledger>>
      PROVE  RecordFollowsSink'
  <2>1. Tasks \subseteq Docs /\ records \subseteq Files
    BY DEF Tasks, Docs, TypeOK, DurableTypeOK
  <2>2. ClosedTasks' = ClosedTasks /\ ClosedTasks \subseteq Tasks
    BY <1>3 DEF ClosedTasks
  <2>3. \A f \in records : \E s \in Scanners : sink'[<<f, s>>] # "none"
    BY <1>3, <2>1 DEF RecordFollowsSink, Tasks
  <2> QED
    BY <1>3, <2>1, <2>2, <2>3 DEF RecordFollowsSink
<1>4. CASE SendSucceeds
  <2>1. PublishBatch \in SUBSET Findings
    BY DEF PublishBatch
  <2>2. /\ \A d \in Docs : sink[d] # "none" => sink'[d] # "none"
        /\ \A x \in PublishBatch : sink'[DocOf(x)] = "answer"
    BY <1>4, <2>1, AcceptKeeps DEF SendSucceeds
  <2>3. ToRecordIsPublished'
    BY <1>4, <2>2 DEF SendSucceeds, ToRecordIsPublished, DocOf
  <2> QED
    BY <1>3, <1>4, <2>2, <2>3 DEF SendSucceeds
<1>5. CASE SendFails
  <2>1. \A d \in Docs : sink[d] # "none" => sink'[d] # "none"
    <3>1. PICK part \in SUBSET PublishBatch : Accept(part)
      BY <1>5 DEF SendFails
    <3> QED
      BY <3>1, AcceptKeeps DEF PublishBatch
  <2>2. ToRecordIsPublished'
    BY <1>5, <2>1, FindingDoc
       DEF SendFails, ToRecordIsPublished, TypeOK, DocOf
  <2> QED
    BY <1>3, <1>5, <2>1, <2>2 DEF SendFails
<1>6. ASSUME NEW x \in Findings, MarkObject(x) PROVE Goal
  <2>1. x \in toRecord /\ x[2] # SizeGate /\ sink[DocOf(x)] # "none"
    BY <1>6 DEF MarkObject, ToRecordIsPublished
  <2>2. /\ DocOf(x) \in Tasks /\ x[2] \in Scanners
        /\ DocOf(x) = <<FileOf[x[1]], x[2]>>
    BY <2>1, FindingDoc DEF Findings, DocOf
  <2>3. ToRecordIsPublished'
    BY <1>6 DEF MarkObject, ToRecordIsPublished, DocOf
  <2>4. \A f \in records' : \E s \in Scanners : sink'[<<f, s>>] # "none"
    BY <1>6, <2>1, <2>2 DEF MarkObject, RecordFollowsSink
  <2>5. ClosedTasks' \subseteq ClosedTasks \cup {DocOf(x)}
    <3>1. CASE UNCHANGED ledger
      BY <3>1 DEF ClosedTasks
    <3>2. CASE SetRow(FileOf[x[1]], x[2], MarkDone(ledger[DocOf(x)]))
      BY <2>2, <3>2, ClosedRow
    <3> QED
      BY <1>6, <3>1, <3>2 DEF MarkObject
  <2> QED
    BY <1>6, <2>1, <2>3, <2>4, <2>5 DEF MarkObject, RecordFollowsSink
<1>7. ASSUME NEW x \in Findings, Collect(x) PROVE StoresKept
  BY <1>7 DEF Collect, StoresKept, durable
<1>8. CASE FlushTimer \/ FindingsDrained \/ PublishCancelled \/ MarkingEnds
  BY <1>8, <1>1 DEF FlushTimer, FindingsDrained, PublishCancelled,
                    MarkingEnds, StoresKept, durable
<1>9. CASE NewProcess
  BY <1>9 DEF NewProcess, durable, ToRecordIsPublished, RecordFollowsSink,
              ClosedTasks
<1>10. CASE CloseJobs \/ ClosePayloads \/ CloseLanes \/ CloseFindings
            \/ RunReturns \/ Cancel \/ UNCHANGED vars
  BY <1>10, <1>1 DEF CloseJobs, ClosePayloads, CloseLanes, CloseFindings,
                     RunReturns, Cancel, vars, StoresKept, durable,
                     publishVars
<1> QED
  BY <1>1, <1>2, <1>4, <1>5, <1>6, <1>7, <1>8, <1>9, <1>10, DiscoverKeeps,
     FetchKeeps DEF Next, PublishNext, Crash, Restart, Finished

\* The invariant holds at the start.
LEMMA InitInvariant == Init => IInv
<1> SUFFICES ASSUME Init PROVE IInv
  OBVIOUS
<1>1. ToRecordIsPublished
  BY DEF Init, ToRecordIsPublished
<1>2. NoRow.status = "absent"
  BY DEF NoRow
<1>3. RecordFollowsSink
  BY <1>2 DEF Init, DurableInit, RecordFollowsSink, ClosedTasks
<1> QED
  BY <1>1, <1>3, InitTyped DEF IInv

\* So it holds in every reachable state.
LEMMA Invariant == Spec => []IInv
  BY InitInvariant, StepInvariant, PTL DEF Spec

\* Whatever crashes, is cancelled or fails, an object is in file_records only
\* if the sink has a scanner's document for it, and a row is closed only if
\* the sink has that row's document.
THEOREM RecordsFollowTheSink == Spec => []RecordFollowsSink
<1>1. IInv => RecordFollowsSink
  BY DEF IInv
<1> QED
  BY <1>1, Invariant, PTL

------------------------------------------------------------------------
(* The pipeline implements PublishFirst.                                   *)

\* A state in which nothing has happened is an initial state of the promise.
LEMMA InitMapped == Init => Promise!Init
<1>1. NoRow.status = "absent"
  BY DEF NoRow
<1> QED
  BY <1>1 DEF Init, DurableInit, Promise!Init, Published, ClosedTasks

\* A step is one of the promise's, or leaves what the promise sees alone.
LEMMA StepMapped == IInv /\ [Next]_vars => [Promise!Next]_(Promise!vars)
<1> SUFFICES ASSUME IInv, [Next]_vars
             PROVE  [Promise!Next]_(Promise!vars)
  OBVIOUS
<1> USE DEF IInv, WellTyped
<1> DEFINE Goal == [Promise!Next]_(Promise!vars)
<1>a. ASSUME UNCHANGED <<records, ledger, sink>> PROVE Goal
  BY <1>a DEF Promise!vars, Published, ClosedTasks
<1>1. CASE LanesNext
  <2>1. UNCHANGED <<records, sink>>
    BY <1>1, LanesOpen
  <2>2. CASE UNCHANGED ledger
    BY <2>1, <2>2, <1>a
  <2>3. ASSUME NEW t \in Tasks, ClosedTasks' = ClosedTasks \ {t} PROVE Goal
    BY <2>1, <2>3 DEF Promise!Next, Promise!Reopen, Published
  <2> QED
    BY <1>1, <2>2, <2>3, LanesOpen
<1>2. ASSUME \A d \in Docs : sink[d] # "none" => sink'[d] # "none",
             UNCHANGED <<records, ledger>>
      PROVE  Goal
  BY <1>2 DEF Promise!Next, Promise!Publish, Published, ClosedTasks
<1>3. CASE SendSucceeds
  <2>1. \A d \in Docs : sink[d] # "none" => sink'[d] # "none"
    BY <1>3, AcceptKeeps DEF SendSucceeds, PublishBatch
  <2> QED
    BY <1>2, <1>3, <2>1 DEF SendSucceeds
<1>4. CASE SendFails
  <2>1. \A d \in Docs : sink[d] # "none" => sink'[d] # "none"
    <3>1. PICK part \in SUBSET PublishBatch : Accept(part)
      BY <1>4 DEF SendFails
    <3> QED
      BY <3>1, AcceptKeeps DEF PublishBatch
  <2> QED
    BY <1>2, <1>4, <2>1 DEF SendFails
<1>5. ASSUME NEW x \in Findings, MarkObject(x) PROVE Goal
  <2> DEFINE f == FileOf[x[1]]
             t == DocOf(x)
  <2>1. x \in toRecord /\ x[2] # SizeGate /\ sink[t] # "none"
    BY <1>5 DEF MarkObject, ToRecordIsPublished
  <2>2. /\ t \in Tasks \cap Published /\ f \in Files
        /\ t = <<f, x[2]>> /\ t[1] = f
    BY <2>1, FindingDoc DEF DocOf, Published
  <2>3. Published' = Published
    BY <1>5 DEF MarkObject, Published
  <2>4. CASE records' = records /\ ledger' = ledger
    BY <1>5, <2>4, <1>a DEF MarkObject
  <2>5. CASE records' = records \cup {f} /\ UNCHANGED ledger
    <3>1. ClosedTasks' = ClosedTasks
      BY <2>5 DEF ClosedTasks
    <3> QED
      BY <2>2, <2>3, <2>5, <3>1
         DEF Promise!Next, Promise!Record, Published, ClosedTasks
  <2>6. CASE /\ records' = records \cup {f}
             /\ SetRow(f, x[2], MarkDone(ledger[t]))
    <3>1. \/ ClosedTasks' = ClosedTasks \cup {t}
          \/ ClosedTasks' = ClosedTasks
      BY <2>2, <2>6, MarkedRow
    <3> QED
      BY <2>2, <2>3, <2>6, <3>1
         DEF Promise!Next, Promise!Record, Published, ClosedTasks
  <2> QED
    BY <1>5, <2>4, <2>5, <2>6 DEF MarkObject
<1>6. CASE \/ DiscoverNext \/ FetchNext \/ NewProcess
           \/ \E x \in Findings : Collect(x)
           \/ FlushTimer \/ FindingsDrained \/ PublishCancelled
           \/ MarkingEnds
           \/ CloseJobs \/ ClosePayloads \/ CloseLanes \/ CloseFindings
           \/ RunReturns \/ Cancel \/ UNCHANGED vars
  <2>1. UNCHANGED <<records, ledger, sink>>
    BY <1>6, DiscoverKeeps, FetchKeeps
       DEF StoresKept, NewProcess, Collect, FlushTimer, FindingsDrained,
           PublishCancelled, MarkingEnds, CloseJobs, ClosePayloads,
           CloseLanes, CloseFindings, RunReturns, Cancel, vars, durable
  <2> QED
    BY <2>1, <1>a
<1> QED
  BY <1>1, <1>3, <1>4, <1>5, <1>6
     DEF Next, PublishNext, Crash, Restart, Finished

\* Every behaviour of the pipeline is one the abstract specification allows:
\* records and closed rows only ever follow a document in the sink.
THEOREM ImplementsPublishFirst == Spec => PublishesFirst
<1>1. Init => Promise!Init
  BY InitMapped
<1>2. IInv /\ [Next]_vars => [Promise!Next]_(Promise!vars)
  BY StepMapped
<1> QED
  BY <1>1, <1>2, Invariant, PTL DEF Spec, PublishesFirst, Promise!Spec

------------------------------------------------------------------------
(* Messages and rows, when the database does not fail.                     *)

NotifyingHasRow ==
    \A r \in Refs, s \in Scanners :
        task[<<r, s>>] = "notifying" => ledger[<<FileOf[r], s>>].token # ""

MInv == WellTyped /\ NotifyingHasRow /\ MessageHasRow

\* What a token is written into keeps one.
TokensKept ==
    \A t \in Tasks : ledger[t].token # "" => ledger'[t].token # ""

\* Assigning one row takes no token away if that row keeps or gains one.
LEMMA SetRowTokens ==
  ASSUME TypeOK, NEW f, NEW s, <<f, s>> \in Tasks, NEW row,
         row.token \in {ledger[<<f, s>>].token, "token"}, SetRow(f, s, row)
  PROVE  TokensKept
  BY DEF TypeOK, DurableTypeOK, SetRow, TokensKept

\* No step takes a token away.
LEMMA StepTokens == IInv /\ [Next]_vars => TokensKept
<1> SUFFICES ASSUME IInv, [Next]_vars PROVE TokensKept
  OBVIOUS
<1> USE DEF durable, IInv, WellTyped
<1>0. CASE UNCHANGED ledger
  BY <1>0 DEF TokensKept
<1>1. ASSUME NEW r \in Refs, NEW s \in Scanners,
             \/ SetRow(FileOf[r], s, EnqueuePending(ledger[<<FileOf[r], s>>]))
             \/ SetRow(FileOf[r], s,
                       EnqueueContinuation(ledger[<<FileOf[r], s>>]))
      PROVE  TokensKept
  <2>1. <<FileOf[r], s>> \in Tasks /\ ledger[<<FileOf[r], s>>] \in Rows
    BY TaskFinding DEF TypeOK, DurableTypeOK
  <2> QED
    BY <1>1, <2>1, SetRowTokens, TokenKept, EnqueueContinuationType
<1>2. ASSUME NEW r \in Refs, NEW s \in Scanners,
             Spill(r, s) \/ AdmitCancelled(r, s) \/ HandoffRecord(r, s)
      PROVE  TokensKept
  BY <1>0, <1>1, <1>2 DEF Spill, AdmitCancelled, HandoffRecord, Park
<1>3. ASSUME NEW x \in Findings, MarkObject(x) PROVE TokensKept
  <2>1. /\ DocOf(x) \in Tasks /\ DocOf(x) = <<FileOf[x[1]], x[2]>>
        /\ ledger[DocOf(x)] \in Rows
    BY <1>3, FindingDoc
       DEF MarkObject, ToRecordIsPublished, DocOf, TypeOK, DurableTypeOK
  <2>2. CASE SetRow(FileOf[x[1]], x[2], MarkDone(ledger[DocOf(x)]))
    BY <2>1, <2>2, SetRowTokens, TokenKept
  <2> QED
    BY <1>0, <1>3, <2>2 DEF MarkObject
<1>4. ASSUME NEW r \in Refs, NEW s \in Scanners,
             \/ Offer(r, s) \/ DispatchCancelled(r, s)
             \/ TakeTask(r, s) \/ Admit(r, s)
             \/ ScanAnswers(r, s) \/ ScanPends(r, s) \/ HandoffNotify(r, s)
             \/ SendFinding(r, s) \/ SendFindingCancelled(r, s)
      PROVE  TokensKept
  BY <1>0, <1>4
     DEF Offer, DispatchCancelled, TakeTask, Admit, ScanAnswers, ScanPends,
         HandoffNotify, SendFinding, SendFindingCancelled
<1>5. CASE \/ DiscoverNext \/ FetchNext
           \/ \E r \in Refs : TakePayload(r)
           \/ DispatcherExits
  BY <1>0, <1>5, DiscoverKeeps, FetchKeeps
     DEF StoresKept, TakePayload, DispatcherExits
<1>6. CASE \/ \E x \in Findings : Collect(x)
           \/ FlushTimer \/ FindingsDrained \/ PublishCancelled
           \/ SendSucceeds \/ SendFails \/ MarkingEnds
  BY <1>0, <1>6 DEF Collect, FlushTimer, FindingsDrained, PublishCancelled,
                    SendSucceeds, SendFails, MarkingEnds
<1>7. CASE \/ CloseJobs \/ ClosePayloads \/ CloseLanes \/ CloseFindings
           \/ RunReturns \/ Cancel \/ NewProcess \/ UNCHANGED vars
  BY <1>0, <1>7 DEF CloseJobs, ClosePayloads, CloseLanes, CloseFindings,
                    RunReturns, Cancel, NewProcess, vars
<1> QED
  BY <1>2, <1>3, <1>4, <1>5, <1>6, <1>7
     DEF Next, LanesNext, PublishNext, Crash, Restart, Finished

\* Which tasks a step makes about to notify.
LEMMA StepNotifying ==
  ASSUME WellTyped, [Next]_vars, NEW r \in Refs, NEW s \in Scanners,
         task'[<<r, s>>] = "notifying"
  PROVE  task[<<r, s>>] = "notifying" \/ HandoffRecord(r, s)
<1> USE DEF WellTyped, TypeOK, durable
<1>0. <<r, s>> \in Findings
  BY TaskFinding
<1>1. ASSUME NEW q \in Refs, NEW u \in Scanners, HandoffRecord(q, u)
      PROVE  task[<<r, s>>] = "notifying" \/ HandoffRecord(r, s)
  BY <1>0, <1>1 DEF HandoffRecord
<1>2. ASSUME NEW q \in Refs, NEW u \in Scanners,
             \/ Offer(q, u) \/ Spill(q, u) \/ DispatchCancelled(q, u)
             \/ TakeTask(q, u) \/ Admit(q, u) \/ AdmitCancelled(q, u)
             \/ ScanAnswers(q, u) \/ ScanPends(q, u) \/ HandoffNotify(q, u)
             \/ SendFinding(q, u) \/ SendFindingCancelled(q, u)
      PROVE  task[<<r, s>>] = "notifying"
  BY <1>0, <1>2
     DEF Offer, Spill, Park, DispatchCancelled, TakeTask, Admit,
         AdmitCancelled, ScanAnswers, ScanPends, HandoffNotify, SendFinding,
         SendFindingCancelled
<1>3. CASE DiscoverNext
  BY <1>0, <1>3 DEF DiscoverNext, ReadRef, StreamEnds, DedupTimer, QuerySeen,
                    QueryFails, EmitSkipped, EmitGap, EmitJob, FlushEnds,
                    DiscoverCancelled
<1>4. CASE FetchNext
  BY <1>4 DEF FetchNext, TakeJob, TakeJobCancelled, ReserveBytes,
              ReserveFails, StartTransfer, StartFails, FinishTransfer,
              TransferFails, SendPayload, SendPayloadCancelled, FetcherExits
<1>5. CASE \/ \E q \in Refs : TakePayload(q)
           \/ DispatcherExits
  BY <1>5 DEF TakePayload, DispatcherExits
<1>6. CASE PublishNext
  BY <1>0, <1>6 DEF PublishNext, Collect, MarkObject, FlushTimer, Sent,
                    FindingsDrained, PublishCancelled, SendSucceeds,
                    SendFails, MarkingEnds
<1>7. CASE \/ CloseJobs \/ ClosePayloads \/ CloseLanes \/ CloseFindings
           \/ RunReturns \/ Cancel \/ NewProcess \/ UNCHANGED vars
  BY <1>0, <1>7 DEF CloseJobs, ClosePayloads, CloseLanes, CloseFindings,
                    RunReturns, Cancel, NewProcess, vars
<1> QED
  BY <1>1, <1>2, <1>3, <1>4, <1>5, <1>6, <1>7
     DEF Next, LanesNext, Crash, Restart, Finished

\* A message is new only when its task was about to notify.
LEMMA StepTopic ==
  ASSUME WellTyped, [Next]_vars, NEW m \in topic', m \notin topic
  PROVE  \E r \in Refs, s \in Scanners :
            task[<<r, s>>] = "notifying" /\ m = Continuation(FileOf[r], s)
<1> USE DEF durable
<1>1. ASSUME NEW q \in Refs, NEW u \in Scanners,
             \/ Offer(q, u) \/ Spill(q, u) \/ DispatchCancelled(q, u)
             \/ TakeTask(q, u) \/ Admit(q, u) \/ AdmitCancelled(q, u)
             \/ ScanAnswers(q, u) \/ ScanPends(q, u) \/ HandoffRecord(q, u)
             \/ SendFinding(q, u) \/ SendFindingCancelled(q, u)
      PROVE  FALSE
  BY <1>1
     DEF Offer, Spill, DispatchCancelled, TakeTask, Admit, AdmitCancelled,
         ScanAnswers, ScanPends, HandoffRecord, SendFinding,
         SendFindingCancelled
<1>2. CASE DiscoverNext
  BY <1>2 DEF DiscoverNext, ReadRef, StreamEnds, DedupTimer, QuerySeen,
              QueryFails, EmitSkipped, EmitGap, EmitJob, FlushEnds,
              DiscoverCancelled
<1>3. CASE FetchNext
  BY <1>3 DEF FetchNext, TakeJob, TakeJobCancelled, ReserveBytes,
              ReserveFails, StartTransfer, StartFails, FinishTransfer,
              TransferFails, SendPayload, SendPayloadCancelled, FetcherExits
<1>4. CASE PublishNext
  BY <1>4 DEF PublishNext, Collect, MarkObject, FlushTimer, FindingsDrained,
              PublishCancelled, SendSucceeds, SendFails, MarkingEnds
<1>5. CASE \/ \E q \in Refs : TakePayload(q)
           \/ DispatcherExits
           \/ CloseJobs \/ ClosePayloads \/ CloseLanes \/ CloseFindings
           \/ RunReturns \/ Cancel \/ NewProcess \/ UNCHANGED vars
  BY <1>5 DEF TakePayload, DispatcherExits, CloseJobs, ClosePayloads,
              CloseLanes, CloseFindings, RunReturns, Cancel, NewProcess, vars
<1>6. ASSUME NEW q \in Refs, NEW u \in Scanners, HandoffNotify(q, u)
      PROVE  task[<<q, u>>] = "notifying" /\ m = Continuation(FileOf[q], u)
  BY <1>6 DEF HandoffNotify
<1> QED
  BY <1>1, <1>2, <1>3, <1>4, <1>5, <1>6
     DEF Next, LanesNext, Crash, Restart, Finished

\* Every step keeps the messages backed by rows.
LEMMA StepMessages ==
  ~MayFail("database") /\ IInv /\ MInv /\ [Next]_vars => MInv'
<1> SUFFICES ASSUME ~MayFail("database"), IInv, MInv, [Next]_vars
             PROVE  NotifyingHasRow' /\ MessageHasRow'
  BY StepTyped DEF MInv
<1> USE DEF MInv, WellTyped, TypeOK, DurableTypeOK
<1>1. TokensKept
  BY StepTokens
<1>2. NotifyingHasRow'
  <2> SUFFICES ASSUME NEW r \in Refs, NEW s \in Scanners,
                      task'[<<r, s>>] = "notifying"
               PROVE  ledger'[<<FileOf[r], s>>].token # ""
    BY DEF NotifyingHasRow
  <2>1. <<FileOf[r], s>> \in Tasks /\ ledger[<<FileOf[r], s>>] \in Rows
    BY TaskFinding
  <2>2. CASE task[<<r, s>>] = "notifying"
    BY <1>1, <2>1, <2>2 DEF NotifyingHasRow, TokensKept
  <2>3. CASE HandoffRecord(r, s)
    BY <2>1, <2>3, EnqueueContinuationType DEF HandoffRecord, SetRow
  <2> QED
    BY <2>2, <2>3, StepNotifying
<1>3. MessageHasRow'
  <2> SUFFICES ASSUME NEW m \in topic'
               PROVE  ledger'[<<m.file, m.scanner>>].token # ""
    BY DEF MessageHasRow
  <2>1. CASE m \in topic
    <3>1. <<m.file, m.scanner>> \in Tasks
      BY <2>1 DEF Messages, Tasks
    <3> QED
      BY <1>1, <2>1, <3>1 DEF MessageHasRow, TokensKept
  <2>2. CASE m \notin topic
    <3>1. PICK r \in Refs, s \in Scanners :
             task[<<r, s>>] = "notifying" /\ m = Continuation(FileOf[r], s)
      BY <2>2, StepTopic
    <3>2. <<m.file, m.scanner>> = <<FileOf[r], s>>
      BY <3>1 DEF Continuation
    <3>3. <<FileOf[r], s>> \in Tasks
      BY TaskFinding
    <3> QED
      BY <1>1, <3>1, <3>2, <3>3 DEF NotifyingHasRow, TokensKept
  <2> QED
    BY <2>1, <2>2
<1> QED
  BY <1>2, <1>3

\* As long as the database takes what it is given, every continuation message
\* is about a task whose row has the token: crashes, a broker that is down and
\* cancellation lose messages, never the means to do without them.
THEOREM MessagesHaveRows ==
  ASSUME ~MayFail("database")
  PROVE  Spec => []MessageHasRow
<1>1. Init => MInv
  BY InitTyped
     DEF Init, DurableInit, MInv, NotifyingHasRow, MessageHasRow, Findings
<1>2. IInv /\ MInv /\ [Next]_vars => MInv'
  BY StepMessages
<1>3. MInv => MessageHasRow
  BY DEF MInv
<1> QED
  BY <1>1, <1>2, <1>3, Invariant, PTL DEF Spec


------------------------------------------------------------------------
(* Bytes, files and readers: where a reservation is, who it is held for,   *)
(* and when it is given back.                                              *)

\* Where a reference is when it may hold a reservation, and where it must.
Fetching == {"connecting", "copying", "fetched", "payload"}
Fanned   == {"dispatching", "analyzing"}

Held    == {r \in Refs : reserved[r]}
Weights == [r \in Refs |-> Weight(r)]

\* The readers that have not given up their part of the payload: some may not
\* have been reached by the dispatcher yet.
Using == {"none", "queued", "limited", "scanning", "recording", "notifying",
          "reporting"}
Owing(r) == {s \in Readers : task[<<r, s>>] \in Using}

\* The limiter's count is the sum over those who hold, and within the budget.
BudgetIsHeld ==
    /\ IsFiniteSet(Held)
    /\ inFlight = SumFunctionOnSet(Weights, Held)
    /\ inFlight <= FetchByteBudget

\* A reservation is held from the limiter to the last reader.
ReservedByStage ==
    \A r \in Refs : /\ reserved[r] => stage[r] \in Fetching \cup Fanned
                    /\ stage[r] \in Fetching => reserved[r]

\* A reference has tasks only once the dispatcher has taken it.
TasksFollowStage ==
    \A r \in Refs, s \in Scanners :
        stage[r] \notin Fanned => task[<<r, s>>] = "none"

\* payload.refs counts the readers that still owe a done, and the last of them
\* gives the reservation back.
ReadersCounted ==
    \A r \in Refs : stage[r] \in Fanned =>
        /\ refcnt[r] = Cardinality(Owing(r))
        /\ reserved[r] <=> Owing(r) # {}

\* A file has been written by a transfer that holds a reservation.
FilesHeld ==
    \A f \in Files : file[f] =>
        \E r \in Refs : FileOf[r] = f /\ reserved[r] /\ stage[r] # "connecting"

Accounts ==
    /\ BudgetIsHeld /\ ReservedByStage /\ TasksFollowStage
    /\ ReadersCounted /\ FilesHeld

\* A step that takes nothing from the payload's accounts.
LEMMA DiscoverPays == DiscoverNext => UNCHANGED payloadVars
  BY DEF DiscoverNext, ReadRef, StreamEnds, DedupTimer, QuerySeen, QueryFails,
         EmitSkipped, EmitGap, EmitJob, FlushEnds, DiscoverCancelled

\* Publishing takes nothing from the payloads' accounts, and moves no reference.
LEMMA PublishPays == PublishNext => UNCHANGED <<payloadVars, stage>>
  BY DEF PublishNext, Collect, MarkObject, FlushTimer, FindingsDrained,
         PublishCancelled, SendSucceeds, SendFails, MarkingEnds

\* Run's own steps and the signal.
Closing == \/ CloseJobs \/ ClosePayloads \/ CloseLanes \/ CloseFindings
           \/ RunReturns \/ Cancel

\* Nor do the steps of Run, and the signal.
LEMMA ClosingPays == Closing => UNCHANGED <<payloadVars, stage, task>>
  BY DEF Closing, CloseJobs, ClosePayloads, CloseLanes, CloseFindings,
         RunReturns, Cancel

\* payload.free gives back a reservation that is held, with the file, or does
\* nothing.
Returns(r) == /\ reserved[r] /\ ReleaseBytes(r)
              /\ file' = [file EXCEPT ![FileOf[r]] = FALSE]

\* Freeing a payload returns what it holds, once.
LEMMA FreeReturns ==
  ASSUME NEW r \in Refs, Free(r)
  PROVE  UNCHANGED <<reserved, inFlight, file>> \/ Returns(r)
  BY DEF Free, Returns

\* A reader that gives up its part returns nothing, or was the last one.
LEMMA GiveUpReturns ==
  ASSUME NEW r \in Refs, NEW s \in Scanners, GiveUp(r, s)
  PROVE  UNCHANGED <<reserved, inFlight, file>> \/ Returns(r)
  BY FreeReturns DEF GiveUp, Done, payloadVars

\* What a step may do to the bytes and files on disk.
LEMMA StepPays ==
  ASSUME ReservedByStage, [Next]_vars
  PROVE  \/ UNCHANGED <<reserved, inFlight, file>>
         \/ \E r \in Refs : \/ ReserveBytes(r) \/ StartTransfer(r)
                            \/ StartFails(r) /\ reserved[r]
                            \/ Returns(r)
         \/ NewProcess
<1> DEFINE Goal == \/ UNCHANGED <<reserved, inFlight, file>>
                   \/ \E r \in Refs : \/ ReserveBytes(r) \/ StartTransfer(r)
                                      \/ StartFails(r) /\ reserved[r]
                                      \/ Returns(r)
                   \/ NewProcess
<1>1. CASE DiscoverNext \/ PublishNext \/ Closing
  BY <1>1, DiscoverPays, PublishPays, ClosingPays DEF payloadVars
<1>2. ASSUME NEW r \in Refs,
             \/ TakeJob(r) \/ TakeJobCancelled(r) \/ ReserveFails(r)
             \/ FinishTransfer(r) \/ SendPayload(r) \/ TransferFails(r)
             \/ SendPayloadCancelled(r) \/ TakePayload(r)
      PROVE  Goal
  <2>1. \/ UNCHANGED <<reserved, inFlight, file>>
        \/ Free(r)
    BY <1>2 DEF TakeJob, TakeJobCancelled, ReserveFails, FinishTransfer,
                SendPayload, TransferFails, SendPayloadCancelled, TakePayload,
                payloadVars
  <2> QED
    BY <2>1, FreeReturns
<1>3. ASSUME NEW r \in Refs, StartFails(r) PROVE Goal
  BY <1>3 DEF StartFails, ReservedByStage, Fetching
<1>4. CASE FetcherExits \/ DispatcherExits \/ UNCHANGED vars
  BY <1>4 DEF FetcherExits, DispatcherExits, payloadVars, vars
<1>5. ASSUME NEW r \in Refs, NEW s \in Scanners,
             \/ Spill(r, s) \/ DispatchCancelled(r, s) \/ TakeTask(r, s)
             \/ AdmitCancelled(r, s) \/ HandoffNotify(r, s)
             \/ SendFinding(r, s) \/ SendFindingCancelled(r, s)
      PROVE  Goal
  <2>1. UNCHANGED payloadVars \/ GiveUp(r, s)
    BY <1>5 DEF Spill, DispatchCancelled, TakeTask, AdmitCancelled,
                HandoffNotify, SendFinding, SendFindingCancelled
  <2> QED
    BY <2>1, GiveUpReturns DEF payloadVars
<1>6. ASSUME NEW r \in Refs, NEW s \in Scanners,
             \/ Offer(r, s) \/ Admit(r, s) \/ ScanAnswers(r, s)
             \/ ScanPends(r, s) \/ HandoffRecord(r, s)
      PROVE  Goal
  BY <1>6 DEF Offer, Admit, ScanAnswers, ScanPends, HandoffRecord,
              payloadVars
<1> QED
  BY <1>1, <1>2, <1>3, <1>4, <1>5, <1>6
     DEF Next, FetchNext, LanesNext, Closing, Crash, Restart, Finished

\* A weight is at least one byte, and at most the budget.
LEMMA WeightBounds ==
  ASSUME NEW r \in Refs
  PROVE  Weight(r) \in Nat /\ 1 <= Weight(r) /\ Weight(r) <= FetchByteBudget
  BY PipelineAssumption DEF Weight

\* The sum follows a reservation, and its return.
LEMMA BudgetTaken ==
  ASSUME TypeOK, BudgetIsHeld, NEW r \in Refs, ~reserved[r],
         reserved' = [reserved EXCEPT ![r] = TRUE],
         inFlight' = inFlight + Weight(r), inFlight' <= FetchByteBudget
  PROVE  BudgetIsHeld'
<1>1. Held' = Held \cup {r} /\ r \notin Held /\ IsFiniteSet(Held)
  BY DEF TypeOK, Held, BudgetIsHeld
<1>2. IsFiniteSet(Held')
  BY <1>1, FS_AddElement
<1>3. \A q \in Held \cup {r} : Weights[q] \in Int
  BY WeightBounds DEF Held, Weights
<1>4. SumFunctionOnSet(Weights, Held \cup {r})
         = Weights[r] + SumFunctionOnSet(Weights, Held)
  BY <1>1, <1>3, SumAdd
<1>5. Weights[r] = Weight(r) /\ Weight(r) \in Int /\ inFlight \in Int
  BY WeightBounds DEF Weights, TypeOK
<1>6. Weights' = Weights
  BY DEF Weights, Weight
<1> QED
  BY <1>1, <1>2, <1>4, <1>5, <1>6 DEF BudgetIsHeld

\* A reservation that is returned leaves the sum and the count alike.
LEMMA BudgetReturned ==
  ASSUME TypeOK, BudgetIsHeld, NEW r \in Refs, reserved[r], ReleaseBytes(r)
  PROVE  BudgetIsHeld'
<1>1. Held' = Held \ {r} /\ r \in Held /\ IsFiniteSet(Held)
  BY DEF TypeOK, Held, BudgetIsHeld, ReleaseBytes
<1>2. IsFiniteSet(Held')
  BY <1>1, FS_RemoveElement
<1>3. \A q \in Held : Weights[q] \in Int
  BY WeightBounds DEF Held, Weights
<1>4. SumFunctionOnSet(Weights, Held)
         = Weights[r] + SumFunctionOnSet(Weights, Held \ {r})
  BY <1>1, <1>3, SumRemove
<1>5. SumFunctionOnSet(Weights, Held \ {r}) \in Int
  BY <1>1, <1>2, <1>3, SumType
<1>6. /\ Weights[r] = Weight(r) /\ Weight(r) \in Int /\ 1 <= Weight(r)
      /\ inFlight \in Int /\ FetchByteBudget \in Int
  BY WeightBounds, PipelineAssumption DEF Weights, TypeOK
<1>7. Weights' = Weights /\ inFlight' = inFlight - Weight(r)
  BY DEF Weights, Weight, ReleaseBytes
<1> QED
  BY <1>1, <1>2, <1>4, <1>5, <1>6, <1>7 DEF BudgetIsHeld

\* A new process starts with nothing reserved.
LEMMA BudgetStart ==
  ASSUME reserved' = [r \in Refs |-> FALSE], inFlight' = 0
  PROVE  BudgetIsHeld'
<1>1. Held' = {}
  BY DEF Held
<1> QED
  BY <1>1, SumEmpty, FS_EmptySet, PipelineAssumption DEF BudgetIsHeld

\* Every step keeps the sum.
LEMMA StepBudget ==
  TypeOK /\ BudgetIsHeld /\ ReservedByStage /\ [Next]_vars => BudgetIsHeld'
<1> SUFFICES ASSUME TypeOK, BudgetIsHeld, ReservedByStage, [Next]_vars
             PROVE  BudgetIsHeld'
  OBVIOUS
<1>1. CASE UNCHANGED <<reserved, inFlight, file>>
  BY <1>1 DEF BudgetIsHeld, Held, Weights, Weight
<1>2. ASSUME NEW r \in Refs, ReserveBytes(r) PROVE BudgetIsHeld'
  <2>1. ~reserved[r]
    BY <1>2 DEF ReserveBytes, ReservedByStage, Fetching, Fanned
  <2> QED
    BY <1>2, <2>1, BudgetTaken DEF ReserveBytes
<1>3. ASSUME NEW r \in Refs, StartTransfer(r) PROVE BudgetIsHeld'
  BY <1>3 DEF StartTransfer, BudgetIsHeld, Held, Weights, Weight
<1>4. ASSUME NEW r \in Refs, (StartFails(r) /\ reserved[r]) \/ Returns(r)
      PROVE  BudgetIsHeld'
  BY <1>4, BudgetReturned DEF StartFails, Returns
<1>5. CASE NewProcess
  BY <1>5, BudgetStart DEF NewProcess
<1> QED
  BY <1>1, <1>2, <1>3, <1>4, <1>5, StepPays

\* The steps a reference can take, and a task.
StageMoves ==
    {<<"unread", "batched">>, <<"batched", "skipped">>, <<"batched", "gated">>,
     <<"batched", "job">>, <<"batched", "dropped">>, <<"job", "reserving">>,
     <<"job", "dropped">>, <<"reserving", "connecting">>,
     <<"reserving", "failed">>, <<"connecting", "copying">>,
     <<"connecting", "failed">>, <<"copying", "fetched">>,
     <<"copying", "failed">>, <<"fetched", "payload">>,
     <<"fetched", "dropped">>, <<"payload", "dispatching">>,
     <<"dispatching", "analyzing">>}

TaskMoves ==
    {<<"none", "queued">>, <<"none", "parked">>, <<"none", "dropped">>,
     <<"none", "found">>, <<"queued", "limited">>, <<"queued", "dropped">>,
     <<"limited", "scanning">>, <<"limited", "parked">>,
     <<"limited", "dropped">>, <<"scanning", "reporting">>,
     <<"scanning", "recording">>, <<"recording", "notifying">>,
     <<"notifying", "handed">>, <<"reporting", "found">>,
     <<"reporting", "dropped">>, <<"found", "batched">>,
     <<"batched", "published">>, <<"batched", "dropped">>}

\* Within one process a reference moves along these, whatever the step.
LEMMA StepStage ==
  ASSUME TypeOK, [Next]_vars, NEW r \in Refs
  PROVE  \/ stage'[r] = stage[r] \/ <<stage[r], stage'[r]>> \in StageMoves
         \/ NewProcess
<1> DEFINE Goal == \/ stage'[r] = stage[r]
                   \/ <<stage[r], stage'[r]>> \in StageMoves
                   \/ NewProcess
<1>1. CASE DiscoverNext
  BY <1>1 DEF TypeOK, StageMoves, DiscoverNext, ReadRef, StreamEnds,
              DedupTimer, QuerySeen, QueryFails, EmitSkipped, EmitGap,
              EmitJob, FlushEnds, DiscoverCancelled, DropBatch
<1>2. CASE FetchNext
  BY <1>2 DEF TypeOK, StageMoves, FetchNext, TakeJob, TakeJobCancelled,
              ReserveBytes, ReserveFails, StartTransfer, StartFails,
              FinishTransfer, TransferFails, SendPayload,
              SendPayloadCancelled, FetcherExits
<1>3. ASSUME NEW q \in Refs, NEW s \in Scanners,
             Offer(q, s) \/ Spill(q, s) \/ DispatchCancelled(q, s)
      PROVE  Goal
  BY <1>3 DEF TypeOK, StageMoves, Offer, Spill, DispatchCancelled, Dispatched
<1>4. ASSUME NEW q \in Refs, NEW s \in Scanners,
             \/ TakeTask(q, s) \/ Admit(q, s) \/ AdmitCancelled(q, s)
             \/ ScanAnswers(q, s) \/ ScanPends(q, s)
             \/ HandoffRecord(q, s) \/ HandoffNotify(q, s)
             \/ SendFinding(q, s) \/ SendFindingCancelled(q, s)
      PROVE  Goal
  BY <1>4 DEF TakeTask, Admit, AdmitCancelled, ScanAnswers, ScanPends,
              HandoffRecord, HandoffNotify, SendFinding, SendFindingCancelled
<1>5. CASE (\E q \in Refs : TakePayload(q)) \/ DispatcherExits
  BY <1>5 DEF TypeOK, StageMoves, TakePayload, DispatcherExits
<1>6. CASE PublishNext \/ Closing \/ UNCHANGED vars
  BY <1>6, PublishPays, ClosingPays DEF vars
<1> QED
  BY <1>1, <1>2, <1>3, <1>4, <1>5, <1>6
     DEF Next, LanesNext, Closing, Crash, Restart, Finished

\* The steps of one task in its lane, with the part of the payload it may give
\* up: only a task that gives it up leaves the readers.
LaneMoves(r, s) ==
    \/ /\ UNCHANGED payloadVars
       /\ task' = [task EXCEPT ![<<r, s>>] = task'[<<r, s>>]]
       /\ task'[<<r, s>>] \in Using
    \/ /\ GiveUp(r, s)
       /\ task' = [task EXCEPT ![<<r, s>>] = task'[<<r, s>>]]
       /\ task'[<<r, s>>] \in TaskStates \ Using

\* A step of a lane or of the dispatcher on the task of s on r.
LaneStep(r, s) ==
    \/ Offer(r, s) \/ Spill(r, s) \/ DispatchCancelled(r, s)
    \/ TakeTask(r, s) \/ Admit(r, s) \/ AdmitCancelled(r, s)
    \/ ScanAnswers(r, s) \/ ScanPends(r, s)
    \/ HandoffRecord(r, s) \/ HandoffNotify(r, s)
    \/ SendFinding(r, s) \/ SendFindingCancelled(r, s)

\* What a lane's step does to its task and to the payload.
LEMMA LaneStepMoves ==
  ASSUME TypeOK, NEW r \in Refs, NEW s \in Scanners, LaneStep(r, s)
  PROVE  /\ task[<<r, s>>] \in Using
         /\ task[<<r, s>>] = "none" => stage[r] = "dispatching"
         /\ <<task[<<r, s>>], task'[<<r, s>>]>> \in TaskMoves
         /\ LaneMoves(r, s)
<1>0. <<r, s>> \in Findings /\ task \in [Findings -> TaskStates]
  BY TaskFinding DEF TypeOK
<1>1. CASE Offer(r, s)
  BY <1>0, <1>1 DEF Offer, Undispatched, LaneMoves, Using, TaskMoves
<1>2. CASE Spill(r, s)
  BY <1>0, <1>2 DEF Spill, Park, Undispatched, LaneMoves, Using, TaskMoves,
                    TaskStates
<1>3. CASE DispatchCancelled(r, s)
  BY <1>0, <1>3 DEF DispatchCancelled, Undispatched, LaneMoves, Using,
                    TaskMoves, TaskStates
<1>4. CASE TakeTask(r, s)
  BY <1>0, <1>4 DEF TakeTask, LaneMoves, Using, TaskMoves, TaskStates
<1>5. CASE AdmitCancelled(r, s)
  BY <1>0, <1>5 DEF AdmitCancelled, Park, LaneMoves, Using, TaskMoves,
                    TaskStates
<1>6. CASE \/ Admit(r, s) \/ ScanAnswers(r, s) \/ ScanPends(r, s)
           \/ HandoffRecord(r, s)
  BY <1>0, <1>6 DEF Admit, ScanAnswers, ScanPends, HandoffRecord, LaneMoves,
                    Using, TaskMoves, TaskStates
<1>7. CASE \/ HandoffNotify(r, s) \/ SendFinding(r, s)
           \/ SendFindingCancelled(r, s)
  BY <1>0, <1>7 DEF HandoffNotify, SendFinding, SendFindingCancelled,
                    LaneMoves, Using, TaskMoves, TaskStates
<1> QED
  BY <1>1, <1>2, <1>3, <1>4, <1>5, <1>6, <1>7 DEF LaneStep

\* Which tasks the other steps touch: those of the size gate, and those whose
\* finding has been sent.
LEMMA OtherTasks ==
  ASSUME TypeOK, [Next]_vars, NEW r \in Refs, NEW s \in Scanners,
         task'[<<r, s>>] # task[<<r, s>>],
         ~ \E q \in Refs, u \in Scanners : LaneStep(q, u)
  PROVE  \/ /\ task[<<r, s>>] \in {"found", "batched"}
            /\ <<task[<<r, s>>], task'[<<r, s>>]>> \in TaskMoves
            /\ PublishNext
         \/ NewProcess
<1>0. <<r, s>> \in Findings /\ s # SizeGate
  BY TaskFinding, GateAssumption
<1>1. CASE DiscoverNext
  BY <1>0, <1>1 DEF TypeOK, DiscoverNext, ReadRef, StreamEnds, DedupTimer,
                    QuerySeen, QueryFails, EmitSkipped, EmitGap, EmitJob,
                    FlushEnds, DiscoverCancelled
<1>2. CASE FetchNext
  BY <1>2 DEF FetchNext, TakeJob, TakeJobCancelled, ReserveBytes,
              ReserveFails, StartTransfer, StartFails, FinishTransfer,
              TransferFails, SendPayload, SendPayloadCancelled, FetcherExits
<1>3. CASE PublishNext
  BY <1>0, <1>3 DEF TypeOK, PublishNext, Collect, MarkObject, FlushTimer, Sent,
                    FindingsDrained, PublishCancelled, SendSucceeds,
                    SendFails, MarkingEnds, TaskMoves
<1>4. CASE (\E q \in Refs : TakePayload(q)) \/ DispatcherExits
  BY <1>4 DEF TakePayload, DispatcherExits
<1>5. CASE Closing \/ UNCHANGED vars
  BY <1>5, ClosingPays DEF vars
<1> QED
  BY <1>1, <1>2, <1>3, <1>4, <1>5
     DEF Next, LanesNext, LaneStep, Closing, Crash, Restart, Finished

\* One task at a time moves in the lanes, and a sent finding in the publisher.
LEMMA StepTask ==
  ASSUME TypeOK, [Next]_vars, NEW r \in Refs, NEW s \in Scanners
  PROVE  \/ task'[<<r, s>>] = task[<<r, s>>]
         \/ LaneStep(r, s)
         \/ /\ task[<<r, s>>] \in {"found", "batched"}
            /\ <<task[<<r, s>>], task'[<<r, s>>]>> \in TaskMoves
            /\ PublishNext
         \/ NewProcess
<1>1. ASSUME NEW q \in Refs, NEW u \in Scanners, LaneStep(q, u),
             <<q, u>> # <<r, s>>
      PROVE  task'[<<r, s>>] = task[<<r, s>>]
  <2>1. task' = [task EXCEPT ![<<q, u>>] = task'[<<q, u>>]]
    BY <1>1, LaneStepMoves DEF LaneMoves
  <2>2. <<r, s>> \in Findings /\ task \in [Findings -> TaskStates]
    BY TaskFinding DEF TypeOK
  <2> QED
    BY <1>1, <2>1, <2>2
<1> QED
  BY <1>1, OtherTasks

\* A task that changes belongs to a reference the dispatcher has taken.
LEMMA StepTasks ==
  TypeOK /\ TasksFollowStage /\ [Next]_vars => TasksFollowStage'
<1> SUFFICES ASSUME TypeOK, TasksFollowStage, [Next]_vars,
                    NEW r \in Refs, NEW s \in Scanners,
                    stage'[r] \notin Fanned
             PROVE  task'[<<r, s>>] = "none"
  BY DEF TasksFollowStage
<1>1. CASE NewProcess
  BY <1>1, TaskFinding DEF NewProcess
<1>2. CASE ~NewProcess
  <2>1. stage[r] \notin Fanned
    BY <1>2, StepStage DEF StageMoves, Fanned
  <2>2. task[<<r, s>>] = "none" /\ ~LaneStep(r, s)
    BY <2>1, LaneStepMoves DEF TasksFollowStage, Fanned
  <2> QED
    BY <1>2, <2>2, StepTask
<1> QED
  BY <1>1, <1>2

\* A lane's step is on a reference that has been fanned out, and leaves it so.
LEMMA LaneStepFanned ==
  ASSUME TypeOK, TasksFollowStage, NEW r \in Refs, NEW s \in Scanners,
         LaneStep(r, s)
  PROVE  /\ stage[r] \in Fanned /\ stage'[r] \in Fanned
         /\ \A q \in Refs \ {r} : stage'[q] = stage[q]
<1>1. stage[r] \in Fanned
  BY LaneStepMoves DEF TasksFollowStage, Fanned
<1>2. stage' \in {stage, [stage EXCEPT ![r] = "analyzing"]}
  BY DEF LaneStep, Offer, Spill, DispatchCancelled, TakeTask, Admit,
         AdmitCancelled, ScanAnswers, ScanPends, HandoffRecord,
         HandoffNotify, SendFinding, SendFindingCancelled, Dispatched
<1> QED
  BY <1>1, <1>2 DEF TypeOK, Fanned

\* Giving up touches the accounts of the one payload, and can only free it.
LEMMA GiveUpLocal ==
  ASSUME TypeOK, NEW r \in Refs, NEW s \in Scanners,
         GiveUp(r, s) \/ UNCHANGED payloadVars
  PROVE  /\ \A q \in Refs \ {r} : /\ refcnt'[q] = refcnt[q]
                                  /\ reserved'[q] = reserved[q]
         /\ reserved'[r] => reserved[r]
  BY DEF TypeOK, GiveUp, Done, Free, ReleaseBytes, payloadVars

\* Freeing touches the reservation of the one reference.
LEMMA FreeLocal ==
  ASSUME TypeOK, NEW r \in Refs, Free(r)
  PROVE  /\ \A q \in Refs \ {r} : reserved'[q] = reserved[q]
         /\ reserved'[r] = FALSE
  BY DEF TypeOK, Free, ReleaseBytes

\* Every step keeps a reservation where its reference is.
LEMMA StepReserved ==
  TypeOK /\ TasksFollowStage /\ ReservedByStage /\ [Next]_vars
    => ReservedByStage'
<1> SUFFICES ASSUME TypeOK, TasksFollowStage, ReservedByStage, [Next]_vars
             PROVE  ReservedByStage'
  OBVIOUS
<1>1. CASE DiscoverNext
  <2>1. reserved' = reserved
    BY <1>1, DiscoverPays DEF payloadVars
  <2>2. \A r \in Refs : \/ stage'[r] = stage[r]
                        \/ /\ stage[r] \in {"unread", "batched"}
                           /\ stage'[r] \notin Fetching
    BY <1>1 DEF TypeOK, DiscoverNext, ReadRef, StreamEnds, DedupTimer,
                QuerySeen, QueryFails, EmitSkipped, EmitGap, EmitJob,
                FlushEnds, DiscoverCancelled, DropBatch, Fetching
  <2> QED
    BY <2>1, <2>2 DEF ReservedByStage, Fetching, Fanned
<1>2. CASE PublishNext \/ Closing \/ DispatcherExits \/ UNCHANGED vars
  BY <1>2, PublishPays, ClosingPays
     DEF ReservedByStage, payloadVars, DispatcherExits, vars
<1>3. CASE FetcherExits
  BY <1>3 DEF FetcherExits, ReservedByStage, payloadVars
<1>4. ASSUME NEW r \in Refs,
             \/ TakeJob(r) \/ TakeJobCancelled(r) \/ ReserveBytes(r)
             \/ ReserveFails(r) \/ StartTransfer(r) \/ FinishTransfer(r)
             \/ SendPayload(r)
      PROVE  ReservedByStage'
  BY <1>4 DEF TypeOK, TakeJob, TakeJobCancelled, ReserveBytes, ReserveFails,
              StartTransfer, FinishTransfer, SendPayload, payloadVars,
              ReservedByStage, Fetching, Fanned
<1>5. ASSUME NEW r \in Refs,
             StartFails(r) \/ TransferFails(r) \/ SendPayloadCancelled(r)
      PROVE  ReservedByStage'
  <2>1. /\ \A q \in Refs \ {r} : reserved'[q] = reserved[q]
        /\ reserved'[r] = FALSE
    BY <1>5, FreeLocal DEF TypeOK, StartFails, TransferFails,
                           SendPayloadCancelled, ReleaseBytes
  <2>2. stage' \in {[stage EXCEPT ![r] = "failed"],
                    [stage EXCEPT ![r] = "dropped"]}
    BY <1>5 DEF StartFails, TransferFails, SendPayloadCancelled
  <2> QED
    BY <2>1, <2>2 DEF TypeOK, ReservedByStage, Fetching, Fanned
<1>6. ASSUME NEW r \in Refs, TakePayload(r) PROVE ReservedByStage'
  <2>1. /\ stage' = [stage EXCEPT ![r] = "dispatching"]
        /\ \A q \in Refs \ {r} : reserved'[q] = reserved[q]
    BY <1>6, FreeLocal DEF TakePayload
  <2> QED
    BY <2>1 DEF TypeOK, ReservedByStage, Fetching, Fanned
<1>7. ASSUME NEW r \in Refs, NEW s \in Scanners, LaneStep(r, s)
      PROVE  ReservedByStage'
  <2>1. \A q \in Refs \ {r} : reserved'[q] = reserved[q]
    BY <1>7, LaneStepMoves, GiveUpLocal DEF LaneMoves
  <2>2. /\ stage[r] \in Fanned /\ stage'[r] \in Fanned
        /\ \A q \in Refs \ {r} : stage'[q] = stage[q]
    BY <1>7, LaneStepFanned
  <2> QED
    BY <2>1, <2>2 DEF ReservedByStage, Fetching, Fanned
<1>8. CASE NewProcess
  BY <1>8 DEF NewProcess, ReservedByStage, NextStreams, Fetching
<1> QED
  BY <1>1, <1>2, <1>3, <1>4, <1>5, <1>6, <1>7, <1>8
     DEF Next, FetchNext, LanesNext, LaneStep, Closing, Crash, Restart,
         Finished

\* The readers are finitely many, and so are those of them that owe a done.
LEMMA OwingCount ==
  ASSUME NEW r \in Refs
  PROVE  /\ IsFiniteSet(Owing(r)) /\ Cardinality(Owing(r)) \in Nat
         /\ Cardinality(Owing(r)) = 0 <=> Owing(r) = {}
         /\ IsFiniteSet(Owing(r)') /\ Cardinality(Owing(r)') \in Nat
         /\ Cardinality(Owing(r)') = 0 <=> Owing(r)' = {}
<1>1. IsFiniteSet(Readers)
  BY PipelineAssumption, FS_Subset
<1>2. Owing(r) \subseteq Readers /\ Owing(r)' \subseteq Readers
  BY DEF Owing
<1>3. IsFiniteSet(Owing(r)) /\ IsFiniteSet(Owing(r)')
  BY <1>1, <1>2, FS_Subset
<1> HIDE DEF Owing
<1> QED
  BY <1>3, FS_CardinalityType, FS_EmptySet

\* The counter follows one lane's step: only the reader that gives up leaves
\* those who owe, and the payload is freed when it was the last of them.
LEMMA LaneStepCounts ==
  ASSUME TypeOK, NEW r \in Refs, NEW s \in Scanners, LaneStep(r, s),
         refcnt[r] = Cardinality(Owing(r)), reserved[r] <=> Owing(r) # {}
  PROVE  /\ refcnt'[r] = Cardinality(Owing(r)')
         /\ reserved'[r] <=> Owing(r)' # {}
<1>1. /\ task' = [task EXCEPT ![<<r, s>>] = task'[<<r, s>>]]
      /\ task[<<r, s>>] \in Using
  BY LaneStepMoves DEF LaneMoves
<1>2. <<r, s>> \in Findings /\ task \in [Findings -> TaskStates]
  BY TaskFinding DEF TypeOK
<1>3. \A u \in Readers : u # s => task'[<<r, u>>] = task[<<r, u>>]
  BY <1>1, <1>2, TaskFinding, PipelineAssumption
<1>4. CASE UNCHANGED payloadVars /\ task'[<<r, s>>] \in Using
  <2>1. Owing(r)' = Owing(r)
    BY <1>1, <1>3, <1>4 DEF Owing
  <2> QED
    BY <1>4, <2>1 DEF payloadVars
<1>5. CASE GiveUp(r, s) /\ task'[<<r, s>>] \notin Using
  <2>1. CASE s \notin Readers
    <3>1. Owing(r)' = Owing(r)
      BY <1>1, <1>3, <2>1 DEF Owing
    <3> QED
      BY <1>5, <2>1, <3>1 DEF GiveUp, payloadVars
  <2>2. CASE s \in Readers
    <3>1. s \in Owing(r) /\ Owing(r)' = Owing(r) \ {s}
      BY <1>1, <1>3, <1>5, <2>2 DEF Owing
    <3>2. IsFiniteSet(Owing(r))
      BY OwingCount
    <3>3. Cardinality(Owing(r) \ {s}) = Cardinality(Owing(r)) - 1
      BY <3>1, <3>2, FS_RemoveElement
    <3>4. /\ Cardinality(Owing(r)) \in Nat
          /\ Cardinality(Owing(r)') = Cardinality(Owing(r)) - 1
          /\ Cardinality(Owing(r)') \in Nat
          /\ Cardinality(Owing(r)') = 0 <=> Owing(r)' = {}
      BY <3>1, <3>3, OwingCount
    <3>5. refcnt'[r] = refcnt[r] - 1
      BY <1>5, <2>2 DEF TypeOK, GiveUp, Done
    <3>6. reserved'[r] = IF refcnt[r] - 1 <= 0 THEN FALSE ELSE reserved[r]
      BY <1>5, <2>2, FreeLocal DEF GiveUp, Done
    <3>7. Owing(r) # {}
      BY <3>1
    <3> HIDE DEF Owing
    <3> QED
      BY <3>4, <3>5, <3>6, <3>7
  <2> QED
    BY <2>1, <2>2
<1> QED
  BY <1>4, <1>5, LaneStepMoves DEF LaneMoves

\* The dispatcher starts the count with every reader.
LEMMA TakePayloadCounts ==
  ASSUME TypeOK, TasksFollowStage, ReservedByStage,
         NEW r \in Refs, TakePayload(r)
  PROVE  /\ refcnt'[r] = Cardinality(Owing(r)')
         /\ reserved'[r] <=> Owing(r)' # {}
<1>1. reserved[r] /\ \A s \in Scanners : task[<<r, s>>] = "none"
  BY DEF TakePayload, ReservedByStage, TasksFollowStage, Fetching, Fanned
<1>2. Owing(r)' = Readers
  BY <1>1, PipelineAssumption DEF TakePayload, Owing, Using
<1>3. refcnt'[r] = Cardinality(Readers)
  BY DEF TakePayload, TypeOK
<1>4. reserved'[r] <=> Readers # {}
  BY <1>1, FreeLocal DEF TakePayload
<1> QED
  BY <1>2, <1>3, <1>4

\* No other step touches the accounts of a reference that was fanned out.
LEMMA FannedKept ==
  ASSUME TypeOK, TasksFollowStage, [Next]_vars, NEW r \in Refs,
         stage[r] \in Fanned, ~ \E s \in Scanners : LaneStep(r, s)
  PROVE  \/ refcnt'[r] = refcnt[r] /\ reserved'[r] = reserved[r]
         \/ NewProcess
<1> DEFINE Goal == \/ refcnt'[r] = refcnt[r] /\ reserved'[r] = reserved[r]
                   \/ NewProcess
<1>1. CASE \/ DiscoverNext \/ PublishNext \/ Closing \/ DispatcherExits
           \/ UNCHANGED vars \/ FetcherExits
  BY <1>1, DiscoverPays, PublishPays, ClosingPays
     DEF payloadVars, DispatcherExits, vars, FetcherExits
<1>2. ASSUME NEW q \in Refs,
             \/ TakeJob(q) \/ TakeJobCancelled(q) \/ ReserveBytes(q)
             \/ ReserveFails(q) \/ StartTransfer(q) \/ FinishTransfer(q)
             \/ SendPayload(q)
      PROVE  Goal
  BY <1>2 DEF TypeOK, TakeJob, TakeJobCancelled, ReserveBytes, ReserveFails,
              StartTransfer, FinishTransfer, SendPayload, payloadVars, Fanned
<1>3. ASSUME NEW q \in Refs,
             StartFails(q) \/ TransferFails(q) \/ SendPayloadCancelled(q)
      PROVE  Goal
  <2>1. \A p \in Refs \ {q} : reserved'[p] = reserved[p]
    BY <1>3, FreeLocal DEF TypeOK, StartFails, TransferFails,
                           SendPayloadCancelled, ReleaseBytes
  <2>2. r # q /\ refcnt' = refcnt
    BY <1>3 DEF StartFails, TransferFails, SendPayloadCancelled, Fanned
  <2> QED
    BY <2>1, <2>2
<1>4. ASSUME NEW q \in Refs, TakePayload(q) PROVE Goal
  <2>1. r # q
    BY <1>4 DEF TakePayload, Fanned
  <2> QED
    BY <1>4, <2>1, FreeLocal DEF TypeOK, TakePayload
<1>5. ASSUME NEW q \in Refs, NEW s \in Scanners, LaneStep(q, s) PROVE Goal
  BY <1>5, LaneStepMoves, GiveUpLocal DEF LaneMoves
<1> QED
  BY <1>1, <1>2, <1>3, <1>4, <1>5
     DEF Next, FetchNext, LanesNext, LaneStep, Closing, Crash, Restart,
         Finished

\* Every step keeps the count of readers.
LEMMA StepReaders ==
  TypeOK /\ TasksFollowStage /\ ReservedByStage /\ ReadersCounted
    /\ [Next]_vars => ReadersCounted'
<1> SUFFICES ASSUME TypeOK, TasksFollowStage, ReservedByStage,
                    ReadersCounted, [Next]_vars,
                    NEW r \in Refs, stage'[r] \in Fanned
             PROVE  /\ refcnt'[r] = Cardinality(Owing(r)')
                    /\ reserved'[r] <=> Owing(r)' # {}
  BY DEF ReadersCounted
<1> DEFINE Goal == /\ refcnt'[r] = Cardinality(Owing(r)')
                   /\ reserved'[r] <=> Owing(r)' # {}
<1>0. ~NewProcess
  BY DEF NewProcess, NextStreams, Fanned
<1>1. CASE stage[r] \notin Fanned
  <2>1. stage[r] = "payload" /\ stage'[r] = "dispatching"
    BY <1>0, <1>1, StepStage DEF StageMoves, Fanned
  <2>2. TakePayload(r)
    <3>1. ~DiscoverNext
      BY <2>1 DEF TypeOK, DiscoverNext, ReadRef, StreamEnds, DedupTimer,
                  QuerySeen, QueryFails, EmitSkipped, EmitGap, EmitJob,
                  FlushEnds, DiscoverCancelled, DropBatch
    <3>2. ~FetchNext
      BY <2>1 DEF TypeOK, FetchNext, TakeJob, TakeJobCancelled, ReserveBytes,
                  ReserveFails, StartTransfer, StartFails, FinishTransfer,
                  TransferFails, SendPayload, SendPayloadCancelled,
                  FetcherExits
    <3>3. \A q \in Refs, s \in Scanners : ~LaneStep(q, s)
      BY <2>1, LaneStepFanned DEF Fanned
    <3>4. ~(PublishNext \/ Closing \/ DispatcherExits \/ UNCHANGED vars)
      BY <2>1, PublishPays, ClosingPays DEF DispatcherExits, vars
    <3>5. \A q \in Refs : TakePayload(q) => q = r
      BY <2>1 DEF TypeOK, TakePayload
    <3> QED
      BY <1>0, <3>1, <3>2, <3>3, <3>4, <3>5
         DEF Next, LanesNext, LaneStep, Closing, Crash, Restart, Finished
  <2> QED
    BY <2>2, TakePayloadCounts
<1>2. CASE stage[r] \in Fanned
  <2>1. refcnt[r] = Cardinality(Owing(r)) /\ (reserved[r] <=> Owing(r) # {})
    BY <1>2 DEF ReadersCounted
  <2>2. ASSUME NEW s \in Scanners, LaneStep(r, s) PROVE Goal
    BY <2>1, <2>2, LaneStepCounts
  <2>3. CASE ~ \E s \in Scanners : LaneStep(r, s)
    <3>1. refcnt'[r] = refcnt[r] /\ reserved'[r] = reserved[r]
      BY <1>0, <1>2, <2>3, FannedKept
    <3>2. \A s \in Readers : \/ task'[<<r, s>>] = task[<<r, s>>]
                             \/ /\ task[<<r, s>>] \notin Using
                                /\ task'[<<r, s>>] \notin Using
      BY <1>0, <2>3, StepTask, PipelineAssumption DEF TaskMoves, Using
    <3>3. Owing(r)' = Owing(r)
      BY <3>2 DEF Owing
    <3> QED
      BY <2>1, <3>1, <3>3
  <2> QED
    BY <2>2, <2>3
<1> QED
  BY <1>1, <1>2

\* Every step leaves a file with a transfer that holds its bytes.
LEMMA StepFiles ==
  TypeOK /\ ReservedByStage /\ FilesHeld /\ [Next]_vars => FilesHeld'
<1> SUFFICES ASSUME TypeOK, ReservedByStage, FilesHeld, [Next]_vars,
                    NEW f \in Files, file'[f]
             PROVE  \E r \in Refs : /\ FileOf[r] = f /\ reserved'[r]
                                    /\ stage'[r] # "connecting"
  BY DEF FilesHeld
<1> DEFINE Goal == \E r \in Refs : /\ FileOf[r] = f /\ reserved'[r]
                                   /\ stage'[r] # "connecting"
<1>0. ~NewProcess
  BY DEF NewProcess
<1>1. ASSUME NEW q \in Refs, FileOf[q] = f, reserved[q],
             stage[q] # "connecting", reserved'[q]
      PROVE  Goal
  <2>1. stage[q] # "reserving"
    BY <1>1 DEF ReservedByStage, Fetching, Fanned
  <2>2. stage'[q] # "connecting"
    BY <1>0, <1>1, <2>1, StepStage DEF StageMoves
  <2> QED
    BY <1>1, <2>2
<1>2. ASSUME file[f], \A q \in Refs : reserved[q] /\ FileOf[q] = f
                                      /\ stage[q] # "connecting"
                                         => reserved'[q]
      PROVE  Goal
  BY <1>1, <1>2 DEF FilesHeld
<1>3. CASE UNCHANGED <<reserved, inFlight, file>>
  BY <1>2, <1>3
<1>4. ASSUME NEW r \in Refs, ReserveBytes(r) PROVE Goal
  BY <1>2, <1>4 DEF TypeOK, ReserveBytes
<1>5. ASSUME NEW r \in Refs, StartTransfer(r) PROVE Goal
  <2>1. CASE FileOf[r] = f
    BY <1>5, <2>1 DEF TypeOK, StartTransfer, ReservedByStage, Fetching
  <2>2. CASE FileOf[r] # f
    BY <1>2, <1>5, <2>2 DEF TypeOK, StartTransfer
  <2> QED
    BY <2>1, <2>2
<1>6. ASSUME NEW r \in Refs, StartFails(r) PROVE Goal
  BY <1>2, <1>6 DEF TypeOK, StartFails, ReleaseBytes
<1>7. ASSUME NEW r \in Refs, Returns(r) PROVE Goal
  BY <1>2, <1>7, PipelineAssumption DEF TypeOK, Returns, ReleaseBytes
<1> QED
  BY <1>0, <1>3, <1>4, <1>5, <1>6, <1>7, StepPays

\* The accounts hold at the start, and in every reachable state.
LEMMA InitAccounts == Init => Accounts
<1> SUFFICES ASSUME Init PROVE Accounts
  OBVIOUS
<1>1. Held = {}
  BY DEF Init, Held
<1>2. BudgetIsHeld
  BY <1>1, SumEmpty, FS_EmptySet, PipelineAssumption DEF Init, BudgetIsHeld
<1>3. TasksFollowStage
  BY TaskFinding DEF Init, TasksFollowStage
<1>4. ReservedByStage /\ ReadersCounted /\ FilesHeld
  BY DEF Init, ReservedByStage, ReadersCounted, FilesHeld, Fetching, Fanned
<1> QED
  BY <1>2, <1>3, <1>4 DEF Accounts

\* Every step keeps the accounts.
LEMMA StepAccounts == TypeOK /\ Accounts /\ [Next]_vars => Accounts'
  BY StepBudget, StepTasks, StepReserved, StepReaders, StepFiles DEF Accounts

\* So they hold in every reachable state.
LEMMA AccountsHeld == Spec => []Accounts
  BY InitAccounts, StepAccounts, TypeCorrect, PTL DEF Spec

\* ByteLimiter's count is the weight of what is reserved, never more than
\* FETCH_BYTE_BUDGET, and a temp file exists only under a reservation: in
\* every state, whatever fails, is cancelled or is delivered twice.
THEOREM BudgetAlwaysCovers == Spec => []BudgetCoversDisk
<1>1. Accounts => BudgetCoversDisk
  BY DEF Accounts, BudgetIsHeld, FilesHeld, BudgetCoversDisk, Held, Weights
<1> QED
  BY <1>1, AccountsHeld, PTL

------------------------------------------------------------------------
(* Sources that deliver an object once: a lister's, whose FileIDs differ.  *)

DeliveredOnce == \A q, r \in Refs : FileOf[q] = FileOf[r] => q = r

\* From its transfer on, a reference that holds its bytes has its file.
FilesThere ==
    \A r \in Refs : reserved[r] /\ stage[r] # "connecting" => file[FileOf[r]]

\* What takes a reference out of the wait for a connection.
LEMMA LeavesConnecting ==
  ASSUME TypeOK, TasksFollowStage, [Next]_vars, NEW r \in Refs,
         stage[r] = "connecting", stage'[r] # "connecting"
  PROVE  StartTransfer(r) \/ StartFails(r) \/ NewProcess
<1>1. ~DiscoverNext
  BY DEF TypeOK, DiscoverNext, ReadRef, StreamEnds, DedupTimer, QuerySeen,
         QueryFails, EmitSkipped, EmitGap, EmitJob, FlushEnds,
         DiscoverCancelled, DropBatch
<1>2. ASSUME NEW q \in Refs,
             \/ TakeJob(q) \/ TakeJobCancelled(q) \/ ReserveBytes(q)
             \/ ReserveFails(q) \/ FinishTransfer(q) \/ SendPayload(q)
             \/ TransferFails(q) \/ SendPayloadCancelled(q) \/ TakePayload(q)
      PROVE  FALSE
  BY <1>2 DEF TypeOK, TakeJob, TakeJobCancelled, ReserveBytes, ReserveFails,
              FinishTransfer, SendPayload, TransferFails,
              SendPayloadCancelled, TakePayload
<1>3. ASSUME NEW q \in Refs, StartTransfer(q) \/ StartFails(q)
      PROVE  StartTransfer(r) \/ StartFails(r)
  BY <1>3 DEF TypeOK, StartTransfer, StartFails
<1>4. \A q \in Refs, s \in Scanners : ~LaneStep(q, s)
  BY LaneStepFanned DEF Fanned
<1>5. ~ \/ PublishNext \/ Closing \/ DispatcherExits \/ UNCHANGED vars
        \/ FetcherExits
  BY PublishPays, ClosingPays DEF DispatcherExits, vars, FetcherExits
<1> QED
  BY <1>1, <1>2, <1>3, <1>4, <1>5
     DEF Next, FetchNext, LanesNext, LaneStep, Closing, Crash, Restart,
         Finished

\* With no two references of one object, nobody else removes the file.
LEMMA StepFilesThere ==
  ASSUME DeliveredOnce
  PROVE  TypeOK /\ Accounts /\ FilesThere /\ [Next]_vars => FilesThere'
<1> SUFFICES ASSUME TypeOK, Accounts, FilesThere, [Next]_vars,
                    NEW r \in Refs, reserved'[r], stage'[r] # "connecting"
             PROVE  file'[FileOf[r]]
  BY DEF FilesThere
<1>0. ~NewProcess /\ FileOf[r] \in Files
  BY PipelineAssumption DEF NewProcess
<1>1. ASSUME NEW q \in Refs, StartTransfer(q) PROVE file'[FileOf[r]]
  BY <1>0, <1>1 DEF TypeOK, StartTransfer, FilesThere
<1>2. CASE \A q \in Refs : ~StartTransfer(q)
  <2>1. ~StartFails(r)
    BY DEF TypeOK, StartFails, ReleaseBytes
  <2>2. stage[r] # "connecting"
    BY <1>0, <1>2, <2>1, LeavesConnecting DEF Accounts
  <2>3. CASE UNCHANGED <<reserved, inFlight, file>>
    BY <2>2, <2>3 DEF FilesThere
  <2>4. ASSUME NEW q \in Refs, ReserveBytes(q) PROVE file'[FileOf[r]]
    <3>1. q # r
      BY <2>4 DEF TypeOK, ReserveBytes
    <3> QED
      BY <2>2, <2>4, <3>1 DEF TypeOK, ReserveBytes, FilesThere
  <2>5. ASSUME NEW q \in Refs, StartFails(q) PROVE file'[FileOf[r]]
    BY <2>1, <2>2, <2>5 DEF TypeOK, StartFails, ReleaseBytes, FilesThere
  <2>6. ASSUME NEW q \in Refs, Returns(q) PROVE file'[FileOf[r]]
    <3>1. q # r /\ reserved[r]
      BY <2>6 DEF TypeOK, Returns, ReleaseBytes
    <3>2. FileOf[q] # FileOf[r]
      BY <3>1 DEF DeliveredOnce
    <3> QED
      BY <1>0, <2>2, <2>6, <3>1, <3>2 DEF TypeOK, Returns, FilesThere
  <2> QED
    BY <1>0, <1>2, <2>3, <2>4, <2>5, <2>6, StepPays DEF Accounts
<1> QED
  BY <1>1, <1>2

\* A scanner that reads the temp file finds it there and complete, for as long
\* as it reads, when the source delivers each object once: no sibling, spill,
\* hand-off or cancellation frees it early, and no other transfer writes it.
THEOREM ReadersSeeWholeFiles ==
  ASSUME DeliveredOnce
  PROVE  Spec => []ReaderSeesWholeFile
<1>1. Init => FilesThere
  BY DEF Init, FilesThere
<1>2. TypeOK /\ Accounts /\ FilesThere /\ [Next]_vars => FilesThere'
  BY StepFilesThere
<1>3. Accounts /\ FilesThere => ReaderSeesWholeFile
  <2> SUFFICES ASSUME Accounts, FilesThere, NEW r \in Refs, NEW s \in Readers,
                      task[<<r, s>>] = "scanning"
               PROVE  /\ file[FileOf[r]]
                      /\ \A q \in Copying : FileOf[q] # FileOf[r]
    BY DEF ReaderSeesWholeFile
  <2>1. stage[r] \in Fanned
    BY PipelineAssumption DEF Accounts, TasksFollowStage
  <2>2. s \in Owing(r)
    BY DEF Owing, Using
  <2>3. reserved[r]
    BY <2>1, <2>2 DEF Accounts, ReadersCounted
  <2> QED
    BY <2>1, <2>3 DEF FilesThere, Copying, Fanned, DeliveredOnce
<1> QED
  BY <1>1, <1>2, <1>3, AccountsHeld, TypeCorrect, PTL DEF Spec

------------------------------------------------------------------------
(* The drain: what a closed channel says about the stage before it.        *)

ClosedInOrder ==
    /\ disc = "returned" => DedupBatched = {}
    /\ JobsClosed => disc = "returned"
    /\ PayloadsClosed => fetchers = 0
    /\ LanesClosed => disp = "exited"
    /\ FindingsClosed => \A s \in Scanners : LaneIdle(s)

\* Without a cancellation, a stage that has returned left nothing in the
\* channel it reads, and the dispatcher reached every lane.
NothingLeftBehind ==
    ~cancelled =>
        /\ fetchers < FetchMaxConns => JobsClosed /\ Jobs = {}
        /\ disp = "exited" =>
              PayloadsClosed /\ Payloads = {} /\ Dispatching = {}
        /\ \A r \in Refs, s \in Scanners :
              stage[r] = "analyzing" => task[<<r, s>>] # "none"

Drained == ClosedInOrder /\ NothingLeftBehind

InLane == {"queued", "limited", "scanning", "recording", "notifying",
           "reporting"}

\* A lane is idle when none of its tasks is in it.
LEMMA IdleLane ==
  ASSUME NEW s \in Scanners
  PROVE  /\ LaneIdle(s) <=> \A r \in Refs : task[<<r, s>>] \notin InLane
         /\ LaneIdle(s)' <=> \A r \in Refs : task'[<<r, s>>] \notin InLane
  BY DEF LaneIdle, LaneIn, Active, InLane

\* Nothing is in the hands of the fetchers once they have all returned.
LEMMA NoFetcher ==
  ASSUME WellTyped, fetchers = 0
  PROVE  InFetch = {}
<1>1. IsFiniteSet(InFetch) /\ Cardinality(InFetch) <= 0
  BY DEF WellTyped, FetchersCounted
<1> QED
  BY <1>1, FS_CardinalityType, FS_EmptySet

\* What each stage's steps do to the others' positions.
LEMMA DiscoverDrain ==
  ASSUME TypeOK, DiscoverNext
  PROVE  /\ UNCHANGED <<fetchers, disp, publishVars, runVars>>
         /\ disc # "returned"
         /\ \A r \in Refs : \/ stage'[r] = stage[r]
                            \/ /\ stage[r] \in {"unread", "batched"}
                               /\ stage'[r] \in {"batched", "skipped", "job",
                                                 "gated", "dropped"}
         /\ \A r \in Refs, s \in Scanners : task'[<<r, s>>] = task[<<r, s>>]
         /\ disc' = "returned" => DedupBatched' = {}
<1>1. \A r \in Refs, s \in Scanners : <<r, s>> \in Findings /\ s # SizeGate
  BY TaskFinding, GateAssumption
<1>2. \A r \in Refs, s \in Scanners : task'[<<r, s>>] = task[<<r, s>>]
  BY <1>1 DEF TypeOK, DiscoverNext, ReadRef, StreamEnds, DedupTimer,
              QuerySeen, QueryFails, EmitSkipped, EmitGap, EmitJob,
              FlushEnds, DiscoverCancelled
<1>3. UNCHANGED <<fetchers, disp, publishVars, runVars>> /\ disc # "returned"
  BY DEF DiscoverNext, ReadRef, StreamEnds, DedupTimer, QuerySeen,
         QueryFails, EmitSkipped, EmitGap, EmitJob, FlushEnds,
         DiscoverCancelled, emitting
<1>4. \A r \in Refs : \/ stage'[r] = stage[r]
                      \/ /\ stage[r] \in {"unread", "batched"}
                         /\ stage'[r] \in {"batched", "skipped", "job",
                                           "gated", "dropped"}
  BY DEF TypeOK, DiscoverNext, ReadRef, StreamEnds, DedupTimer, QuerySeen,
         QueryFails, EmitSkipped, EmitGap, EmitJob, FlushEnds,
         DiscoverCancelled, DropBatch
<1>5. disc' = "returned" => DedupBatched' = {}
  BY DEF TypeOK, DiscoverNext, ReadRef, StreamEnds, DedupTimer, QuerySeen,
         QueryFails, EmitSkipped, EmitGap, EmitJob, FlushEnds,
         DiscoverCancelled, DropBatch, DedupBatched, emitting, discoverVars
<1> QED
  BY <1>2, <1>3, <1>4, <1>5

\* Fetching moves a job on, or what a goroutine holds.
LEMMA FetchDrain ==
  ASSUME TypeOK, FetchNext
  PROVE  /\ UNCHANGED <<task, discoverVars, disp, publishVars, runVars>>
         /\ \/ fetchers' = fetchers
            \/ fetchers' = fetchers - 1 /\ (cancelled \/ FetcherExits)
         /\ \A r \in Refs : \/ stage'[r] = stage[r]
                            \/ /\ stage[r] = "job" \/ r \in InFetch
                               /\ stage'[r] \in {"reserving", "connecting",
                                                 "copying", "fetched",
                                                 "payload", "failed",
                                                 "dropped"}
                               /\ stage'[r] = "payload" => r \in InFetch
  BY DEF TypeOK, FetchNext, TakeJob, TakeJobCancelled, ReserveBytes,
         ReserveFails, StartTransfer, StartFails, FinishTransfer,
         TransferFails, SendPayload, SendPayloadCancelled, FetcherExits,
         InFetch

\* A lane's step is on a task that is in the lane, or that the dispatcher is
\* handing to it.
LEMMA LaneDrain ==
  ASSUME TypeOK, NEW r \in Refs, NEW s \in Scanners, LaneStep(r, s)
  PROVE  /\ UNCHANGED <<discoverVars, fetchers, publishVars, runVars>>
         /\ disp' = disp \/ (disp' = "exited" /\ cancelled)
         /\ \/ task[<<r, s>>] \in InLane
            \/ disp = "open" /\ stage[r] = "dispatching"
         /\ \/ stage' = stage
            \/ /\ stage' = [stage EXCEPT ![r] = "analyzing"]
               /\ stage[r] = "dispatching"
               /\ cancelled \/ Undispatched(r) = {s}
<1>1. UNCHANGED <<discoverVars, fetchers, publishVars, runVars>>
  BY DEF LaneStep, Offer, Spill, DispatchCancelled, TakeTask, Admit,
         AdmitCancelled, ScanAnswers, ScanPends, HandoffRecord,
         HandoffNotify, SendFinding, SendFindingCancelled
<1> QED
  BY <1>1 DEF LaneStep, Offer, Spill, DispatchCancelled, TakeTask, Admit,
              AdmitCancelled, ScanAnswers, ScanPends, HandoffRecord,
              HandoffNotify, SendFinding, SendFindingCancelled, Dispatched,
              InLane

\* The lanes leave discovery, the fetchers and the publisher where they are.
LEMMA LanesDrain ==
  ASSUME TypeOK, LanesNext
  PROVE  UNCHANGED <<disc, seen, fetchers, pub, toRecord, runVars>>
<1>1. CASE (\E r \in Refs : TakePayload(r)) \/ DispatcherExits
  BY <1>1 DEF TakePayload, DispatcherExits, discoverVars, publishVars
<1>2. ASSUME NEW r \in Refs, NEW s \in Scanners, LaneStep(r, s)
      PROVE  UNCHANGED <<disc, seen, fetchers, pub, toRecord, runVars>>
  BY <1>2, LaneDrain DEF discoverVars, publishVars
<1> QED
  BY <1>1, <1>2 DEF LanesNext, LaneStep

\* Publishing moves findings that were sent, and nothing else.
LEMMA PublishDrain ==
  ASSUME TypeOK, PublishNext
  PROVE  /\ UNCHANGED <<stage, discoverVars, fetchers, disp, runVars>>
         /\ \A x \in Findings :
               \/ task'[x] = task[x]
               \/ /\ task[x] \in {"found", "batched"}
                  /\ task'[x] \in {"batched", "published", "dropped"}
  BY DEF TypeOK, PublishNext, Collect, MarkObject, FlushTimer,
         FindingsDrained, PublishCancelled, SendSucceeds, SendFails,
         MarkingEnds, Sent

\* Run's steps and the signal move no stage.
LEMMA ClosingDrain ==
  ASSUME TypeOK, Closing
  PROVE  /\ UNCHANGED <<stage, task, discoverVars, fetchers, disp>>
         /\ cancelled => cancelled'
         /\ main' = main \/ ~Cancel
  BY DEF TypeOK, Closing, CloseJobs, ClosePayloads, CloseLanes,
         CloseFindings, RunReturns, Cancel

\* The stages end in the order in which Run closes the channels.
LEMMA StepClosed ==
  WellTyped /\ ClosedInOrder /\ [Next]_vars => ClosedInOrder'
<1> SUFFICES ASSUME WellTyped, ClosedInOrder, [Next]_vars
             PROVE  ClosedInOrder'
  OBVIOUS
<1>0. TypeOK /\ fetchers \in Nat /\ fetchers' \in Nat
  BY StepTyped, PipelineAssumption DEF WellTyped, TypeOK
<1> USE DEF JobsClosed, PayloadsClosed, LanesClosed, FindingsClosed
<1>1. CASE DiscoverNext
  BY <1>0, <1>1, DiscoverDrain, IdleLane DEF ClosedInOrder, runVars
<1>2. CASE FetchNext
  <2>1. DedupBatched' = DedupBatched
    BY <1>0, <1>2, FetchDrain DEF DedupBatched, InFetch
  <2>2. fetchers = 0 => fetchers' = 0
    BY <1>0, <1>2, FetchDrain
  <2> QED
    BY <1>0, <1>2, <2>1, <2>2, FetchDrain, IdleLane
       DEF ClosedInOrder, runVars, discoverVars
<1>3. ASSUME NEW r \in Refs, NEW s \in Scanners, LaneStep(r, s)
      PROVE  ClosedInOrder'
  <2>1. DedupBatched' = DedupBatched
    BY <1>0, <1>3, LaneDrain DEF DedupBatched, TypeOK
  <2>2. ~FindingsClosed
    BY <1>0, <1>3, LaneDrain, IdleLane DEF ClosedInOrder
  <2> QED
    BY <1>0, <1>3, <2>1, <2>2, LaneDrain
       DEF ClosedInOrder, runVars, discoverVars
<1>4. ASSUME NEW r \in Refs, TakePayload(r) PROVE ClosedInOrder'
  BY <1>0, <1>4, IdleLane
     DEF TakePayload, ClosedInOrder, DedupBatched, runVars, discoverVars,
         TypeOK
<1>5. CASE DispatcherExits
  BY <1>5, IdleLane
     DEF DispatcherExits, ClosedInOrder, DedupBatched, runVars, discoverVars
<1>6. CASE PublishNext
  <2>1. \A r \in Refs, s \in Scanners :
           task'[<<r, s>>] \in InLane => task[<<r, s>>] \in InLane
    BY <1>0, <1>6, PublishDrain, TaskFinding DEF InLane
  <2> QED
    BY <1>0, <1>6, <2>1, PublishDrain, IdleLane
       DEF ClosedInOrder, DedupBatched, runVars, discoverVars
<1>7. CASE Closing
  <2>1. /\ UNCHANGED <<stage, task, disc, fetchers, disp>>
        /\ DedupBatched' = DedupBatched
        /\ \A s \in Scanners : LaneIdle(s)' <=> LaneIdle(s)
    BY <1>0, <1>7, ClosingDrain, IdleLane DEF DedupBatched, discoverVars
  <2> QED
    BY <1>7, <2>1
       DEF Closing, CloseJobs, ClosePayloads, CloseLanes, CloseFindings,
           RunReturns, Cancel, ClosedInOrder
<1>8. CASE NewProcess
  BY <1>8 DEF NewProcess, ClosedInOrder
<1>9. CASE UNCHANGED vars
  BY <1>9, IdleLane DEF vars, ClosedInOrder, DedupBatched, runVars,
                        discoverVars
<1> QED
  BY <1>1, <1>2, <1>3, <1>4, <1>5, <1>6, <1>7, <1>8, <1>9
     DEF Next, LanesNext, LaneStep, Closing, Crash, Restart, Finished

\* A stage that has returned has emptied the channel it reads.
LEMMA StepNothingLeft ==
  WellTyped /\ Drained /\ [Next]_vars => NothingLeftBehind'
<1> SUFFICES ASSUME WellTyped, Drained, [Next]_vars, ~cancelled'
             PROVE  /\ fetchers' < FetchMaxConns => JobsClosed' /\ Jobs' = {}
                    /\ disp' = "exited" => /\ PayloadsClosed'
                                           /\ Payloads' = {}
                                           /\ Dispatching' = {}
                    /\ \A r \in Refs, s \in Scanners :
                          stage'[r] = "analyzing" => task'[<<r, s>>] # "none"
  BY DEF NothingLeftBehind
<1> DEFINE Goal == /\ fetchers' < FetchMaxConns => JobsClosed' /\ Jobs' = {}
                   /\ disp' = "exited" => /\ PayloadsClosed'
                                          /\ Payloads' = {}
                                          /\ Dispatching' = {}
                   /\ \A r \in Refs, s \in Scanners :
                         stage'[r] = "analyzing" => task'[<<r, s>>] # "none"
<1>0. TypeOK /\ fetchers \in Nat /\ fetchers' \in Nat /\ FetchMaxConns \in Nat
  BY StepTyped, PipelineAssumption DEF WellTyped, TypeOK
<1> USE DEF JobsClosed, PayloadsClosed
<1>1. CASE DiscoverNext
  <2>1. /\ UNCHANGED <<fetchers, disp, main, cancelled>> /\ ~JobsClosed
        /\ Payloads' = Payloads /\ Dispatching' = Dispatching
        /\ \A r \in Refs : stage'[r] = "analyzing" => stage[r] = "analyzing"
        /\ \A r \in Refs, s \in Scanners : task'[<<r, s>>] = task[<<r, s>>]
    BY <1>0, <1>1, DiscoverDrain
       DEF Drained, ClosedInOrder, runVars, Payloads, Dispatching
  <2> QED
    BY <2>1 DEF Drained, NothingLeftBehind
<1>2. CASE FetchNext
  <2>1. /\ UNCHANGED <<task, disc, disp, main, cancelled>>
        /\ Dispatching' = Dispatching /\ Jobs' \subseteq Jobs
        /\ \A r \in Refs : stage'[r] = "analyzing" => stage[r] = "analyzing"
    BY <1>0, <1>2, FetchDrain
       DEF runVars, discoverVars, Dispatching, Jobs, InFetch
  <2>2. fetchers' < FetchMaxConns => JobsClosed /\ Jobs = {}
    BY <1>0, <1>2, <2>1, FetchDrain
       DEF FetcherExits, Drained, NothingLeftBehind
  <2>3. disp = "exited" => Payloads' = {}
    <3>1. disp = "exited" => Payloads = {} /\ InFetch = {}
      BY <2>1, NoFetcher DEF Drained, NothingLeftBehind, ClosedInOrder
    <3> QED
      BY <1>0, <1>2, <3>1, FetchDrain DEF Payloads
  <2> QED
    BY <2>1, <2>2, <2>3 DEF Drained, NothingLeftBehind
<1>3. ASSUME NEW r \in Refs, NEW s \in Scanners, LaneStep(r, s)
      PROVE  Goal
  <2>a. UNCHANGED <<disc, fetchers, main, cancelled>> /\ ~cancelled
    BY <1>0, <1>3, LaneDrain DEF runVars, discoverVars
  <2>1. UNCHANGED <<disc, fetchers, main, cancelled, disp>>
    BY <1>0, <1>3, <2>a, LaneDrain
  <2>2. /\ task' = [task EXCEPT ![<<r, s>>] = task'[<<r, s>>]]
        /\ task'[<<r, s>>] # "none"
    BY <1>0, <1>3, LaneStepMoves DEF LaneMoves, TaskMoves
  <2>3. \A q \in Refs, u \in Scanners :
           /\ task[<<q, u>>] # "none" => task'[<<q, u>>] # "none"
           /\ <<q, u>> # <<r, s>> => task'[<<q, u>>] = task[<<q, u>>]
    BY <1>0, <2>2, TaskFinding DEF TypeOK
  <2>4. /\ Jobs' = Jobs /\ Payloads' = Payloads
        /\ Dispatching' \subseteq Dispatching
    BY <1>0, <1>3, LaneDrain DEF TypeOK, Jobs, Payloads, Dispatching
  <2>5. \A q \in Refs, u \in Scanners :
           stage'[q] = "analyzing" => task'[<<q, u>>] # "none"
    <3>1. CASE stage' = stage
      BY <2>1, <2>3, <3>1 DEF Drained, NothingLeftBehind
    <3>2. CASE /\ stage' = [stage EXCEPT ![r] = "analyzing"]
               /\ Undispatched(r) = {s}
      <4>1. \A u \in Scanners : task'[<<r, u>>] # "none"
        BY <2>2, <2>3, <3>2 DEF Undispatched
      <4> QED
        BY <1>0, <2>1, <2>3, <3>2, <4>1
           DEF Drained, NothingLeftBehind, TypeOK
    <3> QED
      BY <1>0, <1>3, <2>1, <3>1, <3>2, LaneDrain
  <2> QED
    BY <2>1, <2>4, <2>5 DEF Drained, NothingLeftBehind
<1>4. ASSUME NEW r \in Refs, TakePayload(r) PROVE Goal
  <2>1. /\ UNCHANGED <<task, fetchers, disp, main, cancelled>>
        /\ disp = "open" /\ Jobs' = Jobs
        /\ \A q \in Refs : stage'[q] = "analyzing" => stage[q] = "analyzing"
    BY <1>0, <1>4 DEF TakePayload, TypeOK, Jobs, runVars
  <2> QED
    BY <2>1 DEF Drained, NothingLeftBehind
<1>5. CASE DispatcherExits
  <2>1. /\ UNCHANGED <<stage, task, fetchers, main, cancelled>>
        /\ Payloads' = Payloads /\ Dispatching' = Dispatching /\ Jobs' = Jobs
        /\ PayloadsClosed /\ Payloads = {} /\ Dispatching = {}
    BY <1>5 DEF DispatcherExits, runVars, Payloads, Dispatching, Jobs
  <2> QED
    BY <2>1 DEF Drained, NothingLeftBehind
<1>6. CASE PublishNext
  <2>1. /\ UNCHANGED <<fetchers, disp, main, cancelled, stage>>
        /\ Payloads' = Payloads /\ Dispatching' = Dispatching /\ Jobs' = Jobs
    BY <1>0, <1>6, PublishDrain DEF runVars, Payloads, Dispatching, Jobs
  <2>2. \A r \in Refs, s \in Scanners :
           task[<<r, s>>] # "none" => task'[<<r, s>>] # "none"
    BY <1>0, <1>6, PublishDrain, TaskFinding
  <2> QED
    BY <2>1, <2>2 DEF Drained, NothingLeftBehind
<1>7. CASE Closing
  <2>1. /\ UNCHANGED <<stage, task, fetchers, disp>> /\ ~cancelled
        /\ Payloads' = Payloads /\ Dispatching' = Dispatching /\ Jobs' = Jobs
    BY <1>0, <1>7, ClosingDrain DEF Payloads, Dispatching, Jobs, TypeOK
  <2>2. (JobsClosed => JobsClosed') /\ (PayloadsClosed => PayloadsClosed')
    BY <1>7 DEF Closing, CloseJobs, ClosePayloads, CloseLanes,
                CloseFindings, RunReturns, Cancel, runVars
  <2> QED
    BY <2>1, <2>2 DEF Drained, NothingLeftBehind
<1>8. CASE NewProcess
  BY <1>0, <1>8 DEF NewProcess, NextStreams
<1>9. CASE UNCHANGED vars
  BY <1>9 DEF vars, runVars, Drained, NothingLeftBehind, Payloads,
              Dispatching, Jobs
<1> QED
  BY <1>1, <1>2, <1>3, <1>4, <1>5, <1>6, <1>7, <1>8, <1>9
     DEF Next, LanesNext, LaneStep, Closing, Crash, Restart, Finished

\* Together they hold in every reachable state.
LEMMA DrainHeld == Spec => []Drained
<1>1. Init => Drained
  BY PipelineAssumption, TaskFinding
     DEF Init, Drained, ClosedInOrder, NothingLeftBehind, JobsClosed,
         PayloadsClosed, LanesClosed, FindingsClosed
<1>2. WellTyped /\ Drained /\ [Next]_vars => Drained'
  BY StepClosed, StepNothingLeft DEF Drained
<1>3. IInv => WellTyped
  BY DEF IInv
<1> QED
  BY <1>1, <1>2, <1>3, Invariant, PTL DEF Spec

\* A run that ends without a cancellation has returned every byte it reserved
\* and removed every temp file, whatever failed in it.
THEOREM CleanEndHoldsNothingBack == Spec => []CleanEndHoldsNothing
<1>1. WellTyped /\ Accounts /\ Drained => CleanEndHoldsNothing
  <2> SUFFICES ASSUME WellTyped, Accounts, Drained,
                      main = "ended", ~cancelled
               PROVE  inFlight = 0 /\ \A f \in Files : ~file[f]
    BY DEF CleanEndHoldsNothing
  <2>1. /\ fetchers = 0 /\ disp = "exited"
        /\ \A s \in Scanners, r \in Refs : task[<<r, s>>] \notin InLane
    BY IdleLane DEF Drained, ClosedInOrder, PayloadsClosed, LanesClosed,
                    FindingsClosed
  <2>2. InFetch = {} /\ Payloads = {} /\ Dispatching = {}
    BY <2>1, NoFetcher DEF Drained, NothingLeftBehind
  <2>3. ASSUME NEW r \in Refs PROVE ~reserved[r]
    <3>1. CASE stage[r] = "analyzing"
      <4>1. \A s \in Readers : task[<<r, s>>] \notin InLane \cup {"none"}
        BY <2>1, <3>1, PipelineAssumption DEF Drained, NothingLeftBehind
      <4>2. Owing(r) = {}
        BY <4>1 DEF Owing, Using, InLane
      <4> QED
        BY <3>1, <4>2 DEF Accounts, ReadersCounted, Fanned
    <3>2. CASE stage[r] # "analyzing"
      BY <2>2, <3>2 DEF Accounts, ReservedByStage, Fetching, Fanned, InFetch,
                        Payloads, Dispatching
    <3> QED
      BY <3>1, <3>2
  <2>4. Held = {}
    BY <2>3 DEF Held
  <2> QED
    BY <2>3, <2>4, SumEmpty DEF Accounts, BudgetIsHeld, FilesHeld
<1>2. IInv => WellTyped
  BY DEF IInv
<1> QED
  BY <1>1, <1>2, AccountsHeld, DrainHeld, Invariant, PTL

------------------------------------------------------------------------
(* Recorded objects.  The answer of SeenFileIDs is used for the whole      *)
(* batch; that it cannot be stale for an object of the batch needs that    *)
(* only what the dispatcher took is ever recorded.                         *)

\* What flush has still to record has been published in this run.
ToRecordArePublished == \A x \in toRecord : task[x] = "published"

\* A recorded object is yet to be read, is answered by the query, or has gone
\* through the lanes.
RecordedIsPast ==
    \A r \in Refs : FileOf[r] \in records =>
        /\ stage[r] \in {"unread", "batched", "skipped", "dropped", "lost"}
                        \cup Fanned
        /\ stage[r] = "batched" /\ emitting => FileOf[r] \in seen

\* What a step may add to the records.
LEMMA StepRecords ==
  ASSUME WellTyped, [Next]_vars
  PROVE  \/ records' = records
         \/ \E x \in toRecord :
               /\ MarkObject(x)
               /\ records' = records \cup {FileOf[x[1]]}
<1>1. CASE DiscoverNext \/ FetchNext
  BY <1>1, DiscoverKeeps, FetchKeeps DEF StoresKept
<1>2. CASE LanesNext
  BY <1>2, LanesOpen
<1>3. ASSUME NEW x \in Findings, MarkObject(x)
      PROVE  \/ records' = records
             \/ x \in toRecord /\ records' = records \cup {FileOf[x[1]]}
  BY <1>3 DEF MarkObject
<1>4. CASE \/ \E x \in Findings : Collect(x)
           \/ FlushTimer \/ FindingsDrained \/ PublishCancelled
           \/ SendSucceeds \/ SendFails \/ MarkingEnds \/ Closing
           \/ NewProcess \/ UNCHANGED vars
  BY <1>4 DEF Collect, FlushTimer, FindingsDrained, PublishCancelled,
              SendSucceeds, SendFails, MarkingEnds, Closing, CloseJobs,
              ClosePayloads, CloseLanes, CloseFindings, RunReturns, Cancel,
              NewProcess, durable, vars
<1> QED
  BY <1>1, <1>2, <1>3, <1>4
     DEF Next, PublishNext, Closing, Crash, Restart, Finished

\* Every step keeps what is to be recorded published.
LEMMA StepToRecord ==
  IInv /\ ToRecordArePublished /\ [Next]_vars => ToRecordArePublished'
<1> SUFFICES ASSUME IInv, ToRecordArePublished, [Next]_vars,
                    NEW x \in toRecord'
             PROVE  task'[x] = "published"
  BY DEF ToRecordArePublished
<1> USE DEF IInv, WellTyped
<1>1. CASE NewProcess
  BY <1>1 DEF NewProcess
<1>2. CASE SendSucceeds
  BY <1>2 DEF SendSucceeds, PublishBatch, Sent
<1>3. CASE ~NewProcess /\ ~SendSucceeds
  <2>1. x \in toRecord
    <3>1. CASE PublishNext
      BY <1>3, <3>1 DEF PublishNext, Collect, MarkObject, FlushTimer,
                        FindingsDrained, PublishCancelled, SendFails,
                        MarkingEnds
    <3>2. CASE DiscoverNext \/ FetchNext
      BY <3>2, DiscoverKeeps, FetchKeeps DEF StoresKept
    <3>3. CASE LanesNext
      BY <3>3, LanesDrain
    <3>4. CASE Closing \/ UNCHANGED vars
      BY <3>4 DEF Closing, CloseJobs, ClosePayloads, CloseLanes,
                  CloseFindings, RunReturns, Cancel, vars, publishVars
    <3> QED
      BY <1>3, <3>1, <3>2, <3>3, <3>4
         DEF Next, Closing, Crash, Restart, Finished
  <2>2. PICK r \in Refs, s \in Scanners : x = <<r, s>>
    BY <2>1 DEF ToRecordIsPublished, TypeOK, Findings
  <2>3. task[<<r, s>>] = "published"
    BY <2>1, <2>2 DEF ToRecordArePublished
  <2>4. ~LaneStep(r, s)
    BY <2>3, LaneStepMoves DEF Using
  <2> QED
    BY <1>3, <2>2, <2>3, <2>4, StepTask
<1> QED
  BY <1>1, <1>2, <1>3

\* Which records and answers a reference in the batch, or past it, goes by.
LEMMA StepRecorded ==
  ASSUME DeliveredOnce
  PROVE  IInv /\ Accounts /\ ToRecordArePublished /\ RecordedIsPast
           /\ [Next]_vars => RecordedIsPast'
<1> SUFFICES ASSUME IInv, Accounts, ToRecordArePublished, RecordedIsPast,
                    [Next]_vars, NEW r \in Refs, FileOf[r] \in records'
             PROVE  /\ stage'[r] \in {"unread", "batched", "skipped",
                                      "dropped", "lost"} \cup Fanned
                    /\ stage'[r] = "batched" /\ emitting'
                         => FileOf[r] \in seen'
  BY DEF RecordedIsPast
<1> DEFINE Goal == /\ stage'[r] \in {"unread", "batched", "skipped",
                                     "dropped", "lost"} \cup Fanned
                   /\ stage'[r] = "batched" /\ emitting'
                        => FileOf[r] \in seen'
<1> USE DEF IInv, WellTyped
<1>1. CASE FileOf[r] \notin records
  <2>1. PICK x \in toRecord : MarkObject(x) /\ FileOf[x[1]] = FileOf[r]
    BY <1>1, StepRecords
  <2>2. PICK q \in Refs, s \in Scanners : x = <<q, s>>
    BY <2>1 DEF ToRecordIsPublished, TypeOK, Findings
  <2>3. q = r
    BY <2>1, <2>2 DEF DeliveredOnce
  <2>4. stage[r] \in Fanned
    BY <2>2, <2>3 DEF Accounts, TasksFollowStage, ToRecordArePublished
  <2> QED
    BY <2>1, <2>4 DEF MarkObject, Fanned
<1>2. CASE FileOf[r] \in records
  <2>1. /\ stage[r] \in {"unread", "batched", "skipped", "dropped", "lost"}
                        \cup Fanned
        /\ stage[r] = "batched" /\ emitting => FileOf[r] \in seen
    BY <1>2 DEF RecordedIsPast
  <2>2. CASE NewProcess
    BY <2>2 DEF NewProcess, NextStreams
  <2>3. CASE DiscoverNext
    <3>1. ASSUME NEW q \in Refs,
                 ReadRef(q) \/ EmitSkipped(q) \/ EmitGap(q) \/ EmitJob(q)
          PROVE  Goal
      BY <2>1, <3>1 DEF ReadRef, EmitSkipped, EmitGap, EmitJob, discoverVars,
                        emitting, Fanned, TypeOK
    <3>2. CASE QuerySeen
      BY <1>2, <2>1, <3>2 DEF QuerySeen, DedupBatched
    <3>3. CASE StreamEnds \/ DedupTimer \/ QueryFails \/ FlushEnds
               \/ DiscoverCancelled
      BY <2>1, <3>3 DEF StreamEnds, DedupTimer, QueryFails, FlushEnds,
                        DiscoverCancelled, DropBatch, AfterFlush, emitting,
                        Fanned, TypeOK
    <3> QED
      BY <2>3, <3>1, <3>2, <3>3 DEF DiscoverNext
  <2>4. CASE ~DiscoverNext /\ ~NewProcess
    <3>1. disc' = disc /\ seen' = seen
      <4>1. CASE FetchNext
        BY <4>1, FetchDrain DEF discoverVars
      <4>2. CASE PublishNext \/ Closing \/ UNCHANGED vars
        BY <4>2, PublishDrain, ClosingDrain DEF discoverVars, vars
      <4>3. CASE LanesNext
        BY <4>3, LanesDrain
      <4> QED
        BY <2>4, <4>1, <4>2, <4>3 DEF Next, Closing, Crash, Restart, Finished
    <3>2. stage'[r] = stage[r] \/ stage[r] = "dispatching"
          \/ stage[r] = "unread" \/ stage[r] = "batched"
      BY <2>1, <2>4, StepStage DEF StageMoves, Fanned
    <3>3. stage[r] \in {"unread", "batched"} => stage'[r] = stage[r]
      <4>1. CASE FetchNext
        BY <4>1, FetchDrain DEF InFetch
      <4>2. CASE PublishNext \/ Closing \/ UNCHANGED vars
        BY <4>2, PublishDrain, ClosingDrain DEF vars
      <4>3. ASSUME NEW q \in Refs, NEW s \in Scanners, LaneStep(q, s)
            PROVE  stage[r] \in {"unread", "batched"} => stage'[r] = stage[r]
        BY <4>3, LaneStepFanned DEF Accounts, Fanned
      <4>4. CASE (\E q \in Refs : TakePayload(q)) \/ DispatcherExits
        BY <4>4 DEF TakePayload, DispatcherExits, TypeOK
      <4> QED
        BY <2>4, <4>1, <4>2, <4>3, <4>4
           DEF Next, LanesNext, LaneStep, Closing, Crash, Restart, Finished
    <3>4. stage[r] = "dispatching" => stage'[r] \in Fanned
      BY <2>4, StepStage DEF StageMoves, Fanned
    <3> QED
      BY <2>1, <3>1, <3>2, <3>3, <3>4 DEF emitting, Fanned
  <2> QED
    BY <2>2, <2>3, <2>4
<1> QED
  BY <1>1, <1>2

\* An object that is recorded is not on its way to being transferred again,
\* whatever crashes or restarts, when the source delivers each object once.
THEOREM RecordedNotTransferred ==
  ASSUME DeliveredOnce
  PROVE  Spec => []RecordedNotRefetched
<1>1. Init => ToRecordArePublished /\ RecordedIsPast
  BY DEF Init, DurableInit, ToRecordArePublished, RecordedIsPast
<1>2. IInv /\ Accounts /\ ToRecordArePublished /\ RecordedIsPast
        /\ [Next]_vars => (ToRecordArePublished /\ RecordedIsPast)'
  BY StepToRecord, StepRecorded
<1>3. RecordedIsPast => RecordedNotRefetched
  BY DEF RecordedIsPast, RecordedNotRefetched, Fanned
<1> QED
  BY <1>1, <1>2, <1>3, Invariant, AccountsHeld, PTL DEF Spec

------------------------------------------------------------------------
(* A clean end, when the database and the sink take what they are given.   *)

\* What has been published is in the sink, as an answer.
PublishedAreInSink ==
    \A x \in Findings : task[x] = "published" => sink[DocOf(x)] = "answer"

SeenAreRecorded == seen \subseteq records

\* A task that goes on elsewhere has its row, open.
PendingWhileElsewhere ==
    \A r \in Refs, s \in Scanners :
        task[<<r, s>>] \in {"notifying", "handed", "parked"}
            => ledger[<<FileOf[r], s>>].status = "pending"

\* The publisher's last flush comes when nothing can be sent to it any more.
PublisherDrained ==
    /\ pub \in {"marking", "lastmarking", "returned"} => PublishBatch = {}
    /\ ~cancelled /\ pub \in {"lastsending", "lastmarking", "returned"}
         => FindingsClosed /\ Found = {}
    /\ pub = "detached" => cancelled
    /\ main = "ended" => pub = "returned"

\* Nothing is dropped that was not cancelled.
Answering ==
    ~cancelled =>
        /\ disc \in {"lastquerying", "lastemitting", "returned"}
             => ~OpenEnded /\ \A r \in Refs : stage[r] # "unread"
        /\ \A r \in Refs :
              /\ stage[r] # "dropped"
              /\ stage[r] = "lost" => OpenEnded
              /\ stage[r] = "skipped" => FileOf[r] \in records
              /\ stage[r] = "gated" => task[<<r, SizeGate>>] \in
                                          {"found", "batched", "published"}
              /\ \A s \in Scanners : task[<<r, s>>] # "dropped"

\* Whose step moves a finding.
LEMMA StepFinding ==
  ASSUME TypeOK, [Next]_vars, NEW x \in Findings
  PROVE  \/ task'[x] = task[x]
         \/ x[2] \in Scanners /\ LaneStep(x[1], x[2])
         \/ x[2] = SizeGate /\ EmitGap(x[1]) /\ task'[x] = "found"
         \/ \E y \in Findings : Collect(y) /\ task'[x] = "batched"
                                /\ task[x] = "found"
         \/ SendSucceeds /\ task[x] = "batched" /\ task'[x] = "published"
         \/ SendFails /\ task[x] = "batched" /\ task'[x] = "dropped"
         \/ NewProcess
<1> DEFINE Goal ==
             \/ task'[x] = task[x]
             \/ x[2] \in Scanners /\ LaneStep(x[1], x[2])
             \/ x[2] = SizeGate /\ EmitGap(x[1]) /\ task'[x] = "found"
             \/ \E y \in Findings : Collect(y) /\ task'[x] = "batched"
                                    /\ task[x] = "found"
             \/ SendSucceeds /\ task[x] = "batched" /\ task'[x] = "published"
             \/ SendFails /\ task[x] = "batched" /\ task'[x] = "dropped"
             \/ NewProcess
<1>1. CASE DiscoverNext
  <2>1. ASSUME NEW q \in Refs, EmitGap(q) PROVE Goal
    <3>1. CASE x = <<q, SizeGate>>
      BY <2>1, <3>1 DEF EmitGap, TypeOK
    <3>2. CASE x # <<q, SizeGate>>
      BY <2>1, <3>2 DEF EmitGap, TypeOK
    <3> QED
      BY <3>1, <3>2
  <2>2. CASE \A q \in Refs : ~EmitGap(q)
    BY <1>1, <2>2 DEF DiscoverNext, ReadRef, StreamEnds, DedupTimer,
                      QuerySeen, QueryFails, EmitSkipped, EmitJob, FlushEnds,
                      DiscoverCancelled
  <2> QED
    BY <2>1, <2>2
<1>2. CASE FetchNext
  BY <1>2, FetchDrain
<1>3. ASSUME NEW q \in Refs, NEW s \in Scanners, LaneStep(q, s) PROVE Goal
  <2>1. task' = [task EXCEPT ![<<q, s>>] = task'[<<q, s>>]]
    BY <1>3, LaneStepMoves DEF LaneMoves
  <2>2. CASE x = <<q, s>>
    BY <1>3, <2>2
  <2>3. CASE x # <<q, s>>
    BY <2>1, <2>3 DEF TypeOK
  <2> QED
    BY <2>2, <2>3
<1>4. CASE (\E q \in Refs : TakePayload(q)) \/ DispatcherExits
  BY <1>4 DEF TakePayload, DispatcherExits
<1>5. ASSUME NEW y \in Findings, Collect(y) PROVE Goal
  BY <1>5 DEF Collect, TypeOK
<1>6. CASE SendSucceeds \/ SendFails
  BY <1>6 DEF SendSucceeds, SendFails, Sent
<1>7. CASE \/ \E y \in Findings : MarkObject(y)
           \/ FlushTimer \/ FindingsDrained \/ PublishCancelled \/ MarkingEnds
  BY <1>7 DEF MarkObject, FlushTimer, FindingsDrained, PublishCancelled,
              MarkingEnds
<1>8. CASE Closing \/ UNCHANGED vars
  BY <1>8, ClosingDrain DEF vars
<1> QED
  BY <1>1, <1>2, <1>3, <1>4, <1>5, <1>6, <1>7, <1>8
     DEF Next, LanesNext, LaneStep, PublishNext, Closing, Crash, Restart,
         Finished

\* The pipeline writes answers into the sink, and nothing over them.
LEMMA StepSink ==
  ASSUME WellTyped, [Next]_vars, NEW d \in Docs, sink[d] = "answer"
  PROVE  sink'[d] = "answer"
<1> USE DEF WellTyped
<1>1. CASE DiscoverNext \/ FetchNext
  BY <1>1, DiscoverKeeps, FetchKeeps DEF StoresKept
<1>2. CASE LanesNext
  BY <1>2, LanesOpen
<1>3. CASE SendSucceeds \/ SendFails
  BY <1>3 DEF SendSucceeds, SendFails, Accept
<1>4. CASE \/ \E x \in Findings : Collect(x) \/ MarkObject(x)
           \/ FlushTimer \/ FindingsDrained \/ PublishCancelled
           \/ MarkingEnds \/ Closing \/ NewProcess \/ UNCHANGED vars
  BY <1>4 DEF Collect, MarkObject, FlushTimer, FindingsDrained,
              PublishCancelled, MarkingEnds, Closing, CloseJobs,
              ClosePayloads, CloseLanes, CloseFindings, RunReturns, Cancel,
              NewProcess, durable, vars
<1> QED
  BY <1>1, <1>2, <1>3, <1>4
     DEF Next, PublishNext, Closing, Crash, Restart, Finished

\* A published finding stays in the sink.
LEMMA StepPublished ==
  IInv /\ PublishedAreInSink /\ [Next]_vars => PublishedAreInSink'
<1> SUFFICES ASSUME IInv, PublishedAreInSink, [Next]_vars,
                    NEW x \in Findings, task'[x] = "published"
             PROVE  sink'[DocOf(x)] = "answer"
  BY DEF PublishedAreInSink, DocOf
<1> USE DEF IInv, WellTyped
<1>1. CASE task[x] = "published"
  BY <1>1, StepSink, FindingDoc DEF PublishedAreInSink
<1>2. CASE task[x] # "published"
  <2>1. ~NewProcess
    BY DEF NewProcess
  <2>2. ~(x[2] \in Scanners /\ LaneStep(x[1], x[2]))
    BY <1>2, LaneStepMoves DEF Findings, TaskMoves, Using
  <2>3. SendSucceeds /\ task[x] = "batched"
    BY <1>2, <2>1, <2>2, StepFinding
  <2> QED
    BY <2>3, AcceptKeeps DEF SendSucceeds, PublishBatch
<1> QED
  BY <1>1, <1>2

\* The query's answer names recorded objects, and records are never removed.
LEMMA StepSeen ==
  WellTyped /\ SeenAreRecorded /\ [Next]_vars => SeenAreRecorded'
<1> SUFFICES ASSUME WellTyped, SeenAreRecorded, [Next]_vars
             PROVE  SeenAreRecorded'
  OBVIOUS
<1>1. records \subseteq records'
  BY StepRecords
<1>2. seen' = seen \/ seen' \subseteq records
  <2>1. CASE DiscoverNext
    BY <2>1 DEF DiscoverNext, ReadRef, StreamEnds, DedupTimer, QuerySeen,
                QueryFails, EmitSkipped, EmitGap, EmitJob, FlushEnds,
                DiscoverCancelled, discoverVars
  <2>2. CASE FetchNext \/ LanesNext \/ PublishNext \/ Closing
    BY <2>2, FetchDrain, LanesDrain, PublishDrain, ClosingDrain
       DEF discoverVars, WellTyped
  <2>3. CASE NewProcess \/ UNCHANGED vars
    BY <2>3 DEF NewProcess, vars, discoverVars
  <2> QED
    BY <2>1, <2>2, <2>3 DEF Next, Closing, Crash, Restart, Finished
<1> QED
  BY <1>1, <1>2 DEF SeenAreRecorded

\* Only the marking of a finding closes a row: its own.
LEMMA StepPending ==
  ASSUME IInv, [Next]_vars, NEW t \in Tasks, ledger[t].status = "pending"
  PROVE  \/ ledger'[t].status = "pending"
         \/ \E x \in toRecord : MarkObject(x) /\ DocOf(x) = t
<1> USE DEF IInv, WellTyped, TypeOK, DurableTypeOK
<1>0. CASE UNCHANGED ledger
  BY <1>0
<1>1. ASSUME NEW r \in Refs, NEW s \in Scanners,
             \/ SetRow(FileOf[r], s, EnqueuePending(ledger[<<FileOf[r], s>>]))
             \/ SetRow(FileOf[r], s,
                       EnqueueContinuation(ledger[<<FileOf[r], s>>]))
      PROVE  ledger'[t].status = "pending"
  <2>1. <<FileOf[r], s>> \in Tasks /\ ledger[<<FileOf[r], s>>] \in Rows
    BY TaskFinding
  <2>2. /\ EnqueuePending(ledger[<<FileOf[r], s>>]).status = "pending"
        /\ EnqueueContinuation(ledger[<<FileOf[r], s>>]).status = "pending"
    BY <2>1, EnqueuePendingType, EnqueueContinuationType
  <2> QED
    BY <1>1, <2>1, <2>2 DEF SetRow
<1>2. ASSUME NEW r \in Refs, NEW s \in Scanners, LaneStep(r, s)
      PROVE  ledger'[t].status = "pending"
  <2>1. CASE Spill(r, s) \/ AdmitCancelled(r, s) \/ HandoffRecord(r, s)
    BY <1>0, <1>1, <2>1 DEF Spill, AdmitCancelled, HandoffRecord, Park
  <2>2. CASE UNCHANGED ledger
    BY <2>2
  <2> QED
    BY <1>2, <2>1, <2>2
       DEF LaneStep, Offer, DispatchCancelled, TakeTask, Admit, ScanAnswers,
           ScanPends, HandoffNotify, SendFinding, SendFindingCancelled,
           durable
<1>3. ASSUME NEW x \in Findings, MarkObject(x), DocOf(x) # t
      PROVE  ledger'[t].status = "pending"
  <2>1. DocOf(x) = <<FileOf[x[1]], x[2]>> /\ DocOf(x) \in Tasks
    BY <1>3, FindingDoc DEF MarkObject, ToRecordIsPublished, DocOf
  <2> QED
    BY <1>3, <2>1 DEF MarkObject, SetRow
<1>4. CASE DiscoverNext \/ FetchNext
  BY <1>4, DiscoverKeeps, FetchKeeps DEF StoresKept
<1>5. CASE (\E r \in Refs : TakePayload(r)) \/ DispatcherExits
  BY <1>5 DEF TakePayload, DispatcherExits, durable
<1>6. CASE \/ \E x \in Findings : Collect(x)
           \/ FlushTimer \/ FindingsDrained \/ PublishCancelled
           \/ SendSucceeds \/ SendFails \/ MarkingEnds \/ Closing
           \/ NewProcess \/ UNCHANGED vars
  BY <1>6 DEF Collect, FlushTimer, FindingsDrained, PublishCancelled,
              SendSucceeds, SendFails, MarkingEnds, Closing, CloseJobs,
              ClosePayloads, CloseLanes, CloseFindings, RunReturns, Cancel,
              NewProcess, durable, vars
<1> QED
  BY <1>2, <1>3, <1>4, <1>5, <1>6
     DEF Next, LanesNext, LaneStep, PublishNext, Closing, MarkObject, Crash,
         Restart, Finished

\* A task that has gone elsewhere keeps its row open.
LEMMA StepElsewhere ==
  ASSUME DeliveredOnce, ~MayFail("database")
  PROVE  IInv /\ ToRecordArePublished /\ PendingWhileElsewhere /\ [Next]_vars
           => PendingWhileElsewhere'
<1> DEFINE Elsewhere == {"notifying", "handed", "parked"}
<1> SUFFICES ASSUME IInv, ToRecordArePublished, PendingWhileElsewhere,
                    [Next]_vars, NEW r \in Refs, NEW s \in Scanners,
                    task'[<<r, s>>] \in Elsewhere
             PROVE  ledger'[<<FileOf[r], s>>].status = "pending"
  BY DEF PendingWhileElsewhere
<1> USE DEF IInv, WellTyped
<1>0. <<FileOf[r], s>> \in Tasks /\ ledger[<<FileOf[r], s>>] \in Rows
  BY TaskFinding DEF TypeOK, DurableTypeOK
<1>1. CASE task[<<r, s>>] \in Elsewhere
  <2>1. ledger[<<FileOf[r], s>>].status = "pending"
    BY <1>1 DEF PendingWhileElsewhere
  <2>2. ASSUME NEW x \in toRecord, DocOf(x) = <<FileOf[r], s>> PROVE FALSE
    <3>1. PICK q \in Refs, u \in Scanners : x = <<q, u>>
      BY DEF ToRecordIsPublished, TypeOK, Findings
    <3>2. q = r /\ u = s
      BY <2>2, <3>1 DEF DocOf, DeliveredOnce
    <3> QED
      BY <1>1, <3>1, <3>2 DEF ToRecordArePublished
  <2> QED
    BY <1>0, <2>1, <2>2, StepPending
<1>2. CASE task[<<r, s>>] \notin Elsewhere
  <2>1. LaneStep(r, s)
    <3>1. ~NewProcess
      BY TaskFinding DEF NewProcess
    <3> QED
      BY <1>2, <3>1, StepTask DEF TaskMoves
  <2>2. /\ EnqueuePending(ledger[<<FileOf[r], s>>]).status = "pending"
        /\ EnqueueContinuation(ledger[<<FileOf[r], s>>]).status = "pending"
    BY <1>0, EnqueuePendingType, EnqueueContinuationType
  <2>3. <<r, s>> \in Findings
    BY TaskFinding
  <2>4. Spill(r, s) \/ AdmitCancelled(r, s) \/ HandoffRecord(r, s)
    BY <1>2, <2>1, <2>3
       DEF TypeOK, LaneStep, Offer, DispatchCancelled, TakeTask, Admit,
           ScanAnswers, ScanPends, HandoffNotify, SendFinding,
           SendFindingCancelled
  <2> QED
    BY <1>0, <1>2, <2>2, <2>3, <2>4
       DEF TypeOK, DurableTypeOK, Spill, AdmitCancelled, HandoffRecord, Park,
           SetRow
<1> QED
  BY <1>1, <1>2

\* A cancelled run stays cancelled.
LEMMA StepSignal ==
  ASSUME TypeOK, [Next]_vars
  PROVE  (cancelled => cancelled') \/ NewProcess
<1>1. CASE DiscoverNext \/ FetchNext \/ LanesNext \/ PublishNext \/ Closing
  BY <1>1, DiscoverDrain, FetchDrain, LanesDrain, PublishDrain, ClosingDrain
     DEF runVars
<1> QED
  BY <1>1 DEF Next, Closing, Crash, Restart, Finished, vars, runVars

\* The publisher returns after its last flush, on channels that are closed and
\* empty.
LEMMA StepPublisher ==
  IInv /\ Drained /\ PublisherDrained /\ [Next]_vars => PublisherDrained'
<1> SUFFICES ASSUME IInv, Drained, PublisherDrained, [Next]_vars
             PROVE  PublisherDrained'
  OBVIOUS
<1> USE DEF IInv, WellTyped
<1>1. CASE NewProcess
  BY <1>1 DEF NewProcess, PublisherDrained
<1>2. CASE PublishNext
  <2>0. UNCHANGED <<main, cancelled>>
    BY <1>2, PublishDrain DEF runVars
  <2>1. Found' \subseteq Found
    BY <1>2, PublishDrain DEF Found
  <2>2. CASE \E x \in Findings : Collect(x)
    BY <2>0, <2>1, <2>2 DEF Collect, PublisherDrained, FindingsClosed
  <2>3. ASSUME NEW x \in Findings, MarkObject(x) PROVE PublisherDrained'
    BY <2>0, <2>1, <2>3 DEF MarkObject, PublisherDrained, FindingsClosed,
                            PublishBatch
  <2>4. CASE FlushTimer \/ FindingsDrained \/ PublishCancelled \/ MarkingEnds
    BY <2>0, <2>1, <2>4
       DEF FlushTimer, FindingsDrained, PublishCancelled, MarkingEnds,
           PublisherDrained, FindingsClosed, PublishBatch, Found, marking
  <2>5. CASE SendSucceeds \/ SendFails
    <3>1. PublishBatch' = {}
      BY <2>5 DEF SendSucceeds, SendFails, Sent, PublishBatch
    <3> QED
      BY <2>0, <2>1, <2>5, <3>1
         DEF SendSucceeds, SendFails, PublisherDrained, FindingsClosed,
             sending
  <2> QED
    BY <1>2, <2>2, <2>3, <2>4, <2>5 DEF PublishNext
<1>3. CASE ~PublishNext /\ ~NewProcess
  <2>1. pub' = pub
    <3>1. CASE DiscoverNext \/ FetchNext \/ LanesNext
      BY <3>1, DiscoverDrain, FetchDrain, LanesDrain DEF publishVars
    <3>2. CASE Closing \/ UNCHANGED vars
      BY <3>2 DEF Closing, CloseJobs, ClosePayloads, CloseLanes,
                  CloseFindings, RunReturns, Cancel, publishVars, vars
    <3> QED
      BY <1>3, <3>1, <3>2 DEF Next, Closing, Crash, Restart, Finished
  <2>2. \/ UNCHANGED <<main, cancelled>>
        \/ Closing
    BY <1>3, DiscoverDrain, FetchDrain, LanesDrain
       DEF Next, Closing, Crash, Restart, Finished, vars, runVars
  <2>3. /\ FindingsClosed => FindingsClosed'
        /\ main' = "ended" => main = "ended" \/ pub = "returned"
    BY <2>2 DEF Closing, CloseJobs, ClosePayloads, CloseLanes, CloseFindings,
                RunReturns, Cancel, FindingsClosed, runVars
  <2>4. cancelled => cancelled'
    BY <1>3, StepSignal
  <2>5. ASSUME NEW x \in Findings, task'[x] \in {"found", "batched"}
        PROVE  /\ task[x] = task'[x] \/ task'[x] = "found"
               /\ FindingsClosed => task[x] = task'[x]
    <3>1. CASE x[2] \in Scanners /\ LaneStep(x[1], x[2])
      <4>1. /\ x = <<x[1], x[2]>> /\ x[1] \in Refs
            /\ task'[x] # "batched"
        BY <3>1, LaneStepMoves DEF Findings, Using, TaskMoves
      <4>2. ~FindingsClosed
        BY <3>1, <4>1, LaneDrain, IdleLane
           DEF Drained, ClosedInOrder, FindingsClosed, LanesClosed
      <4> QED
        BY <2>5, <4>1, <4>2
    <3>2. CASE x[2] = SizeGate /\ EmitGap(x[1]) /\ task'[x] = "found"
      BY <3>2 DEF EmitGap, emitting, Drained, ClosedInOrder, FindingsClosed,
                  JobsClosed
    <3>3. CASE task'[x] = task[x]
      BY <2>5, <3>3
    <3> QED
      BY <1>3, <3>1, <3>2, <3>3, StepFinding DEF PublishNext
  <2>6. /\ PublishBatch' \subseteq PublishBatch
        /\ FindingsClosed => Found' \subseteq Found
    BY <2>5 DEF PublishBatch, Found
  <2> QED
    BY <2>1, <2>3, <2>4, <2>6 DEF PublisherDrained
<1> QED
  BY <1>1, <1>2, <1>3

\* Without a cancellation, and with stores that take what they are given, no
\* reference and no finding is dropped on the way.
LEMMA StepStages ==
  ASSUME ~MayFail("database"), WellTyped, SeenAreRecorded, [Next]_vars,
         ~cancelled, ~NewProcess, NEW r \in Refs, stage'[r] # stage[r]
  PROVE  /\ stage'[r] \notin {"unread", "dropped", "lost"}
         /\ stage'[r] = "skipped" => FileOf[r] \in records
         /\ stage'[r] = "gated" => EmitGap(r)
<1> USE DEF WellTyped
<1> DEFINE Goal == /\ stage'[r] \notin {"unread", "dropped", "lost"}
                   /\ stage'[r] = "skipped" => FileOf[r] \in records
                   /\ stage'[r] = "gated" => EmitGap(r)
<1>1. ASSUME NEW q \in Refs, EmitSkipped(q) PROVE Goal
  BY <1>1 DEF EmitSkipped, SeenAreRecorded, TypeOK
<1>2. ASSUME NEW q \in Refs, EmitGap(q) PROVE Goal
  BY <1>2 DEF EmitGap, TypeOK
<1>3. ASSUME NEW q \in Refs, ReadRef(q) \/ EmitJob(q) PROVE Goal
  BY <1>3 DEF ReadRef, EmitJob, TypeOK
<1>4. ~ \/ StreamEnds \/ DedupTimer \/ QuerySeen \/ QueryFails \/ FlushEnds
        \/ DiscoverCancelled
  BY DEF StreamEnds, DedupTimer, QuerySeen, QueryFails, FlushEnds,
         DiscoverCancelled
<1>5. ASSUME NEW q \in Refs,
             \/ TakeJob(q) \/ TakeJobCancelled(q) \/ ReserveBytes(q)
             \/ ReserveFails(q) \/ StartTransfer(q) \/ StartFails(q)
             \/ FinishTransfer(q) \/ TransferFails(q) \/ SendPayload(q)
             \/ SendPayloadCancelled(q)
      PROVE  Goal
  BY <1>5 DEF TypeOK, TakeJob, TakeJobCancelled, ReserveBytes, ReserveFails,
              StartTransfer, StartFails, FinishTransfer, TransferFails,
              SendPayload, SendPayloadCancelled
<1>6. ASSUME NEW q \in Refs, NEW s \in Scanners, LaneStep(q, s) PROVE Goal
  BY <1>6, LaneDrain DEF TypeOK
<1>7. ASSUME NEW q \in Refs, TakePayload(q) PROVE Goal
  BY <1>7 DEF TypeOK, TakePayload
<1>8. ~ \/ PublishNext \/ Closing \/ DispatcherExits \/ FetcherExits
        \/ UNCHANGED vars
  BY PublishDrain, ClosingDrain DEF DispatcherExits, FetcherExits, vars
<1> QED
  BY <1>1, <1>2, <1>3, <1>4, <1>5, <1>6, <1>7, <1>8
     DEF Next, DiscoverNext, FetchNext, LanesNext, LaneStep, Closing, Crash,
         Restart, Finished

\* Findings are dropped by a failing store or by the signal, nothing else.
LEMMA StepDropped ==
  ASSUME ~MayFail("database"), ~MayFail("sink"), WellTyped, PublisherDrained,
         [Next]_vars, ~cancelled, NEW x \in Findings, task[x] # "dropped"
  PROVE  task'[x] # "dropped"
<1> USE DEF WellTyped
<1>1. CASE x[2] \in Scanners /\ LaneStep(x[1], x[2])
  <2>1. x = <<x[1], x[2]>> /\ x[1] \in Refs
    BY DEF Findings
  <2>2. task'[<<x[1], x[2]>>] # "dropped"
    BY <1>1, <2>1
       DEF TypeOK, LaneStep, Offer, Spill, DispatchCancelled, TakeTask, Admit,
           AdmitCancelled, Park, ScanAnswers, ScanPends, HandoffRecord,
           HandoffNotify, SendFinding, SendFindingCancelled
  <2> QED
    BY <2>1, <2>2
<1>2. ~SendFails
  BY DEF SendFails
<1>3. CASE NewProcess
  BY <1>3 DEF NewProcess
<1> QED
  BY <1>1, <1>2, <1>3, StepFinding

\* The publisher keeps a gap's finding until it is sent.
LEMMA StepGap ==
  ASSUME ~MayFail("sink"), WellTyped, [Next]_vars, ~cancelled, ~NewProcess,
         NEW r \in Refs,
         task[<<r, SizeGate>>] \in {"found", "batched", "published"}
           \/ EmitGap(r)
  PROVE  task'[<<r, SizeGate>>] \in {"found", "batched", "published"}
<1> USE DEF WellTyped
<1>0. <<r, SizeGate>> \in Findings /\ SizeGate \notin Scanners
  BY GateAssumption DEF Findings
<1>1. CASE EmitGap(r)
  BY <1>0, <1>1 DEF EmitGap, TypeOK
<1>2. ~SendFails
  BY DEF SendFails
<1> QED
  BY <1>0, <1>1, <1>2, StepFinding

\* Discovery ends on its own only when a lister has walked the bucket.
LEMMA StepStream ==
  ASSUME ~MayFail("database"), TypeOK, [Next]_vars, ~cancelled, ~NewProcess,
         disc' \in {"lastquerying", "lastemitting", "returned"}
  PROVE  \/ disc \in {"lastquerying", "lastemitting", "returned"}
         \/ ~OpenEnded /\ \A r \in Refs : stage[r] # "unread"
<1>1. CASE DiscoverNext
  BY <1>1 DEF DiscoverNext, ReadRef, StreamEnds, DedupTimer, QuerySeen,
              QueryFails, EmitSkipped, EmitGap, EmitJob, FlushEnds,
              DiscoverCancelled, AfterFlush, discoverVars, emitting
<1>2. CASE ~DiscoverNext
  <2>1. disc' = disc
    BY <1>2, FetchDrain, LanesDrain, PublishDrain, ClosingDrain
       DEF Next, Closing, Crash, Restart, Finished, vars, discoverVars
  <2> QED
    BY <2>1
<1> QED
  BY <1>1, <1>2

\* Every step keeps the references answered for.
LEMMA StepAnswering ==
  ASSUME ~MayFail("database"), ~MayFail("sink")
  PROVE  IInv /\ SeenAreRecorded /\ PublisherDrained /\ Answering
           /\ [Next]_vars => Answering'
<1> SUFFICES ASSUME IInv, SeenAreRecorded, PublisherDrained, Answering,
                    [Next]_vars, ~cancelled'
             PROVE  /\ disc' \in {"lastquerying", "lastemitting", "returned"}
                         => /\ ~OpenEnded
                            /\ \A r \in Refs : stage'[r] # "unread"
                    /\ \A r \in Refs :
                          /\ stage'[r] # "dropped"
                          /\ stage'[r] = "lost" => OpenEnded
                          /\ stage'[r] = "skipped" => FileOf[r] \in records'
                          /\ stage'[r] = "gated"
                               => task'[<<r, SizeGate>>] \in
                                     {"found", "batched", "published"}
                          /\ \A s \in Scanners : task'[<<r, s>>] # "dropped"
  BY DEF Answering
<1> USE DEF IInv, WellTyped
<1>1. CASE NewProcess
  <2>1. \A r \in Refs, s \in Scanners : task'[<<r, s>>] = "none"
    BY <1>1, TaskFinding DEF NewProcess
  <2> QED
    BY <1>1, <2>1 DEF NewProcess, NextStreams
<1>2. CASE ~NewProcess
  <2>1. ~cancelled
    BY <1>2, StepSignal
  <2>2. disc' \in {"lastquerying", "lastemitting", "returned"}
          => ~OpenEnded /\ \A r \in Refs : stage'[r] # "unread"
    <3>1. disc' \in {"lastquerying", "lastemitting", "returned"}
            => ~OpenEnded /\ \A r \in Refs : stage[r] # "unread"
      BY <1>2, <2>1, StepStream DEF Answering
    <3> QED
      BY <1>2, <2>1, <3>1, StepStages
  <2>3. ASSUME NEW r \in Refs
        PROVE  /\ stage'[r] # "dropped"
               /\ stage'[r] = "lost" => OpenEnded
               /\ stage'[r] = "skipped" => FileOf[r] \in records'
    <3>1. records \subseteq records'
      BY StepRecords
    <3>2. CASE stage'[r] = stage[r]
      BY <2>1, <3>1, <3>2 DEF Answering
    <3>3. CASE stage'[r] # stage[r]
      BY <1>2, <2>1, <3>1, <3>3, StepStages
    <3> QED
      BY <3>2, <3>3
  <2>4. ASSUME NEW r \in Refs, stage'[r] = "gated"
        PROVE  task'[<<r, SizeGate>>] \in {"found", "batched", "published"}
    <3>1. \/ task[<<r, SizeGate>>] \in {"found", "batched", "published"}
          \/ EmitGap(r)
      <4>1. CASE stage'[r] = stage[r]
        BY <2>1, <2>4, <4>1 DEF Answering
      <4>2. CASE stage'[r] # stage[r]
        BY <1>2, <2>1, <2>4, <4>2, StepStages
      <4> QED
        BY <4>1, <4>2
    <3> QED
      BY <1>2, <2>1, <3>1, StepGap
  <2>5. ASSUME NEW r \in Refs, NEW s \in Scanners
        PROVE  task'[<<r, s>>] # "dropped"
    BY <2>1, TaskFinding, StepDropped DEF Answering
  <2> QED
    BY <2>2, <2>3, <2>4, <2>5
<1> QED
  BY <1>1, <1>2

\* What a clean end rests on.
Reliable ==
    /\ ToRecordArePublished /\ RecordedIsPast /\ PublishedAreInSink
    /\ SeenAreRecorded /\ PendingWhileElsewhere /\ PublisherDrained
    /\ Answering

\* What a clean end rests on holds at the start.
LEMMA InitReliable == Init => Reliable
<1> SUFFICES ASSUME Init PROVE Reliable
  OBVIOUS
<1>1. PublishedAreInSink /\ ToRecordArePublished /\ SeenAreRecorded
  BY DEF Init, PublishedAreInSink, ToRecordArePublished, SeenAreRecorded
<1>2. PendingWhileElsewhere /\ Answering
  BY TaskFinding DEF Init, PendingWhileElsewhere, Answering
<1>3. PublisherDrained /\ RecordedIsPast
  BY DEF Init, DurableInit, PublisherDrained, RecordedIsPast
<1> QED
  BY <1>1, <1>2, <1>3 DEF Reliable

\* A reference at a clean end.
LEMMA CleanEnd ==
  ASSUME IInv, Accounts, Drained, Reliable
  PROVE  CleanEndAnswersAll
<1> SUFFICES ASSUME main = "ended", ~cancelled, NEW r \in Refs
             PROVE  \/ stage[r] = "skipped" /\ FileOf[r] \in records
                    \/ stage[r] = "gated"
                       /\ sink[<<FileOf[r], SizeGate>>] = "answer"
                    \/ stage[r] = "failed" /\ FileOf[r] \notin records
                    \/ /\ stage[r] = "analyzing"
                       /\ \A s \in Scanners : Accounted(FileOf[r], s)
  BY DEF CleanEndAnswersAll
<1> USE DEF IInv, WellTyped, Reliable
<1>1. /\ disc = "returned" /\ fetchers = 0 /\ disp = "exited"
      /\ DedupBatched = {}
      /\ \A s \in Scanners, q \in Refs : task[<<q, s>>] \notin InLane
  BY IdleLane DEF Drained, ClosedInOrder, JobsClosed, PayloadsClosed,
                  LanesClosed, FindingsClosed
<1>2. /\ Jobs = {} /\ InFetch = {} /\ Payloads = {} /\ Dispatching = {}
      /\ PublishBatch = {} /\ Found = {}
  BY <1>1, NoFetcher, PipelineAssumption
     DEF Drained, NothingLeftBehind, PublisherDrained
<1>3. /\ stage[r] \notin {"unread", "dropped", "lost"}
      /\ stage[r] = "skipped" => FileOf[r] \in records
  BY <1>1 DEF Answering
<1>4. stage[r] \in {"skipped", "gated", "failed", "analyzing"}
  BY <1>1, <1>2, <1>3 DEF TypeOK, Stages, DedupBatched, Jobs, InFetch,
                          Payloads, Dispatching
<1>5. ASSUME stage[r] = "gated"
      PROVE  sink[<<FileOf[r], SizeGate>>] = "answer"
  <2>1. <<r, SizeGate>> \in Findings
    BY DEF Findings
  <2>2. task[<<r, SizeGate>>] = "published"
    BY <1>2, <1>5, <2>1 DEF Answering, Found, PublishBatch
  <2>3. DocOf(<<r, SizeGate>>) = <<FileOf[r], SizeGate>>
    BY DEF DocOf
  <2> QED
    BY <2>1, <2>2, <2>3 DEF PublishedAreInSink
<1>6. stage[r] = "failed" => FileOf[r] \notin records
  BY DEF RecordedIsPast, Fanned
<1>7. ASSUME stage[r] = "analyzing", NEW s \in Scanners
      PROVE  Accounted(FileOf[r], s)
  <2>1. <<r, s>> \in Findings /\ <<FileOf[r], s>> \in Tasks
    BY TaskFinding
  <2>2. task[<<r, s>>] \in {"published", "parked", "handed"}
    <3>1. task[<<r, s>>] \in TaskStates \ InLane
      BY <1>1, <2>1 DEF TypeOK
    <3>2. task[<<r, s>>] \notin {"found", "batched"}
      BY <1>2, <2>1 DEF Found, PublishBatch
    <3>3. task[<<r, s>>] # "none"
      BY <1>7 DEF Drained, NothingLeftBehind
    <3>4. task[<<r, s>>] # "dropped"
      BY DEF Answering
    <3> QED
      BY <3>1, <3>2, <3>3, <3>4 DEF TaskStates, InLane
  <2>3. CASE task[<<r, s>>] = "published"
    <3>1. DocOf(<<r, s>>) = <<FileOf[r], s>>
      BY DEF DocOf
    <3> QED
      BY <2>1, <2>3, <3>1 DEF PublishedAreInSink, Accounted
  <2>4. CASE task[<<r, s>>] \in {"parked", "handed"}
    BY <2>4 DEF PendingWhileElsewhere, Accounted
  <2> QED
    BY <2>2, <2>3, <2>4
<1> QED
  BY <1>3, <1>4, <1>5, <1>6, <1>7

\* A run that ends without a cancellation, with stores that take what they are
\* given and a source that delivers each object once, has answered for every
\* reference, whatever transfers, scans, messages and earlier runs failed.
THEOREM CleanEndAnswersForAll ==
  ASSUME DeliveredOnce, ~MayFail("database"), ~MayFail("sink")
  PROVE  Spec => []CleanEndAnswersAll
<1>1. IInv /\ Accounts /\ Drained /\ Reliable /\ [Next]_vars => Reliable'
  BY StepToRecord, StepRecorded, StepPublished, StepSeen, StepElsewhere,
     StepPublisher, StepAnswering DEF Reliable, IInv
<1>2. IInv /\ Accounts /\ Drained /\ Reliable => CleanEndAnswersAll
  BY CleanEnd
<1> QED
  BY InitReliable, <1>1, <1>2, Invariant, AccountsHeld, DrainHeld, PTL
     DEF Spec

============================================================================
