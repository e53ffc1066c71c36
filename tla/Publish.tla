------------------------------ MODULE Publish -----------------------------
(***************************************************************************)
(* runPublish, flush and send: one goroutine batches findings, sends a     *)
(* batch to the sink, and once the sink has accepted it records the batch's *)
(* objects as scanned.                                                     *)
(*                                                                         *)
(* A batch is flushed when it is full, when its timer fires or it outgrows *)
(* PUBLISH_MAX_BYTES (both are FlushTimer here: the sizes of documents are *)
(* abstracted, so either may come at any time), when the findings channel  *)
(* is closed, and, with a context of its own, when the run is cancelled.   *)
(* After the last two runPublish returns.                                  *)
(***************************************************************************)
EXTENDS PipelineState

PublishBatch == {x \in Findings : task[x] = "batched"}

DocOf(x) == <<FileOf[x[1]], x[2]>>

sending == pub \in {"sending", "lastsending", "detached"}
marking == pub \in {"marking", "lastmarking"}

Collect(x) ==
    /\ pub = "collecting" /\ task[x] = "found"
    /\ task' = [task EXCEPT ![x] = "batched"]
    /\ pub' = IF Cardinality(PublishBatch) + 1 >= PublishBatchSize
              THEN "sending" ELSE "collecting"
    /\ UNCHANGED <<stage, payloadVars, discoverVars, fetchers, disp, toRecord,
                   runVars, durable>>

FlushTimer ==
    /\ pub = "collecting" /\ PublishBatch # {}
    /\ pub' = "sending"
    /\ UNCHANGED <<stage, task, payloadVars, discoverVars, fetchers, disp,
                   toRecord, runVars, durable>>

\* Mutant of FindingsDrained: the last, partial batch is not flushed.
FindingsDrainedUnflushed ==
    /\ pub = "collecting" /\ FindingsClosed /\ Found = {}
    /\ pub' = "returned"
    /\ UNCHANGED <<stage, task, payloadVars, discoverVars, fetchers, disp,
                   toRecord, runVars, durable>>

FindingsDrained ==
    /\ pub = "collecting" /\ FindingsClosed /\ Found = {}
    /\ pub' = IF PublishBatch = {} THEN "returned" ELSE "lastsending"
    /\ UNCHANGED <<stage, task, payloadVars, discoverVars, fetchers, disp,
                   toRecord, runVars, durable>>

\* ctx.Done(): the batch is still flushed, with a context that is not
\* cancelled; what is in the channel, or arrives later, is left there.
PublishCancelled ==
    /\ pub = "collecting" /\ cancelled
    /\ pub' = IF PublishBatch = {} THEN "returned" ELSE "detached"
    /\ UNCHANGED <<stage, task, payloadVars, discoverVars, fetchers, disp,
                   toRecord, runVars, durable>>

Accept(batch) ==
    sink' = [d \in Docs |-> IF d \in {DocOf(x) : x \in batch}
                            THEN "answer" ELSE sink[d]]

Sent(outcome) == [x \in Findings |-> IF task[x] = "batched"
                                     THEN outcome ELSE task[x]]

SendSucceeds ==
    /\ sending
    /\ Accept(PublishBatch)
    /\ task' = Sent("published")
    /\ toRecord' = {x \in PublishBatch : x[2] # SizeGate}
    /\ pub' = IF pub = "sending" THEN "marking" ELSE "lastmarking"
    /\ UNCHANGED <<stage, payloadVars, discoverVars, fetchers, disp, runVars,
                   records, ledger, topic>>

\* Mutant of SendFails: the batch's objects are recorded all the same.
SendFailsRecording ==
    /\ sending
    /\ MayFail("sink") \/ (cancelled /\ pub # "detached")
    /\ \E part \in SUBSET PublishBatch : Accept(part)
    /\ task' = Sent("dropped")
    /\ toRecord' = {x \in PublishBatch : x[2] # SizeGate}
    /\ pub' = IF pub = "sending" THEN "marking" ELSE "lastmarking"
    /\ UNCHANGED <<stage, payloadVars, discoverVars, fetchers, disp,
                   runVars, records, ledger, topic>>

\* The sink is down, or rejects some document, or the context the request
\* carries has ended.  Part of the batch may have been written; none of it
\* is recorded, and the findings are gone.
SendFails ==
    /\ sending
    /\ MayFail("sink") \/ (cancelled /\ pub # "detached")
    /\ \E part \in SUBSET PublishBatch : Accept(part)
    /\ task' = Sent("dropped")
    /\ pub' = IF pub = "sending" THEN "collecting" ELSE "returned"
    /\ UNCHANGED <<stage, payloadVars, discoverVars, fetchers, disp, toRecord,
                   runVars, records, ledger, topic>>

\* Mutant of MarkObject: the UPDATE has no scanner in its WHERE.
MarkObjectAllScanners(x) ==
    /\ marking /\ x \in toRecord
    /\ toRecord' = {y \in toRecord : FileOf[y[1]] # FileOf[x[1]]}
    /\ records' = records \cup {FileOf[x[1]]}
    /\ ledger' = [t \in Tasks |-> IF t[1] = FileOf[x[1]]
                                  THEN MarkDone(ledger[t]) ELSE ledger[t]]
    /\ UNCHANGED <<stage, task, payloadVars, discoverVars, fetchers, disp,
                   pub, runVars, sink, topic>>

\* One object of the batch: its record is written, and then the ledger row of
\* the scanner whose finding came first is closed.  Either write may fail; the
\* findings that follow for the same object are passed over.
MarkObject(x) ==
    /\ marking /\ x \in toRecord
    /\ toRecord' = {y \in toRecord : FileOf[y[1]] # FileOf[x[1]]}
    /\ \/ /\ records' = records \cup {FileOf[x[1]]}
          /\ \/ SetRow(FileOf[x[1]], x[2], MarkDone(ledger[DocOf(x)]))
             \/ MayFail("database") /\ UNCHANGED ledger
       \/ MayFail("database") /\ UNCHANGED <<records, ledger>>
    /\ UNCHANGED <<stage, task, payloadVars, discoverVars, fetchers, disp,
                   pub, runVars, sink, topic>>

MarkingEnds ==
    /\ marking /\ toRecord = {}
    /\ pub' = IF pub = "marking" THEN "collecting" ELSE "returned"
    /\ UNCHANGED <<stage, task, payloadVars, discoverVars, fetchers, disp,
                   toRecord, runVars, durable>>

PublishNext ==
    \/ \E x \in Findings : Collect(x) \/ MarkObject(x)
    \/ FlushTimer \/ FindingsDrained \/ PublishCancelled
    \/ SendSucceeds \/ SendFails \/ MarkingEnds
============================================================================
