----------------------------- MODULE Discover -----------------------------
(***************************************************************************)
(* runDiscover: read references, answer a batch of them against the file   *)
(* records in one query, and emit what is left as fetch jobs or as         *)
(* coverage-gap findings.  One goroutine: it does not read while it        *)
(* emits, and a full channel holds it where it is.                         *)
(*                                                                         *)
(* The batch is flushed when it is full, when its timer fires, and when    *)
(* the stream closes; the two "last" positions are that final flush, after *)
(* which runDiscover returns.                                              *)
(***************************************************************************)
EXTENDS PipelineState

DedupBatched == {r \in Refs : stage[r] = "batched"}

TooLarge(r) == MaxObjectSize > 0 /\ SizeOf[r] > MaxObjectSize

emitting == disc \in {"emitting", "lastemitting"}

\* The end of flush, which empties the batch: back to the select, or out.
AfterFlush == IF disc \in {"lastquerying", "lastemitting"}
              THEN "returned" ELSE "reading"

DropBatch == [r \in Refs |-> IF stage[r] = "batched" THEN "dropped"
                                                      ELSE stage[r]]

\* A reference arrives; the one that fills the batch flushes it.
ReadRef(r) ==
    /\ disc = "reading" /\ stage[r] = "unread"
    /\ stage' = [stage EXCEPT ![r] = "batched"]
    /\ disc' = IF Cardinality(DedupBatched) + 1 >= DedupBatch
               THEN "querying" ELSE "reading"
    /\ UNCHANGED <<task, payloadVars, seen, fetchers, disp, publishVars,
                   runVars, durable>>

\* The stream closes: a lister has walked the bucket, or the source's own
\* goroutine saw the cancelled context and stopped with references unread.
StreamEnds ==
    /\ disc = "reading"
    /\ \/ ~OpenEnded /\ \A r \in Refs : stage[r] # "unread"
       \/ cancelled
    /\ disc' = IF DedupBatched = {} THEN "returned" ELSE "lastquerying"
    /\ UNCHANGED <<stage, task, payloadVars, seen, fetchers, disp,
                   publishVars, runVars, durable>>

\* Mutant of DedupTimer: the timer flushes a full batch only.
DedupTimerNeedsFull ==
    /\ disc = "reading" /\ Cardinality(DedupBatched) >= DedupBatch
    /\ disc' = "querying"
    /\ UNCHANGED <<stage, task, payloadVars, seen, fetchers, disp,
                   publishVars, runVars, durable>>

\* dedupFlushInterval after the first reference entered an empty batch.
DedupTimer ==
    /\ disc = "reading" /\ DedupBatched # {}
    /\ disc' = "querying"
    /\ UNCHANGED <<stage, task, payloadVars, seen, fetchers, disp,
                   publishVars, runVars, durable>>

\* Mutant of QuerySeen: the answer of the query is not used.
QuerySeenIgnored ==
    /\ disc \in {"querying", "lastquerying"}
    /\ seen' = {}
    /\ disc' = IF disc = "querying" THEN "emitting" ELSE "lastemitting"
    /\ UNCHANGED <<stage, task, payloadVars, fetchers, disp, publishVars,
                   runVars, durable>>

\* SeenFileIDs: one answer for the whole batch, used until it is emitted.
QuerySeen ==
    /\ disc \in {"querying", "lastquerying"}
    /\ seen' = {FileOf[r] : r \in DedupBatched} \cap records
    /\ disc' = IF disc = "querying" THEN "emitting" ELSE "lastemitting"
    /\ UNCHANGED <<stage, task, payloadVars, fetchers, disp, publishVars,
                   runVars, durable>>

\* An error of the query ends discovery; the batch goes with it.
QueryFails ==
    /\ MayFail("database")
    /\ disc \in {"querying", "lastquerying"}
    /\ disc' = "returned"
    /\ stage' = DropBatch
    /\ UNCHANGED <<task, payloadVars, seen, fetchers, disp, publishVars,
                   runVars, durable>>

EmitSkipped(r) ==
    /\ emitting /\ stage[r] = "batched"
    /\ FileOf[r] \in seen
    /\ stage' = [stage EXCEPT ![r] = "skipped"]
    /\ UNCHANGED <<task, payloadVars, discoverVars, fetchers, disp,
                   publishVars, runVars, durable>>

\* An object past MAX_OBJECT_SIZE is not fetched; that it was not scanned is
\* published as a finding of the size gate.
EmitGap(r) ==
    /\ emitting /\ stage[r] = "batched"
    /\ FileOf[r] \notin seen /\ TooLarge(r)
    /\ HasRoom(Found)
    /\ stage' = [stage EXCEPT ![r] = "gated"]
    /\ task' = [task EXCEPT ![<<r, SizeGate>>] = "found"]
    /\ UNCHANGED <<payloadVars, discoverVars, fetchers, disp, publishVars,
                   runVars, durable>>

EmitJob(r) ==
    /\ emitting /\ stage[r] = "batched"
    /\ FileOf[r] \notin seen /\ ~TooLarge(r)
    /\ HasRoom(Jobs)
    /\ stage' = [stage EXCEPT ![r] = "job"]
    /\ UNCHANGED <<task, payloadVars, discoverVars, fetchers, disp,
                   publishVars, runVars, durable>>

FlushEnds ==
    /\ emitting /\ DedupBatched = {}
    /\ disc' = AfterFlush
    /\ UNCHANGED <<stage, task, payloadVars, seen, fetchers, disp,
                   publishVars, runVars, durable>>

\* ctx.Done() in the select that reads, or in one that sends: discovery
\* returns without flushing, and what is left of the batch is not emitted.
DiscoverCancelled ==
    /\ cancelled
    /\ \/ disc = "reading"
       \/ emitting /\ \E r \in DedupBatched : FileOf[r] \notin seen
    /\ disc' = "returned"
    /\ stage' = DropBatch
    /\ UNCHANGED <<task, payloadVars, seen, fetchers, disp, publishVars,
                   runVars, durable>>

DiscoverNext ==
    \/ \E r \in Refs : \/ ReadRef(r) \/ EmitSkipped(r) \/ EmitGap(r)
                       \/ EmitJob(r)
    \/ StreamEnds \/ DedupTimer \/ QuerySeen \/ QueryFails \/ FlushEnds
    \/ DiscoverCancelled
============================================================================
