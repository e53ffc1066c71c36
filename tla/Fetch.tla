------------------------------- MODULE Fetch ------------------------------
(***************************************************************************)
(* runFetch and fetchOne: FETCH_MAX_CONNS goroutines take jobs, reserve    *)
(* the object's bytes, then a connection, and stream the object to         *)
(* workDir/<FileID>.  The reservation travels on with the payload; the     *)
(* connection is returned when the transfer ends.                          *)
(***************************************************************************)
EXTENDS PipelineState

\* The references a fetch goroutine is working on, one each.
InFetch == {r \in Refs : stage[r] \in {"reserving", "connecting", "copying",
                                       "fetched"}}
Copying == {r \in Refs : stage[r] = "copying"}

IdleFetcher == Cardinality(InFetch) < fetchers

TakeJob(r) ==
    /\ stage[r] = "job" /\ IdleFetcher /\ ~cancelled
    /\ stage' = [stage EXCEPT ![r] = "reserving"]
    /\ UNCHANGED <<task, payloadVars, discoverVars, fetchers, disp,
                   publishVars, runVars, durable>>

\* A goroutine that receives a job after the cancellation returns with it.
TakeJobCancelled(r) ==
    /\ stage[r] = "job" /\ IdleFetcher /\ cancelled
    /\ stage' = [stage EXCEPT ![r] = "dropped"]
    /\ fetchers' = fetchers - 1
    /\ UNCHANGED <<task, payloadVars, discoverVars, disp, publishVars,
                   runVars, durable>>

\* Mutant of ReserveBytes: room for one byte is room for all of them.
ReserveAnyRoom(r) ==
    /\ stage[r] = "reserving" /\ SizeOf[r] >= 0
    /\ inFlight < FetchByteBudget
    /\ stage' = [stage EXCEPT ![r] = "connecting"]
    /\ reserved' = [reserved EXCEPT ![r] = TRUE]
    /\ inFlight' = inFlight + Weight(r)
    /\ UNCHANGED <<task, refcnt, file, discoverVars, fetchers, disp,
                   publishVars, runVars, durable>>

ReserveBytes(r) ==
    /\ stage[r] = "reserving" /\ SizeOf[r] >= 0
    /\ inFlight + Weight(r) <= FetchByteBudget
    /\ stage' = [stage EXCEPT ![r] = "connecting"]
    /\ reserved' = [reserved EXCEPT ![r] = TRUE]
    /\ inFlight' = inFlight + Weight(r)
    /\ UNCHANGED <<task, refcnt, file, discoverVars, fetchers, disp,
                   publishVars, runVars, durable>>

\* Acquire's own errors: a negative size, or the context.
ReserveFails(r) ==
    /\ stage[r] = "reserving"
    /\ SizeOf[r] < 0 \/ cancelled
    /\ stage' = [stage EXCEPT ![r] = "failed"]
    /\ UNCHANGED <<task, payloadVars, discoverVars, fetchers, disp,
                   publishVars, runVars, durable>>

\* A connection slot, the object opened, and the temp file created: a second
\* transfer of the same FileID truncates the file the first one wrote.
StartTransfer(r) ==
    /\ stage[r] = "connecting"
    /\ Cardinality(Copying) < FetchMaxConns
    /\ stage' = [stage EXCEPT ![r] = "copying"]
    /\ file' = [file EXCEPT ![FileOf[r]] = TRUE]
    /\ UNCHANGED <<task, refcnt, reserved, inFlight, discoverVars, fetchers,
                   disp, publishVars, runVars, durable>>

\* Mutant of StartFails: the error path forgets releaseBytes.
StartFailsHolding(r) ==
    /\ stage[r] = "connecting"
    /\ cancelled \/ MayFail("open")
    /\ stage' = [stage EXCEPT ![r] = "failed"]
    /\ UNCHANGED <<task, payloadVars, discoverVars, fetchers, disp,
                   publishVars, runVars, durable>>

\* No slot before the cancellation, or Open or Create failed: the bytes go
\* back, and there is no file to remove.
StartFails(r) ==
    /\ stage[r] = "connecting"
    /\ cancelled \/ MayFail("open")
    /\ stage' = [stage EXCEPT ![r] = "failed"]
    /\ ReleaseBytes(r)
    /\ UNCHANGED <<task, refcnt, file, discoverVars, fetchers, disp,
                   publishVars, runVars, durable>>

FinishTransfer(r) ==
    /\ stage[r] = "copying"
    /\ stage' = [stage EXCEPT ![r] = "fetched"]
    /\ UNCHANGED <<task, payloadVars, discoverVars, fetchers, disp,
                   publishVars, runVars, durable>>

\* The body ended in an error: the partial file is removed.
TransferFails(r) ==
    /\ stage[r] = "copying"
    /\ cancelled \/ MayFail("open")
    /\ stage' = [stage EXCEPT ![r] = "failed"]
    /\ Free(r)
    /\ UNCHANGED <<task, refcnt, discoverVars, fetchers, disp, publishVars,
                   runVars, durable>>

SendPayload(r) ==
    /\ stage[r] = "fetched" /\ HasRoom(Payloads)
    /\ stage' = [stage EXCEPT ![r] = "payload"]
    /\ UNCHANGED <<task, payloadVars, discoverVars, fetchers, disp,
                   publishVars, runVars, durable>>

SendPayloadCancelled(r) ==
    /\ stage[r] = "fetched" /\ cancelled
    /\ stage' = [stage EXCEPT ![r] = "dropped"]
    /\ Free(r)
    /\ fetchers' = fetchers - 1
    /\ UNCHANGED <<task, refcnt, discoverVars, disp, publishVars, runVars,
                   durable>>

\* Mutant of FetcherExits: a goroutine is counted out whether or not it has
\* returned.
FetcherCountedOut ==
    /\ JobsClosed /\ Jobs = {}
    /\ fetchers' = fetchers - 1
    /\ UNCHANGED <<stage, task, payloadVars, discoverVars, disp, publishVars,
                   runVars, durable>>

\* The jobs channel is closed and empty: an idle goroutine returns.
FetcherExits ==
    /\ JobsClosed /\ Jobs = {} /\ IdleFetcher
    /\ fetchers' = fetchers - 1
    /\ UNCHANGED <<stage, task, payloadVars, discoverVars, disp, publishVars,
                   runVars, durable>>

FetchNext ==
    \/ \E r \in Refs :
          \/ TakeJob(r) \/ TakeJobCancelled(r)
          \/ ReserveBytes(r) \/ ReserveFails(r)
          \/ StartTransfer(r) \/ StartFails(r)
          \/ FinishTransfer(r) \/ TransferFails(r)
          \/ SendPayload(r) \/ SendPayloadCancelled(r)
    \/ FetcherExits
============================================================================
