----------------------------- MODULE Pipeline -----------------------------
(***************************************************************************)
(* Pipeline.Run: the stages composed, the order in which Run closes the    *)
(* channels between them, and what can happen to the process.              *)
(***************************************************************************)
EXTENDS Discover, Fetch, Lanes, Publish, Functions

------------------------------------------------------------------------
(* Run, which closes a channel only when nothing can still send to it.     *)

CloseJobs ==
    /\ main = "discovering" /\ disc = "returned"
    /\ main' = "fetching"
    /\ UNCHANGED <<stage, task, payloadVars, discoverVars, fetchers, disp,
                   publishVars, cancelled, runs, durable>>

ClosePayloads ==
    /\ main = "fetching" /\ fetchers = 0
    /\ main' = "dispatching"
    /\ UNCHANGED <<stage, task, payloadVars, discoverVars, fetchers, disp,
                   publishVars, cancelled, runs, durable>>

CloseLanes ==
    /\ main = "dispatching" /\ disp = "exited"
    /\ main' = "scanning"
    /\ UNCHANGED <<stage, task, payloadVars, discoverVars, fetchers, disp,
                   publishVars, cancelled, runs, durable>>

CloseFindings ==
    /\ main = "scanning" /\ \A s \in Scanners : LaneIdle(s)
    /\ main' = "publishing"
    /\ UNCHANGED <<stage, task, payloadVars, discoverVars, fetchers, disp,
                   publishVars, cancelled, runs, durable>>

RunReturns ==
    /\ main = "publishing" /\ pub = "returned"
    /\ main' = "ended"
    /\ UNCHANGED <<stage, task, payloadVars, discoverVars, fetchers, disp,
                   publishVars, cancelled, runs, durable>>

------------------------------------------------------------------------
(* The process: SIGINT or SIGTERM cancels the context; a crash loses what  *)
(* is in memory; the next run starts on what is durable.                   *)

Cancel ==
    /\ MayFail("cancel") /\ ~cancelled /\ main # "ended"
    /\ cancelled' = TRUE
    /\ UNCHANGED <<stage, task, payloadVars, discoverVars, fetchers, disp,
                   publishVars, main, runs, durable>>

\* A lister walks the bucket again.  Of what an event source had sent, the
\* part it had committed is gone, and the rest is delivered again.
NextStreams ==
    {stream \in [Refs -> {"unread", "lost"}] :
        \A r \in Refs : stream[r] = "lost" => OpenEnded /\ stage[r] # "unread"}

NewProcess ==
    /\ runs < MaxRuns
    /\ runs' = runs + 1
    /\ stage' \in NextStreams
    /\ task' = [x \in Findings |-> "none"]
    /\ refcnt' = [r \in Refs |-> 0]
    /\ reserved' = [r \in Refs |-> FALSE]
    /\ inFlight' = 0
    /\ file' = [f \in Files |-> FALSE]
    /\ disc' = "reading" /\ seen' = {}
    /\ fetchers' = FetchMaxConns
    /\ disp' = "open"
    /\ pub' = "collecting" /\ toRecord' = {}
    /\ main' = "discovering"
    /\ cancelled' = FALSE
    /\ UNCHANGED durable

Restart == main = "ended" /\ NewProcess

Crash == MayFail("crash") /\ main # "ended" /\ NewProcess

Finished == main = "ended" /\ runs = MaxRuns /\ UNCHANGED vars

Next ==
    \/ DiscoverNext
    \/ FetchNext
    \/ LanesNext
    \/ PublishNext
    \/ CloseJobs \/ ClosePayloads \/ CloseLanes \/ CloseFindings \/ RunReturns
    \/ Cancel \/ Crash \/ Restart
    \/ Finished

Spec == Init /\ [][Next]_vars

\* Every stage keeps running while it can take a step: transfers, scans and
\* requests end one way or the other, and timers fire.  Faults, the signal and
\* restarts are not promised, nor is any one outcome of a step that can fail.
Fairness ==
    /\ WF_vars(DiscoverNext) /\ WF_vars(FetchNext)
    /\ WF_vars(LanesNext) /\ WF_vars(PublishNext)
    /\ WF_vars(CloseJobs \/ ClosePayloads \/ CloseLanes \/ CloseFindings
               \/ RunReturns)

FairSpec == Spec /\ Fairness

------------------------------------------------------------------------
(* Properties.                                                             *)

\* A scanner that reads the file finds it there, complete, for as long as it
\* reads: no sibling, spill or cancellation frees it early (payload.refs), and
\* no other transfer is writing the same path (workDir/<FileID>).
ReaderSeesWholeFile ==
    \A r \in Refs, s \in Readers :
        task[<<r, s>>] = "scanning" =>
            /\ file[FileOf[r]]
            /\ \A q \in Copying : FileOf[q] # FileOf[r]

\* The limiter's count is the weight of the reservations outstanding, within
\* the budget, and every temp file is covered by one: bytes on disk are never
\* outside the accounting, and none is returned twice.
BudgetCoversDisk ==
    /\ inFlight = SumFunctionOnSet([r \in Refs |-> Weight(r)],
                                   {r \in Refs : reserved[r]})
    /\ inFlight <= FetchByteBudget
    /\ \A f \in Files :
          file[f] => \E r \in Refs : FileOf[r] = f /\ reserved[r]

\* A run that was not cancelled returns every reservation and removes every
\* temp file, whatever failed on the way.  A cancelled one may not: runDispatch
\* gives up the reference of the lane it waits for, and of none after it.
CleanEndHoldsNothing ==
    main = "ended" /\ ~cancelled => inFlight = 0 /\ \A f \in Files : ~file[f]

\* The stores as PublishFirst sees them.
Published == {d \in Docs : sink[d] # "none"}
ClosedTasks == {t \in Tasks : ledger[t].status \in {"done", "failed"}}

Promise == INSTANCE PublishFirst
           WITH published <- Published, recorded <- records,
                closed <- ClosedTasks

\* An object is recorded, and a task closed, only after the sink accepted a
\* scanner's document for it; that it was too large to scan does not count.
\* No crash, restart or failing write comes between them the other way round.
PublishesFirst == Promise!Spec

\* What the order is for, as a state: a recorded object has a scanner's
\* document in the sink, and so has the pair of a closed row.
RecordFollowsSink ==
    /\ \A f \in records : \E s \in Scanners : sink[<<f, s>>] # "none"
    /\ \A t \in ClosedTasks : sink[t] # "none"

\* Where the pair's verdict is, or what will bring it.
Accounted(f, s) == \/ sink[<<f, s>>] # "none"
                   \/ ledger[<<f, s>>].status = "pending"

\* Once a run is over, an object recorded as scanned has every scanner's
\* document in the sink, or a ledger row for what is still to come.  The
\* record is what stops the object from being queued again.
RecordMeansAccounted ==
    main = "ended" => \A f \in records, s \in Scanners : Accounted(f, s)

\* spill: "parks a task in the pending store for a later run".  A later run that
\* passes the object over as scanned has run what was parked of it.  Nothing
\* does: no stage reads the parked rows, and the record that a sibling's finding
\* made keeps the object from being dispatched again.
SpilledIsRunLater ==
    main = "ended" /\ ~cancelled =>
        \A r \in Refs, s \in Spilling :
            stage[r] = "skipped" /\ ledger[<<FileOf[r], s>>].status = "pending"
                => \/ ledger[<<FileOf[r], s>>].token # ""
                   \/ sink[<<FileOf[r], s>>] # "none"

\* A clean end leaves no reference unanswered: it was recorded before, or a
\* gap was published for it, or its transfer failed and nothing says it was
\* scanned, or every scanner is accounted for.
CleanEndAnswersAll ==
    main = "ended" /\ ~cancelled =>
        \A r \in Refs :
            \/ stage[r] = "skipped" /\ FileOf[r] \in records
            \/ stage[r] = "gated" /\ sink[<<FileOf[r], SizeGate>>] = "answer"
            \/ stage[r] = "failed" /\ FileOf[r] \notin records
            \/ /\ stage[r] = "analyzing"
               /\ \A s \in Scanners : Accounted(FileOf[r], s)

\* A continuation message points at a task the ledger has the token of, so
\* that losing the message costs promptness and nothing else.
MessageHasRow ==
    \A m \in topic : ledger[<<m.file, m.scanner>>].token # ""

\* An object that is recorded is not on its way to being transferred again,
\* in this run or in a later one.
RecordedNotRefetched ==
    \A r \in Refs :
        FileOf[r] \in records =>
            stage[r] \notin {"job", "reserving", "connecting", "copying",
                             "fetched", "payload"}

\* Every run that can end does: of a lister always, and of a source whose
\* stream never ends once the context is cancelled.  The stages drain in order
\* however full the channels are, and none is left waiting for another.
RunEnds ==
    main = "discovering" /\ (cancelled \/ ~OpenEnded) ~> main = "ended"

\* From a source whose stream never ends, every reference is read and, once
\* read, answered: the two flush timers are all that moves a partial batch.
\* The byte limiter refuses a negative size; the signal ends the promise.
EveryDeliveryAnswered ==
    \A r \in Refs :
        <>(\/ cancelled
           \/ stage[r] \in {"skipped", "failed"}
           \/ sink[<<FileOf[r], SizeGate>>] = "answer"
           \/ \A s \in Scanners : Accounted(FileOf[r], s))
============================================================================
