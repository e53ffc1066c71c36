------------------------------- MODULE Lanes ------------------------------
(***************************************************************************)
(* runDispatch fans a payload out to one task per lane; runLane's workers  *)
(* run a lane's tasks.  A lane has its own queue.  When the queue is full, *)
(* the dispatcher waits for a local lane and parks the task in the ledger  *)
(* for a lane in SPILL_SCANNERS.  A scan ends in a finding, or, when its   *)
(* work goes on elsewhere, in a row and a message that name its token.     *)
(***************************************************************************)
EXTENDS PipelineState

\* buildLanes: local lanes share the CPU limiter and have as many workers as
\* it has slots; a spilling lane has one worker behind its own rate limiter.
Workers(s) == IF s \in Spilling THEN 1 ELSE AnalyzeCPULimit

Active(s) == {r \in Refs : task[<<r, s>>] \in {"limited", "scanning",
                              "recording", "notifying", "reporting"}}
Scanning == {x \in Refs \X (Scanners \ Spilling) : task[x] = "scanning"}

LaneIdle(s) == LaneIn(s) = {} /\ Active(s) = {}

Dispatching == {r \in Refs : stage[r] = "dispatching"}

Undispatched(r) == {s \in Scanners : task[<<r, s>>] = "none"}

\* The payload's next stage once lane s has had its task.
Dispatched(r, s) ==
    IF Undispatched(r) = {s} THEN [stage EXCEPT ![r] = "analyzing"]
                             ELSE stage

\* EnqueuePending: an error is logged, and the task is then nowhere.
Park(r, s) ==
    \/ /\ SetRow(FileOf[r], s, EnqueuePending(ledger[<<FileOf[r], s>>]))
       /\ task' = [task EXCEPT ![<<r, s>>] = "parked"]
    \/ /\ MayFail("database")
       /\ task' = [task EXCEPT ![<<r, s>>] = "dropped"]
       /\ UNCHANGED ledger

TakePayload(r) ==
    /\ disp = "open" /\ Dispatching = {} /\ stage[r] = "payload"
    /\ stage' = [stage EXCEPT ![r] = "dispatching"]
    /\ refcnt' = [refcnt EXCEPT ![r] = Cardinality(Readers)]
    /\ IF Readers = {} THEN Free(r) ELSE UNCHANGED <<reserved, inFlight, file>>
    /\ UNCHANGED <<task, discoverVars, fetchers, disp, publishVars, runVars,
                   durable>>

Offer(r, s) ==
    /\ disp = "open" /\ stage[r] = "dispatching" /\ s \in Undispatched(r)
    /\ HasRoom(LaneIn(s))
    /\ task' = [task EXCEPT ![<<r, s>>] = "queued"]
    /\ stage' = Dispatched(r, s)
    /\ UNCHANGED <<payloadVars, discoverVars, fetchers, disp, publishVars,
                   runVars, durable>>

Spill(r, s) ==
    /\ disp = "open" /\ stage[r] = "dispatching" /\ s \in Undispatched(r)
    /\ s \in Spilling /\ ~HasRoom(LaneIn(s))
    /\ Park(r, s)
    /\ GiveUp(r, s)
    /\ stage' = Dispatched(r, s)
    /\ UNCHANGED <<discoverVars, fetchers, disp, publishVars, runVars,
                   records, sink, topic>>

\* The context ends while the dispatcher waits for a local lane.  It gives up
\* this lane's reference and returns: the lanes not yet reached, and the
\* payloads still in the channel, are left as they are.
DispatchCancelled(r, s) ==
    /\ cancelled
    /\ disp = "open" /\ stage[r] = "dispatching" /\ s \in Undispatched(r)
    /\ s \notin Spilling
    /\ task' = [task EXCEPT ![<<r, s>>] = "dropped"]
    /\ GiveUp(r, s)
    /\ stage' = [stage EXCEPT ![r] = "analyzing"]
    /\ disp' = "exited"
    /\ UNCHANGED <<discoverVars, fetchers, publishVars, runVars, durable>>

DispatcherExits ==
    /\ disp = "open" /\ PayloadsClosed /\ Payloads = {} /\ Dispatching = {}
    /\ disp' = "exited"
    /\ UNCHANGED <<stage, task, payloadVars, discoverVars, fetchers,
                   publishVars, runVars, durable>>

\* A lane worker takes a task, and drops it when the context has ended.
TakeTask(r, s) ==
    /\ task[<<r, s>>] = "queued" /\ Cardinality(Active(s)) < Workers(s)
    /\ IF cancelled
       THEN /\ task' = [task EXCEPT ![<<r, s>>] = "dropped"]
            /\ GiveUp(r, s)
       ELSE /\ task' = [task EXCEPT ![<<r, s>>] = "limited"]
            /\ UNCHANGED payloadVars
    /\ UNCHANGED <<stage, discoverVars, fetchers, disp, publishVars, runVars,
                   durable>>

Admit(r, s) ==
    /\ task[<<r, s>>] = "limited"
    /\ s \in Spilling \/ Cardinality(Scanning) < AnalyzeCPULimit
    /\ task' = [task EXCEPT ![<<r, s>>] = "scanning"]
    /\ UNCHANGED <<stage, payloadVars, discoverVars, fetchers, disp,
                   publishVars, runVars, durable>>

\* The limiter's Acquire fails with the context: parked only in a lane that
\* spills.
AdmitCancelled(r, s) ==
    /\ cancelled /\ task[<<r, s>>] = "limited"
    /\ IF s \in Spilling THEN Park(r, s)
       ELSE /\ task' = [task EXCEPT ![<<r, s>>] = "dropped"]
            /\ UNCHANGED ledger
    /\ GiveUp(r, s)
    /\ UNCHANGED <<stage, discoverVars, fetchers, disp, publishVars, runVars,
                   records, sink, topic>>

ScanAnswers(r, s) ==
    /\ task[<<r, s>>] = "scanning"
    /\ task' = [task EXCEPT ![<<r, s>>] = "reporting"]
    /\ UNCHANGED <<stage, payloadVars, discoverVars, fetchers, disp,
                   publishVars, runVars, durable>>

\* Mutant of ScanPends: the message is published before the row is written.
ScanPendsUnrecorded(r, s) ==
    /\ s \in Asynchronous /\ task[<<r, s>>] = "scanning"
    /\ task' = [task EXCEPT ![<<r, s>>] = "notifying"]
    /\ UNCHANGED <<stage, payloadVars, discoverVars, fetchers, disp,
                   publishVars, runVars, durable>>

ScanPends(r, s) ==
    /\ s \in Asynchronous /\ task[<<r, s>>] = "scanning"
    /\ task' = [task EXCEPT ![<<r, s>>] = "recording"]
    /\ UNCHANGED <<stage, payloadVars, discoverVars, fetchers, disp,
                   publishVars, runVars, durable>>

\* handoff, first half: the ledger.  An error is logged and changes nothing.
HandoffRecord(r, s) ==
    /\ task[<<r, s>>] = "recording"
    /\ \/ SetRow(FileOf[r], s, EnqueueContinuation(ledger[<<FileOf[r], s>>]))
       \/ MayFail("database") /\ UNCHANGED ledger
    /\ task' = [task EXCEPT ![<<r, s>>] = "notifying"]
    /\ UNCHANGED <<stage, payloadVars, discoverVars, fetchers, disp,
                   publishVars, runVars, records, sink, topic>>

\* handoff, second half: the message, lost when the broker is down or the
\* context has ended (or when there is no broker: async.Discard).
HandoffNotify(r, s) ==
    /\ task[<<r, s>>] = "notifying"
    /\ \/ topic' = topic \cup {Continuation(FileOf[r], s)}
       \/ (MayFail("broker") \/ cancelled) /\ UNCHANGED topic
    /\ task' = [task EXCEPT ![<<r, s>>] = "handed"]
    /\ GiveUp(r, s)
    /\ UNCHANGED <<stage, discoverVars, fetchers, disp, publishVars, runVars,
                   records, ledger, sink>>

SendFinding(r, s) ==
    /\ task[<<r, s>>] = "reporting" /\ HasRoom(Found)
    /\ task' = [task EXCEPT ![<<r, s>>] = "found"]
    /\ GiveUp(r, s)
    /\ UNCHANGED <<stage, discoverVars, fetchers, disp, publishVars, runVars,
                   durable>>

\* Mutant of SendFindingCancelled: the send has no ctx.Done() beside it.
SendFindingUncancelled(r, s) ==
    /\ cancelled /\ task[<<r, s>>] = "reporting" /\ HasRoom(Found)
    /\ task' = [task EXCEPT ![<<r, s>>] = "dropped"]
    /\ GiveUp(r, s)
    /\ UNCHANGED <<stage, discoverVars, fetchers, disp, publishVars, runVars,
                   durable>>

SendFindingCancelled(r, s) ==
    /\ cancelled /\ task[<<r, s>>] = "reporting"
    /\ task' = [task EXCEPT ![<<r, s>>] = "dropped"]
    /\ GiveUp(r, s)
    /\ UNCHANGED <<stage, discoverVars, fetchers, disp, publishVars, runVars,
                   durable>>

LanesNext ==
    \/ \E r \in Refs : TakePayload(r)
    \/ \E r \in Refs, s \in Scanners :
          \/ Offer(r, s) \/ Spill(r, s) \/ DispatchCancelled(r, s)
          \/ TakeTask(r, s) \/ Admit(r, s) \/ AdmitCancelled(r, s)
          \/ ScanAnswers(r, s) \/ ScanPends(r, s)
          \/ HandoffRecord(r, s) \/ HandoffNotify(r, s)
          \/ SendFinding(r, s) \/ SendFindingCancelled(r, s)
    \/ DispatcherExits
============================================================================
