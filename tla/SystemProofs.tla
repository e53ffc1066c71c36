---------------------------- MODULE SystemProofs ---------------------------
(***************************************************************************)
(* What holds of the two programs over one set of stores, whatever order   *)
(* their steps come in.  Each program's invariant was found without the    *)
(* other; here each is shown to be kept by the other's steps too.          *)
(***************************************************************************)
EXTENDS System, PipelineProofs

\* What was proved of the replicas, said of them in this system.
Replicas == INSTANCE AsyncWorkerProofs
            WITH handing <- Handing, HasBroker <- TRUE,
                 Recorded <- Files, Spilled <- Files \X Spilling

------------------------------------------------------------------------
(* The replicas of System are those of AsyncWorkerProofs: the same module, *)
(* instantiated twice.                                                     *)

\* The constants of the system are some the worker's proofs are about.
LEMMA WorkerConstants ==
    /\ Collectors \subseteq Scanners
    /\ MaxAge \in Nat /\ MaxAge < AgeCap
    /\ Batch \in Nat \ {0}
    /\ Files \X Spilling \subseteq Replicas!Tasks
    /\ WorkerFaults \subseteq Replicas!AllWorkerFaults
  BY SystemAssumption, PipelineAssumption
     DEF Replicas!Tasks, Worker!AllWorkerFaults, Replicas!AllWorkerFaults

\* Their threads take the same steps,
LEMMA SameHandling ==
  ASSUME NEW th \in Worker!Threads, Worker!Handle(th)
  PROVE  th \in Replicas!Threads /\ Replicas!Handle(th)
  BY DEF Worker!Threads, Worker!Handle, Worker!GiveUp, Worker!LeaveEarly,
         Worker!Poll, Worker!PollFails, Worker!Reschedule,
         Worker!PublishVerdict, Worker!CloseTask, Worker!Return,
         Worker!threads, Worker!Goto, Worker!Fails, Worker!TooOld,
         Worker!TooEarly, Worker!Write, Worker!TaskOf, Worker!MessageOf,
         Worker!durable, Worker!RescheduleContinuation, Worker!MarkFailed,
         Worker!MarkDone, Worker!Close,
         Replicas!Threads, Replicas!Handle, Replicas!GiveUp,
         Replicas!LeaveEarly, Replicas!Poll, Replicas!PollFails,
         Replicas!Reschedule, Replicas!PublishVerdict, Replicas!CloseTask,
         Replicas!Return, Replicas!threads, Replicas!Goto, Replicas!Fails,
         Replicas!TooOld, Replicas!TooEarly, Replicas!Write,
         Replicas!TaskOf, Replicas!MessageOf, Replicas!durable,
         Replicas!RescheduleContinuation, Replicas!MarkFailed,
         Replicas!MarkDone, Replicas!Close

\* their claims read and write the same rows,
LEMMA SameClaim ==
  ASSUME NEW i \in Instances
  PROVE  /\ Worker!SelectDue(i) => Replicas!SelectDue(i)
         /\ Worker!ClaimDue(i) => Replicas!ClaimDue(i)
         /\ Worker!ClaimFails(i) => Replicas!ClaimFails(i)
<1>1. \A row : Worker!Claimable(row) = Replicas!Claimable(row)
  BY DEF Worker!Claimable, Replicas!Claimable
<1>2. \A row : Worker!Claim(row, i) = Replicas!Claim(row, i)
  BY DEF Worker!Claim, Worker!Saturate, Replicas!Claim, Replicas!Saturate
<1>3. Worker!SelectDue(i) => Replicas!SelectDue(i)
  <2>1. {t \in Worker!Tasks : Worker!Claimable(ledger[t])}
           = {t \in Replicas!Tasks : Replicas!Claimable(ledger[t])}
    BY <1>1 DEF Worker!Tasks, Replicas!Tasks
  <2>2. \A S : Worker!Cardinality(S) = Replicas!Cardinality(S)
    BY DEF Worker!Cardinality, Replicas!Cardinality
  <2> QED
    BY <2>1, <2>2
       DEF Worker!SelectDue, Worker!Goto, Worker!durable,
           Replicas!SelectDue, Replicas!Goto, Replicas!durable
<1>4. Worker!ClaimDue(i) => Replicas!ClaimDue(i)
  BY <1>2 DEF Worker!ClaimDue, Worker!Tasks, Worker!Goto, Worker!FromRow,
              Replicas!ClaimDue, Replicas!Tasks, Replicas!Goto,
              Replicas!FromRow
<1>5. Worker!ClaimFails(i) => Replicas!ClaimFails(i)
  BY DEF Worker!ClaimFails, Worker!Goto, Worker!Fails, Worker!durable,
         Replicas!ClaimFails, Replicas!Goto, Replicas!Fails,
         Replicas!durable
<1> QED
  BY <1>3, <1>4, <1>5

\* their sweepers and consumers go on the same way, and they die,
LEMMA SameSweeping ==
  ASSUME NEW i \in Instances,
         Worker!Sweep(i) \/ Worker!Consume(i) \/ Worker!Crash(i)
  PROVE  Replicas!Sweep(i) \/ Replicas!Consume(i) \/ Replicas!Crash(i)
<1>1. ASSUME NEW j \in claimed[i],
             \/ Worker!PutBack(i, j) \/ Worker!PassOver(i, j)
             \/ Worker!HandleClaimed(i, j)
      PROVE  Replicas!Sweep(i)
  BY <1>1
     DEF Worker!PutBack, Worker!PassOver, Worker!HandleClaimed,
         Worker!threads, Worker!Goto, Worker!Fails, Worker!Write,
         Worker!TaskOf, Worker!durable, Worker!RescheduleContinuation,
         Replicas!Sweep, Replicas!PutBack, Replicas!PassOver,
         Replicas!HandleClaimed, Replicas!threads, Replicas!Goto,
         Replicas!Fails, Replicas!Write, Replicas!TaskOf, Replicas!durable,
         Replicas!RescheduleContinuation
<1>2. Worker!SweepEnds(i) => Replicas!Sweep(i)
  BY DEF Worker!SweepEnds, Worker!Goto, Worker!durable, Replicas!Sweep,
         Replicas!SweepEnds, Replicas!Goto, Replicas!durable
<1>3. Worker!Sweep(i) => Replicas!Sweep(i)
  BY <1>1, <1>2, SameClaim DEF Worker!Sweep, Replicas!Sweep
<1>4. Worker!Consume(i) => Replicas!Consume(i)
  BY DEF Worker!Consume, Worker!Receive, Worker!FromMessage, Worker!Goto,
         Worker!durable, Replicas!Consume, Replicas!Receive,
         Replicas!FromMessage, Replicas!Goto, Replicas!durable
<1>5. Worker!Crash(i) => Replicas!Crash(i)
  BY DEF Worker!Crash, Worker!Fails, Worker!Threads, Worker!durable,
         Replicas!Crash, Replicas!Fails, Replicas!Threads, Replicas!durable
<1> QED
  BY <1>3, <1>4, <1>5

\* and time passes for them, and the sandbox works, the same way.
LEMMA SameTime ==
    /\ Worker!Tick => Replicas!Tick
    /\ \A t \in Tasks :
          Worker!AnalysisFinishes(t)
              => t \in Replicas!Tasks /\ Replicas!AnalysisFinishes(t)
<1>1. \A row : Worker!Elapse(row) = Replicas!Elapse(row)
  BY Zenon DEF Worker!Elapse, Worker!Countdown, Worker!Saturate,
               Replicas!Elapse, Replicas!Countdown, Replicas!Saturate
<1>2. \A j : Worker!Aged(j) = Replicas!Aged(j)
  BY Zenon DEF Worker!Aged, Worker!Countdown, Worker!Saturate,
               Replicas!Aged, Replicas!Countdown, Replicas!Saturate
<1>3. Worker!Tick => Replicas!Tick
  BY <1>1, <1>2 DEF Worker!Tick, Worker!Tasks, Worker!Threads,
                    Replicas!Tick, Replicas!Tasks, Replicas!Threads
<1>4. ASSUME NEW t \in Tasks, Worker!AnalysisFinishes(t)
      PROVE  t \in Replicas!Tasks /\ Replicas!AnalysisFinishes(t)
  BY <1>4 DEF Tasks, Worker!AnalysisFinishes, Worker!threads,
              Worker!durable, Replicas!AnalysisFinishes, Replicas!Tasks,
              Replicas!threads, Replicas!durable
<1> QED
  BY <1>3, <1>4

\* They start the same way.
LEMMA SameStart == Worker!Init => Replicas!Init
  BY DEF Worker!Init, Worker!DurableInit, Worker!NoRow, Worker!Tasks,
         Worker!Docs, Worker!Threads,
         Replicas!Init, Replicas!DurableInit, Replicas!NoRow, Replicas!Tasks,
         Replicas!Docs, Replicas!Threads

\* What the replicas and the sandbox do by themselves.
ReplicasNext ==
    \/ Replicas!Tick
    \/ \E t \in Replicas!Tasks : Replicas!AnalysisFinishes(t)
    \/ \E i \in Instances :
          Replicas!Sweep(i) \/ Replicas!Consume(i) \/ Replicas!Crash(i)
    \/ \E th \in Replicas!Threads : Replicas!Handle(th)

PipelineSteps == ByPipeline(Next)
WorkerSteps   == UNCHANGED pipelineVars /\ ReplicasNext

\* A step of the system is one of the pipeline or one of the replicas.
LEMMA StepOfEither ==
    SystemNext => PipelineSteps \/ WorkerSteps
<1> SUFFICES ASSUME SystemNext PROVE PipelineSteps \/ WorkerSteps
  OBVIOUS
<1>1. CASE ByWorker(Worker!Tick)
  BY <1>1, SameTime DEF ByWorker, WorkerSteps, ReplicasNext
<1>2. ASSUME NEW t \in Tasks, ByWorker(Worker!AnalysisFinishes(t))
      PROVE  WorkerSteps
  BY <1>2, SameTime DEF ByWorker, WorkerSteps, ReplicasNext
<1>3. ASSUME NEW i \in Instances,
             UNCHANGED pipelineVars,
             Worker!Sweep(i) \/ Worker!Consume(i) \/ Worker!Crash(i)
      PROVE  WorkerSteps
  BY <1>3, SameSweeping DEF WorkerSteps, ReplicasNext
<1>4. ASSUME NEW th \in Worker!Threads, ByWorker(Worker!Handle(th))
      PROVE  WorkerSteps
  BY <1>4, SameHandling DEF ByWorker, WorkerSteps, ReplicasNext
<1> QED
  BY <1>1, <1>2, <1>3, <1>4
     DEF SystemNext, ByWorker, CrashWhileRunning, PipelineSteps

------------------------------------------------------------------------
(* The invariant: each program's own.                                      *)

SInv == IInv /\ Replicas!IInv

\* The system starts in it.
LEMMA SystemStart == SystemInit => SInv
<1> SUFFICES ASSUME SystemInit PROVE SInv
  OBVIOUS
<1>1. IInv
  BY InitInvariant DEF SystemInit
<1>2. Replicas!IInv
  BY Replicas!InitInvariant, SameStart, WorkerConstants, LedgerAssumption,
     GateAssumption DEF SystemInit
<1> QED
  BY <1>1, <1>2 DEF SInv

\* What is in the sink stays there, whichever program takes the step.
LEMMA PipelinePublishes ==
  ASSUME IInv, [Next]_vars
  PROVE  \A d \in Docs : sink[d] # "none" => sink'[d] # "none"
<1>1. [Promise!Next]_(Promise!vars)
  BY StepMapped
<1>2. Published \subseteq Published'
  BY <1>1 DEF Promise!Next, Promise!Publish, Promise!Record, Promise!Close,
              Promise!Reopen, Promise!vars
<1> QED
  BY <1>2 DEF Published

\* They write no file record.
LEMMA ReplicasRecordNothing == ReplicasNext => records' = records
  BY DEF ReplicasNext, Replicas!Tick, Replicas!AnalysisFinishes,
         Replicas!Sweep, Replicas!SelectDue, Replicas!ClaimDue,
         Replicas!ClaimFails, Replicas!PutBack, Replicas!PassOver,
         Replicas!HandleClaimed, Replicas!SweepEnds, Replicas!Consume,
         Replicas!Receive, Replicas!Crash, Replicas!Handle, Replicas!GiveUp,
         Replicas!LeaveEarly, Replicas!Poll, Replicas!PollFails,
         Replicas!Reschedule, Replicas!PublishVerdict, Replicas!CloseTask,
         Replicas!Return, Replicas!durable

\* What the replicas do to the stores, as PublishFirst sees it.
LEMMA ReplicasMapped ==
  ASSUME Replicas!IInv, ReplicasNext
  PROVE  /\ [Promise!Next]_(Promise!vars)
         /\ Published \subseteq Published'
<1>1. [Replicas!Promise!Next]_(Replicas!Promise!vars)
  <2>1. Replicas!Next
    BY DEF ReplicasNext, Replicas!Next
  <2> QED
    BY <2>1, Replicas!StepMapped, WorkerConstants, LedgerAssumption,
       GateAssumption
<1>2. /\ {d \in Replicas!Docs : sink[d] # "none"} = Published
      /\ {d \in Replicas!Docs : sink'[d] # "none"} = Published'
      /\ {t \in Replicas!Tasks : Replicas!Closed(t)} = ClosedTasks
      /\ {t \in Replicas!Tasks : Replicas!Closed(t)'} = ClosedTasks'
      /\ Replicas!Tasks = Tasks /\ Replicas!Docs = Docs
  BY DEF Replicas!Docs, Docs, Published, Replicas!Tasks, Tasks,
         Replicas!Closed, ClosedTasks
<1> QED
  BY <1>1, <1>2, ReplicasRecordNothing
     DEF Replicas!Promise!Next, Replicas!Promise!Publish,
         Replicas!Promise!Record, Replicas!Promise!Close,
         Replicas!Promise!Reopen, Replicas!Promise!vars,
         Promise!Next, Promise!Publish, Promise!Record, Promise!Close,
         Promise!Reopen, Promise!vars

\* What the replicas hold is theirs: a step of the pipeline keeps their
\* invariant, since it takes nothing out of the sink, and a row it rewrites is
\* none that a claim still has as a candidate.
LEMMA PipelineKeepsReplicas ==
  ASSUME SInv, PipelineSteps, IInv'
  PROVE  Replicas!IInv'
<1> USE DEF SInv, Replicas!IInv, Replicas!WellTyped
<1>1. /\ UNCHANGED workerVars
      /\ candidates' = [i \in Instances |-> candidates[i] \ Rewritten]
      /\ \A d \in Docs : sink[d] # "none" => sink'[d] # "none"
  BY PipelinePublishes DEF PipelineSteps, ByPipeline
<1>2. Replicas!TypeOK'
  <2>1. Replicas!DurableTypeOK'
    BY DEF IInv, WellTyped, TypeOK, DurableTypeOK, Replicas!DurableTypeOK,
           Replicas!Tasks, Tasks, Replicas!Rows, Rows, Replicas!Docs, Docs,
           Replicas!Documents, Documents, Replicas!Messages, Messages,
           Replicas!Statuses, Statuses, Replicas!Tokens, Tokens
  <2>2. Handing' \in [Replicas!Tasks -> {"none", "recording", "notifying",
                                         "over"}]
    BY DEF Handing, Replicas!Tasks, Tasks
  <2>3. analysis' \in [Replicas!Tasks -> {"none", "running", "finished"}]
    BY DEF PipelineSteps, ByPipeline, Replicas!TypeOK, Replicas!Tasks, Tasks
  <2>4. candidates' \in [Instances -> SUBSET Replicas!Tasks]
    BY <1>1 DEF Replicas!TypeOK
  <2> QED
    BY <1>1, <2>1, <2>2, <2>3, <2>4 DEF Replicas!TypeOK, workerVars
<1>3. Replicas!HoldsJob' /\ Replicas!VerdictReady'
  BY <1>1 DEF workerVars, Replicas!HoldsJob, Replicas!VerdictReady
<1>4. Replicas!ClosingIsPublished'
  <2> SUFFICES ASSUME NEW th \in Replicas!Threads, at'[th] = "closing"
               PROVE  sink'[Replicas!TaskOf(job'[th])] # "none"
    BY DEF Replicas!ClosingIsPublished
  <2>1. at[th] = "closing" /\ job'[th] = job[th] /\ job[th] \in Replicas!Jobs
    BY <1>1 DEF workerVars, Replicas!HoldsJob, Replicas!Holding
  <2>2. Replicas!TaskOf(job[th]) \in Docs
    BY <2>1 DEF Replicas!Jobs, Replicas!TaskOf, Docs
  <2> QED
    BY <1>1, <2>1, <2>2 DEF Replicas!ClosingIsPublished
<1>5. Replicas!CandidatesClaimable'
  <2> SUFFICES ASSUME NEW i \in Instances, NEW t \in candidates'[i]
               PROVE  Replicas!Claimable(ledger'[t])
    BY DEF Replicas!CandidatesClaimable
  <2>1. t \in candidates[i] /\ t \in Tasks /\ t \notin Rewritten
    BY <1>1 DEF Replicas!TypeOK, Replicas!Tasks, Tasks
  <2>2. ledger'[t] = ledger[t]
    BY <2>1 DEF Rewritten
  <2> QED
    BY <2>1, <2>2 DEF Replicas!CandidatesClaimable
<1>6. Replicas!ClosedIsPublished'
  BY DEF IInv, RecordFollowsSink, ClosedTasks, Replicas!ClosedIsPublished,
         Replicas!Closed, Replicas!Tasks, Tasks
<1> QED
  BY <1>2, <1>3, <1>4, <1>5, <1>6

\* And the pipeline's is kept by the replicas: they add to the sink, write no
\* file record, and close no row whose document is missing.
LEMMA ReplicasKeepPipeline ==
  ASSUME SInv, WorkerSteps, Replicas!IInv'
  PROVE  IInv'
<1> USE DEF SInv
<1>1. /\ UNCHANGED pipelineVars /\ records' = records
      /\ \A d \in Docs : sink[d] # "none" => sink'[d] # "none"
  BY ReplicasMapped, ReplicasRecordNothing DEF WorkerSteps, Published
<1>2. DurableTypeOK'
  BY DEF Replicas!IInv, Replicas!WellTyped, Replicas!TypeOK, DurableTypeOK,
         Replicas!DurableTypeOK,
         Replicas!Tasks, Tasks, Replicas!Rows, Rows, Replicas!Docs, Docs,
         Replicas!Documents, Documents, Replicas!Messages, Messages,
         Replicas!Statuses, Statuses, Replicas!Tokens, Tokens
<1>3. WellTyped'
  BY <1>1, <1>2
     DEF IInv, WellTyped, TypeOK, FetchersCounted, InFetch, pipelineVars,
         payloadVars, discoverVars, publishVars, runVars
<1>4. ToRecordIsPublished'
  BY <1>1, FindingDoc
     DEF IInv, WellTyped, TypeOK, ToRecordIsPublished, DocOf, pipelineVars,
         publishVars
<1>5. RecordFollowsSink'
  <2>1. \A f \in records' : \E s \in Scanners : sink'[<<f, s>>] # "none"
    BY <1>1 DEF IInv, WellTyped, TypeOK, DurableTypeOK, RecordFollowsSink,
                Docs
  <2>2. \A t \in ClosedTasks' : sink'[t] # "none"
    BY DEF Replicas!IInv, Replicas!ClosedIsPublished, Replicas!Closed,
           Replicas!Tasks, ClosedTasks, Tasks
  <2> QED
    BY <2>1, <2>2 DEF RecordFollowsSink
<1> QED
  BY <1>3, <1>4, <1>5 DEF IInv

\* So every step of the system keeps both.
LEMMA SystemStep == SInv /\ [SystemNext]_systemVars => SInv'
<1> SUFFICES ASSUME SInv, [SystemNext]_systemVars PROVE SInv'
  OBVIOUS
<1>1. CASE PipelineSteps
  <2>1. IInv'
    BY <1>1, StepInvariant DEF PipelineSteps, ByPipeline, SInv
  <2> QED
    BY <1>1, <2>1, PipelineKeepsReplicas DEF SInv
<1>2. CASE WorkerSteps
  <2>1. Replicas!Next
    BY <1>2 DEF WorkerSteps, ReplicasNext, Replicas!Next
  <2>2. Replicas!IInv'
    BY <2>1, Replicas!StepInvariant, WorkerConstants, LedgerAssumption,
       GateAssumption DEF SInv
  <2> QED
    BY <1>2, <2>2, ReplicasKeepPipeline DEF SInv
<1>3. CASE UNCHANGED systemVars
  <2>1. UNCHANGED vars /\ UNCHANGED Replicas!vars
    BY <1>3 DEF systemVars, vars, workerVars, Replicas!vars, Replicas!durable,
                Replicas!threads, durable, Handing, TasksAt
  <2>2. IInv'
    BY <2>1, StepInvariant DEF SInv
  <2>3. Replicas!IInv'
    BY <2>1, Replicas!StepInvariant, WorkerConstants, LedgerAssumption,
       GateAssumption DEF SInv
  <2> QED
    BY <2>2, <2>3 DEF SInv
<1> QED
  BY <1>1, <1>2, <1>3, StepOfEither

\* Whatever the two programs do to the stores they share, in any order and
\* with any faults: what is recorded, or closed, has its document in the sink.
THEOREM SystemPublishesFirst == SystemSpec => PublishesFirst
<1>1. SystemInit => Promise!Init
  BY InitMapped DEF SystemInit
<1>2. SInv /\ [SystemNext]_systemVars => [Promise!Next]_(Promise!vars)
  <2> SUFFICES ASSUME SInv, [SystemNext]_systemVars
               PROVE  [Promise!Next]_(Promise!vars)
    OBVIOUS
  <2>1. CASE PipelineSteps
    BY <2>1, StepMapped DEF PipelineSteps, ByPipeline, SInv
  <2>2. CASE WorkerSteps
    BY <2>2, ReplicasMapped DEF WorkerSteps, SInv
  <2>3. CASE UNCHANGED systemVars
    BY <2>3 DEF systemVars, vars, durable, Promise!vars, Published,
                ClosedTasks
  <2> QED
    BY <2>1, <2>2, <2>3, StepOfEither
<1> QED
  BY <1>1, <1>2, SystemStart, SystemStep, PTL
     DEF SystemSpec, PublishesFirst, Promise!Spec

------------------------------------------------------------------------
(* What the replicas promise of leases and verdicts holds beside the       *)
(* pipeline, which gives a row to nobody and publishes answers only.       *)

\* The stages before and after the lanes write no store, except when the
\* publisher sends a batch or records one.
LEMMA OthersWriteNothing ==
  ASSUME [Next]_vars,
         ~ \E r \in Refs, s \in Scanners : LaneStep(r, s)
  PROVE  \/ UNCHANGED durable
         \/ SendSucceeds \/ SendFails
         \/ \E x \in Findings : MarkObject(x)
<1>1. CASE DiscoverNext
  BY <1>1 DEF DiscoverNext, ReadRef, StreamEnds, DedupTimer, QuerySeen,
              QueryFails, EmitSkipped, EmitGap, EmitJob, FlushEnds,
              DiscoverCancelled
<1>2. CASE FetchNext
  BY <1>2 DEF FetchNext, TakeJob, TakeJobCancelled, ReserveBytes,
              ReserveFails, StartTransfer, StartFails, FinishTransfer,
              TransferFails, SendPayload, SendPayloadCancelled, FetcherExits
<1>3. CASE (\E r \in Refs : TakePayload(r)) \/ DispatcherExits
  BY <1>3 DEF TakePayload, DispatcherExits
<1>4. CASE PublishNext
  BY <1>4 DEF PublishNext, Collect, FlushTimer, FindingsDrained,
              PublishCancelled, MarkingEnds
<1>5. CASE Closing \/ NewProcess \/ UNCHANGED vars
  BY <1>5 DEF Closing, CloseJobs, ClosePayloads, CloseLanes, CloseFindings,
              RunReturns, Cancel, NewProcess, vars
<1> QED
  BY <1>1, <1>2, <1>3, <1>4, <1>5
     DEF Next, LanesNext, LaneStep, Closing, Crash, Restart, Finished

\* A step of the pipeline leaves a row with its owner, or with nobody.
LEMMA PipelineOwnsNothing ==
  ASSUME IInv, [Next]_vars, NEW t \in Tasks
  PROVE  ledger'[t].owner \in {ledger[t].owner, NoInstance}
<1> USE DEF IInv, WellTyped, TypeOK, DurableTypeOK
<1>1. ASSUME NEW f, NEW s, <<f, s>> \in Tasks,
             \/ SetRow(f, s, EnqueuePending(ledger[<<f, s>>]))
             \/ SetRow(f, s, EnqueueContinuation(ledger[<<f, s>>]))
             \/ SetRow(f, s, MarkDone(ledger[<<f, s>>]))
      PROVE  ledger'[t].owner \in {ledger[t].owner, NoInstance}
  <2> DEFINE row == ledger[<<f, s>>]
  <2>1. row \in Rows
    BY <1>1
  <2>2. /\ EnqueuePending(row).owner = row.owner
        /\ EnqueueContinuation(row).owner = row.owner
    BY <2>1 DEF EnqueuePending, EnqueueContinuation, Rows
  <2>3. MarkDone(row).owner \in {row.owner, NoInstance}
    BY <2>1 DEF MarkDone, Close, Rows
  <2> QED
    BY <1>1, <2>2, <2>3 DEF SetRow
<1>2. ASSUME NEW r \in Refs, NEW s \in Scanners, LaneStep(r, s)
      PROVE  ledger'[t].owner \in {ledger[t].owner, NoInstance}
  <2>1. <<FileOf[r], s>> \in Tasks
    BY TaskFinding
  <2>2. CASE Spill(r, s) \/ AdmitCancelled(r, s) \/ HandoffRecord(r, s)
    BY <1>1, <2>1, <2>2 DEF Spill, AdmitCancelled, HandoffRecord, Park
  <2>3. CASE UNCHANGED ledger
    BY <2>3
  <2> QED
    BY <1>2, <2>2, <2>3
       DEF LaneStep, Offer, DispatchCancelled, TakeTask, Admit, ScanAnswers,
           ScanPends, HandoffNotify, SendFinding, SendFindingCancelled,
           durable
<1>3. ASSUME NEW x \in Findings, MarkObject(x)
      PROVE  ledger'[t].owner \in {ledger[t].owner, NoInstance}
  <2>1. DocOf(x) = <<FileOf[x[1]], x[2]>> /\ DocOf(x) \in Tasks
    BY <1>3, FindingDoc DEF MarkObject, ToRecordIsPublished, DocOf
  <2> QED
    BY <1>1, <1>3, <2>1 DEF MarkObject
<1>4. CASE UNCHANGED ledger
  BY <1>4
<1> QED
  BY <1>2, <1>3, <1>4, OthersWriteNothing
     DEF durable, SendSucceeds, SendFails

\* Whatever the two programs do to the rows, a task under a running lease
\* changes hands only to nobody.
THEOREM SystemHonoursLeases == SystemSpec => Worker!LeaseHonoured
<1> DEFINE OwnerStays(t) == ledger[t].status = "running" /\ ledger[t].lease > 0
                              => ledger'[t].owner
                                    \in {ledger[t].owner, NoInstance}
<1>1. ASSUME SInv, [SystemNext]_systemVars
      PROVE  \A t \in Worker!Tasks : OwnerStays(t)
  <2>1. Worker!Tasks = Tasks /\ Replicas!Tasks = Tasks
    BY DEF Worker!Tasks, Replicas!Tasks, Tasks
  <2>2. CASE PipelineSteps
    BY <1>1, <2>1, <2>2, PipelineOwnsNothing
       DEF PipelineSteps, ByPipeline, SInv
  <2>3. CASE WorkerSteps
    <3>1. Replicas!Next
      BY <2>3 DEF WorkerSteps, ReplicasNext, Replicas!Next
    <3>2. \A t \in Replicas!Tasks : Replicas!OwnerStays(t)
      BY <1>1, <3>1, Replicas!StepLeases, WorkerConstants, LedgerAssumption,
         GateAssumption DEF SInv
    <3> QED
      BY <2>1, <3>2 DEF Replicas!OwnerStays
  <2>4. CASE UNCHANGED systemVars
    BY <2>4 DEF systemVars, vars, durable
  <2> QED
    BY <1>1, <2>2, <2>3, <2>4, StepOfEither
<1>2. SInv /\ [SystemNext]_systemVars
         => [\A t \in Worker!Tasks : OwnerStays(t)]_(Worker!vars)
  BY <1>1
<1> QED
  BY <1>2, SystemStart, SystemStep, PTL DEF SystemSpec, Worker!LeaseHonoured

\* Nor does a verdict in the sink give way to anything but another verdict or
\* a replica that gives the analysis up: a scan repeated by a later process,
\* say, publishes an answer again.
THEOREM SystemKeepsVerdicts == SystemSpec => Worker!VerdictKept
<1> DEFINE AnswerStays(t) ==
             sink[t] = "answer" =>
                \/ sink'[t] = "answer"
                \/ \E th \in Worker!Threads :
                      /\ at[th] = "publishing"
                      /\ Worker!TaskOf(job[th]) = t
                      /\ Worker!GivingUp(th)
           Inv == SInv /\ Replicas!VerdictJustified
<1>1. SystemInit => Inv
  BY SystemStart DEF SystemInit, Worker!Init, Worker!Threads,
                     Replicas!VerdictJustified, Replicas!Threads
<1>2. Inv /\ [SystemNext]_systemVars => Inv'
  <2> SUFFICES ASSUME Inv, [SystemNext]_systemVars PROVE Inv'
    OBVIOUS
  <2>1. CASE WorkerSteps
    <3>1. Replicas!Next
      BY <2>1 DEF WorkerSteps, ReplicasNext, Replicas!Next
    <3>2. Replicas!VerdictJustified'
      BY <3>1, Replicas!StepJustified, WorkerConstants, LedgerAssumption,
         GateAssumption DEF SInv
    <3> QED
      BY <3>2, SystemStep
  <2>2. CASE PipelineSteps \/ UNCHANGED systemVars
    BY <2>2, SystemStep
       DEF PipelineSteps, ByPipeline, systemVars, workerVars,
           Replicas!VerdictJustified, Replicas!GivingUp, Replicas!TooOld
  <2> QED
    BY <2>1, <2>2, StepOfEither
<1>3. ASSUME Inv, [SystemNext]_systemVars
      PROVE  \A t \in Worker!Tasks : AnswerStays(t)
  <2>1. Worker!Tasks = Tasks /\ Replicas!Tasks = Tasks /\ Tasks \subseteq Docs
    BY DEF Worker!Tasks, Replicas!Tasks, Tasks, Docs
  <2>2. CASE PipelineSteps
    BY <1>3, <2>1, <2>2, StepSink DEF PipelineSteps, ByPipeline, SInv, IInv
  <2>3. CASE WorkerSteps
    <3>1. Replicas!Next
      BY <2>3 DEF WorkerSteps, ReplicasNext, Replicas!Next
    <3>2. \A t \in Replicas!Tasks : Replicas!AnswerStays(t)
      BY <1>3, <3>1, Replicas!StepVerdicts, WorkerConstants,
         LedgerAssumption, GateAssumption DEF SInv
    <3> QED
      BY <2>1, <3>2
         DEF Replicas!AnswerStays, Replicas!Threads, Replicas!TaskOf,
             Replicas!GivingUp, Replicas!TooOld, Worker!Threads,
             Worker!TaskOf, Worker!GivingUp, Worker!TooOld
  <2>4. CASE UNCHANGED systemVars
    BY <2>4 DEF systemVars, vars, durable
  <2> QED
    BY <1>3, <2>2, <2>3, <2>4, StepOfEither
<1>4. Inv /\ [SystemNext]_systemVars
         => [\A t \in Worker!Tasks : AnswerStays(t)]_(Worker!vars)
  BY <1>3
<1> HIDE DEF Inv
<1> QED
  BY <1>1, <1>2, <1>4, PTL DEF SystemSpec, Worker!VerdictKept

------------------------------------------------------------------------
(* The pipeline is the environment AsyncWorker assumes, as long as it is   *)
(* one process that meets an object once.  Two facts carry it: a task that *)
(* has been neither handed off nor parked has no row in the ledger, so     *)
(* that its row cannot be closed and parking it inserts one; and what      *)
(* flush records has been published, so it was not handed off.             *)

Elsewhere == {"notifying", "handed", "parked"}

RowsOfTasks ==
    \A r \in Refs, s \in Scanners :
        task[<<r, s>>] \notin Elsewhere
            => ledger[<<FileOf[r], s>>].status = "absent"

EInv == /\ SInv
        /\ ToRecordArePublished
        /\ RowsOfTasks
        /\ cancelled => MayFail("cancel")

\* How far a hand-off is when its task is at that position.
Position(p) == CASE p = "recording" -> "recording"
                 [] p = "notifying" -> "notifying"
                 [] p = "handed"    -> "over"
                 [] OTHER           -> "none"

\* An object met once has one task for each scanner.
LEMMA HandingAt ==
  ASSUME DeliveredOnce, NEW r \in Refs, NEW s \in Scanners
  PROVE  /\ Handing[<<FileOf[r], s>>] = Position(task[<<r, s>>])
         /\ Handing'[<<FileOf[r], s>>] = Position(task'[<<r, s>>])
<1> DEFINE t == <<FileOf[r], s>>
<1>1. t \in Tasks
  BY TaskFinding
<1>2. \A p : /\ t \in TasksAt({p}) <=> task[<<r, s>>] = p
             /\ t \in TasksAt({p})' <=> task'[<<r, s>>] = p
  BY <1>1 DEF TasksAt, DeliveredOnce
<1> QED
  BY <1>1, <1>2 DEF Handing, Position

\* An object not met has none.
LEMMA HandingElse ==
  ASSUME NEW t \in Tasks, \A r \in Refs : FileOf[r] # t[1]
  PROVE  Handing[t] = "none" /\ Handing'[t] = "none"
  BY DEF Handing, TasksAt

\* One task moves: its hand-off is where the task is, every other as before.
LEMMA HandingMoves ==
  ASSUME DeliveredOnce, NEW r \in Refs, NEW s \in Scanners,
         \A q \in Refs, u \in Scanners :
            <<q, u>> # <<r, s>> =>
               Position(task'[<<q, u>>]) = Position(task[<<q, u>>])
  PROVE  Handing' = [Handing EXCEPT ![<<FileOf[r], s>>]
                                      = Position(task'[<<r, s>>])]
<1>1. ASSUME NEW t \in Tasks, t # <<FileOf[r], s>>
      PROVE  Handing'[t] = Handing[t]
  <2>1. CASE \A q \in Refs : FileOf[q] # t[1]
    BY <2>1, HandingElse
  <2>2. ASSUME NEW q \in Refs, FileOf[q] = t[1] PROVE Handing'[t] = Handing[t]
    <3>1. PICK u \in Scanners : t = <<FileOf[q], u>>
      BY <2>2 DEF Tasks
    <3>2. <<q, u>> # <<r, s>>
      BY <1>1, <3>1
    <3>3. Position(task'[<<q, u>>]) = Position(task[<<q, u>>])
      BY <3>2
    <3> QED
      BY <3>1, <3>3, HandingAt
  <2> QED
    BY <2>1, <2>2
<1>2. <<FileOf[r], s>> \in Tasks
  BY TaskFinding
<1>3. Handing'[<<FileOf[r], s>>] = Position(task'[<<r, s>>])
  BY HandingAt
<1>4. \A t \in Tasks :
         Handing'[t] = [Handing EXCEPT ![<<FileOf[r], s>>]
                                         = Position(task'[<<r, s>>])][t]
  BY <1>1, <1>2, <1>3 DEF Handing
<1> QED
  BY <1>4 DEF Handing

\* No task moves into a hand-off, within it or out of it.
LEMMA HandingKept ==
  ASSUME DeliveredOnce,
         \A q \in Refs, u \in Scanners :
            Position(task'[<<q, u>>]) = Position(task[<<q, u>>])
  PROVE  Handing' = Handing
<1>1. ASSUME NEW t \in Tasks PROVE Handing'[t] = Handing[t]
  <2>1. CASE \A q \in Refs : FileOf[q] # t[1]
    BY <2>1, HandingElse
  <2>2. ASSUME NEW q \in Refs, FileOf[q] = t[1] PROVE Handing'[t] = Handing[t]
    <3>1. PICK u \in Scanners : t = <<FileOf[q], u>>
      BY <2>2 DEF Tasks
    <3>2. Position(task'[<<q, u>>]) = Position(task[<<q, u>>])
      OBVIOUS
    <3> QED
      BY <3>1, <3>2, HandingAt
  <2> QED
    BY <2>1, <2>2
<1> QED
  BY <1>1 DEF Handing

\* What a step submits was not handed over before.
LEMMA SubmittedTask ==
  ASSUME DeliveredOnce, NEW t \in Submitted
  PROVE  t \in Tasks /\ Handing[t] = "none" /\ Handing'[t] = "recording"
<1>1. PICK r \in Refs : FileOf[r] = t[1] /\ task[<<r, t[2]>>] = "scanning"
  BY DEF Submitted, TasksAt
<1>2. PICK s \in Scanners : t = <<FileOf[r], s>>
  BY <1>1 DEF Submitted, TasksAt, Tasks
<1>3. task[<<r, s>>] = "scanning"
  BY <1>1, <1>2
<1>4. Handing[<<FileOf[r], s>>] = "none"
  BY <1>3, HandingAt DEF Position
<1> QED
  BY <1>2, <1>4 DEF Submitted, TasksAt

\* A scan that goes on to record its task is submitted.
LEMMA ScanSubmitted ==
  ASSUME NEW r \in Refs, NEW s \in Scanners, task[<<r, s>>] = "scanning",
         Handing'[<<FileOf[r], s>>] = "recording"
  PROVE  <<FileOf[r], s>> \in Submitted
<1> DEFINE t == <<FileOf[r], s>>
<1>1. t \in Tasks /\ FileOf[r] = t[1] /\ task[<<r, t[2]>>] = "scanning"
  BY TaskFinding
<1> HIDE DEF t
<1>2. t \in TasksAt({"scanning"})
  BY <1>1 DEF TasksAt
<1>3. Handing'[t] = "recording"
  BY DEF t
<1>4. t \in Submitted
  BY <1>2, <1>3 DEF Submitted
<1> QED
  BY <1>4 DEF t

\* A step of the pipeline that starts no hand-off submits nothing.
LEMMA NothingSubmitted ==
  ASSUME DeliveredOnce, SInv, ByPipeline(TRUE),
         \A t \in Tasks : Handing[t] = "none" => Handing'[t] # "recording"
  PROVE  analysis' = analysis
<1>1. Submitted = {}
  BY SubmittedTask
<1>2. analysis \in [Tasks -> {"none", "running", "finished"}]
  BY DEF SInv, Replicas!IInv, Replicas!WellTyped, Replicas!TypeOK,
         Replicas!Tasks, Tasks
<1> QED
  BY <1>1, <1>2 DEF ByPipeline

\* One that writes no row leaves the replicas' candidates alone,
LEMMA CandidatesKept ==
  ASSUME SInv, ByPipeline(TRUE), ledger' = ledger
  PROVE  candidates' = candidates
<1>1. candidates \in [Instances -> SUBSET Replicas!Tasks]
  BY DEF SInv, Replicas!IInv, Replicas!WellTyped, Replicas!TypeOK
<1>2. Rewritten = {}
  BY DEF Rewritten
<1> QED
  BY <1>1, <1>2 DEF ByPipeline

\* and one that changes a row takes that one from them.
LEMMA CandidatesLose ==
  ASSUME SInv, ByPipeline(TRUE), NEW t \in Tasks, NEW row, row # ledger[t],
         ledger' = [ledger EXCEPT ![t] = row]
  PROVE  candidates' = [i \in Instances |-> candidates[i] \ {t}]
<1>1. ledger \in [Tasks -> Rows]
  BY DEF SInv, IInv, WellTyped, TypeOK, DurableTypeOK
<1>2. Rewritten = {t}
  BY <1>1 DEF Rewritten
<1> QED
  BY <1>2 DEF ByPipeline

\* A step that neither writes a store nor moves a hand-off is none of the
\* worker's.
LEMMA NotViewed ==
  ASSUME DeliveredOnce, SInv, ByPipeline(TRUE), UNCHANGED durable,
         Handing' = Handing
  PROVE  UNCHANGED View!vars
<1>1. analysis' = analysis /\ candidates' = candidates
  <2>1. \A t \in Tasks : Handing[t] = "none" => Handing'[t] # "recording"
    OBVIOUS
  <2> QED
    BY <2>1, NothingSubmitted, CandidatesKept DEF durable
<1> QED
  BY <1>1 DEF View!vars, View!durable, View!threads, durable, ByPipeline,
              workerVars

\* A row that is missing is not what parking it makes of it.
LEMMA ParkedRow ==
  ASSUME NEW row \in Rows, row.status = "absent"
  PROVE  /\ EnqueuePending(row) # row
         /\ EnqueueContinuation(row) # row
         /\ MarkDone(row) = row
<1>1. EnqueuePending(row) # row /\ EnqueueContinuation(row) # row
  BY EnqueuePendingType, EnqueueContinuationType
<1>2. MarkDone(row) = row
  BY DEF MarkDone, Close
<1> QED
  BY <1>1, <1>2

\* A set all of whose members are one and the same.
LEMMA SoleMember ==
  ASSUME NEW S, NEW x \in S, \A y \in S : y = x
  PROVE  S = {x}
  OBVIOUS

\* What a lane or the dispatcher does is a step the worker's environment takes.
LEMMA LaneViewed ==
  ASSUME DeliveredOnce, EInv, ByPipeline(TRUE), NEW r \in Refs,
         NEW s \in Scanners, LaneStep(r, s)
  PROVE  [View!Next]_(View!vars)
<1> DEFINE t == <<FileOf[r], s>>
<1> USE DEF EInv, SInv, IInv, WellTyped
<1>1. /\ t \in Tasks /\ t \in View!Tasks /\ <<r, s>> \in Findings
      /\ ledger[t] \in Rows /\ t[1] = FileOf[r] /\ t[2] = s
  BY TaskFinding DEF View!Tasks, Tasks, TypeOK, DurableTypeOK
<1>2. /\ task' = [task EXCEPT ![<<r, s>>] = task'[<<r, s>>]]
      /\ task \in [Findings -> TaskStates]
  BY LaneStepMoves DEF LaneMoves, TypeOK
<1>3. Handing' = [Handing EXCEPT ![t] = Position(task'[<<r, s>>])]
  <2>1. \A q \in Refs, u \in Scanners :
           <<q, u>> # <<r, s>> => task'[<<q, u>>] = task[<<q, u>>]
    BY <1>2, TaskFinding
  <2> QED
    BY <2>1, HandingMoves
<1>4. Handing[t] = Position(task[<<r, s>>])
  BY HandingAt
<1>5. ASSUME Position(task'[<<r, s>>]) = Position(task[<<r, s>>])
      PROVE  Handing' = Handing
  BY <1>3, <1>4, <1>5 DEF Handing
<1>6. CASE ScanPends(r, s)
  <2>1. task[<<r, s>>] = "scanning" /\ task'[<<r, s>>] = "recording"
    BY <1>1, <1>2, <1>6 DEF ScanPends
  <2>2. Handing[t] = "none" /\ Handing' = [Handing EXCEPT ![t] = "recording"]
    BY <1>3, <1>4, <2>1 DEF Position
  <2>3. Submitted = {t}
    <3>1. t \in Submitted
      <4>1. Handing'[t] = "recording"
        BY <1>3, <2>1, HandingAt DEF Position
      <4> QED
        BY <2>1, <4>1, ScanSubmitted
    <3>2. ASSUME NEW u \in Submitted, u # t PROVE FALSE
      <4>1. u \in Tasks /\ Handing[u] = "none" /\ Handing'[u] = "recording"
        BY SubmittedTask
      <4> QED
        BY <2>2, <3>2, <4>1 DEF Handing
    <3>3. \A u \in Submitted : u = t
      BY <3>2
    <3> HIDE DEF EInv, SInv, IInv, WellTyped, t
    <3> QED
      BY <3>1, <3>3, SoleMember
  <2>4. analysis' = [analysis EXCEPT ![t] = "running"]
    <3>1. analysis \in [Tasks -> {"none", "running", "finished"}]
      BY DEF Replicas!IInv, Replicas!WellTyped, Replicas!TypeOK,
             Replicas!Tasks, Tasks
    <3> QED
      BY <2>3, <3>1 DEF ByPipeline
  <2>5. UNCHANGED durable /\ candidates' = candidates
    BY <1>6, CandidatesKept DEF ScanPends, durable
  <2>6. View!Submit(t)
    BY <2>2, <2>4, <2>5
       DEF View!Submit, View!durable, View!threads, durable, ByPipeline,
           workerVars
  <2> QED
    BY <1>1, <2>6 DEF View!Next
<1>7. CASE HandoffRecord(r, s)
  <2>1. task[<<r, s>>] = "recording" /\ task'[<<r, s>>] = "notifying"
    BY <1>1, <1>2, <1>7 DEF HandoffRecord
  <2>2. Handing[t] = "recording"
        /\ Handing' = [Handing EXCEPT ![t] = "notifying"]
    BY <1>3, <1>4, <2>1 DEF Position
  <2>3. analysis' = analysis
    BY <1>1, <2>2, NothingSubmitted DEF Handing
  <2>4. \/ View!Write(t, View!EnqueueContinuation(ledger[t]))
        \/ View!Fails("database") /\ UNCHANGED <<ledger, candidates>>
    <3>1. CASE MayFail("database") /\ UNCHANGED ledger
      BY <3>1, CandidatesKept DEF View!Fails, HandOffFaults, MayFail
    <3>2. CASE SetRow(FileOf[r], s, EnqueueContinuation(ledger[t]))
      <4>1. ledger[t].status = "absent"
        BY <2>1 DEF RowsOfTasks, Elsewhere
      <4>2. ledger' = [ledger EXCEPT ![t] = EnqueueContinuation(ledger[t])]
        BY <3>2 DEF SetRow
      <4>3. candidates' = [i \in Instances |-> candidates[i] \ {t}]
        BY <1>1, <4>1, <4>2, ParkedRow, CandidatesLose
      <4> QED
        BY <4>2, <4>3 DEF View!Write, View!EnqueueContinuation,
                          EnqueueContinuation
    <3> QED
      BY <1>7, <3>1, <3>2 DEF HandoffRecord
  <2>5. View!RecordHandOff(t)
    BY <1>7, <2>2, <2>3, <2>4
       DEF HandoffRecord, View!RecordHandOff, View!threads, ByPipeline,
           workerVars
  <2> QED
    BY <1>1, <2>5 DEF View!Next
<1>8. CASE HandoffNotify(r, s)
  <2>1. task[<<r, s>>] = "notifying" /\ task'[<<r, s>>] = "handed"
    BY <1>1, <1>2, <1>8 DEF HandoffNotify
  <2>2. Handing[t] = "notifying" /\ Handing' = [Handing EXCEPT ![t] = "over"]
    BY <1>3, <1>4, <2>1 DEF Position
  <2>3. analysis' = analysis
    BY <1>1, <2>2, NothingSubmitted DEF Handing
  <2>4. candidates' = candidates
    BY <1>8, CandidatesKept DEF HandoffNotify
  <2>5. \/ topic' = topic \cup {View!Continuation(t[1], t[2])}
        \/ View!Fails("broker") /\ UNCHANGED topic
    BY <1>1, <1>8
       DEF HandoffNotify, Continuation, View!Continuation, View!Fails,
           HandOffFaults, MayFail
  <2>6. View!NotifyHandOff(t)
    BY <1>8, <2>2, <2>3, <2>4, <2>5
       DEF HandoffNotify, View!NotifyHandOff, View!threads, ByPipeline,
           workerVars
  <2> QED
    BY <1>1, <2>6 DEF View!Next
<1>9. CASE Spill(r, s) \/ AdmitCancelled(r, s)
  <2>1. /\ Position(task[<<r, s>>]) = "none"
        /\ Position(task'[<<r, s>>]) = "none"
        /\ task[<<r, s>>] \notin Elsewhere
    BY <1>1, <1>2, <1>9
       DEF Spill, AdmitCancelled, Undispatched, Park, Position, Elsewhere
  <2>2. /\ Handing' = Handing /\ Handing[t] = "none"
        /\ analysis' = analysis
    BY <1>4, <1>5, <2>1, NothingSubmitted
  <2>3. UNCHANGED <<records, sink, topic>>
    BY <1>9 DEF Spill, AdmitCancelled
  <2>4. CASE UNCHANGED ledger
    BY <2>2, <2>3, <2>4, NotViewed DEF durable
  <2>5. CASE s \in Spilling
             /\ SetRow(FileOf[r], s, EnqueuePending(ledger[t]))
    <3>1. ledger[t].status = "absent"
      BY <2>1 DEF RowsOfTasks
    <3>2. ledger' = [ledger EXCEPT ![t] = EnqueuePending(ledger[t])]
      BY <2>5 DEF SetRow
    <3>3. candidates' = [i \in Instances |-> candidates[i] \ {t}]
      BY <1>1, <3>1, <3>2, ParkedRow, CandidatesLose
    <3>4. t \in Files \X Spilling
      BY <1>1, <2>5 DEF Tasks
    <3>5. View!SpillTask(t)
      BY <2>2, <2>3, <3>1, <3>2, <3>3, <3>4
         DEF View!SpillTask, View!Write, View!EnqueuePending, EnqueuePending,
             View!threads, ByPipeline, workerVars
    <3> QED
      BY <1>1, <3>5 DEF View!Next
  <2> QED
    BY <1>9, <2>4, <2>5 DEF Spill, AdmitCancelled, Park
<1>10. CASE \/ Offer(r, s) \/ DispatchCancelled(r, s) \/ TakeTask(r, s)
            \/ Admit(r, s) \/ ScanAnswers(r, s) \/ SendFinding(r, s)
            \/ SendFindingCancelled(r, s)
  <2>1. UNCHANGED durable
    BY <1>10 DEF Offer, DispatchCancelled, TakeTask, Admit, ScanAnswers,
                 SendFinding, SendFindingCancelled
  <2>2. Position(task[<<r, s>>]) = "none"
        /\ Position(task'[<<r, s>>]) = "none"
    BY <1>1, <1>2, <1>10
       DEF Offer, Undispatched, DispatchCancelled, TakeTask, Admit,
           ScanAnswers, SendFinding, SendFindingCancelled, Position
  <2> QED
    BY <1>5, <2>1, <2>2, NotViewed
<1> QED
  BY <1>6, <1>7, <1>8, <1>9, <1>10 DEF LaneStep

\* No step but those of the lanes moves a hand-off.
LEMMA OthersHandNothing ==
  ASSUME DeliveredOnce, SInv, [Next]_vars, ~NewProcess,
         ~ \E r \in Refs, s \in Scanners : LaneStep(r, s)
  PROVE  Handing' = Handing
<1>1. ASSUME NEW r \in Refs, NEW s \in Scanners
      PROVE  Position(task'[<<r, s>>]) = Position(task[<<r, s>>])
  <2>1. \/ task'[<<r, s>>] = task[<<r, s>>]
        \/ /\ task[<<r, s>>] \in {"found", "batched"}
           /\ <<task[<<r, s>>], task'[<<r, s>>]>> \in TaskMoves
    BY StepTask DEF SInv, IInv, WellTyped
  <2>2. CASE /\ task[<<r, s>>] \in {"found", "batched"}
             /\ <<task[<<r, s>>], task'[<<r, s>>]>> \in TaskMoves
    <3>1. task'[<<r, s>>] \in {"batched", "published", "dropped"}
      BY <2>2 DEF TaskMoves
    <3> QED
      BY <2>2, <3>1 DEF Position
  <2> QED
    BY <2>1, <2>2
<1> QED
  BY <1>1, HandingKept

\* What flush sends is, to the worker, of scans that were not handed off.
LEMMA SendViewed ==
  ASSUME DeliveredOnce, SInv, ByPipeline(TRUE), Handing' = Handing,
         NEW part \in SUBSET PublishBatch, Accept(part),
         UNCHANGED <<records, ledger, topic>>
  PROVE  View!Next
<1> DEFINE batch == {t \in Tasks : \E x \in part : DocOf(x) = t}
<1>1. batch \in SUBSET View!Tasks
  BY DEF View!Tasks, Tasks
<1>2. ASSUME NEW t \in batch PROVE Handing[t] = "none"
  <2>1. PICK x \in part : DocOf(x) = t /\ x \in Findings /\ task[x] = "batched"
    BY <1>2 DEF PublishBatch
  <2>2. PICK r \in Refs, u \in Scanners \cup {SizeGate} : x = <<r, u>>
    BY <2>1 DEF Findings
  <2>3. t = <<FileOf[r], u>> /\ u \in Scanners
    BY <2>1, <2>2 DEF DocOf, Tasks
  <2> QED
    BY <2>1, <2>2, <2>3, HandingAt DEF Position
<1>3. analysis' = analysis /\ candidates' = candidates
  <2>1. \A t \in Tasks : Handing[t] = "none" => Handing'[t] # "recording"
    OBVIOUS
  <2> QED
    BY <2>1, NothingSubmitted, CandidatesKept
<1> DEFINE seenSink == [d \in Docs |-> IF d \in Tasks THEN sink[d] ELSE "none"]
<1>4. \A d \in Docs : sink'[d] = IF d \in {DocOf(x) : x \in part}
                                 THEN "answer" ELSE sink[d]
  BY DEF Accept
<1>5. seenSink' = [d \in Docs |-> IF d \in batch THEN "answer"
                                               ELSE seenSink[d]]
  <2>1. \A d \in Docs : seenSink'[d] = IF d \in batch THEN "answer"
                                                      ELSE seenSink[d]
    BY <1>4
  <2> QED
    BY <2>1
<1>6. View!PublishInline(batch)
  <2>1. View!Docs = Docs
    BY DEF View!Docs, Docs
  <2> HIDE DEF batch
  <2> QED
    BY <1>2, <1>3, <1>5, <2>1
       DEF View!PublishInline, View!threads, ByPipeline, workerVars
<1> HIDE DEF batch
<1> QED
  BY <1>1, <1>6 DEF View!Next

\* What flush records was published, so that its task has no row to close.
LEMMA MarkViewed ==
  ASSUME DeliveredOnce, EInv, ByPipeline(TRUE), Handing' = Handing,
         NEW x \in Findings, MarkObject(x)
  PROVE  [View!Next]_(View!vars)
<1> USE DEF EInv, SInv, IInv, WellTyped, TypeOK, DurableTypeOK
<1>1. x \in toRecord /\ x[2] # SizeGate /\ task[x] = "published"
  BY DEF MarkObject, ToRecordIsPublished, ToRecordArePublished
<1>2. PICK r \in Refs, s \in Scanners : x = <<r, s>>
  BY <1>1 DEF Findings
<1>3. <<FileOf[r], s>> \in Tasks /\ ledger[<<FileOf[r], s>>] \in Rows
  BY TaskFinding
<1>4. ledger[<<FileOf[r], s>>].status = "absent"
  BY <1>1, <1>2 DEF RowsOfTasks, Elsewhere
<1>5. ledger' = ledger
  <2>1. MarkDone(ledger[<<FileOf[r], s>>]) = ledger[<<FileOf[r], s>>]
    BY <1>3, <1>4, ParkedRow
  <2> QED
    BY <1>2, <1>3, <2>1 DEF MarkObject, SetRow, DocOf
<1>6. analysis' = analysis /\ candidates' = candidates
  <2>1. \A t \in Tasks : Handing[t] = "none" => Handing'[t] # "recording"
    OBVIOUS
  <2> QED
    BY <1>5, <2>1, NothingSubmitted, CandidatesKept
<1>7. CASE records' = records
  BY <1>5, <1>7, NotViewed DEF MarkObject, durable
<1>8. CASE records' = records \cup {FileOf[r]}
  <2>1. FileOf[r] \in Files
    BY PipelineAssumption
  <2>2. View!RecordFile(FileOf[r])
    BY <1>5, <1>6, <1>8, <2>1
       DEF MarkObject, View!RecordFile, View!threads, ByPipeline, workerVars
  <2> QED
    BY <2>1, <2>2 DEF View!Next
<1> QED
  BY <1>2, <1>7, <1>8 DEF MarkObject

\* One process starts no other.
LEMMA OneProcess == MaxRuns = 1 /\ TypeOK => ~NewProcess
  BY DEF TypeOK, NewProcess

\* Every step of the pipeline is one that the worker's environment takes.
LEMMA PipelineViewed ==
  ASSUME DeliveredOnce, MaxRuns = 1, EInv, PipelineSteps
  PROVE  [View!Next]_(View!vars)
<1>1. Next /\ ByPipeline(TRUE) /\ ~NewProcess
  BY OneProcess DEF PipelineSteps, ByPipeline, EInv, SInv, IInv, WellTyped
<1>2. CASE \E r \in Refs, s \in Scanners : LaneStep(r, s)
  BY <1>1, <1>2, LaneViewed
<1>3. CASE ~ \E r \in Refs, s \in Scanners : LaneStep(r, s)
  <2>1. Handing' = Handing
    BY <1>1, <1>3, OthersHandNothing DEF EInv
  <2>2. CASE SendSucceeds \/ SendFails
    <3>1. PICK part \in SUBSET PublishBatch : Accept(part)
      BY <2>2 DEF SendSucceeds, SendFails
    <3> QED
      BY <1>1, <2>1, <2>2, <3>1, SendViewed DEF EInv, SendSucceeds, SendFails
  <2>3. CASE \E x \in Findings : MarkObject(x)
    BY <1>1, <2>1, <2>3, MarkViewed
  <2>4. CASE UNCHANGED durable
    BY <1>1, <2>1, <2>4, NotViewed DEF EInv
  <2> QED
    BY <1>1, <1>3, <2>2, <2>3, <2>4, OthersWriteNothing
<1> QED
  BY <1>2, <1>3

\* The replicas' own steps are those of the view, which shows them the tasks'
\* documents and counts more faults: a thread's,
LEMMA HandlingViewed ==
  ASSUME Replicas!IInv, NEW th \in Replicas!Threads, Replicas!Handle(th),
         Handing' = Handing
  PROVE  View!Handle(th)
<1>1. \A what : Replicas!Fails(what) => View!Fails(what)
  BY DEF Replicas!Fails, View!Fails
<1>2. CASE \/ Replicas!GiveUp(th) \/ Replicas!LeaveEarly(th)
           \/ Replicas!Poll(th) \/ Replicas!PollFails(th)
  BY <1>1, <1>2
     DEF Replicas!GiveUp, Replicas!LeaveEarly, Replicas!Poll,
         Replicas!PollFails, Replicas!Goto, Replicas!TooOld,
         Replicas!TooEarly, Replicas!TaskOf, Replicas!durable,
         View!Handle, View!GiveUp, View!LeaveEarly, View!Poll,
         View!PollFails, View!Goto, View!TooOld, View!TooEarly, View!TaskOf,
         View!durable
<1>3. CASE Replicas!Reschedule(th) \/ Replicas!CloseTask(th)
  BY <1>1, <1>3
     DEF Replicas!Reschedule, Replicas!CloseTask, Replicas!Goto,
         Replicas!Write, Replicas!TaskOf, Replicas!RescheduleContinuation,
         Replicas!MarkFailed, Replicas!MarkDone, Replicas!Close,
         View!Handle, View!Reschedule, View!CloseTask, View!Goto, View!Write,
         View!TaskOf, View!RescheduleContinuation, View!MarkFailed,
         View!MarkDone, View!Close
<1>4. CASE Replicas!PublishVerdict(th)
  <2> DEFINE seenSink == [d \in Docs |-> IF d \in Tasks THEN sink[d]
                                                        ELSE "none"]
             t == Replicas!TaskOf(job[th])
  <2>1. t \in Tasks /\ t \in Docs /\ sink \in [Docs -> Documents]
    <3>1. job[th] \in Replicas!Jobs
      BY <1>4 DEF Replicas!PublishVerdict, Replicas!IInv,
                  Replicas!WellTyped, Replicas!HoldsJob, Replicas!Holding
    <3> QED
      BY <3>1 DEF Replicas!Jobs, Replicas!TaskOf, Tasks, Docs,
                  Replicas!IInv, Replicas!WellTyped, Replicas!TypeOK,
                  Replicas!DurableTypeOK, Replicas!Docs, Documents,
                  Replicas!Documents
  <2>2. sink' = [sink EXCEPT ![t] = verdict[th]]
           => seenSink' = [seenSink EXCEPT ![t] = verdict[th]]
    BY <2>1
  <2>3. UNCHANGED sink => UNCHANGED seenSink
    OBVIOUS
  <2>4. View!TaskOf(job[th]) = t
    BY DEF View!TaskOf, Replicas!TaskOf
  <2> HIDE DEF t
  <2> QED
    BY <1>1, <1>4, <2>2, <2>3, <2>4
       DEF t, Replicas!PublishVerdict, Replicas!Goto, View!Handle,
           View!PublishVerdict, View!Goto
<1>5. CASE Replicas!Return(th)
  BY <1>1, <1>5
     DEF Replicas!Return, Replicas!Goto, Replicas!MessageOf, View!Handle,
         View!Return, View!Goto, View!MessageOf
<1> QED
  BY <1>2, <1>3, <1>4, <1>5 DEF Replicas!Handle

\* a claim's,
LEMMA ClaimViewed ==
  ASSUME NEW i \in Instances, Handing' = Handing
  PROVE  /\ Replicas!SelectDue(i) => View!SelectDue(i)
         /\ Replicas!ClaimDue(i) => View!ClaimDue(i)
         /\ Replicas!ClaimFails(i) => View!ClaimFails(i)
<1>1. \A row : Replicas!Claimable(row) = View!Claimable(row)
  BY DEF Replicas!Claimable, View!Claimable
<1>2. \A row : Replicas!Claim(row, i) = View!Claim(row, i)
  BY DEF Replicas!Claim, Replicas!Saturate, View!Claim, View!Saturate
<1>3. Replicas!SelectDue(i) => View!SelectDue(i)
  <2>1. {t \in Replicas!Tasks : Replicas!Claimable(ledger[t])}
           = {t \in View!Tasks : View!Claimable(ledger[t])}
    BY <1>1 DEF Replicas!Tasks, View!Tasks
  <2>2. \A S : Replicas!Cardinality(S) = View!Cardinality(S)
    BY DEF Replicas!Cardinality, View!Cardinality
  <2> QED
    BY <2>1, <2>2
       DEF Replicas!SelectDue, Replicas!Goto, Replicas!durable,
           View!SelectDue, View!Goto, View!durable
<1>4. Replicas!ClaimDue(i) => View!ClaimDue(i)
  BY <1>2 DEF Replicas!ClaimDue, Replicas!Tasks, Replicas!Goto,
              Replicas!FromRow, View!ClaimDue, View!Tasks, View!Goto,
              View!FromRow
<1>5. Replicas!ClaimFails(i) => View!ClaimFails(i)
  BY DEF Replicas!ClaimFails, Replicas!Goto, Replicas!Fails,
         Replicas!durable, View!ClaimFails, View!Goto, View!Fails,
         View!durable
<1> QED
  BY <1>3, <1>4, <1>5

\* a sweeper's, a consumer's and a crash,
LEMMA SweepingViewed ==
  ASSUME NEW i \in Instances, Handing' = Handing,
         Replicas!Sweep(i) \/ Replicas!Consume(i) \/ Replicas!Crash(i)
  PROVE  View!Sweep(i) \/ View!Consume(i) \/ View!Crash(i)
<1>1. ASSUME NEW j \in claimed[i],
             \/ Replicas!PutBack(i, j) \/ Replicas!PassOver(i, j)
             \/ Replicas!HandleClaimed(i, j)
      PROVE  View!Sweep(i)
  BY <1>1
     DEF Replicas!PutBack, Replicas!PassOver, Replicas!HandleClaimed,
         Replicas!threads, Replicas!Goto, Replicas!Fails, Replicas!Write,
         Replicas!TaskOf, Replicas!durable, Replicas!RescheduleContinuation,
         View!Sweep, View!PutBack, View!PassOver, View!HandleClaimed,
         View!threads, View!Goto, View!Fails, View!Write, View!TaskOf,
         View!durable, View!RescheduleContinuation
<1>2. Replicas!SweepEnds(i) => View!Sweep(i)
  BY DEF Replicas!SweepEnds, Replicas!Goto, Replicas!durable, View!Sweep,
         View!SweepEnds, View!Goto, View!durable
<1>3. Replicas!Sweep(i) => View!Sweep(i)
  BY <1>1, <1>2, ClaimViewed DEF Replicas!Sweep, View!Sweep
<1>4. Replicas!Consume(i) => View!Consume(i)
  BY DEF Replicas!Consume, Replicas!Receive, Replicas!FromMessage,
         Replicas!Goto, Replicas!durable, View!Consume, View!Receive,
         View!FromMessage, View!Goto, View!durable
<1>5. Replicas!Crash(i) => View!Crash(i)
  BY DEF Replicas!Crash, Replicas!Fails, Replicas!Threads,
         Replicas!durable, View!Crash, View!Fails, View!Threads,
         View!durable
<1> QED
  BY <1>3, <1>4, <1>5

\* the clock's and the sandbox's.
LEMMA TimeViewed ==
  ASSUME Handing' = Handing
  PROVE  /\ Replicas!Tick => View!Tick
         /\ \A t \in Replicas!Tasks :
               Replicas!AnalysisFinishes(t)
                  => t \in View!Tasks /\ View!AnalysisFinishes(t)
<1>1. \A row : Replicas!Elapse(row) = View!Elapse(row)
  BY Zenon DEF Replicas!Elapse, Replicas!Countdown, Replicas!Saturate,
               View!Elapse, View!Countdown, View!Saturate
<1>2. \A j : Replicas!Aged(j) = View!Aged(j)
  BY Zenon DEF Replicas!Aged, Replicas!Countdown, Replicas!Saturate,
               View!Aged, View!Countdown, View!Saturate
<1>3. Replicas!Tick => View!Tick
  BY <1>1, <1>2 DEF Replicas!Tick, Replicas!Tasks, Replicas!Threads,
                    View!Tick, View!Tasks, View!Threads
<1>4. ASSUME NEW t \in Replicas!Tasks, Replicas!AnalysisFinishes(t)
      PROVE  t \in View!Tasks /\ View!AnalysisFinishes(t)
  BY <1>4 DEF Replicas!Tasks, Replicas!AnalysisFinishes, Replicas!threads,
              Replicas!durable, View!AnalysisFinishes, View!Tasks,
              View!threads, View!durable
<1> QED
  BY <1>3, <1>4

\* So every step of the replicas is one of the view.
LEMMA ReplicasViewed ==
  ASSUME Replicas!IInv, WorkerSteps
  PROVE  View!Next
<1>1. Handing' = Handing
  BY DEF WorkerSteps, pipelineVars, Handing, TasksAt
<1>2. ASSUME NEW th \in Replicas!Threads, Replicas!Handle(th)
      PROVE  View!Next
  <2>1. th \in View!Threads
    BY DEF Replicas!Threads, View!Threads
  <2> QED
    BY <1>1, <1>2, <2>1, HandlingViewed DEF View!Next
<1>3. ASSUME NEW i \in Instances,
             Replicas!Sweep(i) \/ Replicas!Consume(i) \/ Replicas!Crash(i)
      PROVE  View!Next
  BY <1>1, <1>3, SweepingViewed DEF View!Next
<1>4. CASE \/ Replicas!Tick
           \/ \E t \in Replicas!Tasks : Replicas!AnalysisFinishes(t)
  BY <1>1, <1>4, TimeViewed DEF View!Next
<1> QED
  BY <1>2, <1>3, <1>4 DEF WorkerSteps, ReplicasNext

\* Only the signal cancels a run.
LEMMA OnlySignalCancels ==
  ASSUME TypeOK, [Next]_vars, ~NewProcess, cancelled'
  PROVE  cancelled \/ MayFail("cancel")
<1>1. CASE DiscoverNext \/ FetchNext \/ LanesNext \/ PublishNext
  BY <1>1, DiscoverDrain, FetchDrain, LanesDrain, PublishDrain DEF runVars
<1>2. CASE Closing \/ UNCHANGED vars
  BY <1>2 DEF Closing, CloseJobs, ClosePayloads, CloseLanes, CloseFindings,
              RunReturns, Cancel, vars, runVars
<1> QED
  BY <1>1, <1>2 DEF Next, Closing, Crash, Restart, Finished

\* The pipeline inserts a row only for a task it hands off or parks.
LEMMA PipelineInserts ==
  ASSUME DeliveredOnce, MaxRuns = 1, EInv, [Next]_vars
  PROVE  RowsOfTasks'
<1> SUFFICES ASSUME NEW r \in Refs, NEW s \in Scanners,
                    task'[<<r, s>>] \notin Elsewhere
             PROVE  ledger'[<<FileOf[r], s>>].status = "absent"
  BY DEF RowsOfTasks
<1> USE DEF EInv, SInv, IInv, WellTyped
<1> DEFINE t == <<FileOf[r], s>>
<1>1. /\ <<r, s>> \in Findings /\ t \in Tasks
      /\ ledger \in [Tasks -> Rows] /\ task \in [Findings -> TaskStates]
  BY TaskFinding DEF TypeOK, DurableTypeOK
<1>2. ~NewProcess
  BY OneProcess
<1>3. task[<<r, s>>] \notin Elsewhere
  <2>1. CASE LaneStep(r, s)
    <3>1. <<task[<<r, s>>], task'[<<r, s>>]>> \in TaskMoves
      BY <2>1, LaneStepMoves
    <3> QED
      BY <3>1 DEF TaskMoves, Elsewhere
  <2>2. CASE /\ task[<<r, s>>] \in {"found", "batched"}
             /\ <<task[<<r, s>>], task'[<<r, s>>]>> \in TaskMoves
    BY <2>2 DEF Elsewhere
  <2> QED
    BY <1>2, <2>1, <2>2, StepTask
<1>4. ledger[t].status = "absent"
  BY <1>3 DEF RowsOfTasks
<1>5. ASSUME NEW q \in Refs, NEW u \in Scanners, <<q, u>> # <<r, s>>
      PROVE  <<FileOf[q], u>> # t
  BY <1>5 DEF DeliveredOnce
<1>6. ASSUME NEW q \in Refs, NEW u \in Scanners, LaneStep(q, u)
      PROVE  ledger'[t].status = "absent"
  <2>1. CASE <<q, u>> = <<r, s>>
    <3>1. \/ UNCHANGED ledger
          \/ Spill(q, u) \/ AdmitCancelled(q, u) \/ HandoffRecord(q, u)
      BY <1>6 DEF LaneStep, Offer, DispatchCancelled, TakeTask, Admit,
                  ScanAnswers, ScanPends, HandoffNotify, SendFinding,
                  SendFindingCancelled, durable
    <3>2. UNCHANGED ledger
      BY <1>1, <2>1, <3>1
         DEF Spill, AdmitCancelled, HandoffRecord, Park, Elsewhere
    <3> QED
      BY <1>4, <3>2
  <2>2. CASE <<q, u>> # <<r, s>>
    <3>1. <<FileOf[q], u>> # t
      BY <1>5, <2>2
    <3>2. \/ UNCHANGED ledger
          \/ \E row : SetRow(FileOf[q], u, row)
      BY <1>6 DEF LaneStep, Offer, Spill, DispatchCancelled, TakeTask, Admit,
                  AdmitCancelled, ScanAnswers, ScanPends, HandoffRecord,
                  HandoffNotify, SendFinding, SendFindingCancelled, Park,
                  durable
    <3> QED
      BY <1>1, <1>4, <3>1, <3>2 DEF SetRow
  <2> QED
    BY <2>1, <2>2
<1>7. CASE ~ \E q \in Refs, u \in Scanners : LaneStep(q, u)
  <2>1. ASSUME NEW x \in Findings, MarkObject(x)
        PROVE  ledger'[t].status = "absent"
    <3>1. PICK q \in Refs, u \in Scanners : x = <<q, u>>
      BY <2>1 DEF MarkObject, ToRecordIsPublished, Findings
    <3>2. CASE <<q, u>> = <<r, s>>
      <4>1. MarkDone(ledger[t]) = ledger[t]
        BY <1>1, <1>4, ParkedRow
      <4> QED
        BY <1>1, <1>4, <2>1, <3>1, <3>2, <4>1 DEF MarkObject, SetRow, DocOf
    <3>3. CASE <<q, u>> # <<r, s>>
      BY <1>1, <1>4, <1>5, <2>1, <3>1, <3>3 DEF MarkObject, SetRow
    <3> QED
      BY <3>2, <3>3
  <2>2. CASE UNCHANGED durable \/ SendSucceeds \/ SendFails
    BY <1>4, <2>2 DEF durable, SendSucceeds, SendFails
  <2> QED
    BY <1>2, <1>7, <2>1, <2>2, OthersWriteNothing
<1> QED
  BY <1>6, <1>7

\* The replicas insert none.
LEMMA ReplicasInsertNothing ==
  ASSUME Replicas!IInv, ReplicasNext, NEW t \in Replicas!Tasks,
         ledger[t].status = "absent"
  PROVE  ledger'[t].status = "absent"
<1> USE DEF Replicas!IInv, Replicas!WellTyped
<1>1. ledger \in [Replicas!Tasks -> Replicas!Rows]
  BY DEF Replicas!TypeOK, Replicas!DurableTypeOK
<1>2. ASSUME NEW u, NEW row, Replicas!Write(u, row),
             u = t => row.status = "absent"
      PROVE  ledger'[t].status = "absent"
  BY <1>1, <1>2 DEF Replicas!Write
<1>3. CASE Replicas!Tick
  BY <1>3 DEF Replicas!Tick, Replicas!Elapse
<1>4. ASSUME NEW i \in Instances, Replicas!ClaimDue(i)
      PROVE  ledger'[t].status = "absent"
  <2>1. t \notin candidates[i]
    BY DEF Replicas!CandidatesClaimable, Replicas!Claimable
  <2> QED
    BY <1>4, <2>1 DEF Replicas!ClaimDue
<1>5. ASSUME NEW i \in Instances, NEW j \in claimed[i], Replicas!PutBack(i, j)
      PROVE  ledger'[t].status = "absent"
  BY <1>2, <1>5 DEF Replicas!PutBack, Replicas!RescheduleContinuation
<1>6. ASSUME NEW th \in Replicas!Threads,
             Replicas!Reschedule(th) \/ Replicas!CloseTask(th)
      PROVE  ledger'[t].status = "absent"
  BY <1>2, <1>6
     DEF Replicas!Reschedule, Replicas!CloseTask,
         Replicas!RescheduleContinuation, Replicas!MarkFailed,
         Replicas!MarkDone, Replicas!Close
<1>7. CASE UNCHANGED ledger
  BY <1>7
<1> QED
  BY <1>3, <1>4, <1>5, <1>6, <1>7
     DEF ReplicasNext, Replicas!AnalysisFinishes, Replicas!Sweep,
         Replicas!SelectDue, Replicas!ClaimFails, Replicas!PassOver,
         Replicas!HandleClaimed, Replicas!SweepEnds, Replicas!Consume,
         Replicas!Receive, Replicas!Crash, Replicas!Handle, Replicas!GiveUp,
         Replicas!LeaveEarly, Replicas!Poll, Replicas!PollFails,
         Replicas!PublishVerdict, Replicas!Return, Replicas!durable

\* Every step of the system keeps the invariant.
LEMMA EnvironmentStep ==
  ASSUME DeliveredOnce, MaxRuns = 1
  PROVE  EInv /\ [SystemNext]_systemVars => EInv'
<1> SUFFICES ASSUME EInv, [SystemNext]_systemVars PROVE EInv'
  OBVIOUS
<1>1. SInv'
  BY SystemStep DEF EInv
<1>2. ASSUME [Next]_vars
      PROVE  ToRecordArePublished' /\ RowsOfTasks'
             /\ (cancelled' => MayFail("cancel"))
  <2>1. ToRecordArePublished'
    BY <1>2, StepToRecord DEF EInv, SInv
  <2>2. ~NewProcess
    BY OneProcess DEF EInv, SInv, IInv, WellTyped
  <2>3. RowsOfTasks'
    BY <1>2, PipelineInserts
  <2> QED
    BY <1>2, <2>1, <2>2, <2>3, OnlySignalCancels
       DEF EInv, SInv, IInv, WellTyped
<1>3. CASE WorkerSteps
  <2>1. UNCHANGED <<task, toRecord, cancelled>>
    BY <1>3 DEF WorkerSteps, pipelineVars, publishVars, runVars
  <2>2. ASSUME NEW r \in Refs, NEW s \in Scanners,
               ledger[<<FileOf[r], s>>].status = "absent"
        PROVE  ledger'[<<FileOf[r], s>>].status = "absent"
    <3>1. <<FileOf[r], s>> \in Replicas!Tasks
      BY TaskFinding DEF Tasks, Replicas!Tasks
    <3> QED
      BY <1>3, <2>2, <3>1, ReplicasInsertNothing DEF WorkerSteps, EInv, SInv
  <2> QED
    BY <1>1, <2>1, <2>2 DEF EInv, ToRecordArePublished, RowsOfTasks
<1>4. CASE PipelineSteps \/ UNCHANGED systemVars
  BY <1>1, <1>2, <1>4 DEF PipelineSteps, ByPipeline, systemVars, EInv
<1> QED
  BY <1>3, <1>4, StepOfEither

\* The system starts in it, and as the view does.
LEMMA EnvironmentStart == SystemInit => EInv /\ View!Init
<1> SUFFICES ASSUME SystemInit PROVE EInv /\ View!Init
  OBVIOUS
<1>1. EInv
  BY SystemStart, TaskFinding
     DEF SystemInit, Init, DurableInit, NoRow, EInv, ToRecordArePublished,
         RowsOfTasks
<1>2. View!Init
  <2>1. Handing = [t \in Tasks |-> "none"]
    BY DEF SystemInit, Worker!Init, Worker!Tasks, Tasks
  <2> QED
    BY <2>1
       DEF SystemInit, Init, DurableInit, NoRow, Docs, Tasks, Worker!Init,
           Worker!Tasks, Worker!Threads, View!Init, View!DurableInit,
           View!NoRow, View!Tasks, View!Docs, View!Threads
<1> QED
  BY <1>1, <1>2

\* One process of the pipeline that meets an object once is, with the stores
\* it shares, an environment in which AsyncWorker's replicas run: what is
\* proved of them there holds in the system.
THEOREM PipelineImplementsEnvironment ==
  ASSUME DeliveredOnce, MaxRuns = 1
  PROVE  SystemSpec => PipelineIsEnvironment
<1>1. SystemInit => EInv /\ View!Init
  BY EnvironmentStart
<1>2. EInv /\ [SystemNext]_systemVars => EInv'
  BY EnvironmentStep
<1>3. EInv /\ [SystemNext]_systemVars => [View!Next]_(View!vars)
  <2> SUFFICES ASSUME EInv, [SystemNext]_systemVars
               PROVE  [View!Next]_(View!vars)
    OBVIOUS
  <2>1. CASE PipelineSteps
    BY <2>1, PipelineViewed
  <2>2. CASE WorkerSteps
    BY <2>2, ReplicasViewed DEF EInv, SInv
  <2>3. CASE UNCHANGED systemVars
    BY <2>3 DEF systemVars, vars, durable, workerVars, Handing, TasksAt,
                View!vars, View!durable, View!threads
  <2> QED
    BY <2>1, <2>2, <2>3, StepOfEither
<1> QED
  BY <1>1, <1>2, <1>3, PTL DEF SystemSpec, PipelineIsEnvironment, View!Spec
============================================================================
