------------------------------ MODULE System ------------------------------
(***************************************************************************)
(* The scan pipeline and the async worker as one system.  They are two     *)
(* programs that never call each other: what they share is the database,   *)
(* the sink and the topic (Durable), and the sandbox stands between them.  *)
(* A scan that the pipeline hands off goes on in the worker.               *)
(*                                                                         *)
(* Every step is a step of one program and leaves the other's own state    *)
(* alone.  AsyncWorker by itself assumes an environment; that the pipeline *)
(* is such an environment is a property of this module.                    *)
(***************************************************************************)
EXTENDS Pipeline

CONSTANTS Collectors, MaxAge, Batch, NoJob, WorkerFaults

VARIABLES analysis, candidates, claimed, at, job, verdict

pipelineVars == <<stage, task, payloadVars, discoverVars, fetchers, disp,
                  publishVars, runVars>>
workerVars   == <<claimed, at, job, verdict>>
systemVars   == <<vars, analysis, candidates, workerVars>>

\* How far the pipeline is with handing a task over: lanes keep that in task.
TasksAt(positions) == {t \in Tasks : \E r \in Refs :
                          FileOf[r] = t[1] /\ task[<<r, t[2]>>] \in positions}
Handing == [t \in Tasks |->
              CASE t \in TasksAt({"recording"}) -> "recording"
                [] t \in TasksAt({"notifying"}) -> "notifying"
                [] t \in TasksAt({"handed"})    -> "over"
                [] OTHER                        -> "none"]

Worker == INSTANCE AsyncWorker
          WITH handing <- Handing, HasBroker <- TRUE,
               Recorded <- Files, Spilled <- Files \X Spilling

\* Every write of the pipeline changes the row it writes; the replicas are such
\* as AsyncWorker takes them to be.
ASSUME SystemAssumption ==
    /\ PollInterval > 0 /\ RetryBase > 0
    /\ Collectors \subseteq Scanners
    /\ MaxAge \in Nat /\ MaxAge < AgeCap
    /\ Batch \in Nat \ {0}
    /\ WorkerFaults \subseteq Worker!AllWorkerFaults

SystemInit == Init /\ Worker!Init

------------------------------------------------------------------------

\* A scan that turns out to be pending has been submitted to the sandbox.
Submitted == {t \in TasksAt({"scanning"}) : Handing'[t] = "recording"}

\* A row the pipeline writes is not as a replica's claim has read it.
Rewritten == {t \in Tasks : ledger'[t] # ledger[t]}

ByPipeline(step) ==
    /\ step
    /\ analysis' = [t \in Tasks |-> IF t \in Submitted THEN "running"
                                    ELSE analysis[t]]
    /\ candidates' = [i \in Instances |-> candidates[i] \ Rewritten]
    /\ UNCHANGED workerVars

ByWorker(step) == UNCHANGED pipelineVars /\ step

\* A replica that dies again and again closes nothing.  The bound: it dies only
\* while the pipeline still runs, which is as long as it likes but not for ever.
CrashWhileRunning(i) == main # "ended" /\ ByWorker(Worker!Crash(i))

SystemNext ==
    \/ ByPipeline(Next)
    \/ ByWorker(Worker!Tick)
    \/ \E t \in Tasks : ByWorker(Worker!AnalysisFinishes(t))
    \/ \E i \in Instances :
          \/ ByWorker(Worker!Sweep(i)) \/ ByWorker(Worker!Consume(i))
          \/ CrashWhileRunning(i)
    \/ \E th \in Worker!Threads : ByWorker(Worker!Handle(th))

SystemSpec == SystemInit /\ [][SystemNext]_systemVars

\* Each program as by itself: the pipeline's stages and the worker's threads
\* keep running, and time passes.  That an analysis ends is not promised.
SystemFairness ==
    /\ WF_systemVars(ByPipeline(DiscoverNext))
    /\ WF_systemVars(ByPipeline(FetchNext))
    /\ WF_systemVars(ByPipeline(LanesNext))
    /\ WF_systemVars(ByPipeline(PublishNext))
    /\ WF_systemVars(ByPipeline(CloseJobs \/ ClosePayloads \/ CloseLanes
                                \/ CloseFindings \/ RunReturns))
    /\ WF_systemVars(ByWorker(Worker!Tick))
    /\ \A i \in Instances : /\ WF_systemVars(ByWorker(Worker!Sweep(i)))
                            /\ WF_systemVars(ByWorker(Worker!Consume(i)))
    /\ \A th \in Worker!Threads : WF_systemVars(ByWorker(Worker!Handle(th)))

FairSystem == SystemSpec /\ SystemFairness

------------------------------------------------------------------------
(* Properties.  Pipeline!PublishesFirst holds of the whole system too: both *)
(* programs write to the sink before they record or close.                 *)

\* A continuation whose object is recorded is closed in the end and stays
\* closed: whether or not its analysis ends, whatever message about it comes
\* late or not at all, and whatever another thread read before it was closed.
Collected ==
    \A t \in Tasks :
        ledger[t].token # "" /\ t[1] \in records ~> [](Worker!Closed(t))

\* What both programs are there for: as long as the stores work, an object
\* ends with the document of every scanner in the sink, of those that answered
\* at once and of those that went on in the sandbox.
EveryObjectAnswered ==
    \A r \in Refs :
        <>[](\/ cancelled
             \/ stage[r] \in {"skipped", "failed"}
             \/ sink[<<FileOf[r], SizeGate>>] = "answer"
             \/ \A s \in Scanners : sink[<<FileOf[r], s>>] # "none")

\* A hand-off that the pipeline fails to record or to announce is a fault of the
\* worker's environment; so is the signal, which loses a message as a broker
\* that is down does.
HandOffFaults == (Faults \cap {"database", "broker"})
                 \cup (IF MayFail("cancel") THEN {"broker"} ELSE {})

\* The pipeline is the environment AsyncWorker assumes, so what is shown of the
\* worker there holds of it here: a scan is submitted once, recorded and then
\* announced, and nothing the pipeline publishes or closes has been handed off.
\* (Of one process that meets an object once: a second one may scan it again.)
\* The worker is not concerned with the documents of the size gate.
View == INSTANCE AsyncWorker
        WITH handing <- Handing, HasBroker <- TRUE,
             Recorded <- Files, Spilled <- Files \X Spilling,
             sink <- [d \in Docs |-> IF d \in Tasks THEN sink[d] ELSE "none"],
             WorkerFaults <- WorkerFaults \cup HandOffFaults
PipelineIsEnvironment == View!Spec
============================================================================
