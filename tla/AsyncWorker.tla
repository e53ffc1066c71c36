---------------------------- MODULE AsyncWorker ---------------------------
(***************************************************************************)
(* s3nitor-async (internal/async/worker.go): replicas that collect the     *)
(* verdicts of scans running in a sandbox.  Each replica has two threads:  *)
(* one consumes the continuation topic, one sweeps the ledger.  Both       *)
(* advance a continuation by one step of the same handler.                 *)
(*                                                                         *)
(* A thread keeps what it read about a continuation in job[th] while it    *)
(* calls the sandbox, the sink and the database one after the other; the   *)
(* other threads, the clock and crashes come in between.                   *)
(***************************************************************************)
EXTENDS Durable, FiniteSets

CONSTANTS
    Collectors,   \* scanners a collector is registered for
    MaxAge,       \* ASYNC_MAX_AGE in ticks; 0 never gives up
    Batch,        \* WorkerOptions.Batch
    NoJob,        \* a thread that holds no continuation
    Recorded,     \* files whose record some sibling scanner's finding brings
    HasBroker,    \* continuations are published to the topic too
    Spilled,      \* tasks parked by the pipeline without a token
    WorkerFaults  \* which of AllWorkerFaults may happen

AllWorkerFaults == {"poll", "sink", "database", "broker", "crash", "ack"}

ASSUME WorkerAssumption ==
    /\ Collectors \subseteq Scanners
    /\ MaxAge \in Nat /\ MaxAge < AgeCap
    /\ Batch \in Nat \ {0}
    /\ Recorded \subseteq Files
    /\ HasBroker \in BOOLEAN
    /\ Spilled \subseteq Tasks
    /\ WorkerFaults \subseteq AllWorkerFaults

VARIABLES
    handing,     \* how far the pipeline is with handing a task over: external
    analysis,    \* the sandbox's side of a task: external
    candidates,  \* rows a replica's ClaimPending has read and nobody rewrote
    claimed,     \* the claimed continuations its sweep has still to handle
    at, job,     \* what each thread is doing, and on which continuation
    verdict      \* the document it is about to publish

threads == <<at, job, verdict>>
vars == <<durable, handing, analysis, candidates, claimed, threads>>

Threads == Instances \X {"sweeper", "consumer"}

Phases == {"idle", "claiming", "sweeping", "handling",
           "rescheduling", "publishing", "closing", "returning"}

\* async.Continuation, with the ages its clock readings have now.  A row
\* without a token gives one too: ClaimPending returns it all the same.
Jobs == [file : Files, scanner : Scanners, due : Nat, age : 0..AgeCap,
         token : Tokens]

TaskOf(j) == <<j.file, j.scanner>>

FromMessage(m) == [file |-> m.file, scanner |-> m.scanner, due |-> m.due,
                   age |-> m.age, token |-> "token"]
MessageOf(j) == [file |-> j.file, scanner |-> j.scanner, due |-> j.due,
                 age |-> j.age]

\* Mutant of FromRow: the row's resume_token is not read back.
FromRowUntokened(t) ==
    [file |-> t[1], scanner |-> t[2], due |-> ledger[t].due,
     age |-> ledger[t].age, token |-> ""]

FromRow(t) == [file |-> t[1], scanner |-> t[2], due |-> ledger[t].due,
               age |-> ledger[t].age, token |-> ledger[t].token]

Fails(what) == what \in WorkerFaults

TypeOK ==
    /\ DurableTypeOK
    /\ handing \in [Tasks -> {"none", "recording", "notifying", "over"}]
    /\ analysis \in [Tasks -> {"none", "running", "finished"}]
    /\ candidates \in [Instances -> SUBSET Tasks]
    /\ claimed \in [Instances -> SUBSET Jobs]
    /\ at \in [Threads -> Phases]
    /\ job \in [Threads -> Jobs \cup {NoJob}]
    /\ verdict \in [Threads -> Documents]

Init ==
    /\ DurableInit
    /\ handing = [t \in Tasks |-> "none"]
    /\ analysis = [t \in Tasks |-> "none"]
    /\ candidates = [i \in Instances |-> {}]
    /\ claimed = [i \in Instances |-> {}]
    /\ at = [th \in Threads |-> "idle"]
    /\ job = [th \in Threads |-> NoJob]
    /\ verdict = [th \in Threads |-> "none"]

\* Every write moves the row's updated_at: a replica that had read it for a
\* claim will find its UPDATE ... WHERE updated_at = ? matching nothing.
Write(t, row) ==
    /\ ledger' = [ledger EXCEPT ![t] = row]
    /\ candidates' = [i \in Instances |-> candidates[i] \ {t}]

Goto(th, phase) == at' = [at EXCEPT ![th] = phase]

------------------------------------------------------------------------
(* The rest of the system, as far as the worker can tell.                  *)

\* A scanner submits an object to the sandbox: its answer is a token.
Submit(t) ==
    /\ handing[t] = "none"
    /\ handing' = [handing EXCEPT ![t] = "recording"]
    /\ analysis' = [analysis EXCEPT ![t] = "running"]
    /\ UNCHANGED <<durable, candidates, claimed, threads>>

\* The pipeline hands the scan off: the ledger first, then the message.  The
\* failure of either is logged and changes nothing.
RecordHandOff(t) ==
    /\ handing[t] = "recording"
    /\ handing' = [handing EXCEPT ![t] = "notifying"]
    /\ \/ Write(t, EnqueueContinuation(ledger[t]))
       \/ Fails("database") /\ UNCHANGED <<ledger, candidates>>
    /\ UNCHANGED <<records, sink, topic, analysis, claimed, threads>>

NotifyHandOff(t) ==
    /\ handing[t] = "notifying"
    /\ handing' = [handing EXCEPT ![t] = "over"]
    /\ \/ HasBroker /\ topic' = topic \cup {Continuation(t[1], t[2])}
       \/ (~HasBroker \/ Fails("broker")) /\ UNCHANGED topic
    /\ UNCHANGED <<records, ledger, sink, analysis, candidates, claimed,
                   threads>>

\* The pipeline parks a task that has not started; a later run may start it.
SpillTask(t) ==
    /\ t \in Spilled /\ handing[t] = "none" /\ ledger[t].status = "absent"
    /\ Write(t, EnqueuePending(ledger[t]))
    /\ UNCHANGED <<records, sink, topic, handing, analysis, claimed, threads>>

\* The pipeline publishes findings of scans it did not hand off.
PublishInline(batch) ==
    /\ \A t \in batch : handing[t] = "none"
    /\ sink' = [d \in Docs |-> IF d \in batch THEN "answer" ELSE sink[d]]
    /\ UNCHANGED <<records, ledger, topic, handing, analysis, candidates,
                   claimed, threads>>

\* It then records the object, and closes the row of a scanner that answered.
RecordFile(f) ==
    /\ f \in Recorded
    /\ records' = records \cup {f}
    /\ \/ UNCHANGED <<ledger, candidates>>
       \/ \E s \in Scanners : /\ handing[<<f, s>>] = "none"
                              /\ sink[<<f, s>>] = "answer"
                              /\ Write(<<f, s>>, MarkDone(ledger[<<f, s>>]))
    /\ UNCHANGED <<sink, topic, handing, analysis, claimed, threads>>

AnalysisFinishes(t) ==
    /\ analysis[t] = "running"
    /\ analysis' = [analysis EXCEPT ![t] = "finished"]
    /\ UNCHANGED <<durable, handing, candidates, claimed, threads>>

Aged(j) == [j EXCEPT !.due = Countdown(@), !.age = Saturate(@ + 1, AgeCap)]

\* Time passes, for every clock reading that something holds.
Tick ==
    /\ ledger' = [t \in Tasks |-> Elapse(ledger[t])]
    /\ topic' = {Aged(m) : m \in topic}
    /\ claimed' = [i \in Instances |-> {Aged(j) : j \in claimed[i]}]
    /\ job' = [th \in Threads |-> IF job[th] = NoJob THEN NoJob
                                  ELSE Aged(job[th])]
    /\ UNCHANGED <<records, sink, handing, analysis, candidates, at, verdict>>

------------------------------------------------------------------------
(* sweep: claim what is due, then handle the claimed rows one by one.      *)

\* ClaimPending's SELECT ... LIMIT, at the start of its transaction.
SelectDue(i) ==
    /\ at[<<i, "sweeper">>] = "idle"
    /\ \E S \in SUBSET {t \in Tasks : Claimable(ledger[t])} :
          /\ S # {} /\ Cardinality(S) <= Batch
          /\ \/ Cardinality(S) = Batch
             \/ S = {t \in Tasks : Claimable(ledger[t])}
          /\ candidates' = [candidates EXCEPT ![i] = S]
    /\ Goto(<<i, "sweeper">>, "claiming")
    /\ UNCHANGED <<durable, handing, analysis, claimed, job, verdict>>

\* Mutant of ClaimDue: the UPDATE does not ask whether the row is as it was.
ClaimDueBlindly(i) ==
    /\ at[<<i, "sweeper">>] = "claiming"
    /\ ledger' = [t \in Tasks |-> IF t \in candidates[i]
                                  THEN Claim(ledger[t], i) ELSE ledger[t]]
    /\ claimed' = [claimed EXCEPT ![i] = {FromRow(t) : t \in candidates[i]}]
    /\ candidates' = [candidates EXCEPT ![i] = {}]
    /\ Goto(<<i, "sweeper">>, "sweeping")
    /\ UNCHANGED <<records, sink, topic, handing, analysis, job, verdict>>

\* Its UPDATEs, and the commit: only rows nobody rewrote meanwhile.
\* The code counts the lease from its SELECT: the transaction is taken to be
\* shorter than a tick.
ClaimDue(i) ==
    /\ at[<<i, "sweeper">>] = "claiming"
    /\ ledger' = [t \in Tasks |-> IF t \in candidates[i]
                                  THEN Claim(ledger[t], i) ELSE ledger[t]]
    /\ claimed' = [claimed EXCEPT ![i] = {FromRow(t) : t \in candidates[i]}]
    /\ candidates' = [k \in Instances |->
                        IF k = i THEN {} ELSE candidates[k] \ candidates[i]]
    /\ Goto(<<i, "sweeper">>, "sweeping")
    /\ UNCHANGED <<records, sink, topic, handing, analysis, job, verdict>>

ClaimFails(i) ==
    /\ Fails("database") /\ at[<<i, "sweeper">>] = "claiming"
    /\ candidates' = [candidates EXCEPT ![i] = {}]
    /\ Goto(<<i, "sweeper">>, "idle")
    /\ UNCHANGED <<durable, handing, analysis, claimed, job, verdict>>

\* A claimed row without a token is not a continuation: it is put back.
PutBack(i, j) ==
    /\ at[<<i, "sweeper">>] = "sweeping" /\ j \in claimed[i] /\ j.token = ""
    /\ claimed' = [claimed EXCEPT ![i] = @ \ {j}]
    /\ \/ Write(TaskOf(j), RescheduleContinuation(ledger[TaskOf(j)]))
       \/ Fails("database") /\ UNCHANGED <<ledger, candidates>>
    /\ UNCHANGED <<records, sink, topic, handing, analysis, threads>>

\* fromTask needs the file record; when it is not there, or cannot be read, the
\* row is passed over, and stays claimed until its lease expires.
PassOver(i, j) ==
    /\ at[<<i, "sweeper">>] = "sweeping" /\ j \in claimed[i] /\ j.token # ""
    /\ j.file \notin records \/ Fails("database")
    /\ claimed' = [claimed EXCEPT ![i] = @ \ {j}]
    /\ UNCHANGED <<durable, handing, analysis, candidates, threads>>

HandleClaimed(i, j) ==
    /\ at[<<i, "sweeper">>] = "sweeping" /\ j \in claimed[i] /\ j.token # ""
    /\ j.file \in records
    /\ claimed' = [claimed EXCEPT ![i] = @ \ {j}]
    /\ job' = [job EXCEPT ![<<i, "sweeper">>] = j]
    /\ Goto(<<i, "sweeper">>, "handling")
    /\ UNCHANGED <<durable, handing, analysis, candidates, verdict>>

SweepEnds(i) ==
    /\ at[<<i, "sweeper">>] = "sweeping" /\ claimed[i] = {}
    /\ Goto(<<i, "sweeper">>, "idle")
    /\ UNCHANGED <<durable, handing, analysis, candidates, claimed, job,
                   verdict>>

\* The consumer's loop.  A message stays in the topic until it is committed;
\* until then a rebalance may deliver it to another replica as well.
Receive(i, m) ==
    /\ at[<<i, "consumer">>] = "idle" /\ m \in topic
    /\ job' = [job EXCEPT ![<<i, "consumer">>] = FromMessage(m)]
    /\ Goto(<<i, "consumer">>, "handling")
    /\ UNCHANGED <<durable, handing, analysis, candidates, claimed, verdict>>

------------------------------------------------------------------------
(* handle, reschedule and finish, run by either thread.                    *)

TooOld(j)   == MaxAge > 0 /\ j.age > MaxAge
TooEarly(j) == j.due > 0

\* Mutants of GiveUp: the row is closed without a document, or the row's status
\* is taken for one.
GiveUpUnpublished(th) ==
    /\ at[th] = "handling"
    /\ job[th].scanner \notin Collectors \/ TooOld(job[th])
    /\ verdict' = [verdict EXCEPT ![th] = "givenup"]
    /\ Goto(th, "closing")
    /\ UNCHANGED <<durable, handing, analysis, candidates, claimed, job>>

GiveUpWithStatus(th) ==
    /\ at[th] = "handling"
    /\ job[th].scanner \notin Collectors \/ TooOld(job[th])
    /\ verdict' = [verdict EXCEPT ![th] = "failed"]
    /\ Goto(th, "publishing")
    /\ UNCHANGED <<durable, handing, analysis, candidates, claimed, job>>

\* No collector, or an analysis that takes too long: a document says so.
GiveUp(th) ==
    /\ at[th] = "handling"
    /\ job[th].scanner \notin Collectors \/ TooOld(job[th])
    /\ verdict' = [verdict EXCEPT ![th] = "givenup"]
    /\ Goto(th, "publishing")
    /\ UNCHANGED <<durable, handing, analysis, candidates, claimed, job>>

LeaveEarly(th) ==
    /\ at[th] = "handling"
    /\ job[th].scanner \in Collectors /\ ~TooOld(job[th])
    /\ TooEarly(job[th])
    /\ Goto(th, "returning")
    /\ UNCHANGED <<durable, handing, analysis, candidates, claimed, job,
                   verdict>>

\* The sandbox is asked; its answer is acted on in a later step.
Poll(th) ==
    /\ at[th] = "handling"
    /\ job[th].scanner \in Collectors /\ ~TooOld(job[th])
    /\ ~TooEarly(job[th])
    /\ IF analysis[TaskOf(job[th])] = "finished"
       THEN /\ verdict' = [verdict EXCEPT ![th] = "answer"]
            /\ Goto(th, "publishing")
       ELSE Goto(th, "rescheduling") /\ UNCHANGED verdict
    /\ UNCHANGED <<durable, handing, analysis, candidates, claimed, job>>

\* Mutant of PollFails: a failing API is taken for a failed analysis.
PollFailsForGood(th) ==
    /\ Fails("poll") /\ at[th] = "handling"
    /\ job[th].scanner \in Collectors /\ ~TooOld(job[th])
    /\ ~TooEarly(job[th])
    /\ verdict' = [verdict EXCEPT ![th] = "givenup"]
    /\ Goto(th, "publishing")
    /\ UNCHANGED <<durable, handing, analysis, candidates, claimed, job>>

\* The sandbox's API fails, which says nothing of the analysis: ask again.
PollFails(th) ==
    /\ Fails("poll") /\ at[th] = "handling"
    /\ job[th].scanner \in Collectors /\ ~TooOld(job[th])
    /\ ~TooEarly(job[th])
    /\ Goto(th, "rescheduling")
    /\ UNCHANGED <<durable, handing, analysis, candidates, claimed, job,
                   verdict>>

Reschedule(th) ==
    /\ at[th] = "rescheduling"
    /\ \/ Write(TaskOf(job[th]),
                RescheduleContinuation(ledger[TaskOf(job[th])]))
       \/ Fails("database") /\ UNCHANGED <<ledger, candidates>>
    /\ Goto(th, "returning")
    /\ UNCHANGED <<records, sink, topic, handing, analysis, claimed, job,
                   verdict>>

\* Mutant of PublishVerdict: an error of the sink is not looked at.
PublishVerdictUnchecked(th) ==
    /\ at[th] = "publishing"
    /\ \/ sink' = [sink EXCEPT ![TaskOf(job[th])] = verdict[th]]
       \/ Fails("sink") /\ UNCHANGED sink
    /\ Goto(th, "closing")
    /\ UNCHANGED <<records, ledger, topic, handing, analysis, candidates,
                   claimed, job, verdict>>

\* finish, first half: the sink.  An error puts the task back on the clock.
PublishVerdict(th) ==
    /\ at[th] = "publishing"
    /\ \/ /\ sink' = [sink EXCEPT ![TaskOf(job[th])] = verdict[th]]
          /\ Goto(th, "closing")
       \/ /\ Fails("sink") /\ UNCHANGED sink
          /\ Goto(th, "rescheduling")
    /\ UNCHANGED <<records, ledger, topic, handing, analysis, candidates,
                   claimed, job, verdict>>

\* finish, second half: the ledger row is closed.
CloseTask(th) ==
    /\ at[th] = "closing"
    /\ \/ Write(TaskOf(job[th]), IF verdict[th] = "givenup"
                                 THEN MarkFailed(ledger[TaskOf(job[th])])
                                 ELSE MarkDone(ledger[TaskOf(job[th])]))
       \/ Fails("database") /\ UNCHANGED <<ledger, candidates>>
    /\ Goto(th, "returning")
    /\ UNCHANGED <<records, sink, topic, handing, analysis, claimed, job,
                   verdict>>

\* handle returns: the sweep goes on; the consumer commits the message.
Return(th) ==
    /\ at[th] = "returning"
    /\ job' = [job EXCEPT ![th] = NoJob]
    /\ verdict' = [verdict EXCEPT ![th] = "none"]
    /\ IF th[2] = "sweeper"
       THEN Goto(th, "sweeping") /\ UNCHANGED topic
       ELSE /\ Goto(th, "idle")
            /\ \/ topic' = topic \ {MessageOf(job[th])}
               \/ Fails("ack") /\ UNCHANGED topic
    /\ UNCHANGED <<records, ledger, sink, handing, analysis, candidates,
                   claimed>>

\* A replica dies and starts again: what its threads held is gone, and what
\* it had claimed waits for the lease.
Crash(i) ==
    /\ Fails("crash")
    /\ at' = [th \in Threads |-> IF th[1] = i THEN "idle" ELSE at[th]]
    /\ job' = [th \in Threads |-> IF th[1] = i THEN NoJob ELSE job[th]]
    /\ verdict' = [th \in Threads |-> IF th[1] = i THEN "none"
                                      ELSE verdict[th]]
    /\ candidates' = [candidates EXCEPT ![i] = {}]
    /\ claimed' = [claimed EXCEPT ![i] = {}]
    /\ UNCHANGED <<durable, handing, analysis>>

------------------------------------------------------------------------

Handle(th) ==
    \/ GiveUp(th) \/ LeaveEarly(th) \/ Poll(th) \/ PollFails(th)
    \/ Reschedule(th) \/ PublishVerdict(th) \/ CloseTask(th) \/ Return(th)

Sweep(i) ==
    \/ SelectDue(i) \/ ClaimDue(i) \/ ClaimFails(i)
    \/ \E j \in claimed[i] :
          PutBack(i, j) \/ PassOver(i, j) \/ HandleClaimed(i, j)
    \/ SweepEnds(i)

Consume(i) == \E m \in topic : Receive(i, m)

Next ==
    \/ \E t \in Tasks : Submit(t) \/ RecordHandOff(t) \/ NotifyHandOff(t)
                         \/ SpillTask(t) \/ AnalysisFinishes(t)
    \/ \E batch \in SUBSET Tasks : PublishInline(batch)
    \/ \E f \in Files : RecordFile(f)
    \/ Tick
    \/ \E i \in Instances : Sweep(i) \/ Consume(i) \/ Crash(i)
    \/ \E th \in Threads : Handle(th)

Spec == Init /\ [][Next]_vars

\* The threads keep running, time passes, and the siblings of a handed-off
\* scan are published.  That an analysis ever finishes is not promised.
Fairness ==
    /\ WF_vars(Tick)
    /\ \A i \in Instances : WF_vars(Sweep(i)) /\ WF_vars(Consume(i))
    /\ \A th \in Threads : WF_vars(Handle(th))
    /\ \A f \in Files : WF_vars(RecordFile(f))

FairSpec == Spec /\ Fairness

------------------------------------------------------------------------
(* Properties.                                                             *)

Closed(t) == ledger[t].status \in {"done", "failed"}

\* The stores as PublishFirst sees them.  The worker records no object.
Promise == INSTANCE PublishFirst
           WITH published <- {d \in Docs : sink[d] # "none"},
                recorded <- {},
                closed <- {t \in Tasks : Closed(t)}

\* A task is closed only after the sink has its document, whichever thread,
\* replica or crash the two writes are separated by.
PublishesFirst == Promise!Spec

\* A closed row has its document in the sink: closing it first would leave a
\* task that nothing collects and a verdict nobody has (worker.finish).
ClosedIsPublished ==
    \A t \in Tasks : Closed(t) => sink[t] # "none"

\* While a lease runs, no other replica takes the task over: ClaimPending's
\* two statements are safe against another replica running them as well.
LeaseHonoured ==
    [][\A t \in Tasks :
          ledger[t].status = "running" /\ ledger[t].lease > 0
              => ledger'[t].owner \in {ledger[t].owner, NoInstance}]_vars

\* A verdict in the sink is replaced, whatever is delivered twice, retried or
\* polled once more, only by a thread that gives the analysis up, for its age or
\* for want of a collector: "a crash costs a duplicate publish, which is free".
\* (For a continuation that has meanwhile grown too old it is not free: handle
\* looks at the age before it asks, and knows of no verdict.)
GivingUp(th) == job[th].scanner \notin Collectors \/ TooOld(job[th])
VerdictKept ==
    [][\A t \in Tasks :
          sink[t] = "answer" =>
             \/ sink'[t] = "answer"
             \/ \E th \in Threads : /\ at[th] = "publishing"
                                    /\ TaskOf(job[th]) = t
                                    /\ GivingUp(th)]_vars

\* "Nothing is lost, because the ledger - not the topic - is what records the
\* handoff": whatever was handed off is closed in the end.  (System!Collected
\* says it of what has a file record too.)
AllCollected == \A t \in Tasks : ledger[t].token # "" ~> Closed(t)
============================================================================
