------------------------- MODULE AsyncWorkerProofs -------------------------
(***************************************************************************)
(* What holds of AsyncWorker for every number of replicas, files and       *)
(* scanners, every bound and every set of faults.                          *)
(***************************************************************************)
EXTENDS AsyncWorker, TLAPS

------------------------------------------------------------------------
(* What the statements run against a row of scan_tasks make of it.         *)

\* The missing row is one of the values a row takes.
LEMMA NoRowType == NoRow \in Rows
  BY LedgerAssumption DEF NoRow, Rows, Statuses, Tokens

\* Saturating at a bound stays within it.
LEMMA SaturateType ==
  ASSUME NEW cap \in Nat, NEW n \in Nat
  PROVE  Saturate(n, cap) \in 0..cap
  BY DEF Saturate

\* Parking a task without a token gives a pending row.
LEMMA EnqueuePendingType ==
  ASSUME NEW row \in Rows
  PROVE  /\ EnqueuePending(row) \in Rows
         /\ EnqueuePending(row).status = "pending"
  BY LedgerAssumption DEF EnqueuePending, Rows, Statuses, Tokens

\* Parking a continuation gives a pending row that has a token.
LEMMA EnqueueContinuationType ==
  ASSUME NEW row \in Rows
  PROVE  /\ EnqueueContinuation(row) \in Rows
         /\ EnqueueContinuation(row).status = "pending"
         /\ EnqueueContinuation(row).token = "token"
<1>1. EnqueueContinuation(row).status = "pending"
  BY DEF EnqueueContinuation, Rows
<1>2. EnqueueContinuation(row).token = "token"
  BY DEF EnqueueContinuation, Rows
<1>3. 0 \in 0..AgeCap /\ PollInterval \in Nat
  BY LedgerAssumption
<1>4. EnqueueContinuation(row) \in Rows
  BY <1>3 DEF EnqueueContinuation, Rows, Statuses, Tokens
<1> QED
  BY <1>1, <1>2, <1>4

\* Rescheduling gives a pending row, or leaves the missing one missing: in
\* neither case a closed row.
LEMMA RescheduleType ==
  ASSUME NEW row \in Rows
  PROVE  /\ RescheduleContinuation(row) \in Rows
         /\ RescheduleContinuation(row).status \in {"pending", "absent"}
  BY LedgerAssumption DEF RescheduleContinuation, Rows, Statuses

\* Closing gives a row of that status, or leaves the missing one missing.
LEMMA CloseType ==
  ASSUME NEW row \in Rows
  PROVE  /\ MarkDone(row) \in Rows /\ MarkFailed(row) \in Rows
         /\ MarkDone(row).status \in {"done", "absent"}
         /\ MarkFailed(row).status \in {"failed", "absent"}
  BY LedgerAssumption DEF MarkDone, MarkFailed, Close, Rows, Statuses

\* A claim gives a running row that the claiming replica owns.
LEMMA ClaimType ==
  ASSUME NEW row \in Rows, NEW i \in Instances
  PROVE  /\ Claim(row, i) \in Rows
         /\ Claim(row, i).status = "running"
         /\ Claim(row, i).owner = i
<1>1. row.attempts + 1 \in Nat /\ AttemptsCap \in Nat /\ LeaseFor \in Nat
  BY LedgerAssumption DEF Rows
<1>2. Saturate(row.attempts + 1, AttemptsCap) \in 0..AttemptsCap
  BY <1>1, SaturateType
<1> QED
  BY <1>1, <1>2 DEF Claim, Rows, Statuses

\* A tick moves the clock readings of a row and nothing else.
LEMMA ElapseType ==
  ASSUME NEW row \in Rows
  PROVE  /\ Elapse(row) \in Rows
         /\ Elapse(row).status = row.status
         /\ Elapse(row).owner = row.owner
         /\ Elapse(row).token = row.token
<1>1. row.age + 1 \in Nat /\ AgeCap \in Nat
  BY LedgerAssumption DEF Rows
<1>2. Saturate(row.age + 1, AgeCap) \in 0..AgeCap
  BY <1>1, SaturateType
<1>3. Countdown(row.due) \in Nat /\ Countdown(row.lease) \in Nat
  BY DEF Countdown, Rows
<1> QED
  BY <1>2, <1>3 DEF Elapse, Rows, Statuses

\* No statement but a claim gives a row a new owner.
LEMMA OwnerKept ==
  ASSUME NEW row \in Rows
  PROVE  /\ EnqueuePending(row).owner = row.owner
         /\ EnqueueContinuation(row).owner = row.owner
         /\ RescheduleContinuation(row).owner \in {row.owner, NoInstance}
         /\ MarkDone(row).owner \in {row.owner, NoInstance}
         /\ MarkFailed(row).owner \in {row.owner, NoInstance}
<1>1. EnqueuePending(row).owner = row.owner
  BY DEF EnqueuePending, Rows
<1>2. EnqueueContinuation(row).owner = row.owner
  BY DEF EnqueueContinuation, Rows
<1>3. RescheduleContinuation(row).owner \in {row.owner, NoInstance}
  BY DEF RescheduleContinuation, Rows
<1>4. Close(row, "done").owner \in {row.owner, NoInstance}
      /\ Close(row, "failed").owner \in {row.owner, NoInstance}
  BY DEF Close, Rows
<1> QED
  BY <1>1, <1>2, <1>3, <1>4 DEF MarkDone, MarkFailed

------------------------------------------------------------------------
(* The values that pass between the stores and the threads.                *)

\* A continuation is about a task, whatever it came from.
LEMMA JobTask ==
  ASSUME NEW j \in Jobs
  PROVE  /\ TaskOf(j) \in Tasks
         /\ TaskOf(j)[1] = j.file
  BY DEF Jobs, TaskOf, Tasks

\* A message gives a continuation, and the continuation its message back.
LEMMA MessageType ==
  ASSUME NEW m \in Messages
  PROVE  FromMessage(m) \in Jobs
  BY DEF Messages, FromMessage, Jobs, Tokens

\* The message that announces a task is one the topic can hold.
LEMMA ContinuationType ==
  ASSUME NEW t \in Tasks
  PROVE  Continuation(t[1], t[2]) \in Messages
  BY LedgerAssumption DEF Tasks, Continuation, Messages

\* A row of the ledger gives a continuation about that row's task.
LEMMA RowJobType ==
  ASSUME ledger \in [Tasks -> Rows], NEW t \in Tasks
  PROVE  FromRow(t) \in Jobs /\ TaskOf(FromRow(t)) = t
<1>1. /\ ledger[t].due \in Nat /\ ledger[t].age \in 0..AgeCap
      /\ ledger[t].token \in Tokens
  BY DEF Rows
<1>2. t = <<t[1], t[2]>> /\ t[1] \in Files /\ t[2] \in Scanners
  BY DEF Tasks
<1> QED
  BY <1>1, <1>2 DEF FromRow, Jobs, TaskOf

\* A tick ages a continuation and leaves it about the same task.
LEMMA AgedJobType ==
  ASSUME NEW j \in Jobs
  PROVE  Aged(j) \in Jobs /\ TaskOf(Aged(j)) = TaskOf(j)
<1>1. j.age + 1 \in Nat /\ AgeCap \in Nat
  BY LedgerAssumption DEF Jobs
<1>2. Saturate(j.age + 1, AgeCap) \in 0..AgeCap
  BY <1>1, SaturateType
<1>3. Countdown(j.due) \in Nat
  BY DEF Countdown, Jobs
<1> QED
  BY <1>2, <1>3 DEF Aged, Jobs, TaskOf

\* And a message.
LEMMA AgedMessageType ==
  ASSUME NEW m \in Messages
  PROVE  Aged(m) \in Messages
<1>1. m.age + 1 \in Nat /\ AgeCap \in Nat
  BY LedgerAssumption DEF Messages
<1>2. Saturate(m.age + 1, AgeCap) \in 0..AgeCap
  BY <1>1, SaturateType
<1>3. Countdown(m.due) \in Nat
  BY DEF Countdown, Messages
<1> QED
  BY <1>2, <1>3 DEF Aged, Messages

------------------------------------------------------------------------
(* Type correctness.                                                       *)

\* Writing a row of a task keeps the table a table of rows.
LEMMA WriteType ==
  ASSUME TypeOK, NEW t \in Tasks, NEW row \in Rows, Write(t, row)
  PROVE  /\ ledger' \in [Tasks -> Rows]
         /\ candidates' \in [Instances -> SUBSET Tasks]
  BY DEF TypeOK, DurableTypeOK, Write

\* What an action may write to a task's row, or fail to.
LEMMA RowsWritten ==
  ASSUME TypeOK, NEW t \in Tasks
  PROVE  /\ EnqueuePending(ledger[t]) \in Rows
         /\ EnqueueContinuation(ledger[t]) \in Rows
         /\ RescheduleContinuation(ledger[t]) \in Rows
         /\ MarkDone(ledger[t]) \in Rows
         /\ MarkFailed(ledger[t]) \in Rows
<1>1. ledger[t] \in Rows
  BY DEF TypeOK, DurableTypeOK
<1> QED
  BY <1>1, EnqueuePendingType, EnqueueContinuationType, RescheduleType,
     CloseType

\* A thread holds a continuation for as long as it works on one.
Holding == {"handling", "rescheduling", "publishing", "closing", "returning"}

HoldsJob == \A th \in Threads : at[th] \in Holding => job[th] \in Jobs

\* The part of the invariant the types rest on.
WellTyped == TypeOK /\ HoldsJob

\* The initial state is well typed.
LEMMA InitWellTyped == Init => WellTyped
  BY NoRowType, LedgerAssumption
     DEF Init, DurableInit, WellTyped, TypeOK, DurableTypeOK, HoldsJob,
         Holding, Phases, Documents

\* Every step keeps the state well typed.
LEMMA StepWellTyped == WellTyped /\ [Next]_vars => WellTyped'
<1> SUFFICES ASSUME TypeOK, HoldsJob, [Next]_vars
             PROVE  TypeOK' /\ HoldsJob'
  BY DEF WellTyped
<1> USE DEF TypeOK, DurableTypeOK, HoldsJob
<1>1. ASSUME NEW t \in Tasks, RecordHandOff(t) PROVE TypeOK' /\ HoldsJob'
  <2>1. /\ ledger' \in [Tasks -> Rows]
        /\ candidates' \in [Instances -> SUBSET Tasks]
    BY <1>1, WriteType, RowsWritten DEF RecordHandOff
  <2> QED
    BY <1>1, <2>1 DEF RecordHandOff, threads
<1>2. ASSUME NEW t \in Tasks, SpillTask(t) PROVE TypeOK' /\ HoldsJob'
  <2>1. /\ ledger' \in [Tasks -> Rows]
        /\ candidates' \in [Instances -> SUBSET Tasks]
    BY <1>2, WriteType, RowsWritten DEF SpillTask
  <2> QED
    BY <1>2, <2>1 DEF SpillTask, threads
<1>3. ASSUME NEW t \in Tasks, AnalysisFinishes(t) PROVE TypeOK' /\ HoldsJob'
  BY <1>3 DEF AnalysisFinishes, threads, durable
<1>4. ASSUME NEW f \in Files, RecordFile(f) PROVE TypeOK' /\ HoldsJob'
  <2>1. \A s \in Scanners : <<f, s>> \in Tasks
    BY DEF Tasks
  <2>2. /\ ledger' \in [Tasks -> Rows]
        /\ candidates' \in [Instances -> SUBSET Tasks]
    BY <1>4, <2>1, WriteType, RowsWritten DEF RecordFile
  <2> QED
    BY <1>4, <2>2 DEF RecordFile, threads
<1>5. CASE Tick
  <2>1. ledger' \in [Tasks -> Rows]
    BY <1>5, ElapseType DEF Tick
  <2>2. topic' \subseteq Messages
    BY <1>5, AgedMessageType DEF Tick
  <2>3. claimed' \in [Instances -> SUBSET Jobs]
    BY <1>5, AgedJobType DEF Tick
  <2>4. job' \in [Threads -> Jobs \cup {NoJob}] /\ HoldsJob'
    BY <1>5, AgedJobType DEF Tick
  <2> QED
    BY <1>5, <2>1, <2>2, <2>3, <2>4 DEF Tick
<1>6. ASSUME NEW i \in Instances, SelectDue(i) PROVE TypeOK' /\ HoldsJob'
  BY <1>6 DEF SelectDue, Goto, Threads, Phases, Holding, durable
<1>7. ASSUME NEW i \in Instances, ClaimDue(i) PROVE TypeOK' /\ HoldsJob'
  <2>1. ledger' \in [Tasks -> Rows]
    BY <1>7, ClaimType DEF ClaimDue
  <2>2. claimed' \in [Instances -> SUBSET Jobs]
    BY <1>7, RowJobType DEF ClaimDue
  <2> QED
    BY <1>7, <2>1, <2>2 DEF ClaimDue, Goto, Threads, Phases, Holding
<1>8. ASSUME NEW i \in Instances, ClaimFails(i) PROVE TypeOK' /\ HoldsJob'
  BY <1>8 DEF ClaimFails, Goto, Threads, Phases, Holding, durable
<1>9. ASSUME NEW i \in Instances, NEW j \in claimed[i], PutBack(i, j)
      PROVE  TypeOK' /\ HoldsJob'
  <2>1. j \in Jobs /\ TaskOf(j) \in Tasks
    BY JobTask
  <2>2. /\ ledger' \in [Tasks -> Rows]
        /\ candidates' \in [Instances -> SUBSET Tasks]
    BY <1>9, <2>1, WriteType, RowsWritten DEF PutBack
  <2> QED
    BY <1>9, <2>2 DEF PutBack, threads
<1>10. ASSUME NEW i \in Instances, NEW j \in claimed[i], PassOver(i, j)
       PROVE  TypeOK' /\ HoldsJob'
  BY <1>10 DEF PassOver, threads, durable
<1>11. ASSUME NEW i \in Instances, NEW j \in claimed[i], HandleClaimed(i, j)
       PROVE  TypeOK' /\ HoldsJob'
  BY <1>11 DEF HandleClaimed, Goto, Threads, Phases, Holding, durable
<1>12. ASSUME NEW i \in Instances, SweepEnds(i) PROVE TypeOK' /\ HoldsJob'
  BY <1>12 DEF SweepEnds, Goto, Threads, Phases, Holding, durable
<1>13. ASSUME NEW i \in Instances, NEW m \in topic, Receive(i, m)
       PROVE  TypeOK' /\ HoldsJob'
  BY <1>13, MessageType DEF Receive, Goto, Threads, Phases, Holding, durable
<1>14. ASSUME NEW i \in Instances, Crash(i) PROVE TypeOK' /\ HoldsJob'
  BY <1>14 DEF Crash, Phases, Holding, Documents, durable
<1>15. ASSUME NEW th \in Threads, GiveUp(th) PROVE TypeOK' /\ HoldsJob'
  BY <1>15 DEF GiveUp, Goto, Phases, Holding, Documents, durable
<1>16. ASSUME NEW th \in Threads, LeaveEarly(th) PROVE TypeOK' /\ HoldsJob'
  BY <1>16 DEF LeaveEarly, Goto, Phases, Holding, durable
<1>17. ASSUME NEW th \in Threads, Poll(th) PROVE TypeOK' /\ HoldsJob'
  BY <1>17 DEF Poll, Goto, Phases, Holding, Documents, durable
<1>18. ASSUME NEW th \in Threads, PollFails(th) PROVE TypeOK' /\ HoldsJob'
  BY <1>18 DEF PollFails, Goto, Phases, Holding, durable
<1>19. ASSUME NEW th \in Threads, Reschedule(th) PROVE TypeOK' /\ HoldsJob'
  <2>1. TaskOf(job[th]) \in Tasks
    BY <1>19, JobTask DEF Reschedule, Holding
  <2>2. /\ ledger' \in [Tasks -> Rows]
        /\ candidates' \in [Instances -> SUBSET Tasks]
    BY <1>19, <2>1, WriteType, RowsWritten DEF Reschedule
  <2> QED
    BY <1>19, <2>2 DEF Reschedule, Goto, Phases, Holding
<1>20. ASSUME NEW th \in Threads, PublishVerdict(th) PROVE TypeOK' /\ HoldsJob'
  BY <1>20 DEF PublishVerdict, Goto, Phases, Holding
<1>21. ASSUME NEW th \in Threads, CloseTask(th) PROVE TypeOK' /\ HoldsJob'
  <2>1. TaskOf(job[th]) \in Tasks
    BY <1>21, JobTask DEF CloseTask, Holding
  <2>2. /\ ledger' \in [Tasks -> Rows]
        /\ candidates' \in [Instances -> SUBSET Tasks]
    BY <1>21, <2>1, WriteType, RowsWritten DEF CloseTask
  <2> QED
    BY <1>21, <2>2 DEF CloseTask, Goto, Phases, Holding
<1>22. ASSUME NEW th \in Threads, Return(th) PROVE TypeOK' /\ HoldsJob'
  BY <1>22 DEF Return, Goto, Phases, Holding, Documents
<1>23. CASE UNCHANGED vars
  BY <1>23 DEF vars, threads, durable
<1>24. ASSUME NEW t \in Tasks, Submit(t) PROVE TypeOK' /\ HoldsJob'
  BY <1>24 DEF Submit, threads, durable
<1>25. ASSUME NEW t \in Tasks, NotifyHandOff(t) PROVE TypeOK' /\ HoldsJob'
  BY <1>25, ContinuationType DEF NotifyHandOff, threads
<1>26. ASSUME NEW batch \in SUBSET Tasks, PublishInline(batch)
       PROVE  TypeOK' /\ HoldsJob'
  BY <1>26 DEF PublishInline, threads, Documents
<1> QED
  BY <1>1, <1>2, <1>3, <1>4, <1>5, <1>6, <1>7, <1>8, <1>9, <1>10, <1>11,
     <1>12, <1>13, <1>14, <1>15, <1>16, <1>17, <1>18, <1>19, <1>20, <1>21,
     <1>22, <1>23, <1>24, <1>25, <1>26 DEF Next, Sweep, Consume, Handle

\* Every reachable state is well typed.
LEMMA AlwaysWellTyped == Spec => []WellTyped
  BY InitWellTyped, StepWellTyped, PTL DEF Spec

\* Every variable of the worker and the stores keeps to its type.
THEOREM TypeCorrect == Spec => []TypeOK
<1>1. WellTyped => TypeOK
  BY DEF WellTyped
<1> QED
  BY <1>1, AlwaysWellTyped, PTL

------------------------------------------------------------------------
(* The inductive invariant.  ClosedIsPublished is not inductive: it needs  *)
(* that a thread about to close a row has published, which in turn needs   *)
(* that it had a document to publish.  LeaseHonoured needs that what a     *)
(* claim has read is still so when it writes.                              *)

\* A thread on its way to the sink, or past it, has a document.
VerdictReady ==
    \A th \in Threads :
        at[th] \in {"publishing", "closing"} => verdict[th] # "none"

\* A thread about to close a row has published.
ClosingIsPublished ==
    \A th \in Threads :
        at[th] = "closing" => sink[TaskOf(job[th])] # "none"

\* A row that was claimable when it was read, and that nobody rewrote, still
\* is: time alone never makes it less so.
CandidatesClaimable ==
    \A i \in Instances : \A t \in candidates[i] : Claimable(ledger[t])

IInv == /\ WellTyped
        /\ VerdictReady
        /\ ClosingIsPublished
        /\ CandidatesClaimable
        /\ ClosedIsPublished

\* Writing a row of a task disturbs no other replica's reading of another.
LEMMA WriteCandidates ==
  ASSUME TypeOK, CandidatesClaimable, NEW t \in Tasks, NEW row,
         Write(t, row)
  PROVE  CandidatesClaimable'
  BY DEF TypeOK, DurableTypeOK, CandidatesClaimable, Write

\* A write that does not close a row leaves the closed ones published.
LEMMA WriteOpen ==
  ASSUME TypeOK, ClosedIsPublished, NEW t \in Tasks, NEW row,
         row.status \notin {"done", "failed"}, Write(t, row), sink' = sink
  PROVE  ClosedIsPublished'
  BY DEF TypeOK, DurableTypeOK, ClosedIsPublished, Closed, Write

\* A tick keeps a claimable row claimable.
LEMMA ElapseClaimable ==
  ASSUME NEW row \in Rows, Claimable(row)
  PROVE  Claimable(Elapse(row))
<1>1. Elapse(row).status = row.status
  BY ElapseType
<1>2. Elapse(row).due = Countdown(row.due)
      /\ Elapse(row).lease = Countdown(row.lease)
  BY DEF Elapse, Rows, Claimable
<1> QED
  BY <1>1, <1>2 DEF Claimable, Countdown

\* The initial state satisfies the invariant.
LEMMA InitInvariant == Init => IInv
<1> SUFFICES ASSUME Init PROVE IInv
  OBVIOUS
<1>1. VerdictReady /\ ClosingIsPublished
  BY DEF Init, VerdictReady, ClosingIsPublished
<1>2. CandidatesClaimable
  BY DEF Init, CandidatesClaimable
<1>3. NoRow.status = "absent"
  BY DEF NoRow
<1>4. ClosedIsPublished
  BY <1>3 DEF Init, DurableInit, ClosedIsPublished, Closed
<1> QED
  BY <1>1, <1>2, <1>4, InitWellTyped DEF IInv

\* Every step keeps it.
LEMMA StepInvariant == IInv /\ [Next]_vars => IInv'
<1> SUFFICES ASSUME IInv, [Next]_vars
             PROVE  /\ VerdictReady' /\ ClosingIsPublished'
                    /\ CandidatesClaimable' /\ ClosedIsPublished'
  BY StepWellTyped DEF IInv
<1> USE DEF IInv, WellTyped
<1> DEFINE ThreadsKept == VerdictReady' /\ ClosingIsPublished'
           RowsKept == CandidatesClaimable' /\ ClosedIsPublished'
<1>a. ASSUME threads' = threads, sink' = sink PROVE ThreadsKept
  BY <1>a DEF threads, VerdictReady, ClosingIsPublished
<1>b. ASSUME ledger' = ledger, candidates' = candidates, sink' = sink
      PROVE  RowsKept
  BY <1>b DEF CandidatesClaimable, ClosedIsPublished, Closed
<1>c. ASSUME NEW t \in Tasks, NEW row, row.status \notin {"done", "failed"},
             Write(t, row), sink' = sink
      PROVE  RowsKept
  BY <1>c, WriteCandidates, WriteOpen
<1>d. ASSUME NEW t \in Tasks, NEW row, Write(t, row), sink' = sink,
             sink[t] # "none"
      PROVE  RowsKept
  <2>1. CandidatesClaimable'
    BY <1>d, WriteCandidates
  <2>2. ClosedIsPublished'
    BY <1>d DEF Write, TypeOK, DurableTypeOK, ClosedIsPublished, Closed
  <2> QED
    BY <2>1, <2>2
<1>1. ASSUME NEW t \in Tasks, RecordHandOff(t) PROVE ThreadsKept /\ RowsKept
  <2>1. ledger[t] \in Rows
    BY DEF TypeOK, DurableTypeOK
  <2> QED
    BY <1>1, <1>a, <1>b, <1>c, <2>1, EnqueueContinuationType DEF RecordHandOff
<1>2. ASSUME NEW t \in Tasks, SpillTask(t) PROVE ThreadsKept /\ RowsKept
  <2>1. ledger[t] \in Rows
    BY DEF TypeOK, DurableTypeOK
  <2> QED
    BY <1>2, <1>a, <1>b, <1>c, <2>1, EnqueuePendingType DEF SpillTask
<1>3. ASSUME NEW t \in Tasks, AnalysisFinishes(t) PROVE ThreadsKept /\ RowsKept
  BY <1>3, <1>a, <1>b DEF AnalysisFinishes, durable
<1>4. ASSUME NEW f \in Files, RecordFile(f) PROVE ThreadsKept /\ RowsKept
  <2>1. ThreadsKept
    BY <1>4, <1>a DEF RecordFile
  <2>2. CASE ledger' = ledger /\ candidates' = candidates
    BY <1>4, <1>b, <2>1, <2>2 DEF RecordFile
  <2>3. ASSUME NEW s \in Scanners, sink[<<f, s>>] = "answer",
               Write(<<f, s>>, MarkDone(ledger[<<f, s>>]))
        PROVE  RowsKept
    <3>1. <<f, s>> \in Tasks
      BY DEF Tasks
    <3> QED
      BY <1>4, <1>d, <2>3, <3>1 DEF RecordFile
  <2> QED
    BY <1>4, <2>1, <2>2, <2>3 DEF RecordFile
<1>5. CASE Tick
  <2>1. CandidatesClaimable'
    BY <1>5, ElapseClaimable
       DEF Tick, TypeOK, DurableTypeOK, CandidatesClaimable
  <2>2. ClosedIsPublished'
    BY <1>5, ElapseType
       DEF Tick, TypeOK, DurableTypeOK, ClosedIsPublished, Closed
  <2>3. ClosingIsPublished'
    <3> SUFFICES ASSUME NEW th \in Threads, at'[th] = "closing"
                 PROVE  sink'[TaskOf(job'[th])] # "none"
      BY DEF ClosingIsPublished
    <3>1. at[th] = "closing" /\ job[th] \in Jobs
      BY <1>5 DEF Tick, HoldsJob, Holding
    <3>2. TaskOf(job'[th]) = TaskOf(job[th])
      BY <1>5, <3>1, AgedJobType DEF Tick
    <3> QED
      BY <1>5, <3>1, <3>2 DEF Tick, ClosingIsPublished
  <2> QED
    BY <1>5, <2>1, <2>2, <2>3 DEF Tick, VerdictReady
<1>6. ASSUME NEW i \in Instances, SelectDue(i) PROVE ThreadsKept /\ RowsKept
  <2>1. CandidatesClaimable'
    BY <1>6 DEF SelectDue, durable, TypeOK, CandidatesClaimable
  <2> QED
    BY <1>6, <2>1 DEF SelectDue, Goto, durable, TypeOK, VerdictReady,
                      ClosingIsPublished, ClosedIsPublished, Closed
<1>7. ASSUME NEW i \in Instances, ClaimDue(i) PROVE ThreadsKept /\ RowsKept
  <2>1. ThreadsKept
    BY <1>7 DEF ClaimDue, Goto, TypeOK, VerdictReady, ClosingIsPublished
  <2>2. CandidatesClaimable'
    BY <1>7 DEF ClaimDue, TypeOK, DurableTypeOK, CandidatesClaimable
  <2>3. ClosedIsPublished'
    BY <1>7, ClaimType
       DEF ClaimDue, TypeOK, DurableTypeOK, ClosedIsPublished, Closed
  <2> QED
    BY <2>1, <2>2, <2>3
<1>8. ASSUME NEW i \in Instances, ClaimFails(i) PROVE ThreadsKept /\ RowsKept
  BY <1>8 DEF ClaimFails, Goto, durable, TypeOK, VerdictReady,
              ClosingIsPublished, CandidatesClaimable, ClosedIsPublished, Closed
<1>9. ASSUME NEW i \in Instances, NEW j \in claimed[i], PutBack(i, j)
      PROVE  ThreadsKept /\ RowsKept
  <2>1. TaskOf(j) \in Tasks /\ ledger[TaskOf(j)] \in Rows
    BY JobTask DEF TypeOK, DurableTypeOK
  <2> QED
    BY <1>9, <1>a, <1>b, <1>c, <2>1, RescheduleType DEF PutBack
<1>10. ASSUME NEW i \in Instances, NEW j \in claimed[i], PassOver(i, j)
       PROVE  ThreadsKept /\ RowsKept
  BY <1>10, <1>a, <1>b DEF PassOver, durable
<1>11. ASSUME NEW i \in Instances, NEW j \in claimed[i], HandleClaimed(i, j)
       PROVE  ThreadsKept /\ RowsKept
  BY <1>11, <1>b DEF HandleClaimed, Goto, durable, TypeOK, VerdictReady,
                     ClosingIsPublished
<1>12. ASSUME NEW i \in Instances, SweepEnds(i) PROVE ThreadsKept /\ RowsKept
  BY <1>12, <1>b DEF SweepEnds, Goto, durable, TypeOK, VerdictReady,
                     ClosingIsPublished
<1>13. ASSUME NEW i \in Instances, NEW m \in topic, Receive(i, m)
       PROVE  ThreadsKept /\ RowsKept
  BY <1>13, <1>b DEF Receive, Goto, durable, TypeOK, VerdictReady,
                     ClosingIsPublished
<1>14. ASSUME NEW i \in Instances, Crash(i) PROVE ThreadsKept /\ RowsKept
  BY <1>14 DEF Crash, durable, TypeOK, VerdictReady, ClosingIsPublished,
               CandidatesClaimable, ClosedIsPublished, Closed
<1>15. ASSUME NEW th \in Threads, GiveUp(th) PROVE ThreadsKept /\ RowsKept
  BY <1>15, <1>b DEF GiveUp, Goto, durable, TypeOK, VerdictReady,
                     ClosingIsPublished
<1>16. ASSUME NEW th \in Threads, LeaveEarly(th) PROVE ThreadsKept /\ RowsKept
  BY <1>16, <1>b DEF LeaveEarly, Goto, durable, TypeOK, VerdictReady,
                     ClosingIsPublished
<1>17. ASSUME NEW th \in Threads, Poll(th) PROVE ThreadsKept /\ RowsKept
  BY <1>17, <1>b DEF Poll, Goto, durable, TypeOK, VerdictReady,
                     ClosingIsPublished
<1>18. ASSUME NEW th \in Threads, PollFails(th) PROVE ThreadsKept /\ RowsKept
  BY <1>18, <1>b DEF PollFails, Goto, durable, TypeOK, VerdictReady,
                     ClosingIsPublished
<1>19. ASSUME NEW th \in Threads, Reschedule(th) PROVE ThreadsKept /\ RowsKept
  <2>1. TaskOf(job[th]) \in Tasks /\ ledger[TaskOf(job[th])] \in Rows
    BY <1>19, JobTask DEF Reschedule, HoldsJob, Holding, TypeOK, DurableTypeOK
  <2>2. RowsKept
    BY <1>19, <1>b, <1>c, <2>1, RescheduleType DEF Reschedule
  <2> QED
    BY <1>19, <2>2 DEF Reschedule, Goto, TypeOK, VerdictReady,
                       ClosingIsPublished
<1>20. ASSUME NEW th \in Threads, PublishVerdict(th)
       PROVE  ThreadsKept /\ RowsKept
  <2>1. verdict[th] # "none"
    BY <1>20 DEF PublishVerdict, VerdictReady
  <2>2. TaskOf(job[th]) \in Docs
    BY <1>20, JobTask
       DEF PublishVerdict, HoldsJob, Holding, Tasks, Docs
  <2>3. \A d \in Docs : sink[d] # "none" => sink'[d] # "none"
    BY <1>20, <2>1 DEF PublishVerdict, TypeOK, DurableTypeOK
  <2>4. Tasks \subseteq Docs
    BY DEF Tasks, Docs
  <2>5. RowsKept
    BY <1>20, <2>3, <2>4
       DEF PublishVerdict, CandidatesClaimable, ClosedIsPublished, Closed
  <2>6. VerdictReady'
    BY <1>20 DEF PublishVerdict, Goto, TypeOK, VerdictReady
  <2>7. ClosingIsPublished'
    <3> SUFFICES ASSUME NEW k \in Threads, at'[k] = "closing"
                 PROVE  sink'[TaskOf(job'[k])] # "none"
      BY DEF ClosingIsPublished
    <3>1. CASE k = th
      BY <1>20, <2>1, <2>2, <3>1
         DEF PublishVerdict, Goto, TypeOK, DurableTypeOK
    <3>2. CASE k # th
      <4>1. at[k] = "closing" /\ job[k] \in Jobs
        BY <1>20, <3>2 DEF PublishVerdict, Goto, TypeOK, HoldsJob, Holding
      <4>2. TaskOf(job[k]) \in Docs
        BY <4>1, <2>4, JobTask
      <4> QED
        BY <1>20, <2>3, <4>1, <4>2 DEF PublishVerdict, ClosingIsPublished
    <3> QED
      BY <3>1, <3>2
  <2> QED
    BY <2>5, <2>6, <2>7
<1>21. ASSUME NEW th \in Threads, CloseTask(th) PROVE ThreadsKept /\ RowsKept
  <2>1. TaskOf(job[th]) \in Tasks
    BY <1>21, JobTask DEF CloseTask, HoldsJob, Holding
  <2>2. sink[TaskOf(job[th])] # "none"
    BY <1>21 DEF CloseTask, ClosingIsPublished
  <2>3. CandidatesClaimable'
    BY <1>21, <1>b, <2>1, WriteCandidates DEF CloseTask
  <2>4. ClosedIsPublished'
    BY <1>21, <2>1, <2>2
       DEF CloseTask, Write, TypeOK, DurableTypeOK, ClosedIsPublished, Closed
  <2> QED
    BY <1>21, <2>3, <2>4 DEF CloseTask, Goto, TypeOK, VerdictReady,
                             ClosingIsPublished
<1>22. ASSUME NEW th \in Threads, Return(th) PROVE ThreadsKept /\ RowsKept
  BY <1>22, <1>b DEF Return, Goto, TypeOK, VerdictReady, ClosingIsPublished
<1>23. CASE UNCHANGED vars
  BY <1>23, <1>a, <1>b DEF vars, durable
<1>24. ASSUME NEW t \in Tasks, Submit(t) PROVE ThreadsKept /\ RowsKept
  BY <1>24, <1>a, <1>b DEF Submit, durable
<1>25. ASSUME NEW t \in Tasks, NotifyHandOff(t) PROVE ThreadsKept /\ RowsKept
  BY <1>25, <1>a, <1>b DEF NotifyHandOff
<1>26. ASSUME NEW batch \in SUBSET Tasks, PublishInline(batch)
       PROVE  ThreadsKept /\ RowsKept
  <2>1. \A d \in Docs : sink[d] # "none" => sink'[d] # "none"
    BY <1>26 DEF PublishInline
  <2>2. Tasks \subseteq Docs
    BY DEF Tasks, Docs
  <2>3. \A th \in Threads : at[th] = "closing" => TaskOf(job[th]) \in Tasks
    BY JobTask DEF HoldsJob, Holding
  <2> QED
    BY <1>26, <2>1, <2>2, <2>3
       DEF PublishInline, threads, VerdictReady, ClosingIsPublished,
           CandidatesClaimable, ClosedIsPublished, Closed
<1> QED
  BY <1>1, <1>2, <1>3, <1>4, <1>5, <1>6, <1>7, <1>8, <1>9, <1>10, <1>11,
     <1>12, <1>13, <1>14, <1>15, <1>16, <1>17, <1>18, <1>19, <1>20, <1>21,
     <1>22, <1>23, <1>24, <1>25, <1>26 DEF Next, Sweep, Consume, Handle

\* The invariant holds in every reachable state.
LEMMA Invariant == Spec => []IInv
  BY InitInvariant, StepInvariant, PTL DEF Spec

\* No interleaving of replicas, sweeps, messages, crashes and failing writes
\* closes a row whose document the sink does not have.
THEOREM ClosedTasksArePublished == Spec => []ClosedIsPublished
<1>1. IInv => ClosedIsPublished
  BY DEF IInv
<1> QED
  BY <1>1, Invariant, PTL

OwnerStays(t) ==
    ledger[t].status = "running" /\ ledger[t].lease > 0
        => ledger'[t].owner \in {ledger[t].owner, NoInstance}

\* A step that claims takes only what is due or expired, and no other step
\* gives a row to anybody.
LEMMA StepLeases == IInv /\ [Next]_vars => \A t \in Tasks : OwnerStays(t)
<1>1. ASSUME IInv, [Next]_vars PROVE \A t \in Tasks : OwnerStays(t)
  <2> SUFFICES ASSUME NEW t \in Tasks, ledger[t].status = "running",
                      ledger[t].lease > 0
               PROVE  ledger'[t].owner \in {ledger[t].owner, NoInstance}
    BY DEF OwnerStays
  <2> USE <1>1 DEF IInv, WellTyped, TypeOK, DurableTypeOK
  <2>1. ledger[t] \in Rows
    OBVIOUS
  <2>2. ASSUME NEW u \in Tasks, NEW row, Write(u, row),
               row.owner \in {ledger[u].owner, NoInstance}
        PROVE  ledger'[t].owner \in {ledger[t].owner, NoInstance}
    BY <2>2 DEF Write
  <2>3. \A r \in Rows :
           /\ EnqueuePending(r).owner = r.owner
           /\ EnqueueContinuation(r).owner = r.owner
           /\ RescheduleContinuation(r).owner \in {r.owner, NoInstance}
           /\ MarkDone(r).owner \in {r.owner, NoInstance}
           /\ MarkFailed(r).owner \in {r.owner, NoInstance}
    BY OwnerKept
  <2>4. ASSUME NEW u \in Tasks, RecordHandOff(u)
        PROVE  ledger'[t].owner \in {ledger[t].owner, NoInstance}
    BY <2>4, <2>2, <2>3 DEF RecordHandOff
  <2>5. ASSUME NEW u \in Tasks, SpillTask(u)
        PROVE  ledger'[t].owner \in {ledger[t].owner, NoInstance}
    BY <2>5, <2>2, <2>3 DEF SpillTask
  <2>6. CASE Tick
    BY <2>6, <2>1, ElapseType DEF Tick
  <2>7. ASSUME NEW i \in Instances, ClaimDue(i)
        PROVE  ledger'[t].owner \in {ledger[t].owner, NoInstance}
    <3>1. t \notin candidates[i]
      BY DEF CandidatesClaimable, Claimable
    <3> QED
      BY <2>7, <3>1 DEF ClaimDue
  <2>8. ASSUME NEW i \in Instances, NEW j \in claimed[i], PutBack(i, j)
        PROVE  ledger'[t].owner \in {ledger[t].owner, NoInstance}
    <3>1. TaskOf(j) \in Tasks
      BY JobTask
    <3> QED
      BY <2>8, <3>1, <2>2, <2>3 DEF PutBack
  <2>9. ASSUME NEW th \in Threads, Reschedule(th)
        PROVE  ledger'[t].owner \in {ledger[t].owner, NoInstance}
    <3>1. TaskOf(job[th]) \in Tasks
      BY <2>9, JobTask DEF Reschedule, HoldsJob, Holding
    <3> QED
      BY <2>9, <3>1, <2>2, <2>3 DEF Reschedule
  <2>10. ASSUME NEW th \in Threads, CloseTask(th)
         PROVE  ledger'[t].owner \in {ledger[t].owner, NoInstance}
    <3>1. TaskOf(job[th]) \in Tasks
      BY <2>10, JobTask DEF CloseTask, HoldsJob, Holding
    <3> QED
      BY <2>10, <3>1, <2>2, <2>3 DEF CloseTask
  <2>11. CASE ledger' = ledger
    BY <2>11
  <2>12. ASSUME NEW f \in Files, RecordFile(f)
         PROVE  ledger'[t].owner \in {ledger[t].owner, NoInstance}
    <3>1. \A s \in Scanners : <<f, s>> \in Tasks
      BY DEF Tasks
    <3> QED
      BY <2>12, <3>1, <2>2, <2>3 DEF RecordFile
  <2> QED
    BY <2>4, <2>5, <2>6, <2>7, <2>8, <2>9, <2>10, <2>11, <2>12
       DEF Next, Sweep, Consume, Handle, AnalysisFinishes, Submit,
           NotifyHandOff, PublishInline,
           SelectDue, ClaimFails, PassOver, HandleClaimed, SweepEnds, Receive,
           Crash, GiveUp, LeaveEarly, Poll, PollFails, PublishVerdict, Return,
           durable, vars
<1> QED
  BY <1>1

\* A task under a running lease changes hands only to nobody: a claim takes
\* what is due or expired, however many replicas claim at once.
THEOREM LeasesAreHonoured == Spec => LeaseHonoured
<1>1. IInv /\ [Next]_vars => [\A t \in Tasks : OwnerStays(t)]_vars
  BY StepLeases
<1> QED
  BY <1>1, Invariant, PTL DEF Spec, LeaseHonoured, OwnerStays

------------------------------------------------------------------------
(* What may replace a verdict in the sink.                                 *)

\* A thread on its way to the sink carries a verdict, or gives up.
VerdictJustified ==
    \A th \in Threads :
        at[th] = "publishing" => verdict[th] = "answer" \/ GivingUp(th)

\* A continuation that is too old stays so, and without a collector too.
LEMMA AgedGivingUp ==
  ASSUME NEW j \in Jobs, j.scanner \notin Collectors \/ TooOld(j)
  PROVE  Aged(j).scanner \notin Collectors \/ TooOld(Aged(j))
<1>1. /\ MaxAge \in Nat /\ AgeCap \in Nat /\ MaxAge < AgeCap
      /\ j.age \in Nat
  BY LedgerAssumption, WorkerAssumption DEF Jobs
<1>2. Aged(j).scanner = j.scanner /\ Aged(j).age = Saturate(j.age + 1, AgeCap)
  BY DEF Aged, Jobs
<1>3. j.age > MaxAge => Saturate(j.age + 1, AgeCap) > MaxAge
  BY <1>1 DEF Saturate
<1> QED
  BY <1>2, <1>3 DEF TooOld

\* Every step keeps this: the decision and the document are made together, and
\* nothing that comes between them and the sink makes a continuation younger.
LEMMA StepJustified ==
  IInv /\ VerdictJustified /\ [Next]_vars => VerdictJustified'
<1> SUFFICES ASSUME IInv, VerdictJustified, [Next]_vars,
                    NEW th \in Threads, at'[th] = "publishing"
             PROVE  verdict'[th] = "answer" \/ GivingUp(th)'
  BY DEF VerdictJustified
<1> USE DEF IInv, WellTyped, TypeOK
<1> DEFINE Goal == verdict'[th] = "answer" \/ GivingUp(th)'
<1>a. ASSUME at'[th] = at[th], job'[th] = job[th], verdict'[th] = verdict[th]
      PROVE  Goal
  BY <1>a DEF VerdictJustified, GivingUp, TooOld
<1>1. ASSUME Tick PROVE Goal
  <2>1. at[th] = "publishing" /\ job[th] \in Jobs /\ verdict'[th] = verdict[th]
    BY <1>1 DEF Tick, HoldsJob, Holding
  <2>2. job'[th] = IF job[th] = NoJob THEN NoJob ELSE Aged(job[th])
    BY <1>1 DEF Tick
  <2>3. CASE job[th] = NoJob
    BY <2>1, <2>2, <2>3 DEF VerdictJustified, GivingUp, TooOld
  <2>4. CASE job[th] # NoJob
    <3>1. verdict[th] = "answer" \/ GivingUp(th)
      BY <2>1 DEF VerdictJustified
    <3>2. job'[th] = Aged(job[th])
      BY <2>2, <2>4
    <3>3. GivingUp(th) => GivingUp(th)'
      BY <2>1, <3>2, AgedGivingUp DEF GivingUp, TooOld
    <3> QED
      BY <2>1, <3>1, <3>3
  <2> QED
    BY <2>3, <2>4
<1>2. ASSUME NEW i \in Instances, Sweep(i) \/ Consume(i) PROVE Goal
  <2>1. CASE SelectDue(i) \/ ClaimDue(i) \/ ClaimFails(i) \/ SweepEnds(i)
    BY <2>1, <1>a DEF SelectDue, ClaimDue, ClaimFails, SweepEnds, Goto, Threads
  <2>2. ASSUME NEW m \in topic, Receive(i, m) PROVE Goal
    BY <2>2, <1>a DEF Receive, Goto, Threads
  <2>3. ASSUME NEW j \in claimed[i], HandleClaimed(i, j) PROVE Goal
    BY <2>3, <1>a DEF HandleClaimed, Goto, Threads
  <2>4. ASSUME NEW j \in claimed[i], PutBack(i, j) \/ PassOver(i, j) PROVE Goal
    BY <2>4, <1>a DEF PutBack, PassOver, threads
  <2> QED
    BY <1>2, <2>1, <2>2, <2>3, <2>4 DEF Sweep, Consume
<1>3. ASSUME NEW i \in Instances, Crash(i) PROVE Goal
  BY <1>3, <1>a DEF Crash
<1>4. ASSUME NEW k \in Threads, GiveUp(k) PROVE Goal
  <2>1. CASE k = th
    BY <1>4, <2>1 DEF GiveUp, GivingUp, TooOld
  <2>2. CASE k # th
    BY <1>4, <2>2, <1>a DEF GiveUp, Goto
  <2> QED
    BY <2>1, <2>2
<1>5. ASSUME NEW k \in Threads, Poll(k) PROVE Goal
  <2>1. CASE k = th
    BY <1>5, <2>1 DEF Poll, Goto
  <2>2. CASE k # th
    BY <1>5, <2>2, <1>a DEF Poll, Goto
  <2> QED
    BY <2>1, <2>2
<1>6. ASSUME NEW k \in Threads,
             \/ LeaveEarly(k) \/ PollFails(k) \/ Reschedule(k)
             \/ PublishVerdict(k) \/ CloseTask(k) \/ Return(k)
      PROVE  Goal
  BY <1>6, <1>a DEF LeaveEarly, PollFails, Reschedule, PublishVerdict,
                    CloseTask, Return, Goto
<1>7. ASSUME NEW k \in Threads, Handle(k) PROVE Goal
  BY <1>4, <1>5, <1>6, <1>7 DEF Handle
<1>8. CASE threads' = threads
  BY <1>8, <1>a DEF threads
<1>9. ASSUME NEW t \in Tasks,
             \/ Submit(t) \/ RecordHandOff(t) \/ NotifyHandOff(t)
             \/ SpillTask(t) \/ AnalysisFinishes(t)
      PROVE  Goal
  BY <1>8, <1>9
     DEF Submit, RecordHandOff, NotifyHandOff, SpillTask, AnalysisFinishes
<1>10. ASSUME NEW f \in Files, RecordFile(f) PROVE Goal
  BY <1>8, <1>10 DEF RecordFile
<1>13. ASSUME NEW batch \in SUBSET Tasks, PublishInline(batch) PROVE Goal
  BY <1>8, <1>13 DEF PublishInline
<1>11. CASE UNCHANGED vars
  BY <1>8, <1>11 DEF vars
<1> HIDE DEF Goal, IInv, WellTyped, TypeOK
<1>12. ASSUME Next PROVE Goal
  <2>1. CASE \E t \in Tasks :
                \/ Submit(t) \/ RecordHandOff(t) \/ NotifyHandOff(t)
                \/ SpillTask(t) \/ AnalysisFinishes(t)
    BY <2>1, <1>9
  <2>5. CASE \E batch \in SUBSET Tasks : PublishInline(batch)
    BY <2>5, <1>13
  <2>2. CASE \E f \in Files : RecordFile(f)
    BY <2>2, <1>10
  <2>3. CASE \E i \in Instances : Sweep(i) \/ Consume(i) \/ Crash(i)
    BY <2>3, <1>2, <1>3
  <2>4. CASE \E k \in Threads : Handle(k)
    BY <2>4, <1>7
  <2> QED
    BY <1>12, <1>1, <2>1, <2>2, <2>3, <2>4, <2>5 DEF Next
<1> QED
  BY <1>11, <1>12 DEF Goal

AnswerStays(t) ==
    sink[t] = "answer" =>
       \/ sink'[t] = "answer"
       \/ \E th \in Threads : /\ at[th] = "publishing"
                              /\ TaskOf(job[th]) = t
                              /\ GivingUp(th)

\* A step replaces a verdict by another, or by a thread that gives up.
LEMMA StepVerdicts ==
  IInv /\ VerdictJustified /\ [Next]_vars => \A t \in Tasks : AnswerStays(t)
<1>1. ASSUME IInv, VerdictJustified, [Next]_vars
      PROVE  \A t \in Tasks : AnswerStays(t)
  <2> SUFFICES ASSUME NEW t \in Tasks PROVE AnswerStays(t)
    OBVIOUS
  <2>1. ASSUME NEW th \in Threads, PublishVerdict(th) PROVE AnswerStays(t)
    <3>1. /\ at[th] = "publishing"
          /\ \/ sink' = [sink EXCEPT ![TaskOf(job[th])] = verdict[th]]
             \/ sink' = sink
      BY <2>1 DEF PublishVerdict
    <3>2. verdict[th] = "answer" \/ GivingUp(th)
      BY <1>1, <3>1 DEF VerdictJustified
    <3>3. t \in Docs /\ sink \in [Docs -> Documents]
      BY <1>1 DEF Tasks, Docs, IInv, WellTyped, TypeOK, DurableTypeOK
    <3> QED
      BY <3>1, <3>2, <3>3 DEF AnswerStays
  <2>3. ASSUME NEW batch \in SUBSET Tasks, PublishInline(batch)
        PROVE  AnswerStays(t)
    <3>1. t \in Docs
      BY DEF Tasks, Docs
    <3> QED
      BY <2>3, <3>1 DEF PublishInline, AnswerStays
  <2>2. \/ \E th \in Threads : PublishVerdict(th)
        \/ \E batch \in SUBSET Tasks : PublishInline(batch)
        \/ sink' = sink
    BY <1>1
       DEF Next, Sweep, Consume, Handle, Submit, RecordHandOff,
           NotifyHandOff, SpillTask, AnalysisFinishes,
           RecordFile, Tick, SelectDue, ClaimDue, ClaimFails, PutBack,
           PassOver, HandleClaimed, SweepEnds, Receive, Crash, GiveUp,
           LeaveEarly, Poll, PollFails, Reschedule, CloseTask, Return,
           durable, vars
  <2> QED
    BY <2>1, <2>2, <2>3 DEF AnswerStays
<1> QED
  BY <1>1

\* However often a continuation is delivered, retried or polled, a verdict in
\* the sink gives way only to a thread that gives the analysis up.
THEOREM VerdictsAreKept == Spec => VerdictKept
<1>1. Init => VerdictJustified
  BY DEF Init, VerdictJustified
<1>2. IInv /\ VerdictJustified /\ [Next]_vars
        => [\A t \in Tasks : AnswerStays(t)]_vars
  BY StepVerdicts
<1> QED
  BY <1>1, <1>2, Invariant, StepJustified, PTL
     DEF Spec, VerdictKept, AnswerStays

------------------------------------------------------------------------
(* The worker implements PublishFirst.                                     *)

PublishedDocs == {d \in Docs : sink[d] # "none"}
ClosedTasks   == {t \in Tasks : Closed(t)}

\* A write to one row closes that task, or opens it, or changes neither.
LEMMA WriteMapped ==
  ASSUME TypeOK, NEW t \in Tasks, NEW row, Write(t, row)
  PROVE  /\ row.status \in {"done", "failed"}
              => ClosedTasks' = ClosedTasks \cup {t}
         /\ row.status \notin {"done", "failed"}
              => ClosedTasks' = ClosedTasks \ {t}
  BY DEF TypeOK, DurableTypeOK, Write, ClosedTasks, Closed

\* A state in which nothing has happened is an initial state of the promise.
LEMMA InitMapped == Init => Promise!Init
<1>1. NoRow.status = "absent"
  BY DEF NoRow
<1> QED
  BY <1>1 DEF Init, DurableInit, Promise!Init, Closed, Docs

\* A step is one of the promise's, or leaves what the promise sees alone.
LEMMA StepMapped == IInv /\ [Next]_vars => [Promise!Next]_(Promise!vars)
<1> SUFFICES ASSUME IInv, [Next]_vars
             PROVE  [Promise!Next]_(Promise!vars)
  OBVIOUS
<1> USE DEF IInv, WellTyped
<1> DEFINE Goal == [Promise!Next]_(Promise!vars)
<1>a. Promise!vars = <<PublishedDocs, {}, ClosedTasks>>
  BY DEF Promise!vars, PublishedDocs, ClosedTasks
<1>b. ASSUME PublishedDocs' = PublishedDocs, ClosedTasks' = ClosedTasks
      PROVE  Goal
  BY <1>b DEF Promise!vars, PublishedDocs, ClosedTasks
<1>c. ASSUME sink' = sink, ledger' = ledger PROVE Goal
  BY <1>b, <1>c DEF PublishedDocs, ClosedTasks, Closed
<1>d. ASSUME NEW t \in Tasks, PublishedDocs' = PublishedDocs,
             ClosedTasks' = ClosedTasks \ {t}
      PROVE  Goal
  BY <1>d DEF Promise!Next, Promise!Reopen, PublishedDocs, ClosedTasks
<1>e. ASSUME NEW t \in Tasks, t \in PublishedDocs,
             PublishedDocs' = PublishedDocs,
             ClosedTasks' = ClosedTasks \cup {t}
      PROVE  Goal
  BY <1>e DEF Promise!Next, Promise!Close, PublishedDocs, ClosedTasks
<1>1. ASSUME NEW t \in Tasks, NEW row, row.status \notin {"done", "failed"},
             Write(t, row), sink' = sink
      PROVE  Goal
  BY <1>1, <1>d, WriteMapped DEF PublishedDocs
<1>2. ASSUME NEW t \in Tasks, RecordHandOff(t) PROVE Goal
  <2>1. ledger[t] \in Rows
    BY DEF TypeOK, DurableTypeOK
  <2> QED
    BY <1>2, <1>1, <1>c, <2>1, EnqueueContinuationType DEF RecordHandOff
<1>3. ASSUME NEW t \in Tasks, SpillTask(t) PROVE Goal
  <2>1. ledger[t] \in Rows
    BY DEF TypeOK, DurableTypeOK
  <2> QED
    BY <1>3, <1>1, <1>c, <2>1, EnqueuePendingType DEF SpillTask
<1>4. CASE Tick
  <2>1. ClosedTasks' = ClosedTasks
    BY <1>4, ElapseType DEF Tick, TypeOK, DurableTypeOK, ClosedTasks, Closed
  <2> QED
    BY <1>4, <2>1, <1>b DEF Tick, PublishedDocs
<1>5. ASSUME NEW i \in Instances, ClaimDue(i) PROVE Goal
  <2>1. \A t \in candidates[i] : ~Closed(t)
    BY DEF CandidatesClaimable, Claimable, Closed
  <2>2. ClosedTasks' = ClosedTasks
    BY <1>5, <2>1, ClaimType
       DEF ClaimDue, TypeOK, DurableTypeOK, ClosedTasks, Closed
  <2> QED
    BY <1>5, <2>2, <1>b DEF ClaimDue, PublishedDocs
<1>6. ASSUME NEW i \in Instances, NEW j \in claimed[i], PutBack(i, j)
      PROVE  Goal
  <2>1. TaskOf(j) \in Tasks /\ ledger[TaskOf(j)] \in Rows
    BY JobTask DEF TypeOK, DurableTypeOK
  <2> QED
    BY <1>6, <1>1, <1>c, <2>1, RescheduleType DEF PutBack
<1>7. ASSUME NEW th \in Threads, Reschedule(th) PROVE Goal
  <2>1. TaskOf(job[th]) \in Tasks /\ ledger[TaskOf(job[th])] \in Rows
    BY <1>7, JobTask DEF Reschedule, HoldsJob, Holding, TypeOK, DurableTypeOK
  <2> QED
    BY <1>7, <1>1, <1>c, <2>1, RescheduleType DEF Reschedule
<1>8. ASSUME NEW th \in Threads, PublishVerdict(th) PROVE Goal
  <2>1. verdict[th] # "none" /\ TaskOf(job[th]) \in Docs
    BY <1>8, JobTask
       DEF PublishVerdict, VerdictReady, HoldsJob, Holding, Tasks, Docs
  <2>2. PublishedDocs \subseteq PublishedDocs'
    BY <1>8, <2>1 DEF PublishVerdict, PublishedDocs, TypeOK, DurableTypeOK
  <2>3. ClosedTasks' = ClosedTasks
    BY <1>8 DEF PublishVerdict, ClosedTasks, Closed
  <2>4. PublishedDocs' \subseteq Docs
    BY DEF PublishedDocs
  <2> QED
    BY <2>2, <2>3, <2>4
       DEF Promise!Next, Promise!Publish, PublishedDocs, ClosedTasks
<1>9. ASSUME NEW th \in Threads, CloseTask(th) PROVE Goal
  <2>1. TaskOf(job[th]) \in Tasks /\ ledger[TaskOf(job[th])] \in Rows
    BY <1>9, JobTask DEF CloseTask, HoldsJob, Holding, TypeOK, DurableTypeOK
  <2>2. TaskOf(job[th]) \in PublishedDocs
    BY <1>9, <2>1
       DEF CloseTask, ClosingIsPublished, PublishedDocs, Tasks, Docs
  <2>3. CASE ledger' = ledger
    BY <1>9, <2>3, <1>c DEF CloseTask
  <2>4. ASSUME NEW row, Write(TaskOf(job[th]), row) PROVE Goal
    BY <1>9, <2>1, <2>2, <2>4, <1>d, <1>e, WriteMapped
       DEF CloseTask, PublishedDocs
  <2> QED
    BY <1>9, <2>3, <2>4 DEF CloseTask
<1>10. CASE ledger' = ledger /\ sink' = sink
  BY <1>10, <1>c
<1>11. ASSUME NEW batch \in SUBSET Tasks, PublishInline(batch) PROVE Goal
  <2>1. PublishedDocs \subseteq PublishedDocs'
    BY <1>11 DEF PublishInline, PublishedDocs
  <2>2. ClosedTasks' = ClosedTasks /\ PublishedDocs' \subseteq Docs
    BY <1>11 DEF PublishInline, ClosedTasks, Closed, PublishedDocs
  <2> QED
    BY <2>1, <2>2
       DEF Promise!Next, Promise!Publish, PublishedDocs, ClosedTasks
<1>12. ASSUME NEW f \in Files, RecordFile(f) PROVE Goal
  <2>1. CASE ledger' = ledger
    BY <1>12, <2>1, <1>c DEF RecordFile
  <2>2. ASSUME NEW s \in Scanners, sink[<<f, s>>] = "answer",
               Write(<<f, s>>, MarkDone(ledger[<<f, s>>]))
        PROVE  Goal
    <3>1. <<f, s>> \in Tasks /\ <<f, s>> \in PublishedDocs
      BY <2>2 DEF Tasks, Docs, PublishedDocs
    <3>2. PublishedDocs' = PublishedDocs
      BY <1>12 DEF RecordFile, PublishedDocs
    <3> QED
      BY <2>2, <3>1, <3>2, <1>d, <1>e, WriteMapped
  <2> QED
    BY <1>12, <2>1, <2>2 DEF RecordFile
<1> QED
  BY <1>2, <1>3, <1>4, <1>5, <1>6, <1>7, <1>8, <1>9, <1>10, <1>11, <1>12
     DEF Next, Sweep, Consume, Handle, AnalysisFinishes, Submit, NotifyHandOff,
         SelectDue, ClaimFails, PassOver, HandleClaimed, SweepEnds, Receive,
         Crash, GiveUp, LeaveEarly, Poll, PollFails, Return, durable, vars

\* Every behaviour of the replicas is one the abstract specification allows:
\* the ledger closes a task only after the sink has its document.
THEOREM ImplementsPublishFirst == Spec => PublishesFirst
<1>1. Init => Promise!Init
  BY InitMapped
<1>2. IInv /\ [Next]_vars => [Promise!Next]_(Promise!vars)
  BY StepMapped
<1> QED
  BY <1>1, <1>2, Invariant, PTL DEF Spec, PublishesFirst, Promise!Spec

============================================================================
