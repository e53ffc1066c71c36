---------------------------- MODULE ScanLedger ----------------------------
(***************************************************************************)
(* The scan_tasks table of internal/db/scan_task.go, one row at a time.    *)
(*                                                                         *)
(* There is one row per (file, scanner).  The operators below are the      *)
(* statements the code runs against a row: each takes the row before and   *)
(* gives the row after, so a module that keeps the table as a function     *)
(* assigns it with EXCEPT.  A statement that finds no row updates none.    *)
(*                                                                         *)
(* Time is relative.  A row stores how many ticks remain until its next    *)
(* attempt is due and until its lease expires, and how many have passed    *)
(* since its submission; Elapse is one tick of the database's clock.  This *)
(* keeps the table finite without a bound on the length of a behaviour.    *)
(***************************************************************************)
EXTENDS Naturals

CONSTANTS
    Instances,    \* async worker replicas, the holders of leases
    NoInstance,   \* leased_by = ""
    RetryBase,    \* PENDING_RETRY_BASE, ticks
    PollInterval, \* ASYNC_POLL_INTERVAL, ticks
    LeaseFor,     \* WorkerOptions.LeaseFor, ticks
    AgeCap,       \* ages above this are not told apart (bound)
    AttemptsCap   \* nor are attempt counts above this (bound)

ASSUME LedgerAssumption ==
    /\ NoInstance \notin Instances
    /\ RetryBase \in Nat /\ PollInterval \in Nat
    /\ LeaseFor \in Nat \ {0}
    /\ AgeCap \in Nat /\ AttemptsCap \in Nat

\* "absent" is the missing row; the other four are the status column.
Statuses == {"absent", "pending", "running", "done", "failed"}

\* One token stands for all: nothing here interprets it.
Tokens == {"", "token"}

Rows == [status   : Statuses,
         token    : Tokens,                       \* resume_token
         due      : Nat,                          \* next_attempt_at
         age      : 0..AgeCap,                    \* since submitted_at
         attempts : 0..AttemptsCap,
         owner    : Instances \cup {NoInstance},  \* leased_by
         lease    : Nat]                          \* until lease_expires_at

NoRow == [status |-> "absent", token |-> "", due |-> 0, age |-> 0,
          attempts |-> 0, owner |-> NoInstance, lease |-> 0]

Saturate(n, cap) == IF n < cap THEN n ELSE cap

\* An upsert: the first park creates the row, a later one keeps its token,
\* its attempt count and its lease columns.
EnqueuePending(row) == [row EXCEPT !.status = "pending", !.due = RetryBase]

\* An upsert too; attempts and the lease columns are left as they are.
EnqueueContinuation(row) ==
    [row EXCEPT !.status = "pending", !.token = "token",
                !.due = PollInterval, !.age = 0]

\* Mutant of RescheduleContinuation: each poll restarts the task's age.
RescheduleRenewed(row) ==
    IF row.status = "absent" THEN row
    ELSE [row EXCEPT !.status = "pending", !.owner = NoInstance,
                     !.due = PollInterval, !.age = 0]

\* An UPDATE: whatever the status was, the row is pending again.  The lease's
\* expiry is not touched, only its holder.
RescheduleContinuation(row) ==
    IF row.status = "absent" THEN row
    ELSE [row EXCEPT !.status = "pending", !.owner = NoInstance,
                     !.due = PollInterval]

Close(row, status) ==
    IF row.status = "absent" THEN row
    ELSE [row EXCEPT !.status = status, !.owner = NoInstance, !.lease = 0]

MarkDone(row)   == Close(row, "done")
MarkFailed(row) == Close(row, "failed")

\* What ClaimPending's SELECT returns, and what its UPDATE writes.
Claimable(row) == \/ row.status = "pending" /\ row.due = 0
                  \/ row.status = "running" /\ row.lease = 0

Claim(row, instance) ==
    [row EXCEPT !.status = "running", !.owner = instance, !.lease = LeaseFor,
                !.attempts = Saturate(@ + 1, AttemptsCap)]

Countdown(n) == IF n = 0 THEN 0 ELSE n - 1

Elapse(row) ==
    IF row.status = "absent" THEN row
    ELSE [row EXCEPT !.due = Countdown(@), !.lease = Countdown(@),
                     !.age = Saturate(@ + 1, AgeCap)]
============================================================================
