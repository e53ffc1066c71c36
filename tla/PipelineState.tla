-------------------------- MODULE PipelineState ---------------------------
(***************************************************************************)
(* The state of one run of the scan pipeline (internal/pipeline), shared   *)
(* by the stage modules Discover, Fetch, Lanes and Publish.                *)
(*                                                                         *)
(* Two functions carry the work.  stage[r] is where the object reference r *)
(* is between discovery and the lanes; task[<<r, s>>] is where the task of *)
(* scanner s on r is between the dispatcher and the sink.  A channel is    *)
(* the set of references (or findings) whose position is that channel, and *)
(* a send needs room in it; the order inside a channel is abstracted, so   *)
(* the model has every order the program can produce.  A pool of identical *)
(* goroutines is the set of things they hold, bounded by their number.     *)
(***************************************************************************)
EXTENDS Durable, Integers, FiniteSets

CONSTANTS
    Refs,           \* deliveries of the source, one per ObjectRef it sends
    FileOf,         \* the FileID of each
    SizeOf,         \* its ObjectRef.Size, which an event may state wrongly
    OpenEnded,      \* the source is an event source: its stream never ends
    Readers,        \* scanners whose NeedsPayload is TRUE
    Spilling,       \* scanners named in SPILL_SCANNERS
    Asynchronous,   \* scanners that may answer with a PendingError
    MaxObjectSize, FetchByteBudget, FetchMaxConns, AnalyzeCPULimit,
    StageQueueSize, DedupBatch, PublishBatchSize,
    Faults,         \* which of AllFaults may happen
    MaxRuns         \* bound on restarts

AllFaults == {"cancel", "crash", "open", "database", "sink", "broker"}

ASSUME PipelineAssumption ==
    /\ FileOf \in [Refs -> Files] /\ SizeOf \in [Refs -> Int]
    /\ IsFiniteSet(Scanners)
    /\ Readers \subseteq Scanners /\ Spilling \subseteq Scanners
    /\ Asynchronous \subseteq Scanners
    /\ OpenEnded \in BOOLEAN
    /\ MaxObjectSize \in Nat
    /\ {FetchByteBudget, FetchMaxConns, AnalyzeCPULimit, StageQueueSize,
        DedupBatch, PublishBatchSize, MaxRuns} \subseteq Nat \ {0}
    /\ Faults \subseteq AllFaults

VARIABLES
    stage, task,
    refcnt,      \* payload.refs
    reserved,    \* the byte budget the reference holds: its releaseBytes is owed
    inFlight,    \* ByteLimiter.inFlight
    file,        \* whether workDir/<FileID> exists
    disc, seen,  \* runDiscover: its position, and SeenFileIDs' answer
    fetchers,    \* fetch goroutines that have not returned
    disp,        \* runDispatch: "open" or "exited"
    pub,         \* runPublish: its position
    toRecord,    \* findings of the batch flush has still to record
    main,        \* what Run is waiting for
    cancelled,   \* ctx.Done() is closed
    runs         \* processes started

discoverVars == <<disc, seen>>
publishVars  == <<pub, toRecord>>
payloadVars  == <<refcnt, reserved, inFlight, file>>
runVars      == <<main, cancelled, runs>>
vars == <<stage, task, payloadVars, discoverVars, fetchers, disp,
          publishVars, runVars, durable>>

Stages == {"unread", "batched", "skipped", "gated", "job", "reserving",
           "connecting", "copying", "fetched", "payload", "dispatching",
           "analyzing", "failed", "dropped", "lost"}

TaskStates == {"none", "queued", "limited", "scanning", "recording",
               "notifying", "reporting", "found", "batched", "published",
               "parked", "handed", "dropped"}

Findings == Refs \X (Scanners \cup {SizeGate})

Mains == {"discovering", "fetching", "dispatching", "scanning",
          "publishing", "ended"}

\* The channels: what is in each, and which have been closed by Run.
Jobs     == {r \in Refs : stage[r] = "job"}
Payloads == {r \in Refs : stage[r] = "payload"}
LaneIn(s) == {r \in Refs : task[<<r, s>>] = "queued"}
Found    == {x \in Findings : task[x] = "found"}
HasRoom(channel) == Cardinality(channel) < StageQueueSize

JobsClosed     == main # "discovering"
PayloadsClosed == main \in {"scanning", "dispatching", "publishing", "ended"}
LanesClosed    == main \in {"scanning", "publishing", "ended"}
FindingsClosed == main \in {"publishing", "ended"}

MayFail(what) == what \in Faults

\* ByteLimiter.Acquire's clamp: an empty object weighs one byte, and one
\* larger than the whole budget weighs all of it.
Weight(r) == IF SizeOf[r] < 1 THEN 1
             ELSE IF SizeOf[r] > FetchByteBudget THEN FetchByteBudget
             ELSE SizeOf[r]

\* Mutant of ReleaseBytes: the object's size is returned, not its weight.
ReleaseSize(r) == /\ reserved' = [reserved EXCEPT ![r] = FALSE]
                  /\ inFlight' = inFlight - SizeOf[r]

\* releaseBytes, which acts once.
ReleaseBytes(r) == /\ reserved' = [reserved EXCEPT ![r] = FALSE]
                   /\ inFlight' = inFlight - Weight(r)

\* payload.free: once, the temp file goes and the reservation is returned.
Free(r) ==
    IF reserved[r]
    THEN /\ ReleaseBytes(r)
         /\ file' = [file EXCEPT ![FileOf[r]] = FALSE]
    ELSE UNCHANGED <<reserved, inFlight, file>>

\* Mutant of Done: the last but one reader frees the payload.
DoneEarly(r) ==
    /\ refcnt' = [refcnt EXCEPT ![r] = @ - 1]
    /\ IF refcnt[r] - 1 <= 1 THEN Free(r) ELSE UNCHANGED <<reserved, inFlight, file>>

\* payload.done: the last reader out frees the payload.
Done(r) ==
    /\ refcnt' = [refcnt EXCEPT ![r] = @ - 1]
    /\ IF refcnt[r] - 1 <= 0 THEN Free(r) ELSE UNCHANGED <<reserved, inFlight, file>>

\* A task ends: a scanner that reads the file gives its reference up.
GiveUp(r, s) == IF s \in Readers THEN Done(r) ELSE UNCHANGED payloadVars

TypeOK ==
    /\ DurableTypeOK
    /\ stage \in [Refs -> Stages]
    /\ task \in [Findings -> TaskStates]
    /\ refcnt \in [Refs -> Int]
    /\ reserved \in [Refs -> BOOLEAN]
    /\ inFlight \in Int
    /\ file \in [Files -> BOOLEAN]
    /\ disc \in {"reading", "querying", "emitting", "lastquerying",
                 "lastemitting", "returned"}
    /\ seen \subseteq Files
    /\ fetchers \in 0..FetchMaxConns
    /\ disp \in {"open", "exited"}
    /\ pub \in {"collecting", "sending", "marking", "lastsending",
                "detached", "lastmarking", "returned"}
    /\ toRecord \subseteq Findings
    /\ main \in Mains
    /\ cancelled \in BOOLEAN
    /\ runs \in 1..MaxRuns

Init ==
    /\ DurableInit
    /\ stage = [r \in Refs |-> "unread"]
    /\ task = [x \in Findings |-> "none"]
    /\ refcnt = [r \in Refs |-> 0]
    /\ reserved = [r \in Refs |-> FALSE]
    /\ inFlight = 0
    /\ file = [f \in Files |-> FALSE]
    /\ disc = "reading" /\ seen = {}
    /\ fetchers = FetchMaxConns
    /\ disp = "open"
    /\ pub = "collecting" /\ toRecord = {}
    /\ main = "discovering"
    /\ cancelled = FALSE
    /\ runs = 1
============================================================================
