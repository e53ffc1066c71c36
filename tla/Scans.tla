------------------------------- MODULE Scans -------------------------------
(***************************************************************************)
(* One scan of one object, from the call of Scan to its finding, by each   *)
(* of the scanners that judge for themselves: YARA (scanner/yara_scanner), *)
(* the hash lists (scanner/ioc_scanner) and the two sandboxes (sandbox/).  *)
(* What is true of the object is chosen first; what the scanner says of it *)
(* is then a matter of what it managed to look at.                         *)
(*                                                                         *)
(* A sandbox's scan goes on as a continuation, which the worker meets on   *)
(* the topic and in the ledger.  Each of the two may be handled any number *)
(* of times, with a document published already or not: handle does not     *)
(* look at the row, and a crash, a redelivery or a lease that runs out     *)
(* brings the continuation back.  (When it comes is AsyncWorker's matter.) *)
(*                                                                         *)
(* The yara tool and the sandbox are external: a tool may fail on a rule   *)
(* file, an analysis ends in a report or in none or goes on for ever, and  *)
(* a request may fail.  A request that fails and leaves everything as it   *)
(* was, such as one for the status, is a step not taken.                   *)
(***************************************************************************)
EXTENDS Integers

CONSTANTS
    Kinds,     \* which scanners: "yara", "ioc", "cuckoo", "cape"
    Parts,     \* YARA's rule files, or the lists of hashes
    Scores,    \* scores a sandbox gives, zero for nothing found
    Medium, High, Critical,  \* SANDBOX_SEVERITY_*
    MaxAge,    \* ASYNC_MAX_AGE, in ticks; zero for none
    Copies     \* of a continuation that may be handled at the same time

\* config.go takes the thresholds as they come; in another order a score could
\* match and be graded below medium.
ASSUME ScanAssumption ==
    /\ Kinds \subseteq {"yara", "ioc", "cuckoo", "cape"}
    /\ Scores \subseteq Nat /\ 0 \in Scores
    /\ Medium \in Nat \ {0} /\ High \in Nat /\ Critical \in Nat
    /\ Medium <= High /\ High <= Critical
    /\ MaxAge \in Nat

VARIABLES
    kind,      \* the scanner
    hits,      \* the parts that name this object
    report,    \* what a sandbox would report of it, and where the score stands
    oversize,  \* it is larger than SANDBOX_MAX_OBJECT_SIZE
    loaded,    \* the lists that could be read when the scanner was built
    at,        \* how far the call is: made, pending at the sandbox, or over
    left,      \* rule files not run yet
    found,     \* rule files that matched
    expired,   \* the deadline of the call has passed
    analysis,  \* at the sandbox
    age,       \* ticks since the object was handed over
    hand,      \* how far the worker is with each copy of the continuation
    result,    \* what it is about to publish of it
    answered,  \* a document of this scan is in the sink,
    finding,   \* and it says this
    unseen     \* history: something was passed over, or not what it was read as

truth  == <<kind, hits, report, oversize, loaded>>
local  == <<left, found, expired>>
copies == <<hand, result>>
sink   == <<answered, finding>>
vars   == <<truth, at, local, analysis, age, copies, sink, unseen>>

Sandboxes  == {"cuckoo", "cape"}
Severities == {"info", "low", "medium", "high", "critical"}
Findings   == [error : BOOLEAN, match : BOOLEAN, severity : Severities,
               analysed : BOOLEAN]
Reports    == [first : Scores, second : Scores, large : BOOLEAN]

TypeOK ==
    /\ kind \in Kinds /\ hits \subseteq Parts /\ report \in Reports
    /\ oversize \in BOOLEAN /\ loaded \subseteq Parts
    /\ at \in {"called", "pending", "over"}
    /\ left \subseteq Parts /\ found \subseteq hits /\ expired \in BOOLEAN
    /\ analysis \in {"none", "running", "reported", "failed"}
    /\ age \in 0..MaxAge + 1
    /\ hand \in [Copies -> {"none", "reporting", "publishing"}]
    /\ result \in [Copies -> Findings]
    /\ answered \in BOOLEAN /\ finding \in Findings /\ unseen \in BOOLEAN

Result(m, s) == [error |-> FALSE, match |-> m, severity |-> s, analysed |-> TRUE]

\* Mutant of Failure: a severity that is left empty stays empty.
FailureUngraded ==
    [error |-> TRUE, match |-> FALSE, severity |-> "", analysed |-> FALSE]

\* NewFindingFor: an error is published as information.  These scanners return
\* an empty Result beside it, so that it is no match either.
Failure ==
    [error |-> TRUE, match |-> FALSE, severity |-> "info", analysed |-> FALSE]

Init ==
    /\ kind \in Kinds
    /\ hits \in SUBSET Parts /\ loaded \in SUBSET Parts
    /\ report \in Reports
    /\ oversize \in BOOLEAN
    /\ kind \in Sandboxes => hits = {} /\ loaded = {}
    /\ kind \notin Sandboxes =>
          report = [first |-> 0, second |-> 0, large |-> FALSE] /\ ~oversize
    /\ kind # "ioc" => loaded = {}
    /\ at = "called"
    /\ left = Parts /\ found = {} /\ expired = FALSE
    /\ analysis = "none" /\ age = 0
    /\ hand = [c \in Copies |-> "none"]
    /\ result = [c \in Copies |-> Failure]
    /\ answered = FALSE /\ finding = Failure
    /\ unseen = FALSE

\* The call returns, and the lane sends its finding on.
Answer(f) == at' = "over" /\ answered' = TRUE /\ finding' = f

\* A scanner can end in an error: the rule files cannot be listed or are none,
\* the payload cannot be opened, the sandbox refuses it or gives no id.  (The
\* hash lists' own, an object without hashes, has no cause: fetch computes them
\* before a lane gets the object.)
ScanFails ==
    /\ at = "called" /\ kind # "ioc" /\ left = Parts
    /\ Answer(Failure)
    /\ UNCHANGED <<truth, local, analysis, age, copies, unseen>>

------------------------------------------------------------------------
(* YARA: one process for every rule file, under one deadline.              *)

\* The deadline of RunScan passes: the process it finds running is killed,
\* and none after it starts.
Expire ==
    /\ kind = "yara" /\ at = "called" /\ ~expired
    /\ expired' = TRUE
    /\ UNCHANGED <<truth, at, left, found, analysis, age, copies, sink,
                   unseen>>

RunRules(p) ==
    /\ kind = "yara" /\ at = "called" /\ p \in left /\ ~expired
    /\ left' = left \ {p}
    /\ found' = found \cup ({p} \cap hits)
    /\ UNCHANGED <<truth, at, expired, analysis, age, copies, sink, unseen>>

\* The tool fails, or is killed: a line in the log, and on to the next file.
RulesFail(p) ==
    /\ kind = "yara" /\ at = "called" /\ p \in left
    /\ left' = left \ {p}
    /\ unseen' = TRUE
    /\ UNCHANGED <<truth, at, found, expired, analysis, age, copies, sink>>

Yara(all) == Result(all # {}, IF all # {} THEN "medium" ELSE "info")

YaraEnds ==
    /\ kind = "yara" /\ at = "called" /\ left = {}
    /\ Answer(Yara(found))
    /\ UNCHANGED <<truth, local, analysis, age, copies, unseen>>

------------------------------------------------------------------------
(* The lists of hashes, as they were when the scanner was built.           *)

Lookup ==
    /\ kind = "ioc" /\ at = "called"
    /\ found' = hits \cap loaded
    /\ unseen' = (loaded # Parts)
    /\ Answer(Result(found' # {}, IF found' # {} THEN "high" ELSE "info"))
    /\ UNCHANGED <<truth, left, expired, analysis, age, copies>>

------------------------------------------------------------------------
(* A sandbox: the call submits, the worker polls.                          *)

TooLarge ==
    /\ kind \in Sandboxes /\ at = "called" /\ oversize
    /\ Answer([Result(FALSE, "info") EXCEPT !.analysed = FALSE])
    /\ UNCHANGED <<truth, local, analysis, age, copies, unseen>>

Submit ==
    /\ kind \in Sandboxes /\ at = "called" /\ ~oversize
    /\ at' = "pending" /\ analysis' = "running"
    /\ UNCHANGED <<truth, local, age, copies, sink, unseen>>

\* The sandbox takes the object and its answer is lost: nobody will ask.
SubmitUnanswered ==
    /\ kind \in Sandboxes /\ at = "called" /\ ~oversize
    /\ analysis' = "running"
    /\ Answer(Failure)
    /\ UNCHANGED <<truth, local, age, copies, unseen>>

\* The external part: a running analysis ends, in a report or without one.
AnalysisEnds ==
    /\ analysis = "running"
    /\ analysis' \in {"reported", "failed"}
    /\ UNCHANGED <<truth, at, local, age, copies, sink, unseen>>

Tick ==
    /\ at = "pending" /\ age <= MaxAge
    /\ age' = age + 1
    /\ UNCHANGED <<truth, at, local, analysis, copies, sink, unseen>>

TooOld == MaxAge > 0 /\ age > MaxAge

\* The worker has a copy in hand, or is done with it for now.
Goto(c, step) == hand' = [hand EXCEPT ![c] = step]
Found(c, f) ==
    /\ Goto(c, "publishing")
    /\ result' = [result EXCEPT ![c] = f]

\* Mutant of PollStatus: any state but a failure is taken for the end.
PollStatusEarly(c) ==
    /\ at = "pending" /\ hand[c] = "none" /\ ~TooOld
    /\ analysis # "failed"
    /\ Goto(c, "reporting")
    /\ UNCHANGED <<truth, at, local, analysis, age, result, sink, unseen>>

\* A copy comes, and Poll's first request finds the analysis in a terminal
\* state.
PollStatus(c) ==
    /\ at = "pending" /\ hand[c] = "none" /\ ~TooOld
    /\ analysis \in {"reported", "failed"}
    /\ Goto(c, "reporting")
    /\ UNCHANGED <<truth, at, local, analysis, age, result, sink, unseen>>

\* Mutant of Score: one field of the report is all there is.
ScoreFirst(r) == r.first

\* CAPE's malscore and Cuckoo's info.score come first.  The other stands in for
\* a zero, and is not looked at otherwise, whatever it says.
Score(r) == IF r.first = 0 /\ r.second > 0 THEN r.second ELSE r.first

\* Mutant of Grade: a score on the threshold is graded below it.
GradeAbove(s) ==
    CASE s > Critical -> "critical"
      [] s <= Critical /\ s > High -> "high"
      [] s <= High /\ s > Medium -> "medium"
      [] s <= Medium /\ s > 0 -> "low"
      [] OTHER -> "info"

Grade(s) ==
    CASE s >= Critical -> "critical"
      [] s < Critical /\ s >= High -> "high"
      [] s < High /\ s >= Medium -> "medium"
      [] s < Medium /\ s > 0 -> "low"
      [] OTHER -> "info"

Verdict(s) == Result(s >= Medium, Grade(s))

\* Poll's second request.  A report beyond eight megabytes is cut off and does
\* not decode, however often it is asked for.
ReportArrives(c) ==
    /\ hand[c] = "reporting" /\ analysis = "reported" /\ ~report.large
    /\ Found(c, Verdict(Score(report)))
    /\ UNCHANGED <<truth, at, local, analysis, age, sink, unseen>>

\* Mutant of ReportFails: the failure is published as the scan's own.
ReportFailsForGood(c) ==
    /\ hand[c] = "reporting"
    /\ Found(c, Failure)
    /\ UNCHANGED <<truth, at, local, analysis, age, sink, unseen>>

\* The request fails, a failed analysis has nothing to give, or the process
\* stops: the continuation will be handled again.
ReportFails(c) ==
    /\ hand[c] = "reporting"
    /\ Goto(c, "none")
    /\ UNCHANGED <<truth, at, local, analysis, age, result, sink, unseen>>

\* A body that decodes and holds no score: what a backend may serve of a failed
\* analysis, and how CAPE words an error, with status 200.  report() does not
\* look at the flag that says so.
ReportEmpty(c) ==
    /\ hand[c] = "reporting"
    /\ kind = "cape" \/ analysis = "failed"
    /\ unseen' = TRUE
    /\ Found(c, Verdict(0))
    /\ UNCHANGED <<truth, at, local, analysis, age, sink>>

\* Mutant of Abandon: only an analysis that is over is given up.
AbandonOver(c) ==
    /\ at = "pending" /\ hand[c] = "none" /\ TooOld
    /\ analysis # "running"
    /\ Found(c, Failure)
    /\ UNCHANGED <<truth, at, local, analysis, age, sink, unseen>>

\* handle looks at the age before it polls, and at nothing else: an analysis
\* whose verdict is in the sink already is given up too.
Abandon(c) ==
    /\ at = "pending" /\ hand[c] = "none" /\ TooOld
    /\ Found(c, Failure)
    /\ UNCHANGED <<truth, at, local, analysis, age, sink, unseen>>

\* finish: the document takes the place of an earlier one, which has its id.
PublishFinding(c) ==
    /\ hand[c] = "publishing"
    /\ answered' = TRUE /\ finding' = result[c]
    /\ Goto(c, "none")
    /\ UNCHANGED <<truth, at, local, analysis, age, result, unseen>>

\* The sink refuses it, or the process stops.
PublishFails(c) ==
    /\ hand[c] = "publishing"
    /\ Goto(c, "none")
    /\ UNCHANGED <<truth, at, local, analysis, age, result, sink, unseen>>

------------------------------------------------------------------------

Called ==
    \/ ScanFails \/ Lookup \/ TooLarge \/ Submit \/ SubmitUnanswered
    \/ \E p \in Parts : RunRules(p) \/ RulesFail(p)
    \/ YaraEnds

Polled(c) ==
    \/ PollStatus(c) \/ ReportArrives(c) \/ ReportFails(c) \/ ReportEmpty(c)
    \/ Abandon(c) \/ PublishFinding(c) \/ PublishFails(c)

Next ==
    \/ Called \/ Expire \/ AnalysisEnds \/ Tick
    \/ \E c \in Copies : Polled(c)

Spec == Init /\ [][Next]_vars

\* The lane runs a call it has started to its end, the clock runs, and a copy
\* comes back to a worker: the ledger's, when there is no broker.  A sink that
\* is asked again and again accepts in the end.  The analysis need not end.
FairSpec ==
    /\ Spec
    /\ WF_vars(Called) /\ WF_vars(Tick)
    /\ \A c \in Copies : WF_vars(Polled(c)) /\ SF_vars(PublishFinding(c))

------------------------------------------------------------------------
(* Properties.                                                             *)

Answered == answered /\ ~finding.error
Analysed == analysis = "reported" /\ ~report.large

\* What is true of the object, of what the scanner could have seen.
Bad == IF kind \in Sandboxes
       THEN report.first >= Medium \/ report.second >= Medium
       ELSE hits # {}

\* The sandbox gave two scores, and the one that counts is the harmless one.
Outvoted ==
    kind \in Sandboxes /\ report.first > 0
        /\ report.first < Medium /\ report.second >= Medium

\* An alarm has a rule, a list or a score behind it whatever failed on the
\* way; and there are three ways only in which a bad object is called clean:
\* something was passed over, the finding says itself that nothing was
\* analysed, or the second score alone is the bad one.  The first (a rule file
\* that fails, CAPE's error body) and the third leave no trace in the finding.
VerdictIsFounded ==
    Answered =>
        /\ finding.match => Bad /\ (kind \in Sandboxes => Analysed)
        /\ Bad /\ ~finding.match => unseen \/ ~finding.analysed \/ Outvoted

\* What the severity says and what the match says are the same: an alert on
\* one and a query on the other find the same objects.
MatchIsGraded ==
    answered =>
        (finding.match <=> finding.severity \in {"medium", "high", "critical"})

\* A finding that says "analysed" is not written while the analysis runs.
AnalysedIsOver ==
    Answered /\ kind \in Sandboxes /\ finding.analysed
        => analysis \in {"reported", "failed"}

Alarm == answered /\ finding.match

\* The two ways to lose an alarm: a copy that comes when the analysis is too old
\* overwrites it with the document of having given up, and CAPE's error body
\* overwrites it with a clean verdict.
AlarmStays ==
    \/ finding' = finding
    \/ TooOld /\ finding' = Failure
    \/ kind = "cape" /\ finding' = Verdict(0)

\* An alarm in the sink stays, with its severity, however often its continuation
\* is handled, by two threads at once or after a crash, and whatever fails
\* then; but for the two ways above, because of which a second publish is not
\* always "free", as the comment on finish has it.
AlarmKept == [][Alarm => AlarmStays]_vars

\* No scan stays without its finding: whatever fails, and however often, the
\* age of the continuation ends it.
ScanAnswered == <>answered
============================================================================
