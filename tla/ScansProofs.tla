---------------------------- MODULE ScansProofs ----------------------------
(* Proofs about Scans: what every scan keeps, for any rule files, scores and *)
(* thresholds.                                                               *)
EXTENDS Scans, TLAPS

\* A report's scores are numbers, and the one that counts is one of the two.
LEMMA ReportFields ==
    ASSUME NEW r \in Reports
    PROVE  /\ r.first \in Nat /\ r.second \in Nat
           /\ Score(r) \in Nat /\ Score(r) \in {r.first, r.second}
  BY ScanAssumption DEF Reports, Score

\* Grade names the band a score is in, and Verdict matches from Medium on.
LEMMA GradeBands ==
    ASSUME NEW s \in Nat
    PROVE  /\ Grade(s) \in Severities
           /\ (s >= Medium <=> Grade(s) \in {"medium", "high", "critical"})
<1>1. CASE s >= Critical
  BY <1>1, ScanAssumption DEF Grade, Severities
<1>2. CASE s < Critical /\ s >= High
  BY <1>2, ScanAssumption DEF Grade, Severities
<1>3. CASE s < High /\ s >= Medium
  BY <1>3, ScanAssumption DEF Grade, Severities
<1>4. CASE s < Medium /\ s > 0
  BY <1>4, ScanAssumption DEF Grade, Severities
<1>5. CASE s = 0
  BY <1>5, ScanAssumption DEF Grade, Severities
<1> QED BY <1>1, <1>2, <1>3, <1>4, <1>5, ScanAssumption

\* A result is a finding that was analysed, with the match and severity given.
LEMMA ResultShape ==
    ASSUME NEW m \in BOOLEAN, NEW s \in Severities
    PROVE  /\ Result(m, s) \in Findings
           /\ ~Result(m, s).error /\ Result(m, s).analysed
           /\ Result(m, s).match = m /\ Result(m, s).severity = s
  BY DEF Result, Findings

\* A verdict matches from Medium on and has the grade of its score.
LEMMA VerdictShape ==
    ASSUME NEW s \in Nat
    PROVE  /\ Verdict(s) \in Findings
           /\ ~Verdict(s).error /\ Verdict(s).analysed
           /\ Verdict(s).match = (s >= Medium)
           /\ Verdict(s).severity = Grade(s)
<1> DEFINE m == s >= Medium
           g == Grade(s)
<1>1. m \in BOOLEAN
  BY ScanAssumption
<1>2. g \in Severities
  BY GradeBands
<1>3. Verdict(s) = Result(m, g)
  BY DEF Verdict
<1> HIDE DEF m, g
<1>4. /\ Result(m, g) \in Findings
      /\ ~Result(m, g).error /\ Result(m, g).analysed
      /\ Result(m, g).match = m /\ Result(m, g).severity = g
  BY <1>1, <1>2, ResultShape
<1> QED BY <1>3, <1>4 DEF m, g

\* A failed scan's finding claims nothing.
LEMMA FailureShape ==
    Failure \in Findings /\ Failure.error /\ ~Failure.match
        /\ Failure.severity = "info"
  BY DEF Failure, Findings, Severities

------------------------------------------------------------------------
(* The inductive invariant.  TypeOK is part of it; Progress says what the   *)
(* scan has established by the time it answers, and Grounded what a         *)
(* sandbox's document rests on, in the worker's hand and in the sink.       *)

Grounded(f) ==
    \/ f = Verdict(Score(report)) /\ Analysed
    \/ /\ f = Verdict(0) /\ unseen
       /\ analysis \in {"reported", "failed"}
       /\ kind = "cape" \/ analysis = "failed"
    \/ f = Failure /\ TooOld

Progress ==
    /\ at = "called" => ~answered
    /\ at = "called" /\ kind = "yara" /\ ~unseen => hits \ left \subseteq found
    /\ at = "pending" => kind \in Sandboxes
    /\ \A c \in Copies :
          /\ hand[c] # "none" => at = "pending"
          /\ hand[c] = "reporting" => analysis \in {"reported", "failed"}
          /\ hand[c] = "publishing" => Grounded(result[c])
    /\ at = "pending" /\ answered => Grounded(finding)

IInv ==
    TypeOK /\ Progress /\ VerdictIsFounded /\ MatchIsGraded /\ AnalysedIsOver

\* A scan that has just been called has established nothing and needs nothing.
THEOREM InitIInv == Init => IInv
<1> SUFFICES ASSUME Init PROVE IInv
  OBVIOUS
<1>1. TypeOK
  <2>1. /\ kind \in Kinds /\ hits \subseteq Parts /\ report \in Reports
        /\ oversize \in BOOLEAN /\ loaded \subseteq Parts
        /\ at \in {"called", "pending", "over"}
        /\ left \subseteq Parts /\ found \subseteq hits
    BY DEF Init
  <2>2. expired \in BOOLEAN /\ unseen \in BOOLEAN /\ answered \in BOOLEAN
    BY DEF Init
  <2>3. age \in 0..MaxAge + 1
    BY ScanAssumption DEF Init
  <2>4. finding \in Findings /\ result \in [Copies -> Findings]
    BY FailureShape DEF Init
  <2>5. /\ analysis \in {"none", "running", "reported", "failed"}
        /\ hand \in [Copies -> {"none", "reporting", "publishing"}]
    BY DEF Init
  <2> QED BY <2>1, <2>2, <2>3, <2>4, <2>5 DEF TypeOK
<1>2. Progress
  BY DEF Init, Progress
<1>3. VerdictIsFounded /\ MatchIsGraded /\ AnalysedIsOver
  BY DEF Init, VerdictIsFounded, MatchIsGraded, AnalysedIsOver, Answered
<1> QED BY <1>1, <1>2, <1>3 DEF IInv

\* A document that is grounded has all that the properties ask of it: the score
\* it grades is the one that counts.
LEMMA GroundedIsSafe ==
    TypeOK /\ kind \in Sandboxes /\ (answered => Grounded(finding))
        => VerdictIsFounded /\ MatchIsGraded /\ AnalysedIsOver
<1> SUFFICES ASSUME TypeOK, kind \in Sandboxes, answered, Grounded(finding)
             PROVE  VerdictIsFounded /\ MatchIsGraded /\ AnalysedIsOver
  BY DEF VerdictIsFounded, MatchIsGraded, AnalysedIsOver, Answered
<1>1. CASE finding = Verdict(Score(report)) /\ Analysed
  <2> DEFINE s == Score(report)
  <2>1. /\ s \in Nat /\ report.first \in Nat /\ report.second \in Nat
        /\ s \in {report.first, report.second}
    BY ReportFields DEF TypeOK
  <2>2. /\ s >= Medium => report.first >= Medium \/ report.second >= Medium
        /\ Bad /\ ~(s >= Medium) => Outvoted
    <3>1. s = IF report.first = 0 /\ report.second > 0
              THEN report.second ELSE report.first
      BY DEF Score
    <3> HIDE DEF s
    <3> QED BY <2>1, <3>1, ScanAssumption DEF Bad, Outvoted
  <2> HIDE DEF s
  <2>3. /\ ~finding.error /\ finding.analysed
        /\ finding.match = (s >= Medium) /\ finding.severity = Grade(s)
    BY <1>1, <2>1, VerdictShape DEF s
  <2>4. VerdictIsFounded
    BY <1>1, <2>2, <2>3 DEF VerdictIsFounded, Bad
  <2>5. MatchIsGraded
    BY <2>1, <2>3, GradeBands DEF MatchIsGraded
  <2>6. AnalysedIsOver
    BY <1>1 DEF AnalysedIsOver, Analysed
  <2> QED BY <2>4, <2>5, <2>6
<1>2. CASE finding = Verdict(0) /\ unseen /\ analysis \in {"reported", "failed"}
  <2>1. ~finding.match /\ finding.severity = "info"
    <3>1. ~(0 >= Medium) /\ Grade(0) = "info"
      BY ScanAssumption DEF Grade
    <3> QED BY <1>2, <3>1, VerdictShape
  <2> QED BY <1>2, <2>1 DEF VerdictIsFounded, MatchIsGraded, AnalysedIsOver
<1>3. CASE finding = Failure
  BY <1>3, FailureShape
     DEF VerdictIsFounded, MatchIsGraded, AnalysedIsOver, Answered
<1> QED BY <1>1, <1>2, <1>3 DEF Grounded

------------------------------------------------------------------------
(* The call.                                                               *)

\* The steps of a call that do not end it.
Works ==
    \/ Expire \/ Submit
    \/ \E p \in Parts : RunRules(p) \/ RulesFail(p)

\* They keep the types and what was established, and nothing is answered yet.
LEMMA WorksIInv ==
    ASSUME IInv, Works
    PROVE  IInv'
<1> USE DEF IInv, TypeOK, Progress, truth, copies, sink
<1>1. TypeOK' /\ Progress'
  <2>1. CASE Expire
    BY <2>1 DEF Expire
  <2>2. CASE Submit
    BY <2>2 DEF Submit, local
  <2>3. ASSUME NEW p \in Parts, RunRules(p) PROVE TypeOK' /\ Progress'
    BY <2>3 DEF RunRules
  <2>4. ASSUME NEW p \in Parts, RulesFail(p) PROVE TypeOK' /\ Progress'
    BY <2>4 DEF RulesFail
  <2> QED BY <2>1, <2>2, <2>3, <2>4 DEF Works
<1>2. ~answered'
  BY DEF Works, Expire, Submit, RunRules, RulesFail
<1> QED BY <1>1, <1>2 DEF VerdictIsFounded, MatchIsGraded, AnalysedIsOver,
                          Answered

\* The steps that end the call with an answer.
Answers ==
    \/ ScanFails \/ YaraEnds \/ Lookup \/ TooLarge \/ SubmitUnanswered

\* No copy of a continuation has come from a call that ends with an answer.
LEMMA AnswersProgress ==
    ASSUME IInv, Answers
    PROVE  /\ Progress' /\ at = "called" /\ at' = "over" /\ UNCHANGED truth
           /\ ~answered
  BY DEF IInv, Progress, Answers, ScanFails, YaraEnds, Lookup, TooLarge,
         SubmitUnanswered, Answer, truth, copies

\* An answer that is an error says nothing that needs a ground.
LEMMA FailsIInv ==
    ASSUME IInv, ScanFails \/ SubmitUnanswered
    PROVE  IInv'
<1>1. TypeOK'
  BY FailureShape, ScanAssumption
     DEF IInv, TypeOK, ScanFails, SubmitUnanswered, Answer, truth, local, copies
<1>2. Progress'
  BY AnswersProgress DEF Answers
<1>3. finding' = Failure
  BY DEF ScanFails, SubmitUnanswered, Answer
<1>4. (VerdictIsFounded /\ MatchIsGraded /\ AnalysedIsOver)'
  BY <1>3, FailureShape
     DEF VerdictIsFounded, MatchIsGraded, AnalysedIsOver, Answered
<1> QED BY <1>1, <1>2, <1>4 DEF IInv

\* YARA's finding rests on the rules that were found to match.
LEMMA YaraEndsIInv ==
    ASSUME IInv, YaraEnds
    PROVE  IInv'
<1> DEFINE m == found # {}
           g == IF found # {} THEN "medium" ELSE "info"
<1>1. /\ Result(m, g) \in Findings
      /\ ~Result(m, g).error /\ Result(m, g).analysed
      /\ Result(m, g).match = m /\ Result(m, g).severity = g
  <2>1. m \in BOOLEAN /\ g \in Severities
    BY DEF Severities
  <2> HIDE DEF m, g
  <2> QED BY <2>1, ResultShape
<1>2. at' = "over" /\ answered' = TRUE /\ finding' = Result(m, g)
  BY DEF YaraEnds, Yara, Answer
<1>3. TypeOK'
  BY <1>1, <1>2 DEF IInv, TypeOK, YaraEnds, truth, local, copies
<1>4. Progress'
  BY AnswersProgress DEF Answers
<1>5. kind' \notin Sandboxes /\ UNCHANGED <<truth, unseen>>
  BY DEF YaraEnds, Sandboxes, truth
<1>6. found \subseteq hits /\ (~unseen => hits \subseteq found)
  BY DEF IInv, TypeOK, Progress, YaraEnds
<1>7. VerdictIsFounded'
  BY <1>1, <1>2, <1>5, <1>6 DEF VerdictIsFounded, Answered, Bad, truth
<1>8. MatchIsGraded'
  BY <1>1, <1>2 DEF MatchIsGraded
<1>9. AnalysedIsOver'
  BY <1>5 DEF AnalysedIsOver
<1> QED BY <1>3, <1>4, <1>7, <1>8, <1>9 DEF IInv

\* A hash list's finding rests on the lists the digest was found in.
LEMMA LookupIInv ==
    ASSUME IInv, Lookup
    PROVE  IInv'
<1> DEFINE m == found' # {}
           g == IF found' # {} THEN "high" ELSE "info"
<1>1. /\ Result(m, g) \in Findings
      /\ ~Result(m, g).error /\ Result(m, g).analysed
      /\ Result(m, g).match = m /\ Result(m, g).severity = g
  <2>1. m \in BOOLEAN /\ g \in Severities
    BY DEF Severities
  <2> HIDE DEF m, g
  <2> QED BY <2>1, ResultShape
<1>2. at' = "over" /\ answered' = TRUE /\ finding' = Result(m, g)
  BY DEF Lookup, Answer
<1>3. TypeOK'
  BY <1>1, <1>2 DEF IInv, TypeOK, Lookup, truth, copies
<1>4. Progress'
  BY AnswersProgress DEF Answers
<1>5. kind' \notin Sandboxes /\ UNCHANGED truth
  BY DEF Lookup, Sandboxes, truth
<1>6. found' \subseteq hits /\ (~unseen' => hits \subseteq found')
  BY DEF IInv, TypeOK, Lookup
<1>7. VerdictIsFounded'
  BY <1>1, <1>2, <1>5, <1>6 DEF VerdictIsFounded, Answered, Bad, truth
<1>8. MatchIsGraded'
  BY <1>1, <1>2 DEF MatchIsGraded
<1>9. AnalysedIsOver'
  BY <1>5 DEF AnalysedIsOver
<1> QED BY <1>3, <1>4, <1>7, <1>8, <1>9 DEF IInv

\* An object too large for the sandbox is not said to be analysed.
LEMMA TooLargeIInv ==
    ASSUME IInv, TooLarge
    PROVE  IInv'
<1>1. /\ finding' \in Findings
      /\ ~finding'.match /\ ~finding'.analysed /\ finding'.severity = "info"
  BY DEF TooLarge, Answer, Result, Findings, Severities
<1>2. TypeOK'
  BY <1>1 DEF IInv, TypeOK, TooLarge, Answer, truth, local, copies
<1>3. Progress'
  BY AnswersProgress DEF Answers
<1>4. (VerdictIsFounded /\ MatchIsGraded /\ AnalysedIsOver)'
  BY <1>1 DEF VerdictIsFounded, MatchIsGraded, AnalysedIsOver, Answered
<1> QED BY <1>2, <1>3, <1>4 DEF IInv

------------------------------------------------------------------------
(* The analysis and its copies.                                            *)

\* An analysis that ends, and time that passes, take no ground away: a document
\* that rests on an analysis was not there while it ran.
LEMMA WorldIInv ==
    ASSUME IInv, AnalysisEnds \/ Tick
    PROVE  IInv'
<1> USE DEF AnalysisEnds, Tick, truth, local, copies, sink
<1>1. TypeOK'
  BY ScanAssumption DEF IInv, TypeOK
<1>2. ASSUME NEW CONSTANT f, Grounded(f) PROVE Grounded(f)'
  BY <1>2, ScanAssumption DEF IInv, TypeOK, Grounded, Analysed, TooOld
<1>3. Progress'
  BY <1>2 DEF IInv, Progress, Grounded
<1>4. (VerdictIsFounded /\ MatchIsGraded /\ AnalysedIsOver)'
  BY DEF IInv, VerdictIsFounded, MatchIsGraded, AnalysedIsOver, Answered,
         Analysed, Bad, Outvoted
<1> QED BY <1>1, <1>3, <1>4 DEF IInv

\* What the worker has in hand is grounded when it is found, and the sink gets
\* nothing else.
LEMMA PolledProgress ==
    ASSUME IInv, NEW c \in Copies, Polled(c)
    PROVE  /\ TypeOK' /\ Progress' /\ kind' \in Sandboxes
           /\ at' = "pending" /\ at = "pending"
<1> USE DEF truth, local, copies, sink
<1>1. at = "pending" /\ at' = "pending" /\ UNCHANGED <<truth, local, analysis, age>>
  BY DEF Polled, PollStatus, ReportArrives, ReportFails, ReportEmpty, Abandon,
         PublishFinding, PublishFails, IInv, Progress
<1>2. kind \in Sandboxes
  BY <1>1 DEF IInv, Progress
<1>3. unseen => unseen'
  BY DEF Polled, PollStatus, ReportArrives, ReportFails, ReportEmpty, Abandon,
         PublishFinding, PublishFails
<1>4. ASSUME NEW CONSTANT f, Grounded(f) PROVE Grounded(f)'
  BY <1>1, <1>3, <1>4 DEF Grounded, Analysed, TooOld
<1>5. CASE PollStatus(c) \/ ReportFails(c) \/ PublishFails(c)
  <2>1. TypeOK'
    BY <1>5 DEF IInv, TypeOK, PollStatus, ReportFails, PublishFails, Goto
  <2>2. Progress'
    BY <1>1, <1>2, <1>4, <1>5
       DEF IInv, TypeOK, Progress, Grounded, PollStatus, ReportFails,
           PublishFails, Goto
  <2> QED BY <1>1, <1>2, <2>1, <2>2
<1>6. ASSUME NEW CONSTANT f, f \in Findings, Found(c, f), Grounded(f)',
             UNCHANGED sink
      PROVE  TypeOK' /\ Progress'
  <2>1. unseen' \in BOOLEAN
    BY DEF IInv, TypeOK, Polled, PollStatus, ReportArrives, ReportFails,
           ReportEmpty, Abandon, PublishFinding, PublishFails
  <2>2. TypeOK'
    BY <1>1, <1>6, <2>1 DEF IInv, TypeOK, Found, Goto
  <2>3. Progress'
    BY <1>1, <1>2, <1>4, <1>6
       DEF IInv, TypeOK, Progress, Grounded, Found, Goto
  <2> QED BY <2>2, <2>3
<1>7. CASE ReportArrives(c)
  <2>1. Verdict(Score(report)) \in Findings
    BY ReportFields, VerdictShape DEF IInv, TypeOK
  <2> QED BY <1>1, <1>2, <1>6, <1>7, <2>1
             DEF ReportArrives, Grounded, Analysed
<1>8. CASE ReportEmpty(c)
  <2>1. Verdict(0) \in Findings
    BY VerdictShape
  <2>2. analysis \in {"reported", "failed"}
    BY <1>8 DEF IInv, Progress, ReportEmpty
  <2> QED BY <1>1, <1>2, <1>6, <1>8, <2>1, <2>2 DEF ReportEmpty, Grounded
<1>9. CASE Abandon(c)
  BY <1>1, <1>2, <1>6, <1>9, FailureShape DEF Abandon, Grounded, TooOld
<1>10. CASE PublishFinding(c)
  <2>1. TypeOK'
    BY <1>10 DEF IInv, TypeOK, PublishFinding, Goto
  <2>2. Grounded(result[c])
    BY <1>10 DEF IInv, Progress, PublishFinding
  <2>3. Progress'
    BY <1>1, <1>2, <1>4, <1>10, <2>2
       DEF IInv, TypeOK, Progress, Grounded, PublishFinding, Goto
  <2> QED BY <1>1, <1>2, <2>1, <2>3
<1> QED BY <1>1, <1>2, <1>5, <1>7, <1>8, <1>9, <1>10 DEF Polled

\* So every document of a sandbox is grounded, whichever copy it came from.
LEMMA PolledIInv ==
    ASSUME IInv, NEW c \in Copies, Polled(c)
    PROVE  IInv'
<1>1. /\ TypeOK' /\ Progress' /\ (kind \in Sandboxes)' /\ at' = "pending"
  BY PolledProgress
<1>2. (answered => Grounded(finding))'
  BY <1>1 DEF Progress
<1>3. (VerdictIsFounded /\ MatchIsGraded /\ AnalysedIsOver)'
  BY <1>1, <1>2, GroundedIsSafe, PTL
<1> QED BY <1>1, <1>3 DEF IInv

\* The invariant is inductive.
THEOREM StepIInv == IInv /\ [Next]_vars => IInv'
<1> SUFFICES ASSUME IInv, [Next]_vars PROVE IInv'
  OBVIOUS
<1>1. CASE Works
  BY <1>1, WorksIInv
<1>2. CASE Answers
  BY <1>2, FailsIInv, YaraEndsIInv, LookupIInv, TooLargeIInv DEF Answers
<1>3. CASE AnalysisEnds \/ Tick
  BY <1>3, WorldIInv
<1>4. ASSUME NEW c \in Copies, Polled(c) PROVE IInv'
  BY <1>4, PolledIInv
<1>5. CASE UNCHANGED vars
  BY <1>5 DEF vars, truth, local, copies, sink, IInv, TypeOK, Progress,
              Grounded, TooOld, VerdictIsFounded, MatchIsGraded,
              AnalysedIsOver, Answered, Analysed, Bad, Outvoted
<1> QED BY <1>1, <1>2, <1>3, <1>4, <1>5 DEF Next, Called, Works, Answers

\* Every reachable state has the types declared and the parts below.
THEOREM SpecIInv == Spec => []IInv
<1> QED BY InitIInv, StepIInv, PTL DEF Spec

\* The variables of a scan keep their types, whatever it meets.
THEOREM SpecTypeOK == Spec => []TypeOK
<1>1. IInv => TypeOK
  BY DEF IInv
<1> QED BY <1>1, SpecIInv, PTL

\* Whatever the rules, the reports and the failures: an alarm rests on a rule,
\* a list or a score, and a bad object is called clean only where something
\* was passed over, or where the second of two scores alone is the bad one.
THEOREM SpecVerdictIsFounded == Spec => []VerdictIsFounded
<1>1. IInv => VerdictIsFounded
  BY DEF IInv
<1> QED BY <1>1, SpecIInv, PTL

\* Match and severity never disagree, for any thresholds in order.
THEOREM SpecMatchIsGraded == Spec => []MatchIsGraded
<1>1. IInv => MatchIsGraded
  BY DEF IInv
<1> QED BY <1>1, SpecIInv, PTL

\* No finding says "analysed" of an analysis that still runs.
THEOREM SpecAnalysedIsOver == Spec => []AnalysedIsOver
<1>1. IInv => AnalysedIsOver
  BY DEF IInv
<1> QED BY <1>1, SpecIInv, PTL

------------------------------------------------------------------------
(* An alarm stays.                                                         *)

\* An alarm of a scan that may still be handled is the verdict of its report.
LEMMA AlarmIsReport ==
    ASSUME IInv, Alarm, at = "pending"
    PROVE  analysis = "reported" /\ finding = Verdict(Score(report))
<1>1. Grounded(finding) /\ finding.match
  BY DEF IInv, Progress, Alarm
<1>2. ~Verdict(0).match
  <2>1. ~(0 >= Medium)
    BY ScanAssumption
  <2> QED BY <2>1, VerdictShape
<1> QED BY <1>1, <1>2, FailureShape DEF Grounded, Analysed

\* For any number of copies, handled in any order and any number of times: an
\* alarm in the sink gives way only to a continuation that has become too old,
\* or to CAPE's error body.
THEOREM SpecAlarmKept == Spec => AlarmKept
<1>1. IInv /\ [Next]_vars => [Alarm => AlarmStays]_vars
  <2> SUFFICES ASSUME IInv, Next, Alarm PROVE AlarmStays
    BY DEF Alarm, AlarmStays, vars, sink
  <2>1. ASSUME NEW c \in Copies, PublishFinding(c) PROVE AlarmStays
    <3>1. at = "pending" /\ Grounded(result[c]) /\ finding' = result[c]
      BY <2>1 DEF IInv, Progress, PublishFinding
    <3>2. analysis = "reported" /\ finding = Verdict(Score(report))
      BY <3>1, AlarmIsReport
    <3> QED BY <3>1, <3>2 DEF Grounded, AlarmStays
  <2>2. CASE Called \/ Expire \/ AnalysisEnds \/ Tick
    <3>1. CASE at = "called"
      BY <3>1 DEF IInv, Progress, Alarm
    <3>2. CASE at # "called"
      BY <2>2, <3>2
         DEF Called, ScanFails, Lookup, TooLarge, Submit, SubmitUnanswered,
             RunRules, RulesFail, YaraEnds, Expire, AnalysisEnds, Tick, sink,
             AlarmStays
    <3> QED BY <3>1, <3>2
  <2>3. ASSUME NEW c \in Copies, Polled(c), ~PublishFinding(c)
        PROVE  AlarmStays
    BY <2>3 DEF Polled, PollStatus, ReportArrives, ReportFails, ReportEmpty,
                Abandon, PublishFails, sink, AlarmStays
  <2> QED BY <2>1, <2>2, <2>3 DEF Next
<1> QED BY <1>1, SpecIInv, PTL DEF Spec, AlarmKept
============================================================================
