---------------------------- MODULE IntelLookup ---------------------------
(***************************************************************************)
(* intel.lookup: the scanners that ask a third party about a content hash. *)
(* A lookup answers from the cache in the database, which every process    *)
(* shares, or spends a request of the daily quota, which every process     *)
(* counts for itself and never counts down.  Its result, or its error, is  *)
(* a finding like any other, and the object is then recorded as scanned.   *)
(*                                                                         *)
(* The unit of time is the day the provider counts quotas in.  A request   *)
(* takes seconds, so a day passes only between lookups.                    *)
(***************************************************************************)
EXTENDS Integers, FiniteSets

CONSTANTS
    Objects, Hashes,
    HashOf,       \* contents: several objects may share one
    LaneWorkers,  \* sizes of the lane: 1 if it spills, else one per CPU slot
    DailyQuota,   \* 0 for none
    CacheTTL,     \* in days
    LookupFaults,
    MaxProcesses, MaxDays   \* bounds on restarts and on time

\* parse and the 404 case: what a provider's answer is read as.
Opinions == {"unknown", "clean", "match"}
Replies  == Opinions \cup {"refusal"}

ASSUME LookupAssumption ==
    /\ HashOf \in [Objects -> Hashes] /\ IsFiniteSet(Objects)
    /\ DailyQuota \in Nat
    /\ LaneWorkers \cup {CacheTTL, MaxProcesses, MaxDays} \subseteq Nat \ {0}
    /\ LookupFaults \subseteq
           {"network", "status", "database", "sink", "crash"}

VARIABLES
    lastSaid,   \* history: days since it last gave each answer on a content
    cache,      \* IntelCache rows: verdict, and days before ExpiresAt
    spent,      \* lookup.spent
    at,         \* where an object's lookup is
    inHand,     \* the count loaded by spent++, the reply, or the result
    recorded,   \* objects with a file record
    workers,    \* of the lane, as the configuration has it
    troubled,   \* history: the cache has failed, or a process was killed
    processes, days

timeVars     == <<workers, processes, days>>
vars == <<lastSaid, cache, spent, at, inHand, recorded, troubled, timeVars>>

Never == CacheTTL + 1       \* or so long ago that it has expired
NoRow == [verdict |-> "unknown", left |-> 0]

Steps == {"waiting", "reading", "gating", "asking", "counting", "adding",
          "judging", "reporting"}
Hand  == [count : Nat, reply : Replies, result : Opinions \cup {"error"}]
Empty == [count |-> 0, reply |-> "unknown", result |-> "error"]

TypeOK ==
    /\ lastSaid \in [Hashes -> [Opinions -> 0..Never]]
    /\ cache \in [Hashes -> [verdict : Opinions, left : 0..CacheTTL]]
    /\ spent \in Nat
    /\ at \in [Objects -> Steps]
    /\ inHand \in [Objects -> Hand]
    /\ recorded \subseteq Objects /\ workers \in LaneWorkers
    /\ troubled \in BOOLEAN
    /\ processes \in 1..MaxProcesses /\ days \in 1..MaxDays

Init ==
    /\ lastSaid = [h \in Hashes |-> [v \in Opinions |-> Never]]
    /\ cache = [h \in Hashes |-> NoRow]
    /\ spent = 0
    /\ at = [o \in Objects |-> "waiting"]
    /\ inHand = [o \in Objects |-> Empty]
    /\ recorded = {} /\ workers \in LaneWorkers
    /\ troubled = FALSE
    /\ processes = 1 /\ days = 1

Busy == {o \in Objects : at[o] # "waiting"}

Move(o, step) == at' = [at EXCEPT ![o] = step]
Result(o, r) ==
    /\ Move(o, "reporting")
    /\ inHand' = [inHand EXCEPT ![o].result = r]

\* A lane worker takes the task of an object that was not recorded before.
TakeLookup(o) ==
    /\ at[o] = "waiting" /\ o \notin recorded
    /\ Cardinality(Busy) < workers
    /\ Move(o, "reading")
    /\ UNCHANGED <<lastSaid, cache, spent, inHand, recorded, troubled,
                   timeVars>>

\* GetIntel: an unexpired row answers; a database error is a miss.
ReadCache(o) ==
    /\ at[o] = "reading"
    /\ \/ /\ cache[HashOf[o]].left > 0
          /\ Result(o, cache[HashOf[o]].verdict)
          /\ UNCHANGED troubled
       \/ /\ cache[HashOf[o]].left = 0
          /\ Move(o, "gating") /\ UNCHANGED <<inHand, troubled>>
       \/ /\ "database" \in LookupFaults
          /\ Move(o, "gating") /\ UNCHANGED inHand
          /\ troubled' = TRUE
    /\ UNCHANGED <<lastSaid, cache, spent, recorded, timeVars>>

\* Mutant of CheckQuota: one request more than the quota.
CheckQuotaLate(o) ==
    /\ at[o] = "gating"
    /\ IF DailyQuota > 0 /\ spent > DailyQuota
       THEN Result(o, "error")
       ELSE Move(o, "asking") /\ UNCHANGED inHand
    /\ UNCHANGED <<lastSaid, cache, spent, recorded, troubled, timeVars>>

CheckQuota(o) ==
    /\ at[o] = "gating"
    /\ IF DailyQuota > 0 /\ spent >= DailyQuota
       THEN Result(o, "error")
       ELSE Move(o, "asking") /\ UNCHANGED inHand
    /\ UNCHANGED <<lastSaid, cache, spent, recorded, troubled, timeVars>>

\* The request is answered: with the provider's verdict of the day, or with a
\* 429 or another status (or a body that does not parse), which says nothing of
\* the content.  The verdict is what parse reads: a body without the fields it
\* looks for counts as one that says clean.
Ask(o) ==
    /\ at[o] = "asking"
    /\ Move(o, "counting")
    /\ LET h == HashOf[o] IN
       \/ \E v \in Opinions :
             /\ inHand' = [inHand EXCEPT ![o].reply = v]
             /\ lastSaid' = [lastSaid EXCEPT ![h][v] = 0]
       \/ /\ "status" \in LookupFaults
          /\ inHand' = [inHand EXCEPT ![o].reply = "refusal"]
          /\ UNCHANGED lastSaid
    /\ UNCHANGED <<cache, spent, recorded, troubled, timeVars>>

\* No response: the request is not counted.
AskFails(o) ==
    /\ at[o] = "asking" /\ "network" \in LookupFaults
    /\ Result(o, "error")
    /\ UNCHANGED <<lastSaid, cache, spent, recorded, troubled, timeVars>>

\* spent++ without a lock: a load, and a store that another may come before.
LoadSpent(o) ==
    /\ at[o] = "counting"
    /\ Move(o, "adding")
    /\ inHand' = [inHand EXCEPT ![o].count = spent]
    /\ UNCHANGED <<lastSaid, cache, spent, recorded, troubled, timeVars>>

StoreSpent(o) ==
    /\ at[o] = "adding"
    /\ Move(o, "judging")
    /\ spent' = inHand[o].count + 1
    /\ UNCHANGED <<lastSaid, cache, inHand, recorded, troubled, timeVars>>

\* Mutant of Judge: whatever is no verdict is cached as an unknown content.
JudgeAnyStatus(o) ==
    /\ at[o] = "judging"
    /\ LET v == IF inHand[o].reply = "refusal" THEN "unknown"
                                               ELSE inHand[o].reply IN
       /\ Result(o, v)
       /\ cache' = [cache EXCEPT ![HashOf[o]] =
                        [verdict |-> v, left |-> CacheTTL]]
    /\ UNCHANGED <<lastSaid, spent, recorded, troubled, timeVars>>

\* Mutant of Judge: an unknown content is not an answer worth keeping.
JudgeKnown(o) ==
    /\ at[o] = "judging"
    /\ IF inHand[o].reply \in {"refusal", "unknown"}
       THEN Result(o, "error") /\ UNCHANGED cache
       ELSE /\ Result(o, inHand[o].reply)
            /\ cache' = [cache EXCEPT ![HashOf[o]] =
                   [verdict |-> inHand[o].reply, left |-> CacheTTL]]
    /\ UNCHANGED <<lastSaid, spent, recorded, troubled, timeVars>>

\* A verdict, "unknown" included, is cached; the row may fail to be written.
Judge(o) ==
    /\ at[o] = "judging"
    /\ IF inHand[o].reply = "refusal"
       THEN Result(o, "error") /\ UNCHANGED <<cache, troubled>>
       ELSE /\ Result(o, inHand[o].reply)
            /\ \/ /\ cache' = [cache EXCEPT ![HashOf[o]] =
                         [verdict |-> inHand[o].reply, left |-> CacheTTL]]
                  /\ UNCHANGED troubled
               \/ /\ "database" \in LookupFaults
                  /\ troubled' = TRUE /\ UNCHANGED cache
    /\ UNCHANGED <<lastSaid, spent, recorded, timeVars>>

\* The finding, of a verdict or of an error, is published and the object
\* recorded as scanned: runLane and flush treat both alike.  When the sink
\* refuses the batch, or the record is not written, the object will be asked
\* about again.
Report(o) ==
    /\ at[o] = "reporting"
    /\ Move(o, "waiting")
    /\ inHand' = [inHand EXCEPT ![o] = Empty]
    /\ \/ recorded' = recorded \cup {o}
       \/ {"sink", "database"} \cap LookupFaults # {} /\ UNCHANGED recorded
    /\ UNCHANGED <<lastSaid, cache, spent, troubled, timeVars>>

\* Mutant of Later: it passes zero.
LaterUnfloored(n) == n - 1

\* Days left before a row expires, and days since an answer, a day later.
Later(n) == IF n = 0 THEN 0 ELSE n - 1
Older(n) == IF n = Never THEN Never ELSE n + 1

NextDay ==
    /\ Busy = {} /\ days < MaxDays
    /\ days' = days + 1
    /\ lastSaid' =
           [h \in Hashes |-> [v \in Opinions |-> Older(lastSaid[h][v])]]
    /\ cache' = [h \in Hashes |-> [cache[h] EXCEPT !.left = Later(@)]]
    /\ UNCHANGED <<spent, at, inHand, recorded, workers, troubled,
                   processes>>

\* The next run, or a process that replaces one killed at any point.
NewProcess ==
    /\ Busy = {} \/ "crash" \in LookupFaults
    /\ processes < MaxProcesses
    /\ processes' = processes + 1
    /\ troubled' = (troubled \/ Busy # {})
    /\ spent' = 0
    /\ at' = [o \in Objects |-> "waiting"]
    /\ inHand' = [o \in Objects |-> Empty]
    /\ UNCHANGED <<lastSaid, cache, recorded, workers, days>>

Next ==
    \/ \E o \in Objects :
          \/ TakeLookup(o) \/ ReadCache(o) \/ CheckQuota(o)
          \/ Ask(o) \/ AskFails(o) \/ LoadSpent(o) \/ StoreSpent(o)
          \/ Judge(o) \/ Report(o)
    \/ NextDay \/ NewProcess

Spec == Init /\ [][Next]_vars

------------------------------------------------------------------------
(* Properties.                                                             *)

\* A verdict that is about to be published is one the provider gave for this
\* very content within the time it is trusted for, whichever object, worker
\* and process asked: an error never passes for a verdict and an old one is
\* not revived (INTEL_CACHE_TTL).
VerdictIsProviders ==
    \A o \in Objects :
        at[o] = "reporting" /\ inHand[o].result # "error" =>
            lastSaid[HashOf[o]][inHand[o].result] < CacheTTL

\* No request is spent on a content whose verdict is still trusted, a content
\* nobody knows included (the comments on IntelCache): with one worker, and
\* until the cache cannot be read or written or a process is killed.
AsksOnlyWhenExpired ==
    workers = 1 /\ ~troubled =>
        \A o \in Objects : at[o] = "asking" =>
            \A v \in Opinions : lastSaid[HashOf[o]][v] >= CacheTTL

\* One worker never has more than the quota answered by the process it counts
\* for; the request being counted is covered.
QuotaBoundsProcess ==
    workers = 1 /\ DailyQuota > 0 =>
        spent + Cardinality({o \in Objects : at[o] \in {"asking", "counting",
                                                        "adding"}})
            <= DailyQuota
============================================================================
