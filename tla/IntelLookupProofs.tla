------------------------- MODULE IntelLookupProofs ------------------------
(***************************************************************************)
(* A published verdict is the provider's own and still trusted, for every  *)
(* number of workers, objects, contents, restarts and faults.  No lock is  *)
(* needed for it: a cache row is only ever written from a reply just       *)
(* received, and a row ages with the answer it copies.  With one worker,   *)
(* the quota bounds what a process asks, and while the database works no   *)
(* request is spent on a content whose verdict is still trusted.           *)
(***************************************************************************)
EXTENDS IntelLookup, FiniteSetTheorems, TLAPS

\* A row is as old as the last time the provider said what it holds, or older.
CacheBacked ==
    \A h \in Hashes :
        cache[h].left > 0 =>
            lastSaid[h][cache[h].verdict] <= CacheTTL - cache[h].left

\* A reply in a worker's hand was given today, and the verdict that a lookup
\* is about to report is still trusted (VerdictIsProviders, of one object).
ReplyBacked(o) ==
    at[o] \in {"counting", "adding", "judging"} /\ inHand[o].reply # "refusal"
        => lastSaid[HashOf[o]][inHand[o].reply] = 0

VerdictBacked(o) ==
    at[o] = "reporting" /\ inHand[o].result # "error"
        => lastSaid[HashOf[o]][inHand[o].result] < CacheTTL

Backed(o) == ReplyBacked(o) /\ VerdictBacked(o)

Inv == TypeOK /\ CacheBacked /\ \A o \in Objects : Backed(o)

\* The constants, typed, as the proofs need them.
LEMMA Types ==
    /\ HashOf \in [Objects -> Hashes]
    /\ CacheTTL \in Nat /\ CacheTTL >= 1
    /\ MaxProcesses \in Nat /\ MaxProcesses >= 1
    /\ MaxDays \in Nat /\ MaxDays >= 1
    /\ Never \in Nat /\ Never = CacheTTL + 1
  BY LookupAssumption DEF Never

\* The first process starts in a state of the right type.
LEMMA InitTyped == Init => TypeOK
<1> SUFFICES ASSUME Init PROVE TypeOK
  OBVIOUS
<1>1. lastSaid \in [Hashes -> [Opinions -> 0..Never]]
  BY Types DEF Init
<1>2. cache \in [Hashes -> [verdict : Opinions, left : 0..CacheTTL]]
  BY Types DEF Init, NoRow, Opinions
<1>3. inHand \in [Objects -> Hand]
  BY DEF Init, Empty, Hand, Replies, Opinions
<1>4. at \in [Objects -> Steps]
  BY DEF Init, Steps
<1>5. troubled \in BOOLEAN
  BY DEF Init
<1>6. /\ spent \in Nat /\ workers \in LaneWorkers /\ recorded \subseteq Objects
      /\ processes \in 1..MaxProcesses /\ days \in 1..MaxDays
  BY Types DEF Init
<1> QED
  BY <1>1, <1>2, <1>3, <1>4, <1>5, <1>6 DEF TypeOK

\* A day later a row's remaining days and an answer's age keep their range.
LEMMA DayTyped ==
    /\ \A n \in 0..CacheTTL : Later(n) \in 0..CacheTTL
    /\ \A n \in 0..Never : Older(n) \in 0..Never
  BY Types DEF Later, Older

\* A step that gives a lookup its result or moves it keeps the types of both.
LEMMA ResultTyped ==
    ASSUME TypeOK, NEW o \in Objects, NEW r \in Opinions \cup {"error"},
           Result(o, r)
    PROVE  at' \in [Objects -> Steps] /\ inHand' \in [Objects -> Hand]
  BY DEF TypeOK, Result, Move, Steps, Hand

\* The same of a step that only moves it.
LEMMA MoveTyped ==
    ASSUME TypeOK, NEW o \in Objects, NEW step \in Steps, Move(o, step)
    PROVE  at' \in [Objects -> Steps]
  BY DEF TypeOK, Move

\* A reply that is taken in hand is one.
LEMMA ReplyTyped ==
    ASSUME inHand \in [Objects -> Hand], NEW o \in Objects, NEW r \in Replies
    PROVE  [inHand EXCEPT ![o].reply = r] \in [Objects -> Hand]
  BY DEF Hand

\* An answer given today leaves the ages of answers in their range.
LEMMA SaidTyped ==
    ASSUME lastSaid \in [Hashes -> [Opinions -> 0..Never]],
           NEW h \in Hashes, NEW v \in Opinions
    PROVE  [lastSaid EXCEPT ![h][v] = 0] \in [Hashes -> [Opinions -> 0..Never]]
<1> DEFINE said == [lastSaid[h] EXCEPT ![v] = 0]
<1>1. 0 \in 0..Never
  BY Types
<1>2. said \in [Opinions -> 0..Never]
  BY <1>1
<1>3. [lastSaid EXCEPT ![h][v] = 0] = [lastSaid EXCEPT ![h] = said]
  OBVIOUS
<1> HIDE DEF said
<1> QED
  BY <1>2, <1>3

\* Every step keeps the types of the variables.
LEMMA TypeStep == TypeOK /\ [Next]_vars => TypeOK'
<1> SUFFICES ASSUME TypeOK, [Next]_vars PROVE TypeOK'
  OBVIOUS
<1> USE DEF timeVars
<1>1. ASSUME NEW o \in Objects, TakeLookup(o) PROVE TypeOK'
  <2>1. at' \in [Objects -> Steps]
    BY <1>1, MoveTyped DEF TakeLookup, Steps
  <2> QED
    BY <1>1, <2>1 DEF TakeLookup, TypeOK
<1>2. ASSUME NEW o \in Objects, ReadCache(o) PROVE TypeOK'
  <2>1. HashOf[o] \in Hashes /\ cache[HashOf[o]].verdict \in Opinions
    BY Types DEF TypeOK
  <2>2. at' \in [Objects -> Steps] /\ inHand' \in [Objects -> Hand]
    <3>1. CASE Result(o, cache[HashOf[o]].verdict)
      BY <2>1, <3>1, ResultTyped
    <3>2. CASE Move(o, "gating") /\ UNCHANGED inHand
      BY <3>2, MoveTyped DEF TypeOK, Steps
    <3> QED
      BY <1>2, <3>1, <3>2 DEF ReadCache
  <2> QED
    BY <1>2, <2>2 DEF ReadCache, TypeOK
<1>3. ASSUME NEW o \in Objects, CheckQuota(o) PROVE TypeOK'
  <2>1. at' \in [Objects -> Steps] /\ inHand' \in [Objects -> Hand]
    <3>1. CASE Result(o, "error")
      BY <3>1, ResultTyped
    <3>2. CASE Move(o, "asking") /\ UNCHANGED inHand
      BY <3>2, MoveTyped DEF TypeOK, Steps
    <3> QED
      BY <1>3, <3>1, <3>2 DEF CheckQuota
  <2> QED
    BY <1>3, <2>1 DEF CheckQuota, TypeOK
<1>4. ASSUME NEW o \in Objects, Ask(o) PROVE TypeOK'
  <2>1. at' \in [Objects -> Steps]
    BY <1>4, MoveTyped DEF Ask, Steps
  <2>2. /\ HashOf[o] \in Hashes /\ inHand \in [Objects -> Hand]
        /\ lastSaid \in [Hashes -> [Opinions -> 0..Never]]
    BY Types DEF TypeOK
  <2>3. /\ inHand' \in [Objects -> Hand]
        /\ lastSaid' \in [Hashes -> [Opinions -> 0..Never]]
    <3>1. ASSUME NEW v \in Opinions,
                 inHand' = [inHand EXCEPT ![o].reply = v],
                 lastSaid' = [lastSaid EXCEPT ![HashOf[o]][v] = 0]
          PROVE  /\ inHand' \in [Objects -> Hand]
                 /\ lastSaid' \in [Hashes -> [Opinions -> 0..Never]]
      <4>1. inHand' \in [Objects -> Hand]
        BY <3>1, <2>2, ReplyTyped DEF Replies
      <4>2. lastSaid' \in [Hashes -> [Opinions -> 0..Never]]
        BY <3>1, <2>2, SaidTyped
      <4> QED
        BY <4>1, <4>2
    <3>2. CASE /\ inHand' = [inHand EXCEPT ![o].reply = "refusal"]
               /\ UNCHANGED lastSaid
      BY <3>2, <2>2, ReplyTyped DEF Replies
    <3> QED
      BY <1>4, <3>1, <3>2 DEF Ask
  <2> QED
    BY <1>4, <2>1, <2>3 DEF Ask, TypeOK
<1>5. ASSUME NEW o \in Objects, AskFails(o) PROVE TypeOK'
  BY <1>5, ResultTyped DEF AskFails, TypeOK
<1>6. ASSUME NEW o \in Objects, LoadSpent(o) PROVE TypeOK'
  <2>1. at' \in [Objects -> Steps]
    BY <1>6, MoveTyped DEF LoadSpent, Steps
  <2>2. inHand' \in [Objects -> Hand]
    BY <1>6 DEF LoadSpent, TypeOK, Hand
  <2> QED
    BY <1>6, <2>1, <2>2 DEF LoadSpent, TypeOK
<1>7. ASSUME NEW o \in Objects, StoreSpent(o) PROVE TypeOK'
  <2>1. at' \in [Objects -> Steps]
    BY <1>7, MoveTyped DEF StoreSpent, Steps
  <2>2. spent' \in Nat
    BY <1>7 DEF StoreSpent, TypeOK, Hand
  <2> QED
    BY <1>7, <2>1, <2>2 DEF StoreSpent, TypeOK
<1>8. ASSUME NEW o \in Objects, Judge(o) PROVE TypeOK'
  <2>1. at' \in [Objects -> Steps] /\ inHand' \in [Objects -> Hand]
    BY <1>8, ResultTyped DEF Judge, TypeOK, Hand, Replies
  <2>2. cache' \in [Hashes -> [verdict : Opinions, left : 0..CacheTTL]]
    <3>1. CASE UNCHANGED cache
      BY <3>1 DEF TypeOK
    <3>2. CASE /\ inHand[o].reply # "refusal"
               /\ cache' = [cache EXCEPT ![HashOf[o]] =
                     [verdict |-> inHand[o].reply, left |-> CacheTTL]]
      <4>1. inHand[o].reply \in Opinions
        BY <3>2 DEF TypeOK, Hand, Replies
      <4> DEFINE row == [verdict |-> inHand[o].reply, left |-> CacheTTL]
      <4>2. row \in [verdict : Opinions, left : 0..CacheTTL]
        BY <4>1, Types
      <4>3. cache' = [cache EXCEPT ![HashOf[o]] = row]
        BY <3>2
      <4> HIDE DEF row
      <4> QED
        BY <4>2, <4>3 DEF TypeOK
    <3> QED
      BY <1>8, <3>1, <3>2 DEF Judge
  <2> QED
    BY <1>8, <2>1, <2>2 DEF Judge, TypeOK
<1>9. ASSUME NEW o \in Objects, Report(o) PROVE TypeOK'
  <2>1. at' \in [Objects -> Steps]
    BY <1>9, MoveTyped DEF Report, Steps
  <2>2. inHand' \in [Objects -> Hand]
    BY <1>9 DEF Report, TypeOK, Empty, Hand, Replies, Opinions
  <2> QED
    BY <1>9, <2>1, <2>2 DEF Report, TypeOK
<1>10. CASE NextDay
  <2>1. lastSaid' \in [Hashes -> [Opinions -> 0..Never]]
    BY <1>10, DayTyped DEF NextDay, TypeOK
  <2>2. cache' \in [Hashes -> [verdict : Opinions, left : 0..CacheTTL]]
    BY <1>10, DayTyped DEF NextDay, TypeOK
  <2> QED
    BY <1>10, <2>1, <2>2, Types DEF NextDay, TypeOK
<1>11. CASE NewProcess
  <2>1. at' \in [Objects -> Steps] /\ inHand' \in [Objects -> Hand]
    BY <1>11 DEF NewProcess, Steps, Empty, Hand, Replies, Opinions
  <2> QED
    BY <1>11, <2>1, Types DEF NewProcess, TypeOK
<1>12. CASE UNCHANGED vars
  BY <1>12 DEF vars, TypeOK
<1> QED
  BY <1>1, <1>2, <1>3, <1>4, <1>5, <1>6, <1>7, <1>8, <1>9, <1>10, <1>11,
     <1>12 DEF Next

\* The variables keep their types.
THEOREM TypeCorrect == Spec => []TypeOK
  BY InitTyped, TypeStep, PTL DEF Spec

\* What a step does to the lookup it moves, and that it moves no other.
LEMMA MoveEffect ==
    ASSUME TypeOK, NEW o \in Objects, NEW step \in Steps, Move(o, step)
    PROVE  /\ at'[o] = step
           /\ \A p \in Objects \ {o} : at'[p] = at[p]
  BY DEF TypeOK, Move

\* What an answer does to the lookup it is of, and that it touches no other.
LEMMA ResultEffect ==
    ASSUME TypeOK, NEW o \in Objects, NEW r \in Opinions \cup {"error"},
           Result(o, r)
    PROVE  /\ at'[o] = "reporting" /\ inHand'[o].result = r
           /\ \A p \in Objects \ {o} : at'[p] = at[p] /\ inHand'[p] = inHand[p]
  BY DEF TypeOK, Result, Move, Hand

\* A step of one lookup, while the provider says nothing, is judged by what it
\* does to that lookup alone.
LEMMA OthersBacked ==
    ASSUME \A p \in Objects : Backed(p), NEW o \in Objects, Backed(o)',
           UNCHANGED lastSaid,
           \A p \in Objects \ {o} : at'[p] = at[p] /\ inHand'[p] = inHand[p]
    PROVE  \A p \in Objects : Backed(p)'
<1> SUFFICES ASSUME NEW p \in Objects, p # o PROVE Backed(p)'
  OBVIOUS
<1>1. at'[p] = at[p] /\ inHand'[p] = inHand[p] /\ lastSaid' = lastSaid
  OBVIOUS
<1> QED
  BY <1>1 DEF Backed, ReplyBacked, VerdictBacked

\* A lookup that ends in an error has nothing to back.
LEMMA ErrorBacked ==
    ASSUME TypeOK, \A p \in Objects : Backed(p), NEW o \in Objects,
           Result(o, "error"), UNCHANGED lastSaid
    PROVE  \A p \in Objects : Backed(p)'
<1>1. Backed(o)'
  BY ResultEffect DEF Backed, ReplyBacked, VerdictBacked
<1> QED
  BY <1>1, ResultEffect, OthersBacked

\* A lookup that moves without a reply or a result of its own in play.
LEMMA MoveBacked ==
    ASSUME TypeOK, \A p \in Objects : Backed(p), NEW o \in Objects,
           NEW step \in {"reading", "gating", "asking", "waiting"},
           Move(o, step), UNCHANGED lastSaid,
           \A p \in Objects \ {o} : inHand'[p] = inHand[p]
    PROVE  \A p \in Objects : Backed(p)'
<1>1. at'[o] = step /\ \A p \in Objects \ {o} : at'[p] = at[p]
  BY MoveEffect DEF Steps
<1>2. Backed(o)'
  BY <1>1 DEF Backed, ReplyBacked, VerdictBacked
<1> QED
  BY <1>1, <1>2, OthersBacked

\* The steps of spent++ and the judgement keep the reply.
LEMMA CountingBacked ==
    ASSUME TypeOK, \A p \in Objects : Backed(p), NEW o \in Objects,
           LoadSpent(o) \/ StoreSpent(o)
    PROVE  \A p \in Objects : Backed(p)'
<1>1. at[o] \in {"counting", "adding"} /\ UNCHANGED lastSaid
  BY DEF LoadSpent, StoreSpent
<1>2. at'[o] \in {"adding", "judging"}
  BY MoveEffect DEF LoadSpent, StoreSpent, Steps
<1>3. \A p \in Objects \ {o} : at'[p] = at[p]
  BY MoveEffect DEF LoadSpent, StoreSpent, Steps
<1>4. inHand'[o].reply = inHand[o].reply
  BY DEF LoadSpent, StoreSpent, TypeOK, Hand
<1>5. \A p \in Objects \ {o} : inHand'[p] = inHand[p]
  BY DEF LoadSpent, StoreSpent, TypeOK, Hand
<1>6. Backed(o)'
  BY <1>1, <1>2, <1>4 DEF Backed, ReplyBacked, VerdictBacked
<1> QED
  BY <1>1, <1>3, <1>5, <1>6, OthersBacked

\* An answer of the provider backs its reply, and takes no backing away.
LEMMA AskBacked ==
    ASSUME TypeOK, CacheBacked, \A p \in Objects : Backed(p),
           NEW o \in Objects, Ask(o)
    PROVE  CacheBacked' /\ \A p \in Objects : Backed(p)'
<1>1. /\ HashOf[o] \in Hashes
      /\ lastSaid \in [Hashes -> [Opinions -> 0..Never]]
      /\ UNCHANGED cache
  BY Types DEF Ask, TypeOK
<1>2. at'[o] = "counting" /\ \A p \in Objects \ {o} : at'[p] = at[p]
  BY MoveEffect DEF Ask, Steps
<1>3. \A p \in Objects \ {o} : inHand'[p] = inHand[p]
  BY DEF Ask, TypeOK
<1>4. \A h \in Hashes, v \in Opinions :
          lastSaid'[h][v] = lastSaid[h][v] \/ lastSaid'[h][v] = 0
  <2>1. CASE UNCHANGED lastSaid
    BY <2>1
  <2>2. ASSUME NEW w \in Opinions,
               lastSaid' = [lastSaid EXCEPT ![HashOf[o]][w] = 0],
               NEW h \in Hashes, NEW v \in Opinions
        PROVE  lastSaid'[h][v] = lastSaid[h][v] \/ lastSaid'[h][v] = 0
    <3>1. CASE h = HashOf[o]
      BY <1>1, <2>2, <3>1
    <3>2. CASE h # HashOf[o]
      BY <1>1, <2>2, <3>2
    <3> QED
      BY <3>1, <3>2
  <2> QED
    BY <2>1, <2>2 DEF Ask
<1>5. CacheBacked'
  <2> SUFFICES ASSUME NEW h \in Hashes, cache[h].left > 0
               PROVE  lastSaid'[h][cache[h].verdict] <= CacheTTL - cache[h].left
    BY <1>1 DEF CacheBacked
  <2>1. cache[h].verdict \in Opinions /\ cache[h].left \in 0..CacheTTL
    BY DEF TypeOK
  <2>2. lastSaid[h][cache[h].verdict] <= CacheTTL - cache[h].left
    BY DEF CacheBacked
  <2> QED
    BY <1>4, <2>1, <2>2, Types
<1>6. Backed(o)'
  <2>1. ASSUME NEW v \in Opinions,
               inHand' = [inHand EXCEPT ![o].reply = v],
               lastSaid' = [lastSaid EXCEPT ![HashOf[o]][v] = 0]
        PROVE  Backed(o)'
    <3>1. inHand'[o].reply = v
      BY <2>1 DEF TypeOK, Hand
    <3>2. lastSaid'[HashOf[o]][v] = 0
      BY <1>1, <2>1
    <3> QED
      BY <1>2, <3>1, <3>2 DEF Backed, ReplyBacked, VerdictBacked
  <2>2. CASE inHand' = [inHand EXCEPT ![o].reply = "refusal"]
    <3>1. inHand'[o].reply = "refusal"
      BY <2>2 DEF TypeOK, Hand
    <3> QED
      BY <1>2, <3>1 DEF Backed, ReplyBacked, VerdictBacked
  <2> QED
    BY <2>1, <2>2 DEF Ask
<1>7. ASSUME NEW p \in Objects, p # o PROVE Backed(p)'
  <2>1. at'[p] = at[p] /\ inHand'[p] = inHand[p]
    BY <1>2, <1>3, <1>7
  <2>2. /\ HashOf[p] \in Hashes /\ inHand[p].reply \in Replies
        /\ inHand[p].result \in Opinions \cup {"error"}
    BY Types DEF TypeOK, Hand
  <2>3. ReplyBacked(p)'
    BY <1>4, <2>1, <2>2 DEF Backed, ReplyBacked, Replies
  <2>4. VerdictBacked(p)'
    <3> SUFFICES ASSUME at[p] = "reporting", inHand[p].result # "error"
                 PROVE  lastSaid'[HashOf[p]][inHand[p].result] < CacheTTL
      BY <2>1 DEF VerdictBacked
    <3>1. lastSaid[HashOf[p]][inHand[p].result] < CacheTTL
      BY DEF Backed, VerdictBacked
    <3>2. \/ lastSaid'[HashOf[p]][inHand[p].result]
               = lastSaid[HashOf[p]][inHand[p].result]
          \/ lastSaid'[HashOf[p]][inHand[p].result] = 0
      BY <1>4, <2>2
    <3> QED
      BY <3>1, <3>2, Types
  <2> QED
    BY <2>3, <2>4 DEF Backed
<1> QED
  BY <1>5, <1>6, <1>7

\* A judgement caches and reports what the provider has just said.
LEMMA JudgeBacked ==
    ASSUME TypeOK, CacheBacked, \A p \in Objects : Backed(p),
           NEW o \in Objects, Judge(o)
    PROVE  CacheBacked' /\ \A p \in Objects : Backed(p)'
<1>1. UNCHANGED lastSaid /\ at[o] = "judging"
  BY DEF Judge
<1>2. CASE inHand[o].reply = "refusal"
  BY <1>1, <1>2, ErrorBacked DEF Judge, CacheBacked
<1>3. CASE inHand[o].reply # "refusal"
  <2>1. inHand[o].reply \in Opinions /\ Result(o, inHand[o].reply)
    BY <1>3 DEF Judge, TypeOK, Hand, Replies
  <2>2. lastSaid[HashOf[o]][inHand[o].reply] = 0
    BY <1>1, <1>3 DEF Backed, ReplyBacked
  <2>3. at'[o] = "reporting" /\ inHand'[o].result = inHand[o].reply
    BY <2>1, ResultEffect
  <2>4. Backed(o)'
    BY <1>1, <2>2, <2>3, Types DEF Backed, ReplyBacked, VerdictBacked
  <2>5. \A p \in Objects : Backed(p)'
    BY <1>1, <2>1, <2>4, ResultEffect, OthersBacked
  <2>6. CASE UNCHANGED cache
    BY <1>1, <2>5, <2>6 DEF CacheBacked
  <2>7. CASE cache' = [cache EXCEPT ![HashOf[o]] =
                 [verdict |-> inHand[o].reply, left |-> CacheTTL]]
    <3>1. cache'[HashOf[o]] = [verdict |-> inHand[o].reply, left |-> CacheTTL]
      BY <2>7, Types DEF TypeOK
    <3>2. \A h \in Hashes \ {HashOf[o]} : cache'[h] = cache[h]
      BY <2>7 DEF TypeOK
    <3>3. CacheBacked'
      BY <1>1, <2>2, <3>1, <3>2, Types DEF CacheBacked
    <3> QED
      BY <2>5, <3>3
  <2> QED
    BY <1>3, <2>6, <2>7 DEF Judge
<1> QED
  BY <1>2, <1>3

\* A row loses a day of its life as the answer it copies ages by one.
LEMMA DayBacked ==
    ASSUME TypeOK, CacheBacked, NextDay
    PROVE  CacheBacked' /\ \A p \in Objects : Backed(p)'
<1>1. ASSUME NEW p \in Objects PROVE at'[p] = "waiting"
  BY DEF NextDay, Busy
<1>2. ASSUME NEW h \in Hashes, cache'[h].left > 0
      PROVE  lastSaid'[h][cache'[h].verdict] <= CacheTTL - cache'[h].left
  <2>1. cache[h].left \in 0..CacheTTL /\ cache[h].verdict \in Opinions
    BY DEF TypeOK
  <2>2. cache'[h] = [cache[h] EXCEPT !.left = Later(cache[h].left)]
    BY DEF NextDay
  <2>3. cache'[h].left = Later(cache[h].left)
        /\ cache'[h].verdict = cache[h].verdict
    BY <2>2 DEF TypeOK
  <2>4. cache[h].left > 0 /\ cache'[h].left = cache[h].left - 1
    BY <1>2, <2>1, <2>3, Types DEF Later
  <2>5. /\ lastSaid[h][cache[h].verdict] \in 0..Never
        /\ lastSaid[h][cache[h].verdict] <= CacheTTL - cache[h].left
    BY <2>1, <2>4 DEF TypeOK, CacheBacked
  <2>6. lastSaid'[h][cache[h].verdict] = Older(lastSaid[h][cache[h].verdict])
    BY <2>1 DEF NextDay
  <2> QED
    BY <2>1, <2>3, <2>4, <2>5, <2>6, Types DEF Older
<1> QED
  BY <1>1, <1>2 DEF CacheBacked, Backed, ReplyBacked, VerdictBacked

\* What a step leaves alone that the invariant speaks of.
LEMMA CacheKept ==
    ASSUME CacheBacked, UNCHANGED <<lastSaid, cache>> PROVE CacheBacked'
  BY DEF CacheBacked

\* Every step keeps the invariant.
LEMMA InvStep == Inv /\ [Next]_vars => Inv'
<1> SUFFICES ASSUME TypeOK, CacheBacked, \A p \in Objects : Backed(p),
                    [Next]_vars
             PROVE  CacheBacked' /\ \A p \in Objects : Backed(p)'
  BY TypeStep DEF Inv
<1> USE DEF timeVars
<1>1. ASSUME NEW o \in Objects, TakeLookup(o)
      PROVE  CacheBacked' /\ \A p \in Objects : Backed(p)'
  BY <1>1, CacheKept, MoveBacked DEF TakeLookup
<1>2. ASSUME NEW o \in Objects, ReadCache(o)
      PROVE  CacheBacked' /\ \A p \in Objects : Backed(p)'
  <2>1. CASE cache[HashOf[o]].left > 0 /\ Result(o, cache[HashOf[o]].verdict)
    <3>1. /\ HashOf[o] \in Hashes /\ cache[HashOf[o]].verdict \in Opinions
          /\ cache[HashOf[o]].left \in 0..CacheTTL
      BY Types DEF TypeOK
    <3>2. lastSaid[HashOf[o]][cache[HashOf[o]].verdict] < CacheTTL
      BY <2>1, <3>1, Types DEF CacheBacked, TypeOK
    <3>3. /\ at'[o] = "reporting"
          /\ inHand'[o].result = cache[HashOf[o]].verdict
          /\ \A p \in Objects \ {o} : at'[p] = at[p] /\ inHand'[p] = inHand[p]
      BY <2>1, <3>1, ResultEffect
    <3>4. UNCHANGED <<lastSaid, cache>>
      BY <1>2 DEF ReadCache
    <3>5. Backed(o)'
      BY <3>2, <3>3, <3>4 DEF Backed, ReplyBacked, VerdictBacked
    <3> QED
      BY <3>3, <3>4, <3>5, OthersBacked, CacheKept
  <2>2. CASE Move(o, "gating") /\ UNCHANGED inHand
    BY <1>2, <2>2, CacheKept, MoveBacked DEF ReadCache
  <2> QED
    BY <1>2, <2>1, <2>2 DEF ReadCache
<1>3. ASSUME NEW o \in Objects, CheckQuota(o)
      PROVE  CacheBacked' /\ \A p \in Objects : Backed(p)'
  <2>1. CASE Result(o, "error")
    BY <1>3, <2>1, CacheKept, ErrorBacked DEF CheckQuota
  <2>2. CASE Move(o, "asking") /\ UNCHANGED inHand
    BY <1>3, <2>2, CacheKept, MoveBacked DEF CheckQuota
  <2> QED
    BY <1>3, <2>1, <2>2 DEF CheckQuota
<1>4. ASSUME NEW o \in Objects, Ask(o)
      PROVE  CacheBacked' /\ \A p \in Objects : Backed(p)'
  BY <1>4, AskBacked
<1>5. ASSUME NEW o \in Objects, AskFails(o)
      PROVE  CacheBacked' /\ \A p \in Objects : Backed(p)'
  BY <1>5, CacheKept, ErrorBacked DEF AskFails
<1>6. ASSUME NEW o \in Objects, LoadSpent(o) \/ StoreSpent(o)
      PROVE  CacheBacked' /\ \A p \in Objects : Backed(p)'
  BY <1>6, CacheKept, CountingBacked DEF LoadSpent, StoreSpent
<1>7. ASSUME NEW o \in Objects, Judge(o)
      PROVE  CacheBacked' /\ \A p \in Objects : Backed(p)'
  BY <1>7, JudgeBacked
<1>8. ASSUME NEW o \in Objects, Report(o)
      PROVE  CacheBacked' /\ \A p \in Objects : Backed(p)'
  <2>1. \A p \in Objects \ {o} : inHand'[p] = inHand[p]
    BY <1>8 DEF Report, TypeOK
  <2> QED
    BY <1>8, <2>1, CacheKept, MoveBacked DEF Report
<1>9. CASE NextDay
  BY <1>9, DayBacked
<1>10. CASE NewProcess
  BY <1>10
     DEF NewProcess, CacheBacked, Backed, ReplyBacked, VerdictBacked
<1>11. CASE UNCHANGED vars
  BY <1>11 DEF vars, CacheBacked, Backed, ReplyBacked, VerdictBacked
<1> QED
  BY <1>1, <1>2, <1>3, <1>4, <1>5, <1>6, <1>7, <1>8, <1>9, <1>10,
     <1>11 DEF Next

\* A verdict that is published is one that the provider gave for this content
\* within the time it is trusted for, whoever asked.
THEOREM VerdictsAreProviders == Spec => []VerdictIsProviders
<1>1. Init => Inv
  <2> SUFFICES ASSUME Init PROVE Inv
    OBVIOUS
  <2>1. CacheBacked /\ \A o \in Objects : Backed(o)
    BY DEF Init, NoRow, CacheBacked, Backed, ReplyBacked, VerdictBacked
  <2> QED
    BY <2>1, InitTyped DEF Inv
<1>2. Inv => VerdictIsProviders
  BY DEF Inv, Backed, VerdictBacked, VerdictIsProviders
<1> QED
  BY <1>1, <1>2, InvStep, PTL DEF Spec

------------------------------------------------------------------------
(* With one worker a lookup runs from its first read to its report before  *)
(* the next one starts, so nothing another lookup does comes between its   *)
(* check of the quota and its count, or between a miss and the row that    *)
(* ends it.                                                                *)

\* One worker, one lookup.
Alone ==
    workers = 1 =>
        \A o, p \in Objects : at[o] # "waiting" /\ at[p] # "waiting" => o = p

\* A request is sent below the quota, and its count is the current one.
Within(o) ==
    /\ at[o] \in {"asking", "counting", "adding"} => spent < DailyQuota
    /\ at[o] = "adding" => inHand[o].count = spent

Counted ==
    workers = 1 /\ DailyQuota > 0 =>
        spent <= DailyQuota /\ \A o \in Objects : Within(o)

\* The answer v on h is in a worker's hand, on its way to the cache.
BeingCached(h, v) ==
    \E o \in Objects :
        /\ HashOf[o] = h /\ at[o] \in {"counting", "adding", "judging"}
        /\ inHand[o].reply = v

\* Until the database fails, an answer that is still trusted has a row that
\* lasts as long as it does, or is about to have one.
Remembered ==
    \A h \in Hashes, v \in Opinions :
        lastSaid[h][v] < CacheTTL =>
            cache[h].left >= CacheTTL - lastSaid[h][v] \/ BeingCached(h, v)

\* A lookup that has missed has nothing to find (AsksOnlyWhenExpired, from the
\* miss on).
Expired(o) ==
    at[o] \in {"gating", "asking"} =>
        \A v \in Opinions : lastSaid[HashOf[o]][v] >= CacheTTL

Sober ==
    workers = 1 /\ ~troubled => Remembered /\ \A o \in Objects : Expired(o)

\* The steps of a lookup that has started.
Advance(o) ==
    \/ ReadCache(o) \/ CheckQuota(o) \/ Ask(o) \/ AskFails(o)
    \/ LoadSpent(o) \/ StoreSpent(o) \/ Judge(o) \/ Report(o)

\* They move that lookup only.
LEMMA AdvanceEffect ==
    ASSUME TypeOK, NEW o \in Objects, Advance(o)
    PROVE  /\ at[o] # "waiting" /\ workers' = workers
           /\ \A p \in Objects \ {o} : at'[p] = at[p] /\ inHand'[p] = inHand[p]
<1> USE DEF timeVars
<1>1. at[o] # "waiting" /\ workers' = workers
  BY DEF Advance, ReadCache, CheckQuota, Ask, AskFails, LoadSpent, StoreSpent,
         Judge, Report
<1>2. \A p \in Objects \ {o} : at'[p] = at[p]
  BY DEF Advance, ReadCache, CheckQuota, Ask, AskFails, LoadSpent, StoreSpent,
         Judge, Report, Move, Result, TypeOK
<1>3. \A p \in Objects \ {o} : inHand'[p] = inHand[p]
  BY DEF Advance, ReadCache, CheckQuota, Ask, AskFails, LoadSpent, StoreSpent,
         Judge, Report, Result, TypeOK
<1> QED
  BY <1>1, <1>2, <1>3

\* One worker takes a lookup only while there is none.
LEMMA TakenAlone ==
    ASSUME workers = 1, NEW o \in Objects, TakeLookup(o)
    PROVE  \A p \in Objects : at[p] = "waiting"
<1>1. IsFiniteSet(Busy)
  BY LookupAssumption, FS_Subset DEF Busy
<1>2. Cardinality(Busy) \in Nat /\ Cardinality(Busy) < 1
  BY <1>1, FS_CardinalityType DEF TakeLookup
<1>3. Busy = {}
  BY <1>1, <1>2, FS_EmptySet
<1> QED
  BY <1>3 DEF Busy

\* So one worker never has two.
LEMMA AloneStep ==
    ASSUME TypeOK, Alone, [Next]_vars
    PROVE  Alone'
<1> USE DEF timeVars
<1>1. ASSUME NEW o \in Objects, TakeLookup(o) PROVE Alone'
  <2>1. workers' = workers /\ \A p \in Objects \ {o} : at'[p] = at[p]
    BY <1>1 DEF TakeLookup, Move, TypeOK
  <2> QED
    BY <1>1, <2>1, TakenAlone DEF Alone
<1>2. ASSUME NEW o \in Objects, Advance(o) PROVE Alone'
  BY <1>2, AdvanceEffect DEF Alone
<1>3. CASE NextDay
  BY <1>3 DEF NextDay, Alone
<1>4. CASE NewProcess
  BY <1>4 DEF NewProcess, Alone
<1>5. CASE UNCHANGED vars
  BY <1>5 DEF vars, Alone
<1> QED
  BY <1>1, <1>2, <1>3, <1>4, <1>5 DEF Next, Advance

\* Between the check and the count nobody else counts.
LEMMA CountedStep ==
    ASSUME TypeOK, Alone, Counted, [Next]_vars
    PROVE  Counted'
<1> USE DEF timeVars
<1> SUFFICES ASSUME workers' = 1, DailyQuota > 0
             PROVE  spent' <= DailyQuota /\ \A o \in Objects : Within(o)'
  BY DEF Counted
<1>1. workers = 1 /\ DailyQuota \in Nat /\ spent \in Nat
  BY LookupAssumption
     DEF Next, TakeLookup, ReadCache, CheckQuota, Ask, AskFails, LoadSpent,
         StoreSpent, Judge, Report, NextDay, NewProcess, vars, TypeOK
<1>2. spent <= DailyQuota /\ \A o \in Objects : Within(o)
  BY <1>1 DEF Counted
<1>3. ASSUME NEW o \in Objects, TakeLookup(o)
      PROVE  spent' <= DailyQuota /\ \A p \in Objects : Within(p)'
  <2>1. \A p \in Objects : at'[p] \in {"waiting", "reading"}
    BY <1>1, <1>3, TakenAlone DEF TakeLookup, Move, TypeOK
  <2> QED
    BY <1>2, <1>3, <2>1 DEF TakeLookup, Within
<1>4. ASSUME NEW o \in Objects, Advance(o)
      PROVE  spent' <= DailyQuota /\ \A p \in Objects : Within(p)'
  <2>1. \A p \in Objects \ {o} : at'[p] = "waiting"
    BY <1>1, <1>4, AdvanceEffect DEF Alone
  <2>2. \A p \in Objects \ {o} : Within(p)'
    BY <2>1 DEF Within
  <2>3. spent' <= DailyQuota /\ Within(o)'
    <3>1. CASE CheckQuota(o)
      <4>1. CASE spent >= DailyQuota
        BY <1>2, <3>1, <4>1 DEF CheckQuota, Result, Move, Within, TypeOK
      <4>2. CASE ~ (spent >= DailyQuota)
        BY <1>1, <1>2, <3>1, <4>2 DEF CheckQuota, Move, Within, TypeOK
      <4> QED
        BY <4>1, <4>2
    <3>2. CASE ReadCache(o) \/ AskFails(o) \/ Judge(o) \/ Report(o)
      <4>1. at'[o] \in {"reporting", "gating", "waiting"} /\ spent' = spent
        BY <3>2 DEF ReadCache, AskFails, Judge, Report, Result, Move, TypeOK
      <4> QED
        BY <1>2, <4>1 DEF Within
    <3>3. CASE Ask(o)
      <4>1. at[o] = "asking" /\ at'[o] = "counting" /\ spent' = spent
        BY <3>3 DEF Ask, Move, TypeOK
      <4> QED
        BY <1>2, <4>1 DEF Within
    <3>4. CASE LoadSpent(o)
      <4>1. /\ at[o] = "counting" /\ at'[o] = "adding" /\ spent' = spent
            /\ inHand'[o].count = spent
        BY <3>4 DEF LoadSpent, Move, TypeOK, Hand
      <4> QED
        BY <1>2, <4>1 DEF Within
    <3>5. CASE StoreSpent(o)
      <4>1. /\ at[o] = "adding" /\ at'[o] = "judging"
            /\ spent' = inHand[o].count + 1
        BY <3>5 DEF StoreSpent, Move, TypeOK
      <4> QED
        BY <1>1, <1>2, <4>1 DEF Within
    <3> QED
      BY <1>4, <3>1, <3>2, <3>3, <3>4, <3>5 DEF Advance
  <2> QED
    BY <2>2, <2>3
<1>5. CASE NextDay
  BY <1>2, <1>5 DEF NextDay, Within
<1>6. CASE NewProcess
  BY <1>1, <1>6 DEF NewProcess, Within
<1>7. CASE UNCHANGED vars
  BY <1>2, <1>7 DEF vars, Within
<1> QED
  BY <1>3, <1>4, <1>5, <1>6, <1>7 DEF Next, Advance

\* At most one request is between its check and its count.
LEMMA CountedBounds ==
    ASSUME TypeOK, Alone, Counted
    PROVE  QuotaBoundsProcess
<1> DEFINE Asked == {o \in Objects : at[o] \in {"asking", "counting",
                                                "adding"}}
<1> SUFFICES ASSUME workers = 1, DailyQuota > 0
             PROVE  spent + Cardinality(Asked) <= DailyQuota
  BY DEF QuotaBoundsProcess
<1>1. DailyQuota \in Nat /\ spent \in Nat /\ spent <= DailyQuota
  BY LookupAssumption DEF TypeOK, Counted
<1>2. CASE Asked = {}
  <2>1. Cardinality(Asked) = 0
    BY <1>2, FS_EmptySet
  <2> HIDE DEF Asked
  <2> QED
    BY <1>1, <2>1
<1>3. ASSUME NEW o \in Asked PROVE spent + Cardinality(Asked) <= DailyQuota
  <2>1. Asked = {o}
    BY <1>3 DEF Alone
  <2>2. Cardinality(Asked) = 1
    BY <2>1, FS_Singleton
  <2>3. spent < DailyQuota
    BY <1>3 DEF Counted, Within
  <2> HIDE DEF Asked
  <2> QED
    BY <1>1, <2>2, <2>3
<1> QED
  BY <1>2, <1>3

\* The steps of a lookup while nothing is said and no row is written: who had
\* an answer on its way to the cache still has it.
LEMMA HandKept ==
    ASSUME TypeOK, NEW o \in Objects,
           LoadSpent(o) \/ StoreSpent(o)
    PROVE  \A h \in Hashes, v \in Opinions :
               BeingCached(h, v) => BeingCached(h, v)'
<1>1. /\ at[o] \in {"counting", "adding"} /\ at'[o] \in {"adding", "judging"}
      /\ inHand'[o].reply = inHand[o].reply
  BY DEF LoadSpent, StoreSpent, Move, TypeOK, Hand
<1>2. \A p \in Objects \ {o} : at'[p] = at[p] /\ inHand'[p] = inHand[p]
  BY AdvanceEffect DEF Advance
<1> QED
  BY <1>1, <1>2 DEF BeingCached

\* A day passes between lookups: what is remembered ages with its row.
LEMMA DaySober ==
    ASSUME TypeOK, Remembered, NextDay
    PROVE  Remembered' /\ \A o \in Objects : Expired(o)'
<1>1. \A o \in Objects : at[o] = "waiting" /\ at'[o] = "waiting"
  BY DEF NextDay, Busy
<1>2. ASSUME NEW h \in Hashes, NEW v \in Opinions, lastSaid'[h][v] < CacheTTL
      PROVE  cache'[h].left >= CacheTTL - lastSaid'[h][v]
  <2>1. lastSaid'[h][v] = Older(lastSaid[h][v]) /\ lastSaid[h][v] \in 0..Never
    BY DEF NextDay, TypeOK
  <2>2. /\ lastSaid[h][v] < CacheTTL
        /\ lastSaid'[h][v] = lastSaid[h][v] + 1
    BY <1>2, <2>1, Types DEF Older
  <2>3. cache[h].left >= CacheTTL - lastSaid[h][v]
    BY <1>1, <2>2 DEF Remembered, BeingCached
  <2>4. cache[h].left \in 0..CacheTTL /\ cache'[h].left = Later(cache[h].left)
    BY DEF NextDay, TypeOK
  <2> QED
    BY <2>1, <2>2, <2>3, <2>4, Types DEF Later
<1> QED
  BY <1>1, <1>2 DEF Remembered, Expired

\* One worker's lookup asks only after a miss, and a miss is an answer that has
\* expired; what it is told it caches before it is done.
LEMMA SoberStep ==
    ASSUME TypeOK, Alone, Sober, [Next]_vars
    PROVE  Sober'
<1> USE DEF timeVars
<1> SUFFICES ASSUME workers' = 1, ~ troubled'
             PROVE  Remembered' /\ \A o \in Objects : Expired(o)'
  BY DEF Sober
<1>1. workers = 1
  BY DEF Next, TakeLookup, ReadCache, CheckQuota, Ask, AskFails, LoadSpent,
         StoreSpent, Judge, Report, NextDay, NewProcess, vars
<1>2. ~ troubled /\ troubled \in BOOLEAN
  BY DEF Next, TakeLookup, ReadCache, CheckQuota, Ask, AskFails, LoadSpent,
         StoreSpent, Judge, Report, NextDay, NewProcess, vars, TypeOK
<1>3. Remembered /\ \A o \in Objects : Expired(o)
  BY <1>1, <1>2 DEF Sober
<1>4. ASSUME NEW o \in Objects, TakeLookup(o)
      PROVE  Remembered' /\ \A p \in Objects : Expired(p)'
  <2>1. \A p \in Objects : at[p] = "waiting"
    BY <1>1, <1>4, TakenAlone
  <2>2. \A p \in Objects : at'[p] \in {"waiting", "reading"}
    BY <1>4, <2>1 DEF TakeLookup, Move, TypeOK
  <2> QED
    BY <1>3, <1>4, <2>1, <2>2
       DEF TakeLookup, Remembered, BeingCached, Expired
<1>5. ASSUME NEW o \in Objects, Advance(o)
      PROVE  Remembered' /\ \A p \in Objects : Expired(p)'
  <2> DEFINE h == HashOf[o]
  <2>1. /\ h \in Hashes /\ at[o] # "waiting"
        /\ \A p \in Objects \ {o} : at[p] = "waiting" /\ at'[p] = "waiting"
    BY <1>1, <1>5, Types, AdvanceEffect DEF Alone
  <2>2. \A p \in Objects \ {o} : Expired(p)'
    BY <2>1 DEF Expired
  <2> HIDE DEF h
  <2>3. CASE ReadCache(o)
    <3>1. UNCHANGED <<lastSaid, cache>> /\ at[o] = "reading"
      BY <2>3 DEF ReadCache
    <3>2. \A g \in Hashes, v \in Opinions : ~ BeingCached(g, v)
      BY <2>1, <3>1 DEF BeingCached
    <3>3. Remembered'
      BY <1>3, <3>1, <3>2 DEF Remembered
    <3>4. CASE cache[HashOf[o]].left > 0 /\ Result(o, cache[HashOf[o]].verdict)
      <4>1. at'[o] = "reporting"
        BY <3>4 DEF Result, Move, TypeOK
      <4> QED
        BY <2>2, <3>3, <4>1 DEF Expired
    <3>5. CASE cache[HashOf[o]].left = 0
      <4>1. \A v \in Opinions : lastSaid[h][v] \in Nat
        BY <2>1 DEF TypeOK
      <4>2. \A v \in Opinions : lastSaid[h][v] >= CacheTTL
        BY <1>3, <2>1, <3>2, <3>5, <4>1, Types DEF Remembered, h
      <4> QED
        BY <2>2, <3>1, <3>3, <4>2 DEF Expired, h
    <3> QED
      BY <1>2, <2>3, <3>4, <3>5 DEF ReadCache
  <2>4. CASE CheckQuota(o) \/ AskFails(o)
    <3>1. /\ UNCHANGED <<lastSaid, cache>> /\ at[o] \in {"gating", "asking"}
          /\ at'[o] \in {"asking", "reporting"}
      BY <2>4 DEF CheckQuota, AskFails, Result, Move, TypeOK
    <3>2. \A g \in Hashes, v \in Opinions : ~ BeingCached(g, v)
      BY <2>1, <3>1 DEF BeingCached
    <3>3. Remembered'
      BY <1>3, <3>1, <3>2 DEF Remembered
    <3>4. Expired(o)'
      BY <1>3, <3>1 DEF Expired
    <3> QED
      BY <2>2, <3>3, <3>4
  <2>5. CASE Ask(o)
    <3>1. /\ at[o] = "asking" /\ at'[o] = "counting" /\ UNCHANGED cache
      BY <2>5 DEF Ask, Move, TypeOK
    <3>2. \A g \in Hashes, v \in Opinions : ~ BeingCached(g, v)
      BY <2>1, <3>1 DEF BeingCached
    <3>3. ASSUME NEW w \in Opinions,
                 inHand' = [inHand EXCEPT ![o].reply = w],
                 lastSaid' = [lastSaid EXCEPT ![HashOf[o]][w] = 0]
          PROVE  Remembered'
      <4>1. BeingCached(h, w)'
        BY <3>1, <3>3 DEF BeingCached, TypeOK, Hand, h
      <4>2. \A g \in Hashes, v \in Opinions :
                g # h \/ v # w => lastSaid'[g][v] = lastSaid[g][v]
        BY <2>1, <3>3 DEF TypeOK, h
      <4>3. ASSUME NEW g \in Hashes, NEW v \in Opinions,
                   lastSaid'[g][v] < CacheTTL
            PROVE  \/ cache'[g].left >= CacheTTL - lastSaid'[g][v]
                   \/ BeingCached(g, v)'
        <5>1. CASE g = h /\ v = w
          BY <4>1, <5>1
        <5>2. CASE g # h \/ v # w
          BY <1>3, <3>1, <3>2, <4>2, <4>3, <5>2 DEF Remembered
        <5> QED
          BY <5>1, <5>2
      <4> QED
        BY <4>3 DEF Remembered
    <3>4. ASSUME UNCHANGED lastSaid PROVE Remembered'
      BY <1>3, <3>1, <3>2, <3>4 DEF Remembered
    <3>5. Remembered'
      BY <2>5, <3>3, <3>4 DEF Ask
    <3> QED
      BY <2>2, <3>1, <3>5 DEF Expired
  <2>6. CASE LoadSpent(o) \/ StoreSpent(o)
    <3>1. /\ UNCHANGED <<lastSaid, cache>> /\ at'[o] \in {"adding", "judging"}
      BY <2>6 DEF LoadSpent, StoreSpent, Move, TypeOK
    <3> QED
      BY <1>3, <2>2, <2>6, <3>1, HandKept DEF Remembered, Expired
  <2>7. CASE Judge(o)
    <3>1. at[o] = "judging" /\ at'[o] = "reporting" /\ UNCHANGED lastSaid
      BY <2>7 DEF Judge, Result, Move, TypeOK
    <3>2. CASE inHand[o].reply = "refusal"
      <4>1. UNCHANGED cache
        BY <2>7, <3>2 DEF Judge
      <4>2. \A g \in Hashes, v \in Opinions : ~ BeingCached(g, v)
        BY <2>1, <3>2 DEF BeingCached, Opinions
      <4> QED
        BY <1>3, <2>2, <3>1, <4>1, <4>2 DEF Remembered, Expired
    <3>3. CASE cache' = [cache EXCEPT ![HashOf[o]] =
                            [verdict |-> inHand[o].reply, left |-> CacheTTL]]
      <4>1. cache'[h].left = CacheTTL
        BY <2>1, <3>3 DEF TypeOK, h
      <4>2. \A g \in Hashes : g # h => cache'[g] = cache[g]
        BY <3>3 DEF TypeOK, h
      <4>3. \A g \in Hashes, v \in Opinions : g # h => ~ BeingCached(g, v)
        BY <2>1 DEF BeingCached, h
      <4>4. \A g \in Hashes, v \in Opinions : lastSaid[g][v] \in Nat
        BY DEF TypeOK
      <4>5. ASSUME NEW g \in Hashes, NEW v \in Opinions,
                   lastSaid'[g][v] < CacheTTL
            PROVE  cache'[g].left >= CacheTTL - lastSaid'[g][v]
        <5>1. CASE g = h
          BY <3>1, <4>1, <4>4, <5>1, Types
        <5>2. CASE g # h
          BY <1>3, <3>1, <4>2, <4>3, <4>5, <5>2 DEF Remembered
        <5> QED
          BY <5>1, <5>2
      <4> QED
        BY <2>2, <3>1, <4>5 DEF Remembered, Expired
    <3> QED
      BY <1>2, <2>7, <3>2, <3>3 DEF Judge
  <2>8. CASE Report(o)
    <3>1. /\ UNCHANGED <<lastSaid, cache>>
          /\ at[o] = "reporting" /\ at'[o] = "waiting"
      BY <2>8 DEF Report, Move, TypeOK
    <3>2. \A g \in Hashes, v \in Opinions : ~ BeingCached(g, v)
      BY <2>1, <3>1 DEF BeingCached
    <3> QED
      BY <1>3, <2>2, <3>1, <3>2 DEF Remembered, Expired
  <2> QED
    BY <1>5, <2>3, <2>4, <2>5, <2>6, <2>7, <2>8 DEF Advance
<1>6. CASE NextDay
  BY <1>3, <1>6, DaySober
<1>7. CASE NewProcess
  <2>1. Busy = {}
    BY <1>2, <1>7 DEF NewProcess
  <2>2. \A p \in Objects : at[p] = "waiting" /\ at'[p] = "waiting"
    BY <1>7, <2>1 DEF NewProcess, Busy
  <2> QED
    BY <1>3, <1>7, <2>2 DEF NewProcess, Remembered, BeingCached, Expired
<1>8. CASE UNCHANGED vars
  BY <1>3, <1>8 DEF vars, Remembered, BeingCached, Expired
<1> QED
  BY <1>4, <1>5, <1>6, <1>7, <1>8 DEF Next, Advance

\* The invariant of a lane with one worker.
OneWorker == TypeOK /\ Alone /\ Counted /\ Sober

\* It holds when the first process starts, with nothing cached or spent.
LEMMA InitOneWorker == Init => OneWorker
<1> SUFFICES ASSUME Init PROVE OneWorker
  OBVIOUS
<1>1. TypeOK /\ \A o \in Objects : at[o] = "waiting"
  BY InitTyped DEF Init
<1>2. Counted
  BY <1>1, LookupAssumption DEF Init, Counted, Within
<1>3. Sober
  BY <1>1, Types DEF Init, Sober, Remembered, Expired
<1> QED
  BY <1>1, <1>2, <1>3 DEF OneWorker, Alone

\* Every step keeps it.
LEMMA OneWorkerAlways == Spec => []OneWorker
<1>1. OneWorker /\ [Next]_vars => OneWorker'
  BY TypeStep, AloneStep, CountedStep, SoberStep DEF OneWorker
<1> QED
  BY InitOneWorker, <1>1, PTL DEF Spec

\* With one worker no process has more requests answered than the quota allows,
\* for every quota and whatever fails: there is nobody to race with spent++.
THEOREM QuotaHolds == Spec => []QuotaBoundsProcess
<1>1. OneWorker => QuotaBoundsProcess
  BY CountedBounds DEF OneWorker
<1> QED
  BY <1>1, OneWorkerAlways, PTL

\* And while the database answers, it spends no request on a content whose
\* verdict is still trusted.
THEOREM AsksWhenExpired == Spec => []AsksOnlyWhenExpired
<1>1. OneWorker => AsksOnlyWhenExpired
  BY DEF OneWorker, Sober, Expired, AsksOnlyWhenExpired
<1> QED
  BY <1>1, OneWorkerAlways, PTL
============================================================================
