--------------------------- MODULE LimitersProofs ---------------------------
(* Proofs about Limiters, for any number of callers, any limit and weights: *)
(* the pace of a RateLimiter, the accounts and the line of the other two,   *)
(* and that all three implement Admission.                                  *)
EXTENDS Limiters, SumTheorems, SequenceTheorems, TLAPS

\* What the bucket's arithmetic needs to know of its values.
BucketOK ==
    /\ next \in Nat /\ slot \in [Callers -> Nat]
    /\ since \in Nat /\ since <= Interval
    /\ DOMAIN at = Callers

\* A caller whose token is still to come.
Early(c) == at[c] = "waiting" /\ slot[c] > 0

\* Between any two reservations there is an interval, and after the last.
Spread ==
    /\ next + since >= Interval
    /\ \A c \in Callers : Early(c) => /\ slot[c] + since >= Interval
                                      /\ slot[c] + Interval <= next
    /\ \A c, d \in Callers : Early(c) /\ Early(d) /\ c # d =>
          slot[c] + Interval <= slot[d] \/ slot[d] + Interval <= slot[c]

PacedInv == kind = "rate" => BucketOK /\ Spread

\* It bounds the tokens that are out, one by one and against each other.
LEMMA PacedInvIsPaced == PacedInv => Paced
<1> SUFFICES ASSUME PacedInv, kind = "rate" PROVE Paced
  BY DEF Paced
<1>1. BucketOK /\ Spread /\ Interval \in Nat \ {0}
  BY LimiterAssumption DEF PacedInv
<1>2. next + since >= Interval
  BY <1>1 DEF Spread
<1>3. ASSUME NEW c \in Callers, at[c] = "waiting", slot[c] > 0
      PROVE  /\ slot[c] + since >= Interval
             /\ slot[c] + Interval <= next
             /\ \A d \in Callers : at[d] = "waiting" /\ slot[d] > slot[c]
                                      => slot[d] - slot[c] >= Interval
  <2>1. Early(c) /\ slot[c] \in Nat
    BY <1>1, <1>3 DEF Early, BucketOK
  <2>2. ASSUME NEW d \in Callers, at[d] = "waiting", slot[d] > slot[c]
        PROVE  slot[d] - slot[c] >= Interval
    <3>1. slot[d] \in Nat /\ c # d
      BY <1>1, <2>1, <2>2 DEF BucketOK
    <3>2. Early(d)
      BY <2>1, <2>2, <3>1 DEF Early
    <3>3. slot[c] + Interval <= slot[d] \/ slot[d] + Interval <= slot[c]
      BY <1>1, <2>1, <3>1, <3>2 DEF Spread
    <3> QED BY <1>1, <2>1, <2>2, <3>1, <3>3
  <2> QED BY <1>1, <2>1, <2>2 DEF Spread
<1> QED BY <1>2, <1>3 DEF Paced

\* The bucket starts with a token, and nothing reserved.
LEMMA InitPaced == Init => PacedInv
<1> SUFFICES ASSUME Init PROVE BucketOK /\ Spread
  BY DEF PacedInv
<1> QED BY LimiterAssumption DEF Init, BucketOK, Spread, Early

\* The steps of a RateLimiter's callers that leave the bucket alone, and make
\* nobody wait.
LEMMA BucketKept ==
    ASSUME BucketOK, Spread, UNCHANGED bucket, DOMAIN at' = Callers,
           \A c \in Callers : at'[c] = "waiting" => at[c] = "waiting"
    PROVE  BucketOK' /\ Spread'
<1>1. \A c \in Callers : Early(c)' => Early(c)
  BY DEF Early, bucket
<1> QED BY <1>1 DEF BucketOK, Spread, bucket

\* The next token is an interval after the last one reserved.
LEMMA ReserveSpread ==
    ASSUME BucketOK, Spread, NEW c \in Callers, Reserve(c)
    PROVE  BucketOK' /\ Spread'
<1>1. /\ next \in Nat /\ slot \in [Callers -> Nat] /\ since \in Nat
      /\ since <= Interval /\ Interval \in Nat \ {0}
  BY LimiterAssumption DEF BucketOK
<1>2. CASE next = 0
  <2>1. /\ next' = Interval /\ since' = 0 /\ slot' = [slot EXCEPT ![c] = 0]
        /\ at' = [at EXCEPT ![c] = "admitted"]
    BY <1>1, <1>2 DEF Reserve, Goto
  <2>2. BucketOK'
    BY <1>1, <2>1 DEF BucketOK
  <2>3. \A d \in Callers : ~Early(d)
    BY <1>1, <1>2 DEF Spread
  <2>4. \A d \in Callers : ~Early(d)'
    BY <1>1, <2>1, <2>3 DEF Early, BucketOK
  <2> QED BY <1>1, <2>1, <2>2, <2>4 DEF Spread
<1>3. CASE next > 0
  <2>1. /\ next' = next + Interval /\ since' = since
        /\ slot' = [slot EXCEPT ![c] = next]
        /\ at' = [at EXCEPT ![c] = "waiting"]
    BY <1>1, <1>3 DEF Reserve, Goto
  <2>2. BucketOK'
    BY <1>1, <2>1 DEF BucketOK
  <2>3. /\ Early(c)' /\ slot'[c] = next
        /\ \A d \in Callers : d # c => /\ Early(d)' = Early(d)
                                       /\ slot'[d] = slot[d]
    BY <1>1, <1>3, <2>1 DEF Early, BucketOK
  <2>4. next' + since' >= Interval
    BY <1>1, <2>1
  <2>5. ASSUME NEW d \in Callers, Early(d)'
        PROVE  slot'[d] + since' >= Interval /\ slot'[d] + Interval <= next'
    <3>1. CASE d = c
      BY <1>1, <2>1, <2>3, <3>1 DEF Spread
    <3>2. CASE d # c
      BY <1>1, <2>1, <2>3, <2>5, <3>2 DEF Spread
    <3> QED BY <3>1, <3>2
  <2>6. ASSUME NEW d \in Callers, NEW e \in Callers, Early(d)', Early(e)', d # e
        PROVE  \/ slot'[d] + Interval <= slot'[e]
               \/ slot'[e] + Interval <= slot'[d]
    <3>1. CASE d = c
      BY <1>1, <2>3, <2>6, <3>1 DEF Spread
    <3>2. CASE e = c
      BY <1>1, <2>3, <2>6, <3>2 DEF Spread
    <3>3. CASE d # c /\ e # c
      BY <1>1, <2>3, <2>6, <3>3 DEF Spread
    <3> QED BY <3>1, <3>2, <3>3
  <2> QED BY <2>2, <2>4, <2>5, <2>6 DEF Spread
<1> QED BY <1>1, <1>2, <1>3

\* A token that is given up leaves a gap, or only the end moves back.
LEMMA GiveUpSpread ==
    ASSUME BucketOK, Spread, NEW c \in Callers, GiveUpToken(c)
    PROVE  BucketOK' /\ Spread'
<1>1. /\ next \in Nat /\ slot \in [Callers -> Nat] /\ since \in Nat
      /\ since <= Interval /\ Interval \in Nat \ {0}
  BY LimiterAssumption DEF BucketOK
<1>2. /\ since' = since /\ slot' = [slot EXCEPT ![c] = 0]
      /\ at' = [at EXCEPT ![c] = "outside"]
  BY DEF GiveUpToken, Goto
<1>3. /\ ~Early(c)'
      /\ \A d \in Callers : d # c => Early(d)' = Early(d) /\ slot'[d] = slot[d]
  BY <1>1, <1>2 DEF Early, BucketOK
<1>4. CASE slot[c] > 0 /\ slot[c] + Interval = next
  <2>1. next' = slot[c] /\ Early(c)
    BY <1>4 DEF GiveUpToken, Early
  <2>2. BucketOK'
    BY <1>1, <1>2, <2>1 DEF BucketOK
  <2>3. next' + since' >= Interval
    BY <1>1, <1>2, <2>1 DEF Spread
  <2>4. ASSUME NEW d \in Callers, Early(d)'
        PROVE  slot'[d] + since' >= Interval /\ slot'[d] + Interval <= next'
    <3>1. d # c /\ Early(d) /\ slot'[d] = slot[d] /\ slot[d] \in Nat
      BY <1>1, <1>3, <2>4
    <3>2. slot[d] + Interval <= slot[c] \/ slot[c] + Interval <= slot[d]
      BY <2>1, <3>1 DEF Spread
    <3>3. slot[d] + since >= Interval /\ slot[d] + Interval <= next
      BY <3>1 DEF Spread
    <3> QED BY <1>1, <1>2, <1>4, <2>1, <3>1, <3>2, <3>3
  <2> QED BY <1>3, <2>2, <2>3, <2>4 DEF Spread
<1>5. CASE ~(slot[c] > 0 /\ slot[c] + Interval = next)
  <2>1. next' = next
    BY <1>5 DEF GiveUpToken
  <2>2. BucketOK'
    BY <1>1, <1>2, <2>1 DEF BucketOK
  <2> QED BY <1>2, <1>3, <2>1, <2>2 DEF Spread
<1> QED BY <1>4, <1>5

\* Time brings all tokens nearer at once, and one that falls due starts the
\* interval anew.
LEMMA TickSpread ==
    ASSUME BucketOK, Spread, Tick
    PROVE  BucketOK' /\ Spread'
<1>1. /\ next \in Nat /\ slot \in [Callers -> Nat] /\ since \in Nat
      /\ since <= Interval /\ Interval \in Nat \ {0}
  BY LimiterAssumption DEF BucketOK
<1>2. /\ next' = Sooner(next) /\ at' = at
      /\ \A c \in Callers : slot'[c] = Sooner(slot[c])
  BY DEF Tick, calls
<1>3. BucketOK'
  BY <1>1, <1>2 DEF BucketOK, Tick, Sooner, calls
\* Who is early after the tick was so before it, and is one tick nearer.
<1>4. \A c \in Callers : Early(c)' =>
          Early(c) /\ slot[c] > 1 /\ slot'[c] = slot[c] - 1 /\ slot[c] \in Nat
  BY <1>1, <1>2 DEF Early, Sooner
<1>5. \A c, d \in Callers : Early(c)' /\ Early(d)' /\ c # d =>
          slot'[c] + Interval <= slot'[d] \/ slot'[d] + Interval <= slot'[c]
  <2> TAKE c, d \in Callers
  <2> HAVE Early(c)' /\ Early(d)' /\ c # d
  <2>1. slot[c] + Interval <= slot[d] \/ slot[d] + Interval <= slot[c]
    BY <1>4 DEF Spread
  <2> QED BY <1>1, <1>4, <2>1
<1>6. \A c \in Callers : Early(c)' => slot'[c] + Interval <= next'
  <2> TAKE c \in Callers
  <2> HAVE Early(c)'
  <2>1. slot[c] + Interval <= next
    BY <1>4 DEF Spread
  <2> QED BY <1>1, <1>2, <1>4, <2>1 DEF Sooner
<1>7. CASE \E c \in Callers : at[c] = "waiting" /\ slot[c] = 1
  <2>1. PICK c \in Callers : at[c] = "waiting" /\ slot[c] = 1
    BY <1>7
  <2>2. since' = 0 /\ Early(c) /\ ~Early(c)'
    BY <1>2, <2>1 DEF Tick, Early, Sooner
  <2>3. next' + since' >= Interval
    <3>1. slot[c] + Interval <= next
      BY <2>2 DEF Spread
    <3> QED BY <1>1, <1>2, <2>1, <2>2, <3>1 DEF Sooner
  <2>4. \A d \in Callers : Early(d)' => slot'[d] + since' >= Interval
    <3> TAKE d \in Callers
    <3> HAVE Early(d)'
    <3>1. slot[c] + Interval <= slot[d] \/ slot[d] + Interval <= slot[c]
      BY <1>4, <2>2 DEF Spread
    <3> QED BY <1>1, <1>4, <2>1, <2>2, <3>1
  <2> QED BY <1>3, <1>5, <1>6, <2>3, <2>4 DEF Spread
<1>8. CASE ~\E c \in Callers : at[c] = "waiting" /\ slot[c] = 1
  <2>1. since' = IF since < Interval THEN since + 1 ELSE since
    BY <1>8 DEF Tick
  <2>2. next' + since' >= Interval
    BY <1>1, <1>2, <2>1 DEF Sooner, Spread
  <2>3. \A d \in Callers : Early(d)' => slot'[d] + since' >= Interval
    <3> TAKE d \in Callers
    <3> HAVE Early(d)'
    <3>1. slot[d] + since >= Interval
      BY <1>4 DEF Spread
    <3> QED BY <1>1, <1>4, <2>1, <3>1
  <2> QED BY <1>3, <1>5, <1>6, <2>2, <2>3 DEF Spread
<1> QED BY <1>7, <1>8

\* A RateLimiter's other steps: nobody starts to wait, and the bucket stays.
LEMMA OthersPaced ==
    ASSUME BucketOK, Spread, kind = "rate", NEW c \in Callers,
           Resume(c) \/ TokenDue(c) \/ Count(c) \/ Release(c) \/ ReturnSlot(c)
              \/ Again(c)
    PROVE  BucketOK' /\ Spread'
<1>1. UNCHANGED bucket
  BY DEF Resume, TokenDue, Count, Release, ReturnSlot, Again
<1>2. \E phase \in Phases \ {"waiting"} : at' = [at EXCEPT ![c] = phase]
  BY DEF Resume, TokenDue, Count, Release, ReturnSlot, Again, Goto, Phases
<1>3. DOMAIN at = Callers
  BY DEF BucketOK
<1>4. /\ DOMAIN at' = Callers
      /\ \A d \in Callers : at'[d] = "waiting" => at[d] = "waiting"
  BY <1>2, <1>3
<1> QED BY <1>1, <1>4, BucketKept

\* Every step keeps the tokens apart.
LEMMA StepPaced == PacedInv /\ [Next]_vars => PacedInv'
<1> SUFFICES ASSUME PacedInv, [Next]_vars, kind' = "rate"
             PROVE  BucketOK' /\ Spread'
  BY DEF PacedInv
<1>1. kind = "rate"
  BY DEF Next, Acquire, Reserve, Abandon, GiveUpToken, Proceed, Resume,
         ResumeTooLate, TokenDue, Count, Release, ReturnSlot, Again, Tick,
         config, vars
<1>2. BucketOK /\ Spread
  BY <1>1 DEF PacedInv
<1>3. CASE Tick
  BY <1>2, <1>3, TickSpread
<1>4. ASSUME NEW c \in Callers, Reserve(c) PROVE BucketOK' /\ Spread'
  BY <1>2, <1>4, ReserveSpread
<1>5. ASSUME NEW c \in Callers, GiveUpToken(c) PROVE BucketOK' /\ Spread'
  BY <1>2, <1>5, GiveUpSpread
<1>6. ASSUME NEW c \in Callers, Proceed(c) \/ Again(c)
      PROVE  BucketOK' /\ Spread'
  <2>1. ~ResumeTooLate(c)
    BY <1>1 DEF ResumeTooLate
  <2> QED BY <1>1, <1>2, <1>6, <2>1, OthersPaced DEF Proceed
<1>7. ASSUME NEW c \in Callers
      PROVE  ~Abandon(c) /\ \A w \in Weights : ~Acquire(c, w)
  BY <1>1 DEF Abandon, Acquire
<1>8. CASE UNCHANGED vars
  BY <1>2, <1>8, BucketKept DEF vars, bucket, calls, BucketOK
<1> QED BY <1>3, <1>4, <1>5, <1>6, <1>7, <1>8 DEF Next

\* A RateLimiter's tokens are an interval apart, for any number of callers and
\* whatever they reserve and give up.
THEOREM SpecPaced == Spec => []Paced
<1> QED BY InitPaced, StepPaced, PacedInvIsPaced, PTL DEF Spec

------------------------------------------------------------------------
(* The line.                                                               *)

\* A largest element is chosen where there is one.
LEMMA MaxIs ==
    ASSUME NEW S \in SUBSET Nat, NEW n \in Nat, \A m \in S : m <= n, S # {}
    PROVE  Max(S) \in S /\ \A m \in S : m <= Max(S)
<1> DEFINE Gaps == {d \in Nat : n - d \in S}
<1>1. Gaps # {}
  <2>1. PICK m \in S : TRUE
    OBVIOUS
  <2>2. m \in Nat /\ n - m \in Nat /\ n - (n - m) = m
    BY <2>1
  <2>3. n - m \in Gaps
    BY <2>1, <2>2
  <2> QED
    BY <2>3
<1>2. PICK d \in Gaps : \A e \in Gaps : d <= e
  <2>1. Gaps \subseteq Nat
    OBVIOUS
  <2> HIDE DEF Gaps
  <2> QED
    BY <1>1, <2>1, LeastNatural
<1>3. n - d \in S /\ d \in Nat
  BY <1>2
<1>4. ASSUME NEW m \in S PROVE n - d >= m
  <2>1. m \in Nat /\ n - m \in Nat /\ n - (n - m) = m
    OBVIOUS
  <2>2. n - m \in Gaps
    BY <2>1
  <2>3. d <= n - m
    BY <1>2, <2>2
  <2> QED
    BY <1>3, <2>1, <2>3
<1>5. \E x \in S : \A y \in S : x >= y
  BY <1>3, <1>4
<1>6. Max(S) \in S /\ \A y \in S : Max(S) >= y
  BY <1>5 DEF Max
<1> QED
  BY <1>6

\* What the first in the line ask for grows by what the next one asks for.
LEMMA Demanded ==
    ASSUME weight \in [Callers -> Nat], NEW line \in Seq(Callers)
    PROVE  /\ Demand(line, 0) = 0
           /\ \A k \in 0..Len(line) : Demand(line, k) \in Nat
           /\ \A k \in 0..Len(line) :
                  k < Len(line) =>
                     Demand(line, k + 1) = Demand(line, k) + weight[line[k + 1]]
<1> DEFINE F == [i \in 1..Len(line) |-> weight[line[i]]]
<1>1. Len(line) \in Nat /\ \A i \in 1..Len(line) : F[i] \in Nat
  BY ElementOfSeq, LenProperties
<1>2. \A k \in Nat : Demand(line, k) = SumFunctionOnSet(F, 1..k)
  BY DEF Demand
<1> HIDE DEF F
<1>3. ASSUME NEW k \in 0..Len(line)
      PROVE  IsFiniteSet(1..k) /\ \A i \in 1..k : F[i] \in Nat
  <2>1. k \in Nat /\ 1..k \subseteq 1..Len(line)
    BY <1>1
  <2> QED
    BY <1>1, <2>1, FS_Interval
<1>4. Demand(line, 0) = 0
  <2>1. 1..0 = {}
    OBVIOUS
  <2> QED
    BY <1>2, <2>1, SumEmpty
<1>5. ASSUME NEW k \in 0..Len(line) PROVE Demand(line, k) \in Nat
  <2>1. SumFunctionOnSet(F, 1..k) \in Nat
    BY <1>3, SumNat
  <2> QED
    BY <1>1, <1>2, <2>1
<1>6. ASSUME NEW k \in 0..Len(line), k < Len(line)
      PROVE  Demand(line, k + 1) = Demand(line, k) + weight[line[k + 1]]
  <2>1. /\ k \in Nat /\ k + 1 \in 1..Len(line) /\ k + 1 \notin 1..k
        /\ 1..(k + 1) = (1..k) \cup {k + 1}
    BY <1>1, <1>6
  <2>2. IsFiniteSet(1..k) /\ \A i \in (1..k) \cup {k + 1} : F[i] \in Int
    BY <1>1, <1>3, <2>1
  <2>3. SumFunctionOnSet(F, (1..k) \cup {k + 1})
           = F[k + 1] + SumFunctionOnSet(F, 1..k)
    BY <2>1, <2>2, SumAdd
  <2>4. F[k + 1] = weight[line[k + 1]]
    BY <2>1 DEF F
  <2>5. F[k + 1] \in Nat /\ SumFunctionOnSet(F, 1..k) \in Nat
    BY <1>1, <1>3, <2>1, SumNat
  <2>6. /\ Demand(line, k) = SumFunctionOnSet(F, 1..k)
        /\ Demand(line, k + 1) = SumFunctionOnSet(F, 1..(k + 1))
    BY <1>1, <1>2, <2>1
  <2>7. Demand(line, k + 1) = SumFunctionOnSet(F, (1..k) \cup {k + 1})
    BY <2>1, <2>6
  <2> QED
    BY <2>3, <2>4, <2>5, <2>6, <2>7
<1> QED
  BY <1>4, <1>5, <1>6

\* Those that are served fit, and the next one does not.
LEMMA Fits ==
    ASSUME weight \in [Callers -> Nat], NEW line \in Seq(Callers),
           NEW room \in Nat, NEW k, k = Fitting(line, room)
    PROVE  /\ k \in 0..Len(line) /\ Demand(line, k) <= room
           /\ k < Len(line) => Demand(line, k) + weight[line[k + 1]] > room
<1> DEFINE K == {i \in 0..Len(line) : Demand(line, i) <= room}
<1>1. Len(line) \in Nat
  BY LenProperties
<1>2. 0 \in K /\ K \subseteq Nat /\ \A i \in K : i <= Len(line)
  BY <1>1, Demanded
<1>3. k = Max(K)
  BY DEF Fitting
<1>4. k \in K /\ \A i \in K : i <= k
  <2> HIDE DEF K
  <2> QED
    BY <1>1, <1>2, <1>3, MaxIs
<1>5. CASE k < Len(line)
  <2>1. k + 1 \in 0..Len(line) /\ k + 1 \notin K
    BY <1>1, <1>4, <1>5
  <2>2. Demand(line, k + 1) = Demand(line, k) + weight[line[k + 1]]
    BY <1>4, <1>5, Demanded
  <2>3. Demand(line, k + 1) \in Nat
    BY <2>1, Demanded
  <2> QED
    BY <1>4, <2>1, <2>2, <2>3
<1> QED
  BY <1>4, <1>5

\* Nobody stands in the line twice.
Distinct(line) ==
    \A i, j \in 1..Len(line) : line[i] = line[j] => i = j

\* Callers who held something and the first k of a line that did not hold,
\* together, what the former held and what the latter ask for.
LEMMA ServedSum ==
    ASSUME weight \in [Callers -> Nat], NEW line \in Seq(Callers),
           Distinct(line), NEW k \in 0..Len(line), NEW T \in SUBSET Callers,
           \A i \in 1..Len(line) : line[i] \notin T
    PROVE  SumFunctionOnSet(weight, T \cup {line[i] : i \in 1..k})
              = SumFunctionOnSet(weight, T) + Demand(line, k)
<1> DEFINE Served(n) == T \cup {line[i] : i \in 1..n}
           Total(S) == SumFunctionOnSet(weight, S)
           Bad == {n \in 0..Len(line) :
                      Total(Served(n)) # Total(T) + Demand(line, n)}
<1>1. Len(line) \in Nat /\ \A i \in 1..Len(line) : line[i] \in Callers
  BY ElementOfSeq, LenProperties
<1>2. ASSUME NEW S \in SUBSET Callers PROVE IsFiniteSet(S) /\ Total(S) \in Nat
  <2>1. IsFiniteSet(S) /\ \A c \in S : weight[c] \in Nat
    BY LimiterAssumption, FS_Subset
  <2> QED
    BY <2>1, SumNat
<1>3. SUFFICES ASSUME Bad # {} PROVE FALSE
  OBVIOUS
<1>4. PICK n \in Bad : \A m \in Bad : n <= m
  <2>1. Bad \subseteq Nat
    BY <1>1
  <2> HIDE DEF Bad
  <2> QED
    BY <1>3, <2>1, LeastNatural
<1>5. n # 0
  <2>1. Served(0) = T
    OBVIOUS
  <2>2. Demand(line, 0) = 0
    BY Demanded
  <2>3. Total(Served(n)) # Total(T) + Demand(line, n) /\ Total(T) \in Nat
    BY <1>2, <1>4
  <2> HIDE DEF Bad, Served, Total
  <2> QED
    BY <2>1, <2>2, <2>3
<1> DEFINE m == n - 1
<1>6. m \in 0..Len(line) /\ m < Len(line) /\ m + 1 = n /\ n \in 1..Len(line)
      /\ ~ (n <= m)
  BY <1>1, <1>4, <1>5
<1>7. m \notin Bad
  BY <1>4, <1>6
<1>8. Total(Served(m)) = Total(T) + Demand(line, m)
  BY <1>6, <1>7
<1>9. Total(Served(n)) = weight[line[n]] + Total(Served(m))
  <2>1. Served(n) = Served(m) \cup {line[n]}
    <3>1. 1..n = (1..m) \cup {n}
      BY <1>6
    <3> QED
      BY <3>1
  <2>2. line[n] \notin Served(m)
    BY <1>1, <1>6 DEF Distinct
  <2>3. Served(m) \in SUBSET Callers /\ line[n] \in Callers
    BY <1>1, <1>6
  <2>4. \A c \in Served(m) \cup {line[n]} : weight[c] \in Int
    BY <2>3
  <2>5. IsFiniteSet(Served(m))
    BY <1>2, <2>3
  <2> HIDE DEF Served
  <2> QED
    BY <2>1, <2>2, <2>4, <2>5, SumAdd
<1>10. Demand(line, n) = Demand(line, m) + weight[line[n]]
  BY <1>6, Demanded
<1>11. Total(T) \in Nat /\ Demand(line, m) \in Nat /\ weight[line[n]] \in Nat
  BY <1>1, <1>2, <1>6, Demanded
<1>12. Total(Served(n)) # Total(T) + Demand(line, n)
  BY <1>4
<1> HIDE DEF Bad, Served, Total, m
<1> QED
  BY <1>8, <1>9, <1>10, <1>11, <1>12

\* Who leaves the line leaves the others in it, in their order.
LEMMA Departed ==
    ASSUME NEW line \in Seq(Callers), Distinct(line), NEW c \in Callers
    PROVE  /\ RemoveFirst(line, c) \in Seq(Callers)
           /\ Distinct(RemoveFirst(line, c))
           /\ \A d \in Callers :
                  (\E i \in 1..Len(RemoveFirst(line, c)) :
                      RemoveFirst(line, c)[i] = d)
                  <=> d # c /\ \E i \in 1..Len(line) : line[i] = d
<1>1. Len(line) \in Nat /\ \A i \in 1..Len(line) : line[i] \in Callers
  BY ElementOfSeq, LenProperties
<1>2. CASE ~ \E i \in 1..Len(line) : line[i] = c
  <2>1. RemoveFirst(line, c) = line
    BY <1>2 DEF RemoveFirst
  <2> QED
    BY <1>2, <2>1
<1>3. ASSUME NEW n \in 1..Len(line), line[n] = c
      PROVE  /\ RemoveFirst(line, c) \in Seq(Callers)
             /\ Distinct(RemoveFirst(line, c))
             /\ \A d \in Callers :
                    (\E i \in 1..Len(RemoveFirst(line, c)) :
                        RemoveFirst(line, c)[i] = d)
                    <=> d # c /\ \E i \in 1..Len(line) : line[i] = d
  <2>1. {i \in 1..Len(line) : line[i] = c} = {n}
    BY <1>3 DEF Distinct
  <2>2. Min({n}) = n
    BY DEF Min
  <2>3. SelectInSeq(line, LAMBDA v : v = c) = n
    BY <2>1, <2>2 DEF SelectInSeq
  <2> DEFINE front == SubSeq(line, 1, n - 1)
             back == SubSeq(line, n + 1, Len(line))
             rest == front \o back
  <2>4. RemoveFirst(line, c) = rest
    BY <1>3, <2>3 DEF RemoveFirst, RemoveAt
  <2>5. /\ front \in Seq(Callers) /\ Len(front) = n - 1
        /\ \A i \in 1..(n - 1) : front[i] = line[i]
    BY <1>1, SubSeqProperties
  <2>6. /\ back \in Seq(Callers) /\ Len(back) = Len(line) - n
        /\ \A i \in 1..(Len(line) - n) : back[i] = line[n + i]
    BY <1>1, SubSeqProperties
  <2>7. /\ rest \in Seq(Callers) /\ Len(rest) = Len(line) - 1
        /\ \A i \in 1..Len(rest) :
               rest[i] = IF i < n THEN line[i] ELSE line[i + 1]
    <3> HIDE DEF front, back
    <3>1. /\ rest \in Seq(Callers) /\ Len(rest) = Len(front) + Len(back)
          /\ \A i \in 1..(Len(front) + Len(back)) :
                 rest[i] = IF i <= Len(front) THEN front[i]
                           ELSE back[i - Len(front)]
      BY <2>5, <2>6, ConcatProperties
    <3> HIDE DEF rest
    <3>2. Len(rest) = Len(line) - 1
      BY <1>1, <2>5, <2>6, <3>1
    <3>3. ASSUME NEW i \in 1..Len(rest)
          PROVE  rest[i] = IF i < n THEN line[i] ELSE line[i + 1]
      <4>1. CASE i < n
        BY <1>1, <2>5, <2>6, <3>1, <3>2, <4>1
      <4>2. CASE i >= n
        <5>1. i - (n - 1) \in 1..(Len(line) - n)
          BY <1>1, <3>2, <4>2
        <5>2. back[i - (n - 1)] = line[n + (i - (n - 1))]
          BY <2>6, <5>1
        <5>3. n + (i - (n - 1)) = i + 1
          BY <1>1, <3>2
        <5>4. rest[i] = back[i - (n - 1)]
          BY <1>1, <2>5, <2>6, <3>1, <3>2, <4>2
        <5> QED
          BY <1>1, <3>2, <4>2, <5>2, <5>3, <5>4
      <4> QED
        BY <1>1, <3>2, <4>1, <4>2
    <3> QED
      BY <3>1, <3>2, <3>3
  <2> HIDE DEF rest
  <2>8. Distinct(rest)
    <3> DEFINE old(i) == IF i < n THEN i ELSE i + 1
    <3>1. \A i \in 1..Len(rest) :
             old(i) \in 1..Len(line) /\ rest[i] = line[old(i)]
      BY <1>1, <2>7
    <3>2. \A i, j \in 1..Len(rest) : old(i) = old(j) => i = j
      BY <1>1, <2>7
    <3> HIDE DEF old
    <3>3. \A i, j \in 1..Len(rest) : rest[i] = rest[j] => old(i) = old(j)
      BY <3>1 DEF Distinct
    <3> QED
      BY <3>2, <3>3 DEF Distinct
  <2>9. ASSUME NEW d \in Callers, NEW i \in 1..Len(rest), rest[i] = d
        PROVE  d # c /\ \E j \in 1..Len(line) : line[j] = d
    BY <1>1, <1>3, <2>7, <2>9 DEF Distinct
  <2>10. ASSUME NEW d \in Callers, d # c, NEW j \in 1..Len(line), line[j] = d
         PROVE  \E i \in 1..Len(rest) : rest[i] = d
    <3>1. CASE j < n
      <4>1. j \in 1..Len(rest) /\ rest[j] = d
        BY <1>1, <2>7, <2>10, <3>1
      <4> QED
        BY <4>1
    <3>2. CASE j > n
      <4>1. j - 1 \in 1..Len(rest) /\ rest[j - 1] = d
        BY <1>1, <2>7, <2>10, <3>2
      <4> QED
        BY <4>1
    <3> QED
      BY <1>3, <2>10, <3>1, <3>2
  <2> QED
    BY <2>4, <2>7, <2>8, <2>9, <2>10
<1> QED
  BY <1>2, <1>3

------------------------------------------------------------------------
(* What callers hold.                                                      *)

\* The weights w of the callers that f has in one of some phases.
Held(f, w, phases) == SumFunctionOnSet(w, {c \in Callers : f[c] \in phases})

\* It is a number that none of its terms exceeds.
LEMMA HeldNat ==
    ASSUME NEW f, NEW w \in [Callers -> Nat], NEW phases
    PROVE  /\ Held(f, w, phases) \in Nat
           /\ \A c \in Callers : f[c] \in phases => w[c] <= Held(f, w, phases)
<1> DEFINE S == {c \in Callers : f[c] \in phases}
<1>1. IsFiniteSet(S) /\ \A c \in S : w[c] \in Nat
  BY LimiterAssumption, FS_Subset
<1>2. /\ SumFunctionOnSet(w, S) \in Nat
      /\ \A c \in S : w[c] <= SumFunctionOnSet(w, S)
  <2> HIDE DEF S
  <2> QED
    BY <1>1, SumNat
<1> QED
  BY <1>2 DEF Held

\* Who moves within the phases, or outside of them, changes nothing.
LEMMA HeldKept ==
    ASSUME NEW f, NEW g, NEW w, NEW v, NEW phases,
           \A c \in Callers : g[c] \in phases <=> f[c] \in phases,
           \A c \in Callers : f[c] \in phases => v[c] = w[c]
    PROVE  Held(g, v, phases) = Held(f, w, phases)
<1> DEFINE S == {c \in Callers : f[c] \in phases}
<1>1. S = {c \in Callers : g[c] \in phases}
  OBVIOUS
<1>2. IsFiniteSet(S) /\ \A c \in S : v[c] = w[c]
  BY LimiterAssumption, FS_Subset
<1>3. SumFunctionOnSet(v, S) = SumFunctionOnSet(w, S)
  <2> HIDE DEF S
  <2> QED
    BY <1>2, SumSame
<1> QED
  BY <1>1, <1>3 DEF Held

\* Who enters them brings a weight.
LEMMA HeldMore ==
    ASSUME NEW f, NEW g, NEW w \in [Callers -> Nat],
           NEW v \in [Callers -> Nat], NEW phases, NEW c \in Callers,
           f[c] \notin phases, g[c] \in phases,
           \A d \in Callers \ {c} : g[d] \in phases <=> f[d] \in phases,
           \A d \in Callers \ {c} : f[d] \in phases => v[d] = w[d]
    PROVE  Held(g, v, phases) = Held(f, w, phases) + v[c]
<1> DEFINE S == {d \in Callers : f[d] \in phases}
<1>1. S \cup {c} = {d \in Callers : g[d] \in phases} /\ c \notin S
  OBVIOUS
<1>2. /\ IsFiniteSet(S) /\ \A d \in S : v[d] = w[d]
      /\ \A d \in S \cup {c} : v[d] \in Int
  BY LimiterAssumption, FS_Subset
<1> HIDE DEF S
<1>3. SumFunctionOnSet(v, S) = SumFunctionOnSet(w, S)
  BY <1>2, SumSame
<1>4. SumFunctionOnSet(v, S \cup {c}) = v[c] + SumFunctionOnSet(v, S)
  BY <1>1, <1>2, SumAdd
<1>5. SumFunctionOnSet(v, S) \in Int /\ v[c] \in Int
  BY <1>2, SumType
<1> QED
  BY <1>1, <1>3, <1>4, <1>5 DEF Held, S

\* And who leaves them takes it away.
LEMMA HeldLess ==
    ASSUME NEW f, NEW g, NEW w \in [Callers -> Nat],
           NEW v \in [Callers -> Nat], NEW phases, NEW c \in Callers,
           f[c] \in phases, g[c] \notin phases,
           \A d \in Callers \ {c} : g[d] \in phases <=> f[d] \in phases,
           \A d \in Callers \ {c} : f[d] \in phases => v[d] = w[d]
    PROVE  Held(g, v, phases) = Held(f, w, phases) - w[c]
<1>1. Held(f, w, phases) = Held(g, v, phases) + w[c]
  <2>1. \A d \in Callers \ {c} : f[d] \in phases <=> g[d] \in phases
    OBVIOUS
  <2>2. \A d \in Callers \ {c} : g[d] \in phases => w[d] = v[d]
    OBVIOUS
  <2> QED
    BY <2>1, <2>2, HeldMore
<1>2. Held(g, v, phases) \in Nat /\ w[c] \in Nat
  BY HeldNat
<1> QED
  BY <1>1, <1>2

------------------------------------------------------------------------
(* The semaphore and the channel.                                          *)

\* The types of all but the bucket.
CallsOK ==
    /\ kind \in Kinds /\ limit \in Nat \ {0}
    /\ at \in [Callers -> Phases]
    /\ weight \in [Callers -> 1..limit]
    /\ used \in Nat /\ queue \in Seq(Callers)
    /\ inFlight \in Nat

\* Those who wait stand in the line, once.  A RateLimiter has no line, and no
\* weights.
Queued ==
    /\ Distinct(queue)
    /\ kind # "rate" =>
          \A c \in Callers :
             at[c] = "waiting" <=> \E i \in 1..Len(queue) : queue[i] = c
    /\ kind = "rate" => queue = << >> /\ \A c \in Callers : weight[c] = 1

\* UsedIsHeld in these words, and the three together.
Booked ==
    /\ kind # "rate" => used = Held(at, weight, Taking) /\ used <= limit
    /\ inFlight = Held(at, weight, {"holding"})

Orderly == CallsOK /\ Queued /\ Booked /\ NoRoomWasted

\* The weights are natural numbers.
LEMMA WeightsNat ==
    ASSUME limit \in Nat, NEW w \in [Callers -> 1..limit]
    PROVE  w \in [Callers -> Nat]
  OBVIOUS

\* When the line moves up, as many are served as fit, and what is taken stays
\* what is held.
LEMMA LineMoves ==
    ASSUME CallsOK, kind # "rate", UNCHANGED config,
           NEW taken \in Nat, NEW line \in Seq(Callers), Distinct(line),
           NEW phase \in [Callers -> Phases],
           \A c \in Callers :
              phase[c] = "waiting" <=> \E i \in 1..Len(line) : line[i] = c,
           taken = Held(phase, weight, Taking), taken <= limit,
           weight' \in [Callers -> 1..limit],
           \A c \in Callers :
              phase[c] \in Taking \cup {"waiting"} => weight'[c] = weight[c],
           Notify(taken, line, phase)
    PROVE  /\ at' \in [Callers -> Phases]
           /\ used' \in Nat /\ queue' \in Seq(Callers)
           /\ \A c \in Callers :
                 at'[c] = phase[c] \/ (phase[c] = "waiting" /\ at'[c] = "woken")
           /\ Queued'
           /\ used' = Held(at', weight', Taking) /\ used' <= limit'
           /\ NoRoomWasted'
<1> DEFINE k == Fitting(line, limit - taken)
           T == {c \in Callers : phase[c] \in Taking}
           Served == {line[i] : i \in 1..k}
<1>1. /\ weight \in [Callers -> Nat] /\ weight' \in [Callers -> Nat]
      /\ limit \in Nat /\ limit - taken \in Nat
      /\ kind' = kind /\ limit' = limit
  BY WeightsNat DEF CallsOK, config
<1>2. Len(line) \in Nat /\ \A i \in 1..Len(line) : line[i] \in Callers
  BY ElementOfSeq, LenProperties
<1>3. /\ k \in 0..Len(line) /\ Demand(line, k) <= limit - taken
      /\ k < Len(line) => Demand(line, k) + weight[line[k + 1]] > limit - taken
  BY <1>1, Fits
<1>4. k \in Nat /\ k <= Len(line)
  BY <1>2, <1>3
<1>5. Demand(line, k) \in Nat
  BY <1>1, <1>3, Demanded
<1>6. /\ used' = taken + Demand(line, k)
      /\ queue' = SubSeq(line, k + 1, Len(line))
      /\ at' = [c \in Callers |-> IF \E i \in 1..k : line[i] = c
                                  THEN "woken" ELSE phase[c]]
  BY DEF Notify
<1> HIDE DEF k
<1>7. \A c \in Callers :
          at'[c] = phase[c] \/ (phase[c] = "waiting" /\ at'[c] = "woken")
  <2>1. \A i \in 1..k : i \in 1..Len(line)
    BY <1>2, <1>4
  <2>2. \A c \in Callers :
           (\E i \in 1..k : line[i] = c) => phase[c] = "waiting"
    BY <2>1
  <2> QED
    BY <1>6, <2>2
<1>8. at' \in [Callers -> Phases]
  <2>1. "woken" \in Phases /\ \A c \in Callers : phase[c] \in Phases
    BY DEF Phases
  <2> QED
    BY <1>6, <2>1
<1>9. used' = Held(at', weight', Taking)
  <2>1. T \in SUBSET Callers /\ \A i \in 1..Len(line) : line[i] \notin T
    BY <1>2 DEF Taking
  <2>2. SumFunctionOnSet(weight, T \cup Served)
           = SumFunctionOnSet(weight, T) + Demand(line, k)
    <3> HIDE DEF T
    <3> QED
      BY <1>1, <1>3, <2>1, ServedSum
  <2>3. {c \in Callers : at'[c] \in Taking} = T \cup Served
    BY <1>2, <1>3, <1>6 DEF Taking
  <2>4. Held(at', weight, Taking) = taken + Demand(line, k)
    BY <2>2, <2>3 DEF Held
  <2>5. \A c \in Callers : at'[c] \in Taking => weight'[c] = weight[c]
    BY <1>7 DEF Taking
  <2>6. Held(at', weight', Taking) = Held(at', weight, Taking)
    BY <2>5, HeldKept
  <2> QED
    BY <1>6, <2>4, <2>6
<1>10. /\ queue' \in Seq(Callers) /\ Len(queue') = Len(line) - k
      /\ \A i \in 1..Len(queue') : queue'[i] = line[k + i]
  <2>1. /\ SubSeq(line, k + 1, Len(line)) \in Seq(Callers)
        /\ Len(SubSeq(line, k + 1, Len(line)))
              = IF k + 1 <= Len(line) THEN Len(line) - (k + 1) + 1 ELSE 0
        /\ \A i \in 1..(Len(line) - (k + 1) + 1) :
               SubSeq(line, k + 1, Len(line))[i] = line[(k + 1) + i - 1]
    <3>1. \A i \in (k + 1)..Len(line) : line[i] \in Callers
      BY <1>2, <1>3
    <3>2. k + 1 \in Int /\ Len(line) \in Int
      BY <1>2, <1>3
    <3> QED
      BY <3>1, <3>2, SubSeqProperties
  <2> QED
    BY <1>2, <1>3, <1>6, <2>1
<1>11. Queued'
  <2>1. Distinct(queue')
    <3>1. \A i \in 1..Len(queue') :
             queue'[i] = line[k + i] /\ k + i \in 1..Len(line)
      BY <1>2, <1>10, <1>4
    <3>2. ASSUME NEW i \in 1..Len(queue'), NEW j \in 1..Len(queue'),
                 queue'[i] = queue'[j]
          PROVE  i = j
      <4>0. /\ k + i \in 1..Len(line) /\ k + j \in 1..Len(line)
            /\ line[k + i] = line[k + j]
        BY <3>1, <3>2
      <4>1. k + i = k + j
        BY <4>0 DEF Distinct
      <4> QED
        BY <1>2, <1>10, <1>4, <4>1
    <3> QED
      BY <3>2 DEF Distinct
  <2>2. ASSUME NEW c \in Callers, at'[c] = "waiting"
        PROVE  \E i \in 1..Len(queue') : queue'[i] = c
    <3>1. phase[c] = "waiting" /\ ~ \E i \in 1..k : line[i] = c
      BY <1>6, <2>2
    <3>2. PICK j \in 1..Len(line) : line[j] = c
      BY <3>1
    <3>3. j \in Nat /\ j <= Len(line) /\ j > k
      BY <1>2, <1>4, <3>1, <3>2
    <3>4. j - k \in 1..Len(queue') /\ k + (j - k) = j
      BY <1>2, <1>10, <1>4, <3>3
    <3>5. queue'[j - k] = c
      BY <1>10, <3>2, <3>4
    <3> QED
      BY <3>4, <3>5
  <2>3. ASSUME NEW c \in Callers, NEW i \in 1..Len(queue'), queue'[i] = c
        PROVE  at'[c] = "waiting"
    <3>1. k + i \in 1..Len(line) /\ line[k + i] = c
      BY <1>2, <1>10, <1>4, <2>3
    <3>2. ASSUME NEW j \in 1..k, line[j] = c PROVE FALSE
      <4>1. j \in 1..Len(line) /\ j # k + i
        BY <1>2, <1>4, <1>10
      <4> QED
        BY <3>1, <3>2, <4>1 DEF Distinct
    <3> QED
      BY <1>6, <3>1, <3>2
  <2> QED
    BY <1>1, <2>1, <2>2, <2>3 DEF Queued, Distinct
<1>12. NoRoomWasted'
  <2> SUFFICES ASSUME queue' # << >>
               PROVE  used' + weight'[Head(queue')] > limit'
    BY DEF NoRoomWasted
  <2>1. Len(queue') > 0 /\ Head(queue') = queue'[1]
    BY <1>10
  <2>2. k < Len(line) /\ k + 1 \in 1..Len(line) /\ Head(queue') = line[k + 1]
    <3>1. 1 \in 1..Len(queue') /\ k < Len(line)
      BY <1>2, <1>4, <1>10, <2>1
    <3>2. queue'[1] = line[k + 1]
      BY <1>10, <3>1
    <3> QED
      BY <1>2, <1>4, <2>1, <3>1, <3>2
  <2>3. phase[line[k + 1]] = "waiting" /\ line[k + 1] \in Callers
    BY <1>2, <2>2
  <2>4. /\ weight'[line[k + 1]] = weight[line[k + 1]]
        /\ weight[line[k + 1]] \in Nat
    BY <1>1, <2>3
  <2>5. Demand(line, k) + weight[line[k + 1]] > limit - taken
    BY <1>3, <2>2
  <2>6. used' = taken + Demand(line, k) /\ limit' = limit
    BY <1>1, <1>6
  <2>7. weight'[Head(queue')] = weight[line[k + 1]]
    BY <2>2, <2>4
  <2>8. taken + Demand(line, k) + weight[line[k + 1]] > limit
    <3>1. \A t, d, w, n \in Nat : d + w > n - t => t + d + w > n
      OBVIOUS
    <3>2. limit \in Nat
      BY <1>1
    <3> QED
      BY <1>5, <2>4, <2>5, <3>1, <3>2
  <2> QED
    BY <2>6, <2>7, <2>8
<1>13. used' \in Nat /\ used' <= limit'
  BY <1>1, <1>3, <1>5, <1>6
<1> QED
  BY <1>7, <1>8, <1>9, <1>10, <1>11, <1>12, <1>13

\* The weights of what may be taken; nothing between admission and release is
\* waiting.
LEMMA OrderlyFacts ==
    ASSUME Orderly
    PROVE  /\ limit \in Nat \ {0} /\ at \in [Callers -> Phases]
           /\ weight \in [Callers -> 1..limit] /\ weight \in [Callers -> Nat]
           /\ used \in Nat /\ queue \in Seq(Callers) /\ inFlight \in Nat
           /\ inFlight = Held(at, weight, {"holding"})
           /\ Distinct(queue)
           /\ kind # "rate" =>
                 /\ used = Held(at, weight, Taking) /\ used <= limit
                 /\ \A c \in Callers :
                       at[c] = "waiting"
                         <=> \E i \in 1..Len(queue) : queue[i] = c
<1>1. weight \in [Callers -> Nat]
  BY WeightsNat DEF Orderly, CallsOK
<1> QED
  BY <1>1 DEF Orderly, CallsOK, Queued, Booked

\* The count of metrics stays right while nobody starts or ends to hold.
LEMMA CountKept ==
    ASSUME Orderly, UNCHANGED inFlight,
           \A c \in Callers : at'[c] = "holding" <=> at[c] = "holding",
           \A c \in Callers : at[c] = "holding" => weight'[c] = weight[c]
    PROVE  inFlight' \in Nat /\ inFlight' = Held(at', weight', {"holding"})
<1>1. Held(at', weight', {"holding"}) = Held(at, weight, {"holding"})
  BY HeldKept
<1> QED
  BY <1>1, OrderlyFacts

\* A step of the callers that takes and returns nothing.
LEMMA PoolKept ==
    ASSUME Orderly, UNCHANGED <<config, pool>>,
           at' \in [Callers -> Phases], weight' \in [Callers -> 1..limit],
           inFlight' \in Nat, inFlight' = Held(at', weight', {"holding"}),
           kind # "rate" =>
              \A c \in Callers :
                 /\ at'[c] = "waiting" <=> at[c] = "waiting"
                 /\ at'[c] \in Taking <=> at[c] \in Taking
                 /\ at[c] \in Taking \cup {"waiting"}
                       => weight'[c] = weight[c],
           kind = "rate" => \A c \in Callers : weight'[c] = 1
    PROVE  Orderly'
<1>1. kind' = kind /\ limit' = limit /\ used' = used /\ queue' = queue
  BY DEF config, pool
<1>2. CallsOK'
  BY <1>1 DEF Orderly, CallsOK
<1>3. Queued'
  BY <1>1 DEF Orderly, Queued, Distinct
<1>4. Booked'
  <2>1. ASSUME kind # "rate"
        PROVE  Held(at', weight', Taking) = Held(at, weight, Taking)
    BY <2>1, HeldKept
  <2> QED
    BY <1>1, <2>1 DEF Orderly, Booked
<1>5. NoRoomWasted'
  <2> SUFFICES ASSUME queue # << >>
               PROVE  used + weight'[Head(queue)] > limit
    BY <1>1 DEF NoRoomWasted
  <2>1. kind # "rate"
    BY DEF Orderly, Queued
  <2>2. Head(queue) = queue[1] /\ 1 \in 1..Len(queue) /\ queue[1] \in Callers
    BY OrderlyFacts
  <2>3. at[Head(queue)] = "waiting"
    BY <2>1, <2>2, OrderlyFacts
  <2>4. weight'[Head(queue)] = weight[Head(queue)]
    BY <2>1, <2>2, <2>3
  <2> QED
    BY <2>4 DEF Orderly, NoRoomWasted
<1> QED
  BY <1>2, <1>3, <1>4, <1>5 DEF Orderly

\* Whatever a caller asks for is taken as one weight that the limiter has.
LEMMA EffectiveFits ==
    ASSUME Orderly, NEW w \in Weights
    PROVE  Effective(w) \in 1..limit
  BY LimiterAssumption, OrderlyFacts DEF Effective

\* A caller is admitted at once, when nobody waits, or joins the line.
LEMMA AcquireOrderly ==
    ASSUME Orderly, NEW c \in Callers, NEW w \in Weights, Acquire(c, w)
    PROVE  Orderly'
<1> DEFINE e == Effective(w)
<1>1. /\ e \in 1..limit /\ e \in Nat /\ limit \in Nat
      /\ kind # "rate" /\ at[c] = "outside" /\ UNCHANGED <<config, inFlight>>
      /\ weight' = [weight EXCEPT ![c] = e]
  BY EffectiveFits, OrderlyFacts DEF Acquire
<1> HIDE DEF e
<1>2. /\ kind' = kind /\ limit' = limit
      /\ weight' \in [Callers -> 1..limit] /\ weight' \in [Callers -> Nat]
      /\ weight'[c] = e /\ \A d \in Callers \ {c} : weight'[d] = weight[d]
  BY <1>1, OrderlyFacts DEF config
<1>3. ASSUME queue = << >>, used + e <= limit
      PROVE  Orderly'
  <2>1. /\ used' = used + e /\ at' = [at EXCEPT ![c] = "admitted"]
        /\ queue' = queue
    BY <1>3 DEF Acquire, Goto, e
  <2>2. /\ at' \in [Callers -> Phases] /\ at'[c] = "admitted"
        /\ \A d \in Callers \ {c} : at'[d] = at[d]
    BY <2>1, OrderlyFacts DEF Phases
  <2>3. Held(at', weight', Taking) = Held(at, weight, Taking) + e
    <3>1. at[c] \notin Taking /\ at'[c] \in Taking
      BY <1>1, <2>2 DEF Taking
    <3>2. /\ \A d \in Callers \ {c} : at'[d] \in Taking <=> at[d] \in Taking
          /\ \A d \in Callers \ {c} : at[d] \in Taking => weight'[d] = weight[d]
          /\ weight \in [Callers -> Nat] /\ weight' \in [Callers -> Nat]
      BY <1>2, <2>2, OrderlyFacts
    <3>3. Held(at', weight', Taking) = Held(at, weight, Taking) + weight'[c]
      BY <3>1, <3>2, HeldMore
    <3> QED
      BY <1>2, <3>3
  <2>4. inFlight' \in Nat /\ inFlight' = Held(at', weight', {"holding"})
    BY <1>1, <1>2, <2>2, CountKept
  <2>5. CallsOK'
    BY <1>1, <1>2, <2>1, <2>2, <2>4, OrderlyFacts DEF Orderly, CallsOK
  <2>6. Queued'
    BY <1>1, <1>2, <1>3, <2>1, <2>2, OrderlyFacts DEF Queued, Distinct
  <2>7. Booked'
    BY <1>1, <1>2, <1>3, <2>1, <2>3, <2>4, OrderlyFacts DEF Booked
  <2>8. NoRoomWasted'
    BY <1>3, <2>1 DEF NoRoomWasted
  <2> QED
    BY <2>5, <2>6, <2>7, <2>8 DEF Orderly
<1>4. ASSUME ~ (queue = << >> /\ used + e <= limit)
      PROVE  Orderly'
  <2>1. /\ queue' = Append(queue, c) /\ at' = [at EXCEPT ![c] = "waiting"]
        /\ used' = used
    BY <1>4 DEF Acquire, Goto, e
  <2>2. /\ at' \in [Callers -> Phases] /\ at'[c] = "waiting"
        /\ \A d \in Callers \ {c} : at'[d] = at[d]
    BY <2>1, OrderlyFacts DEF Phases
  <2>3. Held(at', weight', Taking) = Held(at, weight, Taking)
    <3>1. at[c] \notin Taking /\ at'[c] \notin Taking
      BY <1>1, <2>2 DEF Taking
    <3> QED
      BY <1>2, <2>2, <3>1, HeldKept
  <2>4. inFlight' \in Nat /\ inFlight' = Held(at', weight', {"holding"})
    BY <1>1, <1>2, <2>2, CountKept
  <2>5. /\ queue' \in Seq(Callers) /\ Len(queue') = Len(queue) + 1
        /\ queue'[Len(queue) + 1] = c
        /\ \A i \in 1..Len(queue) : queue'[i] = queue[i]
        /\ Len(queue) \in Nat
    BY <2>1, OrderlyFacts, AppendProperties, LenProperties
  <2>6. CallsOK'
    BY <1>1, <1>2, <2>1, <2>2, <2>4, <2>5, OrderlyFacts DEF Orderly, CallsOK
  <2>7. \A i \in 1..Len(queue) : queue[i] # c
    BY <1>1, OrderlyFacts
  <2>8. Queued'
    <3>1. Distinct(queue')
      <4>1. \A i \in 1..Len(queue') : i \in 1..Len(queue) \/ i = Len(queue) + 1
        BY <2>5
      <4>2. \A i, j \in 1..Len(queue) : queue[i] = queue[j] => i = j
        BY OrderlyFacts DEF Distinct
      <4> QED
        BY <2>5, <2>7, <4>1, <4>2 DEF Distinct
    <3>2. ASSUME NEW d \in Callers
          PROVE  at'[d] = "waiting" <=> \E i \in 1..Len(queue') : queue'[i] = d
      <4>1. CASE d = c
        BY <2>2, <2>5, <4>1
      <4>2. CASE d # c
        <5>1. at'[d] = at[d]
              /\ (at[d] = "waiting" <=> \E i \in 1..Len(queue) : queue[i] = d)
          BY <1>1, <2>2, <4>2, OrderlyFacts
        <5>2. (\E i \in 1..Len(queue) : queue[i] = d)
                <=> \E i \in 1..Len(queue') : queue'[i] = d
          BY <2>5, <4>2
        <5> QED
          BY <5>1, <5>2
      <4> QED
        BY <4>1, <4>2
    <3> QED
      BY <1>1, <1>2, <3>1, <3>2 DEF Queued, Distinct
  <2>9. Booked'
    BY <1>1, <1>2, <2>1, <2>3, <2>4, OrderlyFacts DEF Booked
  <2>10. NoRoomWasted'
    <3>1. Head(queue') = queue'[1]
      BY <2>5
    <3>2. CASE queue = << >>
      <4>1. Head(queue') = c
        BY <2>5, <3>1, <3>2
      <4> QED
        BY <1>1, <1>2, <1>4, <2>1, <3>2, <4>1, OrderlyFacts DEF NoRoomWasted
    <3>3. CASE queue # << >>
      <4>1. /\ Head(queue') = Head(queue) /\ Head(queue) = queue[1]
            /\ 1 \in 1..Len(queue) /\ queue[1] \in Callers
        BY <2>5, <3>1, <3>3, OrderlyFacts
      <4>2. weight'[Head(queue)] = weight[Head(queue)]
        BY <1>2, <2>7, <4>1
      <4>3. used + weight[Head(queue)] > limit
        BY <3>3 DEF Orderly, NoRoomWasted
      <4> QED
        BY <1>2, <2>1, <4>1, <4>2, <4>3 DEF NoRoomWasted
    <3> QED
      BY <3>2, <3>3
  <2> QED
    BY <2>6, <2>8, <2>9, <2>10 DEF Orderly
<1> QED
  BY <1>3, <1>4

\* The line, without one who gives up, moves up.
LEMMA AbandonOrderly ==
    ASSUME Orderly, NEW c \in Callers, Abandon(c)
    PROVE  /\ Orderly'
           /\ at'[c] = "outside"
           /\ \A d \in Callers \ {c} :
                 at'[d] = at[d] \/ (at[d] = "waiting" /\ at'[d] = "woken")
<1> DEFINE line == RemoveFirst(queue, c)
           phase == [at EXCEPT ![c] = "outside"]
<1>1. /\ kind # "rate" /\ at[c] = "waiting" /\ UNCHANGED <<config, inFlight>>
      /\ weight' = [weight EXCEPT ![c] = 1] /\ Notify(used, line, phase)
  BY DEF Abandon, Forget
<1>2. /\ kind' = kind /\ limit' = limit /\ weight' \in [Callers -> 1..limit]
      /\ \A d \in Callers \ {c} : weight'[d] = weight[d]
  BY <1>1, OrderlyFacts DEF config
<1>3. /\ phase \in [Callers -> Phases] /\ phase[c] = "outside"
      /\ \A d \in Callers \ {c} : phase[d] = at[d]
  BY OrderlyFacts DEF Phases
<1>4. /\ line \in Seq(Callers) /\ Distinct(line)
      /\ \A d \in Callers :
             phase[d] = "waiting" <=> \E i \in 1..Len(line) : line[i] = d
  <2>1. /\ line \in Seq(Callers) /\ Distinct(line)
        /\ \A d \in Callers :
               (\E i \in 1..Len(line) : line[i] = d)
               <=> d # c /\ \E i \in 1..Len(queue) : queue[i] = d
    BY OrderlyFacts, Departed
  <2> HIDE DEF line, phase
  <2> QED
    BY <1>1, <1>3, <2>1, OrderlyFacts
<1> HIDE DEF line, phase
<1>5. Held(phase, weight, Taking) = Held(at, weight, Taking)
  <2>1. \A d \in Callers : phase[d] \in Taking <=> at[d] \in Taking
    BY <1>1, <1>3 DEF Taking
  <2> QED
    BY <2>1, HeldKept
<1>6. /\ CallsOK /\ used \in Nat /\ used = Held(phase, weight, Taking)
      /\ used <= limit
  BY <1>1, <1>5, OrderlyFacts DEF Orderly
<1>7. \A d \in Callers :
         phase[d] \in Taking \cup {"waiting"} => weight'[d] = weight[d]
  BY <1>2, <1>3 DEF Taking
<1>8. /\ at' \in [Callers -> Phases]
      /\ used' \in Nat /\ queue' \in Seq(Callers)
      /\ \A d \in Callers :
            at'[d] = phase[d] \/ (phase[d] = "waiting" /\ at'[d] = "woken")
      /\ Queued'
      /\ used' = Held(at', weight', Taking) /\ used' <= limit'
      /\ NoRoomWasted'
  BY <1>1, <1>2, <1>3, <1>4, <1>6, <1>7, LineMoves
<1>9. inFlight' \in Nat /\ inFlight' = Held(at', weight', {"holding"})
  <2>1. \A d \in Callers : at'[d] = "holding" <=> at[d] = "holding"
    BY <1>1, <1>3, <1>8
  <2>2. \A d \in Callers : at[d] = "holding" => weight'[d] = weight[d]
    BY <1>1, <1>2
  <2> QED
    BY <1>1, <2>1, <2>2, CountKept
<1>10. CallsOK' /\ Booked'
  BY <1>2, <1>6, <1>8, <1>9 DEF CallsOK, Booked
<1> QED
  BY <1>3, <1>8, <1>10 DEF Orderly

\* What a caller had taken goes back, to those who wait: it is no longer in
\* the line or among those who hold.
LEMMA ReturnOrderly ==
    ASSUME Orderly, kind # "rate", NEW c \in Callers,
           at[c] \in Taking \ {"holding"}, NEW done \in {"outside", "released"},
           UNCHANGED <<config, inFlight>>,
           weight' \in [Callers -> 1..limit],
           \A d \in Callers \ {c} : weight'[d] = weight[d],
           Notify(used - weight[c], queue, [at EXCEPT ![c] = done])
    PROVE  /\ Orderly'
           /\ at'[c] = done
           /\ \A d \in Callers \ {c} :
                 at'[d] = at[d] \/ (at[d] = "waiting" /\ at'[d] = "woken")
<1> DEFINE phase == [at EXCEPT ![c] = done]
           taken == used - weight[c]
<1>1. kind' = kind /\ limit' = limit
  BY DEF config
<1>2. /\ phase \in [Callers -> Phases] /\ phase[c] = done
      /\ \A d \in Callers \ {c} : phase[d] = at[d]
  BY OrderlyFacts DEF Phases
<1>3. Notify(taken, queue, phase)
  OBVIOUS
<1> HIDE DEF phase
<1>4. at[c] # "waiting" /\ done \notin Taking
  BY DEF Taking
<1>5. \A d \in Callers :
         phase[d] = "waiting" <=> \E i \in 1..Len(queue) : queue[i] = d
  BY <1>2, <1>4, OrderlyFacts
<1>6. Held(phase, weight, Taking) = Held(at, weight, Taking) - weight[c]
  <2>1. /\ at[c] \in Taking /\ phase[c] \notin Taking
        /\ \A d \in Callers \ {c} : phase[d] \in Taking <=> at[d] \in Taking
        /\ \A d \in Callers \ {c} : at[d] \in Taking => weight[d] = weight[d]
        /\ weight \in [Callers -> Nat]
    BY <1>2, <1>4, OrderlyFacts
  <2> QED
    BY <2>1, HeldLess
<1>7. /\ taken = Held(phase, weight, Taking) /\ taken \in Nat
      /\ taken <= limit
  <2>1. Held(phase, weight, Taking) \in Nat
    BY OrderlyFacts, HeldNat
  <2>2. weight[c] \in Nat /\ used = Held(at, weight, Taking) /\ used <= limit
        /\ used \in Nat /\ limit \in Nat
    BY OrderlyFacts
  <2> QED
    BY <1>6, <2>1, <2>2
<1> HIDE DEF taken
<1>8. /\ CallsOK /\ queue \in Seq(Callers) /\ Distinct(queue)
      /\ \A d \in Callers :
             phase[d] \in Taking \cup {"waiting"} => weight'[d] = weight[d]
  BY <1>2, <1>4, OrderlyFacts DEF Orderly
<1>9. /\ at' \in [Callers -> Phases]
      /\ used' \in Nat /\ queue' \in Seq(Callers)
      /\ \A d \in Callers :
            at'[d] = phase[d] \/ (phase[d] = "waiting" /\ at'[d] = "woken")
      /\ Queued'
      /\ used' = Held(at', weight', Taking) /\ used' <= limit'
      /\ NoRoomWasted'
  BY <1>2, <1>3, <1>5, <1>7, <1>8, LineMoves
<1>10. /\ at'[c] = done
       /\ \A d \in Callers \ {c} :
              at'[d] = at[d] \/ (at[d] = "waiting" /\ at'[d] = "woken")
  BY <1>2, <1>9
<1>11. inFlight' \in Nat /\ inFlight' = Held(at', weight', {"holding"})
  <2>1. \A d \in Callers : at'[d] = "holding" <=> at[d] = "holding"
    BY <1>10
  <2>2. \A d \in Callers : at[d] = "holding" => weight'[d] = weight[d]
    OBVIOUS
  <2> QED
    BY <2>1, <2>2, CountKept
<1>12. CallsOK' /\ Booked'
  BY <1>1, <1>8, <1>9, <1>11 DEF CallsOK, Booked
<1> QED
  BY <1>9, <1>10, <1>12 DEF Orderly

\* Served too late, a caller gives its reservation back unused.
LEMMA TooLateOrderly ==
    ASSUME Orderly, NEW c \in Callers, ResumeTooLate(c)
    PROVE  /\ Orderly'
           /\ at'[c] = "outside"
           /\ \A d \in Callers \ {c} :
                 at'[d] = at[d] \/ (at[d] = "waiting" /\ at'[d] = "woken")
<1>1. /\ kind # "rate" /\ at[c] \in Taking \ {"holding"}
      /\ UNCHANGED <<config, inFlight>>
      /\ Notify(used - weight[c], queue, [at EXCEPT ![c] = "outside"])
      /\ weight' = [weight EXCEPT ![c] = 1]
  BY DEF ResumeTooLate, Forget, Taking
<1>2. /\ weight' \in [Callers -> 1..limit]
      /\ \A d \in Callers \ {c} : weight'[d] = weight[d]
  BY <1>1, OrderlyFacts
<1> QED
  BY <1>1, <1>2, ReturnOrderly

\* Released, a caller's reservation goes to those who wait.
LEMMA ReturnSlotOrderly ==
    ASSUME Orderly, kind # "rate", NEW c \in Callers, ReturnSlot(c)
    PROVE  /\ Orderly'
           /\ at'[c] = "released"
           /\ \A d \in Callers \ {c} :
                 at'[d] = at[d] \/ (at[d] = "waiting" /\ at'[d] = "woken")
<1>1. /\ at[c] \in Taking \ {"holding"} /\ UNCHANGED <<config, inFlight>>
      /\ Notify(used - weight[c], queue, [at EXCEPT ![c] = "released"])
      /\ weight' = weight
  BY DEF ReturnSlot, Taking
<1> QED
  BY <1>1, OrderlyFacts, ReturnOrderly

\* Starting to hold is counted.
LEMMA CountOrderly ==
    ASSUME Orderly, NEW c \in Callers, Count(c)
    PROVE  Orderly'
<1>1. /\ at[c] = "admitted" /\ UNCHANGED <<config, pool, weight>>
      /\ inFlight' = inFlight + weight[c] /\ at' = [at EXCEPT ![c] = "holding"]
  BY DEF Count, Goto
<1>2. /\ at' \in [Callers -> Phases] /\ at'[c] = "holding"
      /\ \A d \in Callers \ {c} : at'[d] = at[d]
      /\ weight \in [Callers -> Nat]
  BY <1>1, OrderlyFacts DEF Phases
<1>3. Held(at', weight, {"holding"}) = Held(at, weight, {"holding"}) + weight[c]
  <2>1. /\ at[c] \notin {"holding"} /\ at'[c] \in {"holding"}
        /\ \A d \in Callers \ {c} :
              /\ at'[d] \in {"holding"} <=> at[d] \in {"holding"}
              /\ at[d] \in {"holding"} => weight[d] = weight[d]
    BY <1>1, <1>2
  <2> QED
    BY <1>2, <2>1, HeldMore
<1>4. inFlight' \in Nat /\ inFlight' = Held(at', weight', {"holding"})
  BY <1>1, <1>2, <1>3, OrderlyFacts
<1>5. \A d \in Callers : /\ at'[d] = "waiting" <=> at[d] = "waiting"
                        /\ at'[d] \in Taking <=> at[d] \in Taking
  BY <1>1, <1>2 DEF Taking
<1>6. kind = "rate" => \A d \in Callers : weight'[d] = 1
  BY <1>1 DEF Orderly, Queued
<1> QED
  BY <1>1, <1>2, <1>4, <1>5, <1>6, OrderlyFacts, PoolKept

\* And release counts it back.
LEMMA ReleaseOrderly ==
    ASSUME Orderly, NEW c \in Callers, Release(c)
    PROVE  Orderly'
<1>1. /\ at[c] = "holding" /\ UNCHANGED <<config, pool, weight>>
      /\ inFlight' = inFlight - weight[c] /\ at' = [at EXCEPT ![c] = "leaving"]
  BY DEF Release, Goto
<1>2. /\ at' \in [Callers -> Phases] /\ at'[c] = "leaving"
      /\ \A d \in Callers \ {c} : at'[d] = at[d]
      /\ weight \in [Callers -> Nat]
  BY <1>1, OrderlyFacts DEF Phases
<1>3. Held(at', weight, {"holding"}) = Held(at, weight, {"holding"}) - weight[c]
  <2>1. /\ at[c] \in {"holding"} /\ at'[c] \notin {"holding"}
        /\ \A d \in Callers \ {c} :
              /\ at'[d] \in {"holding"} <=> at[d] \in {"holding"}
              /\ at[d] \in {"holding"} => weight[d] = weight[d]
    BY <1>1, <1>2
  <2> QED
    BY <1>2, <2>1, HeldLess
<1>4. inFlight' \in Nat /\ inFlight' = Held(at', weight', {"holding"})
  <2>1. Held(at', weight, {"holding"}) \in Nat
    BY <1>2, HeldNat
  <2> QED
    BY <1>1, <1>3, <2>1, OrderlyFacts
<1>5. \A d \in Callers : /\ at'[d] = "waiting" <=> at[d] = "waiting"
                        /\ at'[d] \in Taking <=> at[d] \in Taking
  BY <1>1, <1>2 DEF Taking
<1>6. kind = "rate" => \A d \in Callers : weight'[d] = 1
  BY <1>1 DEF Orderly, Queued
<1> QED
  BY <1>1, <1>2, <1>4, <1>5, <1>6, OrderlyFacts, PoolKept

\* One caller goes on without the pool: served, done, or at the token bucket.
LEMMA MovedOrderly ==
    ASSUME Orderly, NEW c \in Callers, NEW phase \in Phases \ {"holding"},
           UNCHANGED <<config, pool, inFlight>>, at[c] # "holding",
           at' = [at EXCEPT ![c] = phase],
           weight' = weight \/ weight' = [weight EXCEPT ![c] = 1],
           kind # "rate" =>
              /\ at[c] # "waiting" /\ phase # "waiting"
              /\ phase \in Taking <=> at[c] \in Taking
              /\ at[c] \in Taking => weight' = weight
    PROVE  Orderly'
<1>1. /\ at' \in [Callers -> Phases] /\ at'[c] = phase
      /\ \A d \in Callers \ {c} : at'[d] = at[d]
  BY OrderlyFacts
<1>2. /\ weight' \in [Callers -> 1..limit]
      /\ \A d \in Callers \ {c} : weight'[d] = weight[d]
  BY OrderlyFacts
<1>3. inFlight' \in Nat /\ inFlight' = Held(at', weight', {"holding"})
  <2>1. \A d \in Callers : at'[d] = "holding" <=> at[d] = "holding"
    BY <1>1
  <2>2. \A d \in Callers : at[d] = "holding" => weight'[d] = weight[d]
    BY <1>2
  <2> QED
    BY <2>1, <2>2, CountKept
<1>4. kind # "rate" =>
         \A d \in Callers :
            /\ at'[d] = "waiting" <=> at[d] = "waiting"
            /\ at'[d] \in Taking <=> at[d] \in Taking
            /\ at[d] \in Taking \cup {"waiting"} => weight'[d] = weight[d]
  BY <1>1, <1>2
<1>5. kind = "rate" => \A d \in Callers : weight'[d] = 1
  <2>1. kind = "rate" => \A d \in Callers : weight[d] = 1
    BY DEF Orderly, Queued
  <2>2. weight'[c] \in {1, weight[c]}
    BY OrderlyFacts
  <2> QED
    BY <1>2, <2>1, <2>2
<1> QED
  BY <1>1, <1>2, <1>3, <1>4, <1>5, PoolKept

\* The limiter is made with nothing taken and nobody in line.
LEMMA InitOrderly == Init => Orderly
<1> SUFFICES ASSUME Init PROVE Orderly
  OBVIOUS
<1>1. /\ limit \in Nat \ {0} /\ kind \in Kinds
      /\ at = [c \in Callers |-> "outside"] /\ weight = [c \in Callers |-> 1]
      /\ used = 0 /\ queue = << >> /\ inFlight = 0
  BY LimiterAssumption DEF Init, Clamp
<1>2. ASSUME NEW phases \in {Taking, {"holding"}}
      PROVE  Held(at, weight, phases) = 0
  <2>1. {c \in Callers : at[c] \in phases} = {}
    BY <1>1, <1>2 DEF Taking
  <2> QED
    BY <2>1, SumEmpty DEF Held
<1>3. CallsOK
  BY <1>1 DEF CallsOK, Phases
<1>4. Queued
  BY <1>1 DEF Queued, Distinct
<1>5. Booked
  BY <1>1, <1>2 DEF Booked
<1>6. NoRoomWasted
  BY <1>1 DEF NoRoomWasted
<1> QED
  BY <1>3, <1>4, <1>5, <1>6 DEF Orderly

\* Every step keeps the order.
LEMMA OrderlyStep == Orderly /\ [Next]_vars => Orderly'
<1> SUFFICES ASSUME Orderly, [Next]_vars PROVE Orderly'
  OBVIOUS
<1>1. ASSUME NEW c \in Callers, NEW w \in Weights, Acquire(c, w)
      PROVE  Orderly'
  BY <1>1, AcquireOrderly
<1>2. ASSUME NEW c \in Callers, Reserve(c)
      PROVE  Orderly'
  BY <1>2, MovedOrderly DEF Reserve, Goto, Phases
<1>3. ASSUME NEW c \in Callers, Abandon(c)
      PROVE  Orderly'
  BY <1>3, AbandonOrderly
<1>4. ASSUME NEW c \in Callers, GiveUpToken(c) \/ TokenDue(c)
      PROVE  Orderly'
  BY <1>4, MovedOrderly DEF GiveUpToken, TokenDue, Goto, Phases, bucket
<1>5. ASSUME NEW c \in Callers, Resume(c) \/ Again(c)
      PROVE  Orderly'
  BY <1>5, MovedOrderly DEF Resume, Again, Goto, Forget, Phases, Taking, bucket
<1>6. ASSUME NEW c \in Callers, ResumeTooLate(c)
      PROVE  Orderly'
  BY <1>6, TooLateOrderly
<1>7. ASSUME NEW c \in Callers, Count(c)
      PROVE  Orderly'
  BY <1>7, CountOrderly
<1>8. ASSUME NEW c \in Callers, Release(c)
      PROVE  Orderly'
  BY <1>8, ReleaseOrderly
<1>9. ASSUME NEW c \in Callers, ReturnSlot(c)
      PROVE  Orderly'
  <2>1. CASE kind = "rate"
    BY <1>9, <2>1, MovedOrderly DEF ReturnSlot, Goto, Phases
  <2>2. CASE kind # "rate"
    BY <1>9, <2>2, ReturnSlotOrderly
  <2> QED
    BY <2>1, <2>2
<1>10. CASE UNCHANGED <<config, calls, pool, inFlight>>
  BY <1>10
     DEF config, calls, pool, Orderly, CallsOK, Queued, Distinct, Booked, Held,
         NoRoomWasted
<1>11. CASE Tick \/ UNCHANGED vars
  BY <1>10, <1>11 DEF Tick, vars
<1> QED
  BY <1>1, <1>2, <1>3, <1>4, <1>5, <1>6, <1>7, <1>8, <1>9, <1>11
     DEF Next, Proceed

\* The types of the bucket.
BucketTyped ==
    next \in Nat /\ slot \in [Callers -> Nat] /\ since \in 0..Interval

\* Every step keeps them.
LEMMA BucketTypedStep ==
    ASSUME BucketTyped, [Next]_vars
    PROVE  BucketTyped'
<1> USE LimiterAssumption
<1>1. CASE UNCHANGED bucket
  BY <1>1 DEF bucket, BucketTyped
<1>2. ASSUME NEW c \in Callers, Reserve(c) \/ GiveUpToken(c)
      PROVE  BucketTyped'
  BY <1>2 DEF Reserve, GiveUpToken, BucketTyped
<1>3. CASE Tick
  <2>1. \A n \in Nat : Sooner(n) \in Nat
    BY DEF Sooner
  <2>2. next' \in Nat /\ slot' \in [Callers -> Nat]
    BY <1>3, <2>1 DEF Tick, BucketTyped
  <2>3. since' \in 0..Interval
    BY <1>3 DEF Tick, BucketTyped
  <2> QED
    BY <2>2, <2>3 DEF BucketTyped
<1> QED
  BY <1>1, <1>2, <1>3
     DEF Next, Proceed, Acquire, Abandon, Resume, ResumeTooLate, TokenDue,
         Count, Release, ReturnSlot, Again, vars

\* The variables keep their types: a limit that lets somebody in, weights
\* within it, counts that never become negative.
THEOREM TypeCorrect == Spec => []TypeOK
<1>1. Init => BucketTyped
  BY LimiterAssumption DEF Init, BucketTyped
<1>2. Orderly /\ BucketTyped => TypeOK
  BY DEF Orderly, CallsOK, BucketTyped, TypeOK
<1>3. BucketTyped /\ [Next]_vars => BucketTyped'
  BY BucketTypedStep
<1> QED
  BY InitOrderly, OrderlyStep, <1>1, <1>2, <1>3, PTL DEF Spec

\* What a limiter has given out is what the callers between admission and
\* release hold, for every number of callers, limit and weights: contexts that
\* end while waiting or just as they are served lose and return nothing twice.
THEOREM AccountsBalance == Spec => []UsedIsHeld
<1>1. Orderly => UsedIsHeld
  BY DEF Orderly, Booked, UsedIsHeld, Held, Sum
<1> QED
  BY InitOrderly, OrderlyStep, <1>1, PTL DEF Spec

\* And no room is left unused that the first in line would fit in: every step
\* that frees room, or removes the first, moves the line up.
THEOREM RoomIsUsed == Spec => []NoRoomWasted
<1>1. Orderly => NoRoomWasted
  BY DEF Orderly
<1> QED
  BY InitOrderly, OrderlyStep, <1>1, PTL DEF Spec

------------------------------------------------------------------------
(* The limiters implement Admission.                                       *)

\* The phases between admission and release.
Inside == {"admitted", "holding", "leaving"}

\* What the refinement mapping shows of f and w, and what it makes of a limit.
Shown(f, w) == [c \in Callers |-> IF f[c] \in Inside THEN w[c] ELSE 0]
Bound(k, n) == IF k = "rate" THEN Cardinality(Callers) ELSE n

\* Its total is what those inside hold.
LEMMA ShownTotal ==
    ASSUME NEW f, NEW w \in [Callers -> Nat]
    PROVE  SumFunction(Shown(f, w)) = Held(f, w, Inside)
<1> DEFINE h == Shown(f, w)
           T == {c \in Callers : f[c] \in Inside}
<1>1. SumFunction(h) = SumFunctionOnSet(h, Callers)
  BY DEF SumFunction, Shown
<1>2. /\ T \in SUBSET Callers /\ IsFiniteSet(T)
      /\ \A c \in T : h[c] \in Int
      /\ \A c \in T : h[c] = w[c]
      /\ \A c \in Callers \ T : h[c] = 0
  BY LimiterAssumption, FS_Subset DEF Shown
<1> HIDE DEF h, T
<1>3. SumFunctionOnSet(h, Callers) = SumFunctionOnSet(h, T)
  BY <1>2, LimiterAssumption, SumZeros
<1>4. SumFunctionOnSet(h, T) = SumFunctionOnSet(w, T)
  BY <1>2, SumSame
<1> QED
  BY <1>1, <1>3, <1>4 DEF Held, T, h

\* Those inside hold no more than was taken, and there are no more of them than
\* callers.
LEMMA InsideBound ==
    ASSUME NEW f, NEW w \in [Callers -> Nat]
    PROVE  /\ Held(f, w, Inside) <= Held(f, w, Taking)
           /\ (\A c \in Callers : w[c] = 1)
                 => Held(f, w, Inside) <= Cardinality(Callers)
<1> DEFINE S == {c \in Callers : f[c] \in Inside}
           T == {c \in Callers : f[c] \in Taking}
<1>1. /\ S \in SUBSET T /\ IsFiniteSet(T) /\ IsFiniteSet(S)
      /\ \A c \in T : w[c] \in Nat
      /\ S \in SUBSET Callers
  BY LimiterAssumption, FS_Subset DEF Inside, Taking
<1> HIDE DEF S, T
<1>2. SumFunctionOnSet(w, S) <= SumFunctionOnSet(w, T)
  BY <1>1, SumWithin
<1>3. ASSUME \A c \in Callers : w[c] = 1
      PROVE  SumFunctionOnSet(w, S) <= Cardinality(Callers)
  <2>1. \A c \in S : w[c] \in 0..1
    BY <1>1, <1>3
  <2>2. SumFunctionOnSet(w, S) <= Cardinality(S)
    BY <1>1, <2>1, SumCount
  <2>3. /\ Cardinality(S) <= Cardinality(Callers)
        /\ Cardinality(S) \in Nat /\ Cardinality(Callers) \in Nat
    BY <1>1, LimiterAssumption, FS_Subset, FS_CardinalityType
  <2>4. SumFunctionOnSet(w, S) \in Nat
    BY <1>1, SumNat
  <2> QED
    BY <2>2, <2>3, <2>4
<1> QED
  BY <1>2, <1>3 DEF Held, S, T

\* A step after which one more caller is inside admits it: there was room.
LEMMA Enters ==
    ASSUME Orderly, Orderly', UNCHANGED config, NEW c \in Callers,
           at[c] \notin Inside, at'[c] \in Inside,
           \A d \in Callers \ {c} : at'[d] \in Inside <=> at[d] \in Inside,
           \A d \in Callers \ {c} : at[d] \in Inside => weight'[d] = weight[d]
    PROVE  Admitted!Admit(c)
<1> DEFINE h == Shown(at, weight)
           room == Bound(kind, limit) - Held(at, weight, Inside)
<1>1. /\ weight \in [Callers -> Nat] /\ weight' \in [Callers -> Nat]
      /\ weight'[c] >= 1 /\ limit \in Nat
      /\ kind' = kind /\ limit' = limit
  BY OrderlyFacts DEF Orderly, CallsOK, config
<1>2. Held(at', weight', Inside) = Held(at, weight, Inside) + weight'[c]
  BY <1>1, HeldMore
<1>3. /\ Held(at', weight', Inside) <= Bound(kind, limit)
      /\ Bound(kind, limit) \in Nat
  <2>1. CASE kind = "rate"
    <3>1. \A d \in Callers : weight'[d] = 1
      BY <1>1, <2>1 DEF Orderly, Queued
    <3>2. Held(at', weight', Inside) <= Cardinality(Callers)
      BY <1>1, <3>1, InsideBound
    <3> QED
      BY <2>1, <3>2, LimiterAssumption, FS_CardinalityType DEF Bound
  <2>2. CASE kind # "rate"
    <3>1. Held(at', weight', Inside) <= Held(at', weight', Taking)
      BY <1>1, InsideBound
    <3>2. Held(at', weight', Taking) <= limit
      BY <1>1, <2>2 DEF Orderly, Booked
    <3>3. /\ Held(at', weight', Inside) \in Nat
          /\ Held(at', weight', Taking) \in Nat
      BY <1>1, HeldNat
    <3> QED
      BY <1>1, <2>2, <3>1, <3>2, <3>3 DEF Bound
  <2> QED
    BY <2>1, <2>2
<1>4. weight'[c] \in 1..room
  <2>1. Held(at, weight, Inside) \in Nat /\ weight'[c] \in Nat
    BY <1>1, HeldNat
  <2> QED
    BY <1>1, <1>2, <1>3, <2>1
<1>5. Shown(at', weight') = [h EXCEPT ![c] = weight'[c]]
  BY DEF Shown
<1>6. h[c] = 0 /\ SumFunction(h) = Held(at, weight, Inside)
  BY <1>1, ShownTotal DEF Shown
<1>7. Bound(kind', limit') = Bound(kind, limit)
  BY <1>1
<1>8. Admitted!Total = Held(at, weight, Inside)
  <2>1. SumFunction(h) = Admitted!Total
    BY DEF Shown, Inside, SumFunction, SumFunctionOnSet, FoldFunctionOnSet,
           MapThenFoldSet, Admitted!Total, Admitted!SumFunction,
           Admitted!SumFunctionOnSet, Admitted!FoldFunctionOnSet,
           Admitted!MapThenFoldSet
  <2> QED
    BY <1>6, <2>1
<1> HIDE DEF h
<1>9. /\ h = [d \in Callers |-> IF at[d] \in {"admitted", "holding", "leaving"}
                                THEN weight[d] ELSE 0]
      /\ Shown(at', weight')
           = [d \in Callers |-> IF at'[d] \in {"admitted", "holding", "leaving"}
                               THEN weight'[d] ELSE 0]
  BY DEF h, Shown, Inside
<1> QED
  BY <1>4, <1>5, <1>6, <1>7, <1>8, <1>9 DEF Admitted!Admit, Bound

\* A step after which one caller fewer is inside takes all of its weight back.
LEMMA Leaves ==
    ASSUME Orderly, UNCHANGED config, NEW c \in Callers,
           at[c] \in Inside, at'[c] \notin Inside,
           \A d \in Callers \ {c} : at'[d] \in Inside <=> at[d] \in Inside,
           \A d \in Callers \ {c} : at[d] \in Inside => weight'[d] = weight[d]
    PROVE  Admitted!Leave(c)
<1>1. weight[c] # 0 /\ kind' = kind /\ limit' = limit
  BY OrderlyFacts DEF config
<1>2. /\ Shown(at', weight') = [Shown(at, weight) EXCEPT ![c] = 0]
      /\ Shown(at, weight)[c] # 0
  BY <1>1 DEF Shown
<1> QED
  BY <1>1, <1>2 DEF Admitted!Leave, Shown, Inside

\* Any other step shows nothing.
LEMMA Stays ==
    ASSUME UNCHANGED config,
           \A d \in Callers : at'[d] \in Inside <=> at[d] \in Inside,
           \A d \in Callers : at[d] \in Inside => weight'[d] = weight[d]
    PROVE  /\ Bound(kind', limit') = Bound(kind, limit)
           /\ Shown(at', weight') = Shown(at, weight)
<1>1. kind' = kind /\ limit' = limit
  BY DEF config
<1> QED
  BY <1>1 DEF Bound, Shown

\* Every step of a limiter admits one caller, takes back from one, or does
\* nothing that Admission sees.
LEMMA StepAdmits ==
    ASSUME Orderly, Orderly', [Next]_vars
    PROVE  \/ \E c \in Callers : Admitted!Admit(c) \/ Admitted!Leave(c)
           \/ /\ Bound(kind', limit') = Bound(kind, limit)
              /\ Shown(at', weight') = Shown(at, weight)
<1> DEFINE Seen ==
             \/ \E c \in Callers : Admitted!Admit(c) \/ Admitted!Leave(c)
             \/ /\ Bound(kind', limit') = Bound(kind, limit)
                /\ Shown(at', weight') = Shown(at, weight)
<1> SUFFICES Seen
  OBVIOUS
<1> HIDE DEF Seen
<1>a. ASSUME NEW c \in Callers, Admitted!Admit(c) \/ Admitted!Leave(c)
      PROVE  Seen
  BY <1>a DEF Seen
<1>b. ASSUME UNCHANGED config,
             \A d \in Callers : at'[d] \in Inside <=> at[d] \in Inside,
             \A d \in Callers : at[d] \in Inside => weight'[d] = weight[d]
      PROVE  Seen
  BY <1>b, Stays DEF Seen
<1>1. ASSUME NEW c \in Callers, NEW w \in Weights, Acquire(c, w) PROVE Seen
  <2>1. /\ at[c] = "outside" /\ UNCHANGED config
        /\ \A d \in Callers \ {c} : weight'[d] = weight[d] /\ at'[d] = at[d]
        /\ at'[c] \in {"admitted", "waiting"}
    BY <1>1, OrderlyFacts DEF Acquire, Goto
  <2>2. CASE at'[c] = "admitted"
    BY <1>a, <2>1, <2>2, Enters DEF Inside
  <2>3. CASE at'[c] = "waiting"
    BY <1>b, <2>1, <2>3 DEF Inside
  <2> QED
    BY <2>1, <2>2, <2>3
<1>2. ASSUME NEW c \in Callers, Reserve(c) PROVE Seen
  <2>1. /\ at[c] = "outside" /\ UNCHANGED config
        /\ \A d \in Callers \ {c} : weight'[d] = weight[d] /\ at'[d] = at[d]
        /\ at'[c] \in {"admitted", "waiting"}
    BY <1>2, OrderlyFacts DEF Reserve, Goto
  <2>2. CASE at'[c] = "admitted"
    BY <1>a, <2>1, <2>2, Enters DEF Inside
  <2>3. CASE at'[c] = "waiting"
    BY <1>b, <2>1, <2>3 DEF Inside
  <2> QED
    BY <2>1, <2>2, <2>3
<1>3. ASSUME NEW c \in Callers, Resume(c) \/ TokenDue(c) PROVE Seen
  <2>1. /\ at[c] \notin Inside /\ at'[c] \in Inside /\ UNCHANGED config
        /\ \A d \in Callers \ {c} : weight'[d] = weight[d] /\ at'[d] = at[d]
    BY <1>3, OrderlyFacts DEF Resume, TokenDue, Goto, Inside
  <2> QED
    BY <1>a, <2>1, Enters
<1>4. ASSUME NEW c \in Callers, Count(c) \/ Release(c) PROVE Seen
  <2>1. /\ at[c] \in Inside /\ at'[c] \in Inside /\ UNCHANGED config
        /\ weight' = weight /\ \A d \in Callers \ {c} : at'[d] = at[d]
    BY <1>4, OrderlyFacts DEF Count, Release, Goto, Inside
  <2> QED
    BY <1>b, <2>1
<1>5. ASSUME NEW c \in Callers, GiveUpToken(c) \/ Again(c) PROVE Seen
  <2>1. /\ at[c] \notin Inside /\ at'[c] \notin Inside /\ UNCHANGED config
        /\ \A d \in Callers \ {c} : weight'[d] = weight[d] /\ at'[d] = at[d]
    BY <1>5, OrderlyFacts DEF GiveUpToken, Again, Goto, Forget, Inside
  <2> QED
    BY <1>b, <2>1
<1>6. ASSUME NEW c \in Callers, Abandon(c) PROVE Seen
  <2>1. /\ at[c] = "waiting" /\ at'[c] = "outside" /\ UNCHANGED config
        /\ \A d \in Callers \ {c} :
              at'[d] = at[d] \/ (at[d] = "waiting" /\ at'[d] = "woken")
        /\ \A d \in Callers \ {c} : weight'[d] = weight[d]
    BY <1>6, AbandonOrderly, OrderlyFacts DEF Abandon, Forget
  <2> QED
    BY <1>b, <2>1 DEF Inside
<1>7. ASSUME NEW c \in Callers, ResumeTooLate(c) PROVE Seen
  <2>1. /\ at[c] = "woken" /\ at'[c] = "outside" /\ UNCHANGED config
        /\ \A d \in Callers \ {c} :
              at'[d] = at[d] \/ (at[d] = "waiting" /\ at'[d] = "woken")
        /\ \A d \in Callers \ {c} : weight'[d] = weight[d]
    BY <1>7, TooLateOrderly, OrderlyFacts DEF ResumeTooLate, Forget
  <2> QED
    BY <1>b, <2>1 DEF Inside
<1>8. ASSUME NEW c \in Callers, ReturnSlot(c) PROVE Seen
  <2>1. at[c] = "leaving" /\ UNCHANGED config /\ weight' = weight
    BY <1>8 DEF ReturnSlot
  <2>2. /\ at'[c] = "released"
        /\ \A d \in Callers \ {c} :
              at'[d] = at[d] \/ (at[d] = "waiting" /\ at'[d] = "woken")
    <3>1. CASE kind = "rate"
      BY <1>8, <3>1, OrderlyFacts DEF ReturnSlot, Goto
    <3>2. CASE kind # "rate"
      BY <1>8, <3>2, ReturnSlotOrderly
    <3> QED
      BY <3>1, <3>2
  <2> QED
    BY <1>a, <2>1, <2>2, Leaves DEF Inside
<1>9. CASE Tick \/ UNCHANGED vars
  BY <1>b, <1>9 DEF Tick, vars, calls, config
<1> QED
  BY <1>1, <1>2, <1>3, <1>4, <1>5, <1>6, <1>7, <1>8, <1>9 DEF Next, Proceed

\* Each limiter is an Admission, for every number of callers: whoever it admits
\* there was room for, and what was held comes back at once and one time.
THEOREM LimitersAdmit == Spec => ImplementsAdmission
<1>1. Init => Admitted!Init
  <2> SUFFICES ASSUME Init PROVE Admitted!Init
    OBVIOUS
  <2>1. limit \in Nat \ {0} /\ at = [c \in Callers |-> "outside"]
    BY LimiterAssumption DEF Init, Clamp
  <2>2. Cardinality(Callers) \in Nat \ {0}
    BY LimiterAssumption, FS_CardinalityType, FS_EmptySet
  <2> QED
    BY <2>1, <2>2 DEF Admitted!Init
<1>2. Orderly /\ Orderly' /\ [Next]_vars
        => [Admitted!Next]_<<Bound(kind, limit), Shown(at, weight)>>
  BY StepAdmits DEF Admitted!Next
<1>3. Orderly /\ Orderly' /\ [Next]_vars
        => [Admitted!Next]_<<
              IF kind = "rate" THEN Cardinality(Callers) ELSE limit,
              [c \in Callers |->
                  IF at[c] \in {"admitted", "holding", "leaving"}
                  THEN weight[c] ELSE 0]>>
  BY <1>2 DEF Bound, Shown, Inside
<1> QED
  BY InitOrderly, OrderlyStep, <1>1, <1>3, PTL
     DEF Spec, ImplementsAdmission, Admitted!Spec
============================================================================
