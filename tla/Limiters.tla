------------------------------ MODULE Limiters -----------------------------
(***************************************************************************)
(* internal/pipeline/limiter.go: the three limiters behind one interface.  *)
(* A FixedLimiter is a buffered channel, a ByteLimiter a weighted          *)
(* semaphore, a RateLimiter a token bucket that holds one token.  The      *)
(* channel and the semaphore both keep their waiters in a queue, so they   *)
(* are one machine here: the first with weights of one.                    *)
(*                                                                         *)
(* A caller asks, waits, is admitted and counted, and calls release; each  *)
(* is a step.  The context it asked with may end while it waits, and as it *)
(* is served; before that nothing is changed by it, and after that the     *)
(* limiter no longer looks.  The channel, the semaphore and the bucket are *)
(* libraries: what they do is external.                                    *)
(***************************************************************************)
EXTENDS Integers, SequencesExt

CONSTANTS
    Callers,   \* goroutines, each with one call at a time
    Kinds,     \* which limiters: "fixed", "byte", "rate"
    Settings,  \* the limits a configuration may ask for, sensible or not
    Weights,   \* what a caller may ask for
    Interval,  \* ticks between two admissions of a RateLimiter
    Horizon    \* bound: how far ahead a token may be reserved

ASSUME LimiterAssumption ==
    /\ IsFiniteSet(Callers) /\ Callers # {}
    /\ Kinds \subseteq {"fixed", "byte", "rate"}
    /\ Settings \subseteq Int
    /\ Weights \subseteq Nat
    /\ Interval \in Nat \ {0}
    /\ Horizon \in Nat

VARIABLES
    kind, limit,  \* which limiter this is, and its bound: neither changes
    at,           \* what each caller is doing
    weight,       \* what its reservation weighs
    used, queue,  \* the semaphore: what is taken, and who waits
    inFlight,     \* the limiter's own count, which metrics read
    next, slot,   \* the bucket: ticks until a token is free; until a caller's
    since         \* ticks since a token was last due, up to Interval: history

config == <<kind, limit>>
calls  == <<at, weight>>
pool   == <<used, queue>>
bucket == <<next, slot, since>>
vars   == <<config, calls, pool, inFlight, bucket>>

Phases == {"outside", "waiting", "woken", "admitted", "holding", "leaving",
           "released"}

TypeOK ==
    /\ kind \in Kinds /\ limit \in Nat \ {0}
    /\ at \in [Callers -> Phases]
    /\ weight \in [Callers -> 1..limit]
    /\ used \in Nat /\ queue \in Seq(Callers)
    /\ inFlight \in Nat
    /\ next \in Nat /\ slot \in [Callers -> Nat] /\ since \in 0..Interval

\* Mutant of Clamp: the limit is taken as configured.
Unclamped(n) == n

\* NewFixedLimiter and NewByteLimiter: a limit below one would let nobody in.
Clamp(n) == IF n < 1 THEN 1 ELSE n

Init ==
    /\ kind \in Kinds
    /\ \E n \in Settings : limit = Clamp(n)
    /\ at = [c \in Callers |-> "outside"]
    /\ weight = [c \in Callers |-> 1]
    /\ used = 0 /\ queue = << >>
    /\ inFlight = 0
    /\ next = 0 /\ slot = [c \in Callers |-> 0] /\ since = Interval

Goto(c, phase) == at' = [at EXCEPT ![c] = phase]

\* A call that is over leaves no reservation.
Forget(c) == weight' = [weight EXCEPT ![c] = 1]

------------------------------------------------------------------------
(* Waiting in line: the channel and the semaphore.                         *)

\* What the first k in the line ask for, and how many of them fit.
Demand(line, k) == SumFunctionOnSet([i \in 1..Len(line) |-> weight[line[i]]],
                                    1..k)
Fitting(line, room) == Max({k \in 0..Len(line) : Demand(line, k) <= room})

\* The line moves up: waiters are served from the front, and the first that
\* does not fit holds up those behind it.
Notify(taken, line, phase) ==
    LET k == Fitting(line, limit - taken)
    IN  /\ used' = taken + Demand(line, k)
        /\ queue' = SubSeq(line, k + 1, Len(line))
        /\ at' = [c \in Callers |-> IF \E i \in 1..k : line[i] = c
                                    THEN "woken" ELSE phase[c]]

\* Mutant of Effective: what is larger than the budget asks for all of it.
EffectiveUnclamped(w) == IF kind # "byte" \/ w < 1 THEN 1 ELSE w

\* Only a ByteLimiter looks at the weight: an empty object still occupies it,
\* and one larger than the budget goes through alone.
Effective(w) ==
    IF kind # "byte" \/ w < 1 THEN 1 ELSE IF w > limit THEN limit ELSE w

\* Acquire, for a weight that is not refused.  A limiter that refuses, for the
\* weight or for a context that has ended already, is left as it was.
Acquire(c, w) ==
    /\ kind # "rate" /\ at[c] = "outside"
    /\ weight' = [weight EXCEPT ![c] = Effective(w)]
    /\ IF queue = << >> /\ used + Effective(w) <= limit
       THEN /\ used' = used + Effective(w) /\ Goto(c, "admitted")
            /\ UNCHANGED queue
       ELSE /\ queue' = Append(queue, c) /\ Goto(c, "waiting")
            /\ UNCHANGED used
    /\ UNCHANGED <<config, inFlight, bucket>>

\* Mutant of Abandon: the one who leaves the front does not look behind.
AbandonSilently(c) ==
    /\ kind # "rate" /\ at[c] = "waiting"
    /\ queue' = RemoveFirst(queue, c)
    /\ Goto(c, "outside") /\ Forget(c)
    /\ UNCHANGED <<config, used, inFlight, bucket>>

\* A waiter's context ends; if it was in front, those behind it may now fit.
Abandon(c) ==
    /\ kind # "rate" /\ at[c] = "waiting"
    /\ Notify(used, RemoveFirst(queue, c),
              [at EXCEPT ![c] = "outside"])
    /\ Forget(c)
    /\ UNCHANGED <<config, inFlight, bucket>>

\* A waiter that was served runs again.  One whose context has ended by then
\* gives the bytes back; a slot of the channel it keeps.
Resume(c) ==
    /\ at[c] = "woken"
    /\ Goto(c, "admitted")
    /\ UNCHANGED <<config, weight, pool, inFlight, bucket>>

ResumeTooLate(c) ==
    /\ at[c] = "woken" /\ kind = "byte"
    /\ Notify(used - weight[c], queue, [at EXCEPT ![c] = "outside"])
    /\ Forget(c)
    /\ UNCHANGED <<config, inFlight, bucket>>

------------------------------------------------------------------------
(* Waiting for a token: rate.Limiter with a burst of one.                  *)

\* Wait reserves the next token, due at once or later.
Reserve(c) ==
    /\ kind = "rate" /\ at[c] = "outside" /\ next <= Horizon
    /\ weight' = [weight EXCEPT ![c] = 1]
    /\ slot' = [slot EXCEPT ![c] = next]
    /\ next' = next + Interval
    /\ IF next = 0 THEN Goto(c, "admitted") /\ since' = 0
                   ELSE Goto(c, "waiting") /\ UNCHANGED since
    /\ UNCHANGED <<config, pool, inFlight>>

TokenDue(c) ==
    /\ kind = "rate" /\ at[c] = "waiting" /\ slot[c] = 0
    /\ Goto(c, "admitted")
    /\ UNCHANGED <<config, weight, pool, inFlight, bucket>>

\* Mutant of GiveUpToken: the token is put back though later ones are out.
GiveUpAnyToken(c) ==
    /\ kind = "rate" /\ at[c] = "waiting"
    /\ next' = IF slot[c] > 0 THEN next - Interval ELSE next
    /\ slot' = [slot EXCEPT ![c] = 0]
    /\ Goto(c, "outside")
    /\ UNCHANGED <<config, weight, pool, inFlight, since>>

\* The context ends first.  A reservation that is still the last one, and not
\* yet due, is undone; one with others after it is lost.
GiveUpToken(c) ==
    /\ kind = "rate" /\ at[c] = "waiting"
    /\ next' = IF slot[c] > 0 /\ slot[c] + Interval = next THEN slot[c]
               ELSE next
    /\ slot' = [slot EXCEPT ![c] = 0]
    /\ Goto(c, "outside")
    /\ UNCHANGED <<config, weight, pool, inFlight, since>>

Sooner(n) == IF n = 0 THEN 0 ELSE n - 1

Tick ==
    /\ kind = "rate"
    /\ next' = Sooner(next)
    /\ slot' = [c \in Callers |-> Sooner(slot[c])]
    /\ since' = IF \E c \in Callers : at[c] = "waiting" /\ slot[c] = 1 THEN 0
                ELSE IF since < Interval THEN since + 1 ELSE since
    /\ UNCHANGED <<config, calls, pool, inFlight>>

------------------------------------------------------------------------
(* Holding and releasing.                                                  *)

\* Acquire counts what it was given and returns.
Count(c) ==
    /\ at[c] = "admitted"
    /\ inFlight' = inFlight + weight[c]
    /\ Goto(c, "holding")
    /\ UNCHANGED <<config, weight, pool, bucket>>

\* Mutant of Release: without the flag, a second call counts again.
ReleaseTwice(c) ==
    /\ at[c] \in {"holding", "released"}
    /\ inFlight' = inFlight - weight[c]
    /\ Goto(c, "leaving")
    /\ UNCHANGED <<config, weight, pool, bucket>>

\* The release function, up to the return of what was taken.  The flag makes
\* every later call a call that does nothing.
Release(c) ==
    /\ at[c] = "holding"
    /\ inFlight' = inFlight - weight[c]
    /\ Goto(c, "leaving")
    /\ UNCHANGED <<config, weight, pool, bucket>>

ReturnSlot(c) ==
    /\ at[c] = "leaving"
    /\ IF kind = "rate"
       THEN Goto(c, "released") /\ UNCHANGED pool
       ELSE Notify(used - weight[c], queue, [at EXCEPT ![c] = "released"])
    /\ UNCHANGED <<config, weight, inFlight, bucket>>

Again(c) ==
    /\ at[c] = "released"
    /\ Goto(c, "outside") /\ Forget(c)
    /\ UNCHANGED <<config, pool, inFlight, bucket>>

------------------------------------------------------------------------

Proceed(c) ==
    \/ Resume(c) \/ ResumeTooLate(c) \/ TokenDue(c) \/ Count(c)
    \/ Release(c) \/ ReturnSlot(c)

Next ==
    \/ \E c \in Callers :
          \/ \E w \in Weights : Acquire(c, w)
          \/ Reserve(c) \/ Abandon(c) \/ GiveUpToken(c)
          \/ Proceed(c) \/ Again(c)
    \/ Tick

Spec == Init /\ [][Next]_vars

\* Whoever is admitted calls release in the end (the interface asks it), the
\* goroutines run and time passes.  Nobody has to come, or to give up.
FairSpec == Spec /\ WF_vars(Tick) /\ \A c \in Callers : WF_vars(Proceed(c))

------------------------------------------------------------------------
(* Properties.                                                             *)

Taking == {"woken", "admitted", "holding", "leaving"}
Sum(phases) == SumFunctionOnSet(weight, {c \in Callers : at[c] \in phases})

\* What is taken is what the callers between admission and release hold, never
\* more than the limit: none is lost when a context ends just as its turn
\* comes, or returned twice.  The count that metrics read is never above it.
UsedIsHeld ==
    /\ kind # "rate" => used = Sum(Taking) /\ used <= limit
    /\ inFlight = Sum({"holding"})

\* Nobody in front waits for room there is: a release, or a waiter that gives
\* up, lets in all of those behind it that now fit.
NoRoomWasted ==
    queue # << >> => used + weight[Head(queue)] > limit

\* The tokens of a RateLimiter fall due at least Interval apart, whatever was
\* reserved and given up in between; idle time does not add up to a burst.
Paced ==
    kind = "rate" =>
        /\ next + since >= Interval
        /\ \A c \in Callers :
              at[c] = "waiting" /\ slot[c] > 0 =>
                 /\ slot[c] + since >= Interval
                 /\ slot[c] + Interval <= next
                 /\ \A d \in Callers :
                       at[d] = "waiting" /\ slot[d] > slot[c]
                           => slot[d] - slot[c] >= Interval

\* The callers between admission and release, as Admission sees them.  A
\* RateLimiter bounds no number of them.
Admitted == INSTANCE Admission
            WITH limit <- IF kind = "rate" THEN Cardinality(Callers) ELSE limit,
                 held <- [c \in Callers |->
                            IF at[c] \in {"admitted", "holding", "leaving"}
                            THEN weight[c] ELSE 0]

\* Each limiter admits one caller at a time and only into what is free, and
\* takes back exactly what it gave: what Fetch and Lanes assume of it.
ImplementsAdmission == Admitted!Spec

\* Nobody waits for ever: a large object is not passed over for small ones,
\* however many come, and no configured limit is too small to let anybody in.
EveryWaiterServed ==
    \A c \in Callers : at[c] = "waiting" ~> at[c] # "waiting"
============================================================================
