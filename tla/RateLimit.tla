----------------------------- MODULE RateLimit -----------------------------
(***************************************************************************)
(* The fixed-window limit on one merchant's order writes: allowWrite of      *)
(* internal/api/server.go on either limiter of internal/ratelimit, the       *)
(* MemoryLimiter, whose bucket is under a mutex, or the RedisLimiter, whose   *)
(* script increments a key and gives it its expiry in one step.               *)
(*                                                                         *)
(* Time is counted down: left is the time until the bucket resets or the key  *)
(* expires, so that the clock needs no bound.  The memory bucket is replaced   *)
(* at its reset time, a Redis key is still alive at its expiry time.           *)
(***************************************************************************)
EXTENDS Integers, Functions

CONSTANTS
    Limit,      \* requests per window
    Window,     \* its length
    MaxLosses   \* bound: counters lost, by a restart or by eviction

(* main accepts no other RATE_LIMIT_PER_MINUTE and passes one minute. *)
ASSUME RateLimitConstants ==
    /\ Limit \in Nat \ {0}
    /\ Window \in Nat \ {0}
    /\ MaxLosses \in Nat

VARIABLES
    limiter,    \* "memory" or "redis"
    count,      \* the counter; 0: no bucket, no key
    left,       \* time until its reset
    admitted,   \* admitted[a]: requests let through a ticks ago
    counted,    \* counted[a]: requests counted a ticks ago
    verdict,     \* what allowWrite did with the last request of this tick
    losses

limiterVars == <<limiter, count, left, admitted, counted, verdict, losses>>

Ages == 0..Window

(* Beyond the limit a counter only has to stay beyond it. *)
Capped(n) == IF n > Limit THEN Limit + 1 ELSE n

LimiterInit ==
    /\ limiter \in {"memory", "redis"}
    /\ count = 0
    /\ left = 0
    /\ admitted = [a \in Ages |-> 0]
    /\ counted = [a \in Ages |-> 0]
    /\ verdict = "none"
    /\ losses = 0

(* Mutant: the key was incremented and its expiry never set. *)
ResetNever == count = 0

Reset ==
    \/ count = 0
    \/ limiter = "memory" /\ left <= 0
    \/ limiter = "redis" /\ left < 0

(* Mutant: every request pushes the end of the window back. *)
IncrementExtends ==
    /\ count' = IF Reset THEN 1 ELSE Capped(count + 1)
    /\ left' = Window

(* Mutant: the expiry is passed in a unit that is too small. *)
IncrementShort ==
    /\ count' = IF Reset THEN 1 ELSE Capped(count + 1)
    /\ left' = IF Reset THEN Window \div 2 ELSE left

Increment ==
    /\ count' = IF Reset THEN 1 ELSE Capped(count + 1)
    /\ left' = IF Reset THEN Window ELSE left

(* Allow, and allowWrite with its answer. *)
AllowWrite ==
    /\ Increment
    /\ counted' = [counted EXCEPT ![0] = Capped(@ + 1)]
    /\ IF count' <= Limit
       THEN /\ verdict' = "admitted"
            /\ admitted' = [admitted EXCEPT ![0] = @ + 1]
       ELSE /\ verdict' = "rate_limited"
            /\ UNCHANGED admitted
    /\ UNCHANGED <<limiter, losses>>

(* Redis cannot be reached, or its reply is lost after the script has run:    *)
(* the request is refused with 503, counted or not.                           *)
Unavailable ==
    /\ limiter = "redis"
    /\ \/ /\ Increment
          /\ counted' = [counted EXCEPT ![0] = Capped(@ + 1)]
       \/ UNCHANGED <<count, left, counted>>
    /\ verdict' = "dependency_unavailable"
    /\ UNCHANGED <<limiter, admitted, losses>>

(* The process of the memory limiter or Redis restarts empty. *)
LoseCounter ==
    /\ losses < MaxLosses
    /\ count > 0
    /\ losses' = losses + 1
    /\ count' = 0
    /\ left' = 0
    /\ UNCHANGED <<limiter, admitted, counted, verdict>>

Aged(history) == [a \in Ages |-> IF a = 0 THEN 0 ELSE history[a - 1]]

Tick ==
    /\ left' = IF left < 0 THEN left ELSE left - 1
    /\ admitted' = Aged(admitted)
    /\ counted' = Aged(counted)
    /\ verdict' = "none"
    /\ UNCHANGED <<limiter, count, losses>>

LimiterNext == AllowWrite \/ Unavailable \/ LoseCounter \/ Tick

LimiterSpec == LimiterInit /\ [][LimiterNext]_limiterVars

(* Time passes, and the merchant keeps sending. *)
LimiterFairSpec == LimiterSpec /\ WF_limiterVars(Tick) /\ WF_limiterVars(AllowWrite)

-----------------------------------------------------------------------------

Total(history, ages) == SumFunctionOnSet(history, ages)

(* In no interval of the length of a window are more than twice the limit     *)
(* let through, the two halves of the burst in windows that touch; a counter  *)
(* that is lost adds at most one more window.                                 *)
BurstIsBounded ==
    Total(admitted, 0..(Window - 1)) <= (2 + losses) * Limit

(* A merchant is turned away only when more than the limit were counted       *)
(* within the last window, the instant of its end included: nothing of an     *)
(* earlier window is held against it.                                         *)
RejectionIsEarned ==
    verdict = "rate_limited" => Total(counted, Ages) > Limit

(* A merchant that never stops sending, rejected requests included, is let    *)
(* through again and again once Redis stays reachable: what it sends while it *)
(* is limited does not prolong the window.                                    *)
AdmittedAgain ==
    <>[](verdict # "dependency_unavailable") => []<>(verdict = "admitted")
=============================================================================
