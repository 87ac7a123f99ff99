---------------------------- MODULE TokenBucket ----------------------------
(***************************************************************************)
(* The token bucket of rate_limiter.py.  Refill is lazy: every operation   *)
(* reads the clock and accrues what the time since the marker is worth.    *)
(***************************************************************************)
EXTENDS Clock

CONSTANTS
    BucketCapacity,   \* self.capacity
    Rate,             \* self.refill_rate, in tokens per unit of time
    MaxRejections     \* cap on the rejections counted

ASSUME BucketAssumption == BucketCapacity \in Nat \ {0} /\ Rate \in Nat \ {0}

VARIABLES
    tokens,       \* self._tokens
    lastRefill,   \* self._last_refill
    allowed,      \* self._allowed_count
    rejected,     \* self._rejected_count
    opened,       \* history: the reading at construction
    newest,       \* history: the latest reading any operation was given
    admitted,     \* history: the tokens admitted so far
    promise       \* history: the last wait told, while it holds, or NoPromise

bucketVars == <<tokens, lastRefill, allowed, rejected, opened, newest, admitted,
                promise>>

NoPromise == [tokens |-> 0]

BucketInit ==
    /\ tokens \in 0 .. BucketCapacity
    /\ lastRefill = now
    /\ allowed = 0
    /\ rejected = 0
    /\ opened = now
    /\ newest = now
    /\ admitted = 0
    /\ promise = NoPromise

-----------------------------------------------------------------------------
(* A faulty variant of Marker: the marker follows the clock back.          *)
MarkerAtClock == now

(* _refill: the marker and the tokens after it.  A clock that has not      *)
(* moved on, or has stepped back, accrues nothing and moves no marker.     *)
Marker == Larger(lastRefill, now)

Refilled ==
    IF now - lastRefill <= 0 THEN tokens
    ELSE Smaller(BucketCapacity, tokens + (now - lastRefill) * Rate)

(* available_tokens *)
LookAtTokens ==
    /\ tokens' = Refilled
    /\ lastRefill' = Marker
    /\ newest' = Larger(newest, now)
    /\ UNCHANGED <<allowed, rejected, opened, admitted, promise>>

(* time_until_available and retry_after, times Rate *)
Deficit(n) == Larger(0, n - Refilled)

Admissible(n) == n <= BucketCapacity /\ Refilled >= n

(* try_acquire, admitted; acquire returns its result. *)
AcquireTokens(n) ==
    /\ Admissible(n)
    /\ tokens' = Refilled - n
    /\ lastRefill' = Marker
    /\ newest' = Larger(newest, now)
    /\ allowed' = allowed + 1
    /\ admitted' = admitted + n
    /\ promise' = NoPromise
    /\ UNCHANGED <<rejected, opened>>

(* try_acquire, rejected; acquire raises with the wait.  The wait is a     *)
(* promise if it counts from a clock that is not behind and the tokens can *)
(* ever be had.                                                            *)
RejectTokens(n) ==
    /\ ~Admissible(n)
    /\ rejected < MaxRejections
    /\ tokens' = Refilled
    /\ lastRefill' = Marker
    /\ newest' = Larger(newest, now)
    /\ rejected' = rejected + 1
    /\ promise' = IF n <= BucketCapacity /\ now >= lastRefill
                  THEN [tokens |-> n, since |-> now, deficit |-> Deficit(n)]
                  ELSE promise
    /\ UNCHANGED <<allowed, opened, admitted>>

BucketNext ==
    \/ LookAtTokens
    \/ \E n \in 1 .. BucketCapacity + 1 : AcquireTokens(n) \/ RejectTokens(n)

-----------------------------------------------------------------------------
(* Over any readings of the clock, steps back included, no more is         *)
(* admitted than a full bucket and what the time between the first and the *)
(* latest reading is worth, so that no gap is counted twice; and the wait  *)
(* told with a rejection is exact: as long as nobody acquires, the request *)
(* would be admitted once that time has passed and not before.             *)
RateBounded ==
    /\ tokens \in 0 .. BucketCapacity
    /\ admitted + tokens <= BucketCapacity + Rate * (newest - opened)
    /\ promise # NoPromise =>
          (Admissible(promise.tokens) <=>
              Rate * (Larger(now, lastRefill) - promise.since) >= promise.deficit)
=============================================================================
