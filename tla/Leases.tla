------------------------------- MODULE Leases -------------------------------
(***************************************************************************)
(* Six small modules that judge the same question, has this task's worker  *)
(* been silent for too long, each in its own words: lease.py, deadline.py, *)
(* timeout_guard.py, heartbeat.py, stale_reaper.py and                     *)
(* sliding_window_rate.py.  Tasks are leased, and leases renewed and       *)
(* transferred; a renewal is also the worker's heartbeat, and the start of *)
(* its time budget.                                                        *)
(***************************************************************************)
EXTENDS Clock, Lists

CONSTANTS
    Leased,   \* the tasks, integers in the order in which they are listed
    Owners,   \* the workers
    Ttl       \* the ttl of every lease, the budget, the allowance, the window

ASSUME LeasesAssumption == Ttl \in Nat \ {0} /\ Leased \subseteq Int

VARIABLES
    leases,   \* the lease of each task, or NoLease
    beats     \* the reading at which it was last obtained

leaseVars == <<leases, beats>>

NoLease == [owner |-> "nobody"]

LeaseInit ==
    /\ leases = [t \in Leased |-> NoLease]
    /\ beats = [t \in Leased |-> 0]

-----------------------------------------------------------------------------
(* lease.py *)
NewLease(owner) == [owner |-> owner, expires |-> now + Ttl]
LeaseExpired(l) == now >= l.expires
LeaseHeld(l) == ~LeaseExpired(l)
LeaseRemaining(l) == Larger(0, l.expires - now)

Obtain(t, l) ==
    /\ leases' = [leases EXCEPT ![t] = l]
    /\ beats' = [beats EXCEPT ![t] = now]

Acquire(t, owner) == leases[t] = NoLease /\ Obtain(t, NewLease(owner))

(* renew, of an expired lease too *)
Renew(t) ==
    /\ leases[t] # NoLease
    /\ Obtain(t, [leases[t] EXCEPT !.expires = now + Ttl])

Transfer(t, owner) == leases[t] # NoLease /\ Obtain(t, NewLease(owner))

LeaseNext ==
    \E t \in Leased : \/ Renew(t)
                      \/ \E owner \in Owners : Acquire(t, owner) \/ Transfer(t, owner)

-----------------------------------------------------------------------------
(* deadline.py *)
Deadline(d) == d.start + d.budget
DeadlineExpired(d) == now >= Deadline(d)
DeadlineRemaining(d) == Larger(0, Deadline(d) - now)
DeadlineOverrun(d) == Larger(0, now - Deadline(d))
DeadlineElapsed(d) == Larger(0, now - d.start)

(* classify_timeout *)
ClassifyTimeout(elapsed, budget) ==
    [timedOut |-> elapsed >= budget,
     remaining |-> IF elapsed >= budget THEN 0 ELSE budget - elapsed,
     overrun |-> IF elapsed >= budget THEN elapsed - budget ELSE 0]

(* check_heartbeat *)
Stale(lastSeen, maxStaleness) == now - lastSeen > maxStaleness

(* A faulty variant of FindStale: stale at the allowance.                  *)
FindStaleEarly(items, maxAge) ==
    LET stale == {t \in DOMAIN items : now - items[t] >= maxAge}
    IN  Sorted(stale, {p \in stale \X stale :
                          \/ items[p[1]] < items[p[2]]
                          \/ items[p[1]] = items[p[2]] /\ p[1] < p[2]})

(* find_stale: the oldest first, equals as they were listed. *)
FindStale(items, maxAge) ==
    LET stale == {t \in DOMAIN items : now - items[t] > maxAge}
    IN  Sorted(stale, {p \in stale \X stale :
                          \/ items[p[1]] < items[p[2]]
                          \/ items[p[1]] = items[p[2]] /\ p[1] < p[2]})

(* count_in_window *)
CountInWindow(stamps, width) ==
    Cardinality({t \in DOMAIN stamps : now - width <= stamps[t] /\ stamps[t] <= now})

(* rate_in_window, the rate per second as a fraction *)
RateInWindow(stamps, width) ==
    LET lower == now - width
        within == {t \in DOMAIN stamps : stamps[t] \in lower .. now}
    IN  [count |-> Cardinality(within), per |-> width]

-----------------------------------------------------------------------------
(* All six judge alike at every instant, also when a lapsed lease is       *)
(* renewed and when the clock has stepped back: the lease, the deadline    *)
(* and the timeout are over at the same instant, with the same time left   *)
(* or overrun; the heartbeat and the reaper, which are strict, follow at   *)
(* the next, so that a lease may have lapsed while its owner is healthy    *)
(* only in the instant of expiry itself; and the reaper lists exactly the  *)
(* tasks whose beat has left the window, longest silent first.             *)
ExpiriesAgree ==
    LET held == {t \in Leased : leases[t] # NoLease}
        items == [t \in held |-> beats[t]]
        reaped == FindStale(items, Ttl)
    IN  /\ \A t \in held :
              LET l == leases[t]
                  d == [start |-> beats[t], budget |-> Ttl]
                  verdict == ClassifyTimeout(DeadlineElapsed(d), d.budget)
              IN  /\ LeaseExpired(l) <=> DeadlineExpired(d)
                  /\ LeaseExpired(l) <=> verdict.timedOut
                  /\ LeaseHeld(l) <=> LeaseRemaining(l) > 0
                  /\ LeaseRemaining(l) = DeadlineRemaining(d)
                  /\ verdict.overrun = DeadlineOverrun(d)
                  /\ now >= beats[t] => verdict.remaining = DeadlineRemaining(d)
                  /\ Stale(beats[t], Ttl) => LeaseExpired(l)
                  /\ (LeaseExpired(l) /\ ~Stale(beats[t], Ttl)) <=> now = l.expires
        /\ {reaped[i] : i \in DOMAIN reaped} = {t \in held : Stale(beats[t], Ttl)}
        /\ \A i \in 1 .. Len(reaped) - 1 : beats[reaped[i]] <= beats[reaped[i + 1]]
        /\ CountInWindow(items, Ttl) + Len(reaped)
              = Cardinality({t \in held : beats[t] <= now})
        /\ RateInWindow(items, Ttl) = [count |-> CountInWindow(items, Ttl), per |-> Ttl]
=============================================================================
