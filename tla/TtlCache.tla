------------------------------ MODULE TtlCache ------------------------------
(***************************************************************************)
(* The cache of ttl_cache.py as a de-duplicator.  An expired entry stays   *)
(* until a lookup or purge meets it; whether it is still stored must make  *)
(* no difference.  The values of the entries are left out.                 *)
(***************************************************************************)
EXTENDS Clock

CONSTANTS
    Keys,       \* the keys looked up
    CacheTtl    \* self.ttl

ASSUME CacheAssumption == CacheTtl \in Nat \ {0}

VARIABLES
    expiresAt,   \* self._entries: when each stored key expires, or Absent
    window,      \* history: when the window of the last insertion ends, or Absent
    passed       \* history: the keys whose window some operation has seen end

cacheVars == <<expiresAt, window, passed>>

Absent == -1

CacheInit ==
    /\ expiresAt = [k \in Keys |-> Absent]
    /\ window = [k \in Keys |-> Absent]
    /\ passed = {}

-----------------------------------------------------------------------------
(* A faulty variant of Live: an entry lives through its last instant.      *)
LiveThroughExpiry(k) == expiresAt[k] # Absent /\ now <= expiresAt[k]

Live(k) == expiresAt[k] # Absent /\ now < expiresAt[k]

Seen == passed \cup {k \in Keys : window[k] # Absent /\ now >= window[k]}

(* put *)
PutKey(k) ==
    /\ expiresAt' = [expiresAt EXCEPT ![k] = now + CacheTtl]
    /\ window' = [window EXCEPT ![k] = now + CacheTtl]
    /\ passed' = Seen \ {k}

(* contains, and get: an entry found expired is dropped. *)
LookUp(k) ==
    /\ expiresAt' = [expiresAt EXCEPT ![k] = IF Live(k) THEN @ ELSE Absent]
    /\ passed' = Seen
    /\ UNCHANGED window

(* A faulty variant of AddKey: a duplicate renews the window.              *)
AddKeyRenewing(k) ==
    /\ expiresAt' = [expiresAt EXCEPT ![k] = now + CacheTtl]
    /\ IF Live(k) THEN passed' = Seen /\ UNCHANGED window
       ELSE window' = [window EXCEPT ![k] = now + CacheTtl] /\ passed' = Seen \ {k}

(* add: a lookup, and an insertion if nothing live was found. *)
AddKey(k) == IF Live(k) THEN LookUp(k) ELSE PutKey(k)

Purge ==
    /\ expiresAt' = [k \in Keys |-> IF Live(k) THEN expiresAt[k] ELSE Absent]
    /\ passed' = Seen
    /\ UNCHANGED window

Clear ==
    /\ expiresAt' = [k \in Keys |-> Absent]
    /\ window' = [k \in Keys |-> Absent]
    /\ passed' = {}

CacheNext ==
    \/ \E k \in Keys : PutKey(k) \/ LookUp(k) \/ AddKey(k)
    \/ Purge
    \/ Clear

ActiveKeys == {k \in Keys : Live(k)}

-----------------------------------------------------------------------------
(* A key is a duplicate for exactly its window: from its insertion until   *)
(* ttl later add refuses it, at that instant and after it add takes it,    *)
(* whatever was looked up, purged or added in vain in between.  Only after *)
(* some operation has been given a time past the window may a clock that   *)
(* steps back find the key gone early.                                     *)
DedupeWindow ==
    \A k \in Keys :
        /\ expiresAt[k] \in {Absent, window[k]}
        /\ k \in ActiveKeys => now < window[k]
        /\ (window[k] # Absent /\ now < window[k] /\ k \notin passed) => k \in ActiveKeys
=============================================================================
