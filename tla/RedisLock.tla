------------------------------ MODULE RedisLock ------------------------------
(***************************************************************************)
(* The Redis key behind one RedisLock (share/redis/lock.py).               *)
(*                                                                         *)
(* RedisLock wraps redis.asyncio.lock.Lock.  The key holds a token drawn   *)
(* afresh by every successful acquire, and has a time to live; release and *)
(* extend compare the token on the server.  A token is known only to the   *)
(* session that drew it, so the key is modelled by the session's worker    *)
(* ("owner"), and a key whose session ended without deleting it is owned   *)
(* by Orphan: nobody can release or extend it any more, only its time to   *)
(* live ends it.  The client library is external to the repository.        *)
(*                                                                         *)
(* This module has no behaviour of its own: ConsumerMaker composes these   *)
(* actions with the sessions that call them.                               *)
(***************************************************************************)
EXTENDS Naturals

CONSTANTS
    Workers,    \* the processes that contend for the lock
    Timeout,    \* RedisLock(timeout=...), in clock ticks
    NoOne,      \* the key does not exist
    Orphan      \* the key exists and no live session knows its token

ASSUME TimeoutAssumption == Timeout \in Nat \ {0}
ASSUME OwnerAssumption == /\ NoOne \notin Workers
                          /\ Orphan \notin Workers
                          /\ NoOne # Orphan

VARIABLES
    owner,      \* whose token the key holds
    ttl         \* ticks until the key expires, 0 when there is no key

lockVars == <<owner, ttl>>

Owners == Workers \cup {NoOne, Orphan}

LockTypeOK == /\ owner \in Owners
              /\ ttl \in Nat
              /\ owner = NoOne <=> ttl = 0

LockInit == owner = NoOne /\ ttl = 0

\* Mutant: SET without NX.
SetKeyAnyway(holder) ==
    /\ owner' = holder
    /\ ttl' = Timeout

(***************************************************************************)
(* acquire(), non-blocking: SET key token NX PX timeout.  When the key     *)
(* exists the caller gets AlreadyAcquiredError and nothing changes.        *)
(***************************************************************************)
SetKey(holder) ==
    /\ owner = NoOne
    /\ owner' = holder
    /\ ttl' = Timeout

\* Mutant: two timeouts are added for one checkpoint.
ExtendTwice(w) ==
    /\ owner = w
    /\ ttl' = ttl + 2 * Timeout
    /\ UNCHANGED owner

(***************************************************************************)
(* extend(): self.lock.extend(self.timeout).  replace_ttl keeps its        *)
(* default (False), so the server ADDS the timeout to what is left.  A     *)
(* session that does not hold the key gets LockNotOwnedError.              *)
(***************************************************************************)
ExtendKey(w) ==
    /\ owner = w
    /\ ttl' = ttl + Timeout
    /\ UNCHANGED owner

(***************************************************************************)
(* release(): delete the key if it still holds the caller's token,         *)
(* otherwise LockNotOwnedError and no change.                              *)
(***************************************************************************)
DeleteKey(w) ==
    IF owner = w THEN owner' = NoOne /\ ttl' = 0
                 ELSE UNCHANGED lockVars

(***************************************************************************)
(* The session that knew the token is gone without a release.              *)
(***************************************************************************)
AbandonKey(w) ==
    /\ owner' = IF owner = w THEN Orphan ELSE owner
    /\ UNCHANGED ttl

\* Time passes on the Redis server, which deletes the key at its last tick.
Tick ==
    /\ ttl > 1
    /\ ttl' = ttl - 1
    /\ UNCHANGED owner

Expire(holders) ==
    /\ owner \in holders
    /\ ttl = 1
    /\ owner' = NoOne
    /\ ttl' = 0
=============================================================================
