-------------------------------- MODULE Cache --------------------------------
(***************************************************************************)
(* One entry of a GenericCache (share/redis/cache.py) in front of a row of *)
(* a database that changes.  The callers follow the cache's documentation: *)
(*                                                                         *)
(*     profile = await cache.get(id)                                       *)
(*     if profile: return profile                                          *)
(*     ... load it from the database ...                                   *)
(*     if profile: await cache.create(id, profile)                         *)
(*                                                                         *)
(* and whoever changes the row calls update or delete when the database    *)
(* has committed.  Every await is a place where the other callers, the     *)
(* clock and failures come in between.  A call whose client gave up while  *)
(* the command was still on its way is a caller that is still there.       *)
(*                                                                         *)
(* The states of the row are numbered, so a copy of the row is its number. *)
(* Redis and the database are external.                                    *)
(***************************************************************************)
EXTENDS Naturals

CONSTANTS
    Callers,        \* coroutines, of any process, that use the entry
    Ttl,            \* GenericCache.ttl, in clock ticks
    JitterPercent,  \* JITTER_PERCENT
    MaxLag,         \* assumed: no caller holds a copy longer than this before it stores it
    MaxWrites,      \* bound: changes of the row
    Nothing         \* no entry, no copy

ASSUME CacheAssumption ==
    /\ Ttl \in Nat \ {0}
    /\ JitterPercent \in 0 .. 99
    /\ MaxLag \in Nat /\ MaxWrites \in Nat
    /\ Nothing \notin Nat

Jitter == (Ttl * JitterPercent) \div 100

\* Mutant: the jitter is added to the range of the jitter.
GenerateTtlTwice == Ttl .. Ttl + 2 * Jitter

\* What _generate_ttl may return: ttl + randint(-jitter, jitter).
GenerateTtl == Ttl - Jitter .. Ttl + Jitter

VARIABLES
    row,        \* the state of the row
    present,    \* whether that state is a row at all, or a deleted one
    age,        \* for how long a state has been out of date, up to Horizon
    entry,      \* the state that Redis has under the key, or Nothing
    life,       \* ticks until the entry expires, 0 when there is none
    clean,      \* history: the entry was up to date when it was stored
    lost,       \* history: an update or delete had no effect
    pc,         \* where a caller is
    copy,       \* the state a caller holds
    lag         \* how long it has held it

vars == <<row, present, age, entry, life, clean, lost, pc, copy, lag>>

States == 0 .. MaxWrites
Horizon == MaxLag + Ttl + Jitter + 1

Least(m, n) == IF m < n THEN m ELSE n

TypeOK ==
    /\ row \in States
    /\ present \in BOOLEAN
    /\ age \in [States -> 0 .. Horizon]
    /\ entry \in States \cup {Nothing}
    /\ life \in 0 .. Ttl + Jitter
    /\ entry = Nothing <=> life = 0
    /\ clean \in BOOLEAN /\ lost \in BOOLEAN
    /\ pc \in [Callers -> {"idle", "loading", "storing", "deleting", "serving"}]
    /\ copy \in [Callers -> States \cup {Nothing}]
    /\ lag \in [Callers -> 0 .. MaxLag]

Init ==
    /\ row = 0 /\ present = TRUE
    /\ age = [s \in States |-> 0]
    /\ entry = Nothing /\ life = 0
    /\ clean = TRUE /\ lost = FALSE
    /\ pc = [c \in Callers |-> "idle"]
    /\ copy = [c \in Callers |-> Nothing]
    /\ lag = [c \in Callers |-> 0]

Goto(c, from, to) == pc[c] = from /\ pc' = [pc EXCEPT ![c] = to]

\* The caller holds a copy from now on, or none.
Hold(c, state) == copy' = [copy EXCEPT ![c] = state] /\ lag' = [lag EXCEPT ![c] = 0]

\* Mutant: SET with NX: create never overwrites.
SetEntryIfAbsent(state) ==
    IF entry = Nothing
    THEN entry' = state /\ life' \in GenerateTtl /\ clean' = (state = row)
    ELSE UNCHANGED <<entry, life, clean>>

\* Mutant: SET without EX: the entry has no time to live.
SetEntryForGood(state) ==
    /\ entry' = state
    /\ life' = 0
    /\ clean' = (state = row)

\* SET key value EX ttl.
SetEntry(state) ==
    /\ entry' = state
    /\ life' \in GenerateTtl
    /\ clean' = (state = row)

DeleteEntry == entry' = Nothing /\ life' = 0 /\ UNCHANGED clean

KeepEntry == UNCHANGED <<entry, life, clean>>
-----------------------------------------------------------------------------
\* Mutant: GETEX: whoever gets the entry extends its life.
GetHitExtends(c) ==
    /\ Goto(c, "idle", "serving")
    /\ entry # Nothing
    /\ Hold(c, entry)
    /\ life' = Ttl
    /\ UNCHANGED <<row, present, age, entry, clean, lost>>

\* get returns the object of the entry.
GetHit(c) ==
    /\ Goto(c, "idle", "serving")
    /\ entry # Nothing
    /\ Hold(c, entry)
    /\ UNCHANGED <<row, present, age, entry, life, clean, lost>>

(***************************************************************************)
(* get returns None: there is no entry, or Redis raised, which             *)
(* suppress_redis_errors turns into None, or the JSON does not make an     *)
(* object of the domain class.                                             *)
(***************************************************************************)
GetNone(c) ==
    /\ Goto(c, "idle", "loading")
    /\ UNCHANGED <<row, present, age, entry, life, clean, lost, copy, lag>>

\* The object is used and dropped.
Serve(c) ==
    /\ Goto(c, "serving", "idle")
    /\ Hold(c, Nothing)
    /\ UNCHANGED <<row, present, age, entry, life, clean, lost>>

\* The row is read; there is nothing to cache when it does not exist.
Load(c) ==
    /\ IF present THEN Goto(c, "loading", "storing") /\ Hold(c, row)
                  ELSE Goto(c, "loading", "idle") /\ UNCHANGED <<copy, lag>>
    /\ UNCHANGED <<row, present, age, entry, life, clean, lost>>

\* A caller changes or deletes the row, and goes on to tell the cache.
Change(c) ==
    /\ row < MaxWrites
    /\ row' = row + 1
    /\ \/ present' = TRUE /\ Goto(c, "idle", "storing") /\ Hold(c, row')
       \/ present' \in BOOLEAN /\ Goto(c, "idle", "deleting") /\ Hold(c, row')
    /\ UNCHANGED <<age, entry, life, clean, lost>>

(***************************************************************************)
(* create, or update, which is create.  A Redis error is suppressed: the   *)
(* caller goes on in the same way whether or not the command was done.     *)
(***************************************************************************)
Create(c) ==
    /\ Goto(c, "storing", "idle")
    /\ \/ SetEntry(copy[c]) /\ UNCHANGED lost
       \/ KeepEntry /\ lost' = TRUE
    /\ Hold(c, Nothing)
    /\ UNCHANGED <<row, present, age>>

\* delete.
Delete(c) ==
    /\ Goto(c, "deleting", "idle")
    /\ \/ DeleteEntry /\ UNCHANGED lost
       \/ KeepEntry /\ lost' = TRUE
    /\ Hold(c, Nothing)
    /\ UNCHANGED <<row, present, age>>

\* The caller is cancelled, or its process dies, before the cache knows.
Die(c) ==
    /\ pc[c] # "idle"
    /\ pc' = [pc EXCEPT ![c] = "idle"]
    /\ Hold(c, Nothing)
    /\ lost' = TRUE
    /\ UNCHANGED <<row, present, age, entry, life, clean>>

\* Redis evicts the entry or restarts without it.
Evict ==
    /\ entry # Nothing
    /\ DeleteEntry
    /\ UNCHANGED <<row, present, age, lost, pc, copy, lag>>

\* Time passes: an entry at its last tick expires.
Tick ==
    /\ \A c \in Callers : copy[c] # Nothing => lag[c] < MaxLag
    /\ age' = [s \in States |-> IF s < row THEN Least(age[s] + 1, Horizon) ELSE 0]
    /\ CASE life = 0 -> KeepEntry
         [] life = 1 -> DeleteEntry
         [] OTHER    -> life' = life - 1 /\ UNCHANGED <<entry, clean>>
    /\ lag' = [c \in Callers |-> IF copy[c] = Nothing THEN 0 ELSE lag[c] + 1]
    /\ UNCHANGED <<row, present, lost, pc, copy>>

CallerStep(c) == GetHit(c) \/ GetNone(c) \/ Serve(c) \/ Load(c) \/ Change(c) \/ Create(c) \/ Delete(c)

\* What a caller does when it is on its way.
GoOn(c) == Serve(c) \/ Load(c) \/ Create(c) \/ Delete(c)

Next == Tick \/ Evict \/ \E c \in Callers : CallerStep(c) \/ Die(c)

Spec == Init /\ [][Next]_vars

(***************************************************************************)
(* Time passes, and a caller that is on its way goes on.  Nobody has to    *)
(* begin anything, and no command has to succeed.                          *)
(***************************************************************************)
FairSpec == Spec /\ WF_vars(Tick) /\ \A c \in Callers : WF_vars(GoOn(c))
-----------------------------------------------------------------------------
(***************************************************************************)
(* Whatever Redis commands are lost, however readers and writers overtake  *)
(* one another: what the cache holds has been out of date for less than    *)
(* the longest time to live and the longest delay between the database and *)
(* the cache together (cache.py:93-113).                                   *)
(***************************************************************************)
BoundedStaleness == entry # Nothing => age[entry] < MaxLag + Ttl + Jitter

(***************************************************************************)
(* The cache disagrees with the database only for a reason: a writer is    *)
(* still on its way to the cache, a command was lost, or the entry was     *)
(* overtaken by a write before it was stored (cache.py:109-123).           *)
(***************************************************************************)
StaleForAReason ==
    (entry # Nothing /\ entry # row) =>
        \/ lost
        \/ ~clean
        \/ \E c \in Callers : pc[c] \in {"storing", "deleting"} /\ copy[c] = row

(***************************************************************************)
(* Once the row has changed for the last time the cache never again holds  *)
(* another state of it from some time on, although updates and deletes may *)
(* have been lost: expiry heals them (cache.py:109-113).                   *)
(***************************************************************************)
EventuallyFresh == <>[](entry # Nothing => entry = row)
=============================================================================
