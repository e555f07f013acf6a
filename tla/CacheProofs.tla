----------------------------- MODULE CacheProofs -----------------------------
(***************************************************************************)
(* Theorems about the cache, for every number of callers and writes, every *)
(* time to live and every delay.                                           *)
(*                                                                         *)
(* The staleness of an entry is bounded because the sum of how long it has *)
(* been out of date and how long it may still live never grows: a tick     *)
(* takes from the one what it adds to the other.  When the entry is        *)
(* stored, its value is no older than the storing caller's lag.            *)
(***************************************************************************)
EXTENDS Cache, TLAPS

\* The jitter is smaller than the time to live, whatever the percentage below 100.
LEMMA JitterBelowTtl == Jitter \in Nat /\ Jitter < Ttl
  <1>1. Ttl \in Nat /\ Ttl > 0 /\ JitterPercent \in Nat /\ JitterPercent <= 99
    BY CacheAssumption
  <1>2. Ttl * JitterPercent \in Nat /\ Ttl * JitterPercent <= Ttl * 99
    BY <1>1
  <1>3. Ttl * 99 < Ttl * 100
    BY <1>1
  <1>4. (Ttl * JitterPercent) \div 100 \in Nat /\ (Ttl * JitterPercent) \div 100 < Ttl
    BY <1>1, <1>2, <1>3
  <1>. QED
    BY <1>4 DEF Jitter

\* Redis never gets a time to live of zero, which it would refuse, nor one above the bound.
LEMMA GeneratedTtl == \A t \in GenerateTtl : t \in 1 .. Ttl + Jitter
  BY JitterBelowTtl, CacheAssumption DEF GenerateTtl

LEMMA TypeInit == Init => TypeOK
  <1>1. 0 \in States /\ 0 \in 0 .. MaxLag /\ 0 \in 0 .. Horizon /\ 0 \in 0 .. Ttl + Jitter
    BY JitterBelowTtl, CacheAssumption DEF States, Horizon
  <1>. QED
    BY <1>1 DEF Init, TypeOK

LEMMA SetEntryType ==
  ASSUME NEW s \in States, SetEntry(s), clean' \in BOOLEAN
  PROVE  /\ entry' \in States /\ life' \in 1 .. Ttl + Jitter
         /\ (entry' = Nothing <=> life' = 0)
  BY GeneratedTtl, CacheAssumption DEF SetEntry, States

LEMMA TypeCreate ==
  ASSUME TypeOK, NEW c \in Callers, Create(c), copy[c] \in States
  PROVE  TypeOK'
  <1>. DEFINE Cell == entry \in States \cup {Nothing} /\ life \in 0 .. Ttl + Jitter
                      /\ (entry = Nothing <=> life = 0) /\ clean \in BOOLEAN
  <1>1. Cell'
    <2>1. CASE SetEntry(copy[c])
      <3>1. clean' \in BOOLEAN
        BY <2>1 DEF SetEntry
      <3>2. life' \in GenerateTtl /\ entry' = copy[c]
        BY <2>1 DEF SetEntry
      <3>3. life' \in 1 .. Ttl + Jitter
        BY <3>2, GeneratedTtl
      <3>. QED
        BY <3>1, <3>2, <3>3, JitterBelowTtl, CacheAssumption DEF States
    <2>2. CASE KeepEntry
      BY <2>2 DEF KeepEntry, TypeOK
    <2>. QED
      BY <2>1, <2>2 DEF Create
  <1>2. lost' \in BOOLEAN
    BY DEF Create, TypeOK
  <1>. QED
    BY <1>1, <1>2, CacheAssumption DEF Create, TypeOK, Goto, Hold

LEMMA TypeDelete ==
  ASSUME TypeOK, NEW c \in Callers, Delete(c)
  PROVE  TypeOK'
  <1>1. 0 \in 0 .. MaxLag /\ 0 \in 0 .. Ttl + Jitter
    BY JitterBelowTtl, CacheAssumption
  <1>2. /\ entry' \in States \cup {Nothing} /\ life' \in 0 .. Ttl + Jitter
        /\ (entry' = Nothing <=> life' = 0) /\ clean' \in BOOLEAN /\ lost' \in BOOLEAN
    BY <1>1 DEF Delete, DeleteEntry, KeepEntry, TypeOK
  <1>3. /\ pc' \in [Callers -> {"idle", "loading", "storing", "deleting", "serving"}]
        /\ copy' \in [Callers -> States \cup {Nothing}]
        /\ lag' \in [Callers -> 0 .. MaxLag]
    BY <1>1 DEF Delete, TypeOK, Goto, Hold
  <1>. QED
    BY <1>2, <1>3 DEF Delete, TypeOK

LEMMA TypeTick ==
  ASSUME TypeOK, Tick
  PROVE  TypeOK'
  <1>1. age' \in [States -> 0 .. Horizon]
    BY JitterBelowTtl, CacheAssumption DEF Tick, TypeOK, Least, Horizon
  <1>2. /\ entry' \in States \cup {Nothing} /\ life' \in 0 .. Ttl + Jitter
        /\ (entry' = Nothing <=> life' = 0) /\ clean' \in BOOLEAN
    BY JitterBelowTtl, CacheAssumption DEF Tick, TypeOK, KeepEntry, DeleteEntry, States
  <1>3. lag' \in [Callers -> 0 .. MaxLag]
    BY CacheAssumption DEF Tick, TypeOK
  <1>. QED
    BY <1>1, <1>2, <1>3 DEF Tick, TypeOK

\* A caller on its way to the cache has a copy to hand over.
CopyInv == \A c \in Callers : pc[c] \in {"storing", "deleting"} => copy[c] \in States

LEMMA TypeStep ==
  ASSUME TypeOK, CopyInv, [Next]_vars
  PROVE  TypeOK'
  <1>1. ASSUME NEW c \in Callers, GetHit(c) \/ GetNone(c) \/ Serve(c) \/ Load(c) \/ Change(c) \/ Die(c)
        PROVE  TypeOK'
    <2>1. 0 \in 0 .. MaxLag
      BY CacheAssumption
    <2>2. CASE GetHit(c)
      BY <2>1, <2>2 DEF TypeOK, GetHit, Goto, Hold
    <2>3. CASE GetNone(c)
      BY <2>3 DEF TypeOK, GetNone, Goto
    <2>4. CASE Serve(c) \/ Die(c)
      BY <2>1, <2>4 DEF TypeOK, Serve, Die, Goto, Hold
    <2>5. CASE Load(c)
      BY <2>1, <2>5 DEF TypeOK, Load, Goto, Hold
    <2>6. CASE Change(c)
      <3>1. row' \in States /\ present' \in BOOLEAN
        <4>1. row' = row + 1 /\ row < MaxWrites /\ row \in States
          BY <2>6 DEF TypeOK, Change
        <4>2. row' \in States
          BY <4>1, CacheAssumption DEF States
        <4>3. present' \in BOOLEAN
          BY <2>6, Zenon DEF Change
        <4>. QED
          BY <4>2, <4>3
      <3>2. /\ pc' \in [Callers -> {"idle", "loading", "storing", "deleting", "serving"}]
            /\ copy' \in [Callers -> States \cup {Nothing}]
            /\ lag' \in [Callers -> 0 .. MaxLag]
        BY <2>1, <2>6, <3>1 DEF TypeOK, Change, Goto, Hold
      <3>. QED
        BY <2>6, <3>1, <3>2 DEF TypeOK, Change
    <2>. QED
      BY <1>1, <2>2, <2>3, <2>4, <2>5, <2>6
  <1>2. ASSUME NEW c \in Callers, Create(c)
        PROVE  TypeOK'
    BY <1>2, TypeCreate DEF CopyInv, Create, Goto
  <1>3. CASE Evict
    BY <1>3, JitterBelowTtl, CacheAssumption DEF TypeOK, Evict, DeleteEntry
  <1>4. CASE UNCHANGED vars
    BY <1>4 DEF TypeOK, vars
  <1>. QED
    BY <1>1, <1>2, <1>3, <1>4, TypeDelete, TypeTick DEF Next, CallerStep

LEMMA CopyStep ==
  ASSUME TypeOK, CopyInv, [Next]_vars
  PROVE  CopyInv'
  <1>1. ASSUME NEW c \in Callers, CallerStep(c) \/ Die(c)
        PROVE  CopyInv'
    BY <1>1, CacheAssumption
    DEF TypeOK, CopyInv, CallerStep, GetHit, GetNone, Serve, Load, Change, Create, Delete, Die, Goto, Hold, States
  <1>2. CASE Tick \/ Evict \/ UNCHANGED vars
    BY <1>2 DEF Tick, Evict, CopyInv, vars
  <1>. QED
    BY <1>1, <1>2 DEF Next

(***************************************************************************)
(* Every variable of the cache keeps its type; in particular every entry   *)
(* has a time to live (cache.py:85-113).                                   *)
(***************************************************************************)
THEOREM TypeCorrect == Spec => [](TypeOK /\ CopyInv)
  <1>1. Init => TypeOK /\ CopyInv
    BY TypeInit DEF Init, CopyInv
  <1>2. TypeOK /\ CopyInv /\ [Next]_vars => (TypeOK /\ CopyInv)'
    BY TypeStep, CopyStep
  <1>. QED
    BY <1>1, <1>2, PTL DEF Spec
-----------------------------------------------------------------------------
(***************************************************************************)
(* What bounds the staleness: states that have not been superseded have no *)
(* age, a copy that will be stored is no older than it has been held, and  *)
(* the entry's age and remaining life stay within the bound together.      *)
(***************************************************************************)
AgeInv ==
    /\ \A s \in States : s >= row => age[s] = 0
    /\ \A c \in Callers : pc[c] = "storing" => age[copy[c]] <= lag[c]
    /\ entry # Nothing => age[entry] + life <= MaxLag + Ttl + Jitter

LEMMA AgeTick ==
  ASSUME TypeOK, CopyInv, AgeInv, Tick
  PROVE  AgeInv'
  <1>1. \A s \in States : age'[s] \in Nat /\ age'[s] <= age[s] + 1
    BY JitterBelowTtl, CacheAssumption DEF Tick, TypeOK, Least, Horizon
  <1>2. \A s \in States : s >= row' => age'[s] = 0
    BY CacheAssumption DEF Tick, AgeInv, TypeOK, States
  <1>3. ASSUME NEW c \in Callers, pc'[c] = "storing"
        PROVE  age'[copy'[c]] <= lag'[c]
    <2>1. copy[c] \in States /\ copy[c] # Nothing /\ copy' = copy
      BY <1>3, CacheAssumption DEF Tick, CopyInv, States
    <2>2. lag'[c] = lag[c] + 1 /\ age[copy[c]] <= lag[c] /\ age[copy[c]] \in Nat /\ lag[c] \in Nat
      BY <1>3, <2>1, CacheAssumption DEF Tick, AgeInv, TypeOK, Horizon
    <2>. QED
      BY <1>1, <2>1, <2>2
  <1>4. entry' # Nothing => age'[entry'] + life' <= MaxLag + Ttl + Jitter
    <2>. SUFFICES ASSUME entry' # Nothing
                  PROVE  age'[entry] + life' <= MaxLag + Ttl + Jitter /\ entry' = entry
      OBVIOUS
    <2>1. entry \in States /\ entry' = entry /\ life' = life - 1 /\ life \in Nat /\ age[entry] \in Nat
      BY JitterBelowTtl, CacheAssumption DEF Tick, TypeOK, KeepEntry, DeleteEntry, Horizon
    <2>. QED
      BY <1>1, <2>1, JitterBelowTtl, CacheAssumption DEF AgeInv
  <1>. QED
    BY <1>2, <1>3, <1>4 DEF AgeInv

LEMMA AgeCreate ==
  ASSUME TypeOK, CopyInv, AgeInv, NEW c \in Callers, Create(c)
  PROVE  AgeInv'
  <1>1. /\ copy[c] \in States /\ age[copy[c]] <= lag[c] /\ lag[c] <= MaxLag
        /\ lag[c] \in Nat /\ age[copy[c]] \in Nat
    BY JitterBelowTtl, CacheAssumption DEF Create, Goto, CopyInv, AgeInv, TypeOK, Horizon
  <1>2. \A s \in States : s >= row' => age'[s] = 0
    BY DEF Create, AgeInv
  <1>3. \A d \in Callers : pc'[d] = "storing" => age'[copy'[d]] <= lag'[d]
    BY DEF Create, AgeInv, Goto, Hold, TypeOK
  <1>4. entry' # Nothing => age'[entry'] + life' <= MaxLag + Ttl + Jitter
    <2>1. CASE SetEntry(copy[c])
      <3>1. life' \in 1 .. Ttl + Jitter /\ entry' = copy[c] /\ age' = age
        BY <2>1, GeneratedTtl DEF SetEntry, Create
      <3>. QED
        BY <1>1, <3>1, JitterBelowTtl, CacheAssumption
    <2>2. CASE KeepEntry
      BY <2>2 DEF KeepEntry, AgeInv, Create
    <2>. QED
      BY <2>1, <2>2 DEF Create
  <1>. QED
    BY <1>2, <1>3, <1>4 DEF AgeInv

LEMMA AgeStep ==
  ASSUME TypeOK, CopyInv, AgeInv, [Next]_vars
  PROVE  AgeInv'
  <1>1. ASSUME NEW c \in Callers, GetHit(c) \/ GetNone(c) \/ Serve(c) \/ Load(c) \/ Die(c)
        PROVE  AgeInv'
    <2>1. /\ age' = age /\ row' = row /\ entry' = entry /\ life' = life
          /\ pc' \in [Callers -> {"idle", "loading", "storing", "deleting", "serving"}]
      BY <1>1 DEF TypeOK, GetHit, GetNone, Serve, Load, Die, Goto
    <2>2. ASSUME NEW d \in Callers, pc'[d] = "storing"
          PROVE  age[copy'[d]] <= lag'[d]
      <3>1. CASE d # c
        BY <1>1, <2>2, <3>1 DEF AgeInv, TypeOK, GetHit, GetNone, Serve, Load, Die, Goto, Hold
      <3>2. CASE d = c
        <4>1. Load(c) /\ copy'[c] = row /\ lag'[c] = 0
          BY <1>1, <2>2, <3>2 DEF TypeOK, GetHit, GetNone, Serve, Load, Die, Goto, Hold
        <4>2. age[row] = 0
          BY CacheAssumption DEF AgeInv, TypeOK, States
        <4>. QED
          BY <3>2, <4>1, <4>2
      <3>. QED
        BY <3>1, <3>2
    <2>. QED
      BY <2>1, <2>2 DEF AgeInv
  <1>2. ASSUME NEW c \in Callers, Change(c)
        PROVE  AgeInv'
    <2>1. row \in Nat /\ row' = row + 1 /\ row' \in States /\ age' = age
      BY <1>2, CacheAssumption DEF TypeOK, Change, States
    <2>2. \A s \in States : s >= row' => age[s] = 0
      BY <2>1 DEF AgeInv, States
    <2>3. ASSUME NEW d \in Callers, pc'[d] = "storing"
          PROVE  age[copy'[d]] <= lag'[d]
      <3>1. CASE d # c
        BY <1>2, <2>3, <3>1 DEF AgeInv, TypeOK, Change, Goto, Hold
      <3>2. CASE d = c
        <4>1. copy'[c] = row' /\ lag'[c] = 0
          BY <1>2 DEF TypeOK, Change, Hold
        <4>. QED
          BY <2>1, <2>2, <3>2, <4>1
      <3>. QED
        BY <3>1, <3>2
    <2>. QED
      BY <1>2, <2>1, <2>2, <2>3 DEF AgeInv, Change
  <1>3. ASSUME NEW c \in Callers, Delete(c)
        PROVE  AgeInv'
    BY <1>3 DEF AgeInv, TypeOK, Delete, DeleteEntry, KeepEntry, Goto, Hold
  <1>4. CASE Evict
    BY <1>4 DEF AgeInv, Evict, DeleteEntry
  <1>5. CASE UNCHANGED vars
    BY <1>5 DEF AgeInv, vars
  <1>. QED
    BY <1>1, <1>2, <1>3, <1>4, <1>5, AgeCreate, AgeTick DEF Next, CallerStep

(***************************************************************************)
(* The cache never holds what has been out of date for the longest time to *)
(* live and the longest lag together, whatever fails (cache.py:93-113).    *)
(***************************************************************************)
THEOREM StalenessBounded == Spec => []BoundedStaleness
  <1>1. Init => AgeInv
    BY DEF Init, AgeInv
  <1>2. TypeOK /\ CopyInv /\ AgeInv /\ [Next]_vars => AgeInv'
    BY AgeStep
  <1>3. TypeOK /\ AgeInv => BoundedStaleness
    BY JitterBelowTtl, CacheAssumption DEF TypeOK, AgeInv, BoundedStaleness, Horizon
  <1>. QED
    BY <1>1, <1>2, <1>3, TypeCorrect, PTL DEF Spec
-----------------------------------------------------------------------------
LEMMA ReasonStep ==
  ASSUME TypeOK, CopyInv, StaleForAReason, [Next]_vars
  PROVE  StaleForAReason'
  <1>1. ASSUME NEW c \in Callers, GetHit(c) \/ GetNone(c) \/ Serve(c) \/ Load(c)
        PROVE  StaleForAReason'
    BY <1>1 DEF StaleForAReason, TypeOK, GetHit, GetNone, Serve, Load, Goto, Hold
  <1>2. ASSUME NEW c \in Callers, Change(c)
        PROVE  StaleForAReason'
    <2>1. pc'[c] \in {"storing", "deleting"} /\ copy'[c] = row'
      BY <1>2 DEF Change, TypeOK, Goto, Hold
    <2>. QED
      BY <2>1 DEF StaleForAReason
  <1>3. ASSUME NEW c \in Callers, Create(c)
        PROVE  StaleForAReason'
    BY <1>3 DEF StaleForAReason, TypeOK, Create, SetEntry, Goto, Hold
  <1>4. ASSUME NEW c \in Callers, Delete(c)
        PROVE  StaleForAReason'
    BY <1>4 DEF StaleForAReason, Delete, DeleteEntry
  <1>5. ASSUME NEW c \in Callers, Die(c)
        PROVE  StaleForAReason'
    BY <1>5 DEF StaleForAReason, Die
  <1>6. CASE Tick \/ Evict \/ UNCHANGED vars
    BY <1>6 DEF StaleForAReason, Tick, Evict, DeleteEntry, KeepEntry, vars
  <1>. QED
    BY <1>1, <1>2, <1>3, <1>4, <1>5, <1>6 DEF Next, CallerStep

(***************************************************************************)
(* Without a lost command or a race at the moment of storing, only a       *)
(* writer that is still on its way explains a stale entry                  *)
(* (cache.py:109-123).                                                     *)
(***************************************************************************)
THEOREM StalenessExplained == Spec => []StaleForAReason
  <1>1. Init => StaleForAReason
    BY DEF Init, StaleForAReason
  <1>2. TypeOK /\ CopyInv /\ StaleForAReason /\ [Next]_vars => StaleForAReason'
    BY ReasonStep
  <1>. QED
    BY <1>1, <1>2, TypeCorrect, PTL DEF Spec
=============================================================================
