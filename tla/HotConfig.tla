------------------------------ MODULE HotConfig ------------------------------
(***************************************************************************)
(* The runtime configuration of app/services/dynconf.py: overrides in one  *)
(* Redis hash, a cache of a few seconds in every process, and operators    *)
(* who write the hash while coroutines of all processes read it.           *)
(*                                                                         *)
(* A time unit is long against a Redis round trip and short against the    *)
(* lifetime of a cache, so the clock stands still between the answer of    *)
(* Redis and the statements that follow it.  Times are kept as ages, which *)
(* saturate: the model has no last moment.                                 *)
(***************************************************************************)
EXTENDS Integers, FiniteSets

CONSTANTS
  Processes,   \* replicas and workers, each with a cache of its own
  Readers,     \* the coroutines that call dynconf.get
  Admins,      \* the coroutines that serve PUT /admin/api/config
  Home,        \* the process a coroutine runs in
  MUTABLE,     \* the keys that may be overridden at run time
  Allowed,     \* per key, the values its Spec.coerce lets through
  Settings,    \* per key, the value of the environment
  Unset,       \* marks a key the hash does not have
  Updates,     \* the updates an operator may send: functions on sets of keys
  CacheTTL,    \* _CACHE_TTL in time units
  MaxWrites,   \* bound: updates and resets sent by operators
  MaxMisses    \* bound: reads of the hash that fail

ASSUME ProcessesAssumption ==
  /\ IsFiniteSet(Processes)
  /\ Readers \cap Admins = {}
  /\ Home \in [Readers \cup Admins -> Processes]

ASSUME ConfigAssumption ==
  /\ \A k \in MUTABLE : Unset \notin Allowed[k] /\ Settings[k] # Unset
  /\ CacheTTL \in Nat \ {0} /\ MaxWrites \in Nat /\ MaxMisses \in Nat

VARIABLES
  overrides,   \* the hash atask:dynconf
  cache,       \* per process: _cache, the age of _cache_at and whether Redis
               \* answered the load that filled it
  load,        \* per coroutine: where its call of _load stands
  admin,       \* per operator: where its request stands
  recent,      \* hashes replaced less than CacheTTL ago (history)
  writes,      \* updates so far
  misses       \* failed reads so far

config == <<overrides, cache, load, admin, recent, writes, misses>>

Coroutines == Readers \cup Admins

IsHash(h) == DOMAIN h = MUTABLE /\ \A k \in MUTABLE : h[k] \in Allowed[k] \cup {Unset}

NoOverrides == [k \in MUTABLE |-> Unset]

\* What get() makes of the overrides it was given.
Value(hash, k) == IF hash[k] = Unset THEN Settings[k] ELSE hash[k]

\* A cache nobody has filled, or that was cleared, is CacheTTL old.
Cleared == [val |-> NoOverrides, age |-> CacheTTL, ok |-> TRUE]

Fresh(p) == cache[p].age < CacheTTL

NoLoad == [at |-> "idle", val |-> NoOverrides, ok |-> TRUE]

-------------------------------------------------------------------------------
(* _load                                                                   *)

\* The cache is young enough: no await, the caller goes on with its value.
Hit(c) ==
  /\ load[c].at = "idle"
  /\ Fresh(Home[c])
  /\ UNCHANGED config

\* HGETALL is on its way.
Miss(c) ==
  /\ load[c].at = "idle"
  /\ ~Fresh(Home[c])
  /\ load' = [load EXCEPT ![c].at = "sent"]
  /\ UNCHANGED <<overrides, cache, admin, recent, writes, misses>>

\* Redis answers, or the read fails and the overrides count as empty.
Answer(c) ==
  /\ load[c].at = "sent"
  /\ \/ /\ load' = [load EXCEPT ![c] = [at |-> "got", val |-> overrides, ok |-> TRUE]]
        /\ UNCHANGED misses
     \/ /\ misses < MaxMisses
        /\ misses' = misses + 1
        /\ load' = [load EXCEPT ![c] = [at |-> "got", val |-> NoOverrides, ok |-> FALSE]]
  /\ UNCHANGED <<overrides, cache, admin, recent, writes>>

\* The coroutine fills the cache, whatever has happened to it meanwhile.
Stored(c) == [cache EXCEPT ![Home[c]] = [val |-> load[c].val, age |-> 0, ok |-> load[c].ok]]

\* The load of a get().
Store(c) ==
  /\ load[c].at = "got"
  /\ cache' = Stored(c)
  /\ load' = [load EXCEPT ![c] = NoLoad]
  /\ UNCHANGED <<overrides, admin, recent, writes, misses>>

-------------------------------------------------------------------------------
(* set_many and reset                                                      *)

Idler == [pc |-> "idle", view |-> NoOverrides, ok |-> TRUE, later |-> {}]

\* The hash becomes h; a's own later history starts with it.
Commit(a, h) ==
  /\ writes < MaxWrites
  /\ writes' = writes + 1
  /\ overrides' = h
  /\ recent' = {v \in recent \cup {[val |-> overrides, gone |-> 0]} : v.val # h}
  /\ admin' = [b \in Admins |->
                 IF b = a THEN [Idler EXCEPT !.pc = "written", !.later = {h}]
                          ELSE [admin[b] EXCEPT !.later = @ \cup {h}]]
  /\ UNCHANGED <<cache, load, misses>>

\* Spec.coerce accepts every value of an update, and no key is off the list.
Coerced(update) == \A k \in DOMAIN update : k \in MUTABLE /\ update[k] \in Allowed[k]

\* set_many: every value is coerced before the first is written, and one HSET
\* writes them all.
SetMany(a, update) ==
  /\ admin[a].pc \in {"idle", "viewed"}
  /\ Coerced(update)
  /\ Commit(a, [k \in MUTABLE |-> IF k \in DOMAIN update THEN update[k] ELSE overrides[k]])

\* reset: HDEL of the given keys, or DEL of the hash.
Reset(a, keys) ==
  /\ admin[a].pc \in {"idle", "viewed"}
  /\ Commit(a, [k \in MUTABLE |-> IF k \in keys THEN Unset ELSE overrides[k]])

\* Mutant: the writer trusts its cache after the write.
InvalidateNothing(a) ==
  /\ admin[a].pc = "written"
  /\ IF Fresh(Home[a])
     THEN /\ admin' = [admin EXCEPT ![a].pc = "viewed", ![a].view = cache[Home[a]].val,
                                    ![a].ok = cache[Home[a]].ok]
          /\ UNCHANGED load
     ELSE /\ admin' = [admin EXCEPT ![a].pc = "loading"]
          /\ load' = [load EXCEPT ![a].at = "sent"]
  /\ UNCHANGED <<overrides, cache, recent, writes, misses>>

\* Mutant: the value goes, the time of the load stays.
InvalidateValue(a) ==
  /\ admin[a].pc = "written"
  /\ cache' = [cache EXCEPT ![Home[a]].val = NoOverrides]
  /\ admin' = [admin EXCEPT ![a].pc = "loading"]
  /\ load' = [load EXCEPT ![a].at = "sent"]
  /\ UNCHANGED <<overrides, recent, writes, misses>>

\* The reply of the write is back: _invalidate(), and snapshot() finds the
\* cleared cache and reads the hash again.
Invalidate(a) ==
  /\ admin[a].pc = "written"
  /\ cache' = [cache EXCEPT ![Home[a]] = Cleared]
  /\ admin' = [admin EXCEPT ![a].pc = "loading"]
  /\ load' = [load EXCEPT ![a].at = "sent"]
  /\ UNCHANGED <<overrides, recent, writes, misses>>

\* The load of snapshot(): what it returns is what the operator is shown.
Snapshot(a) ==
  /\ load[a].at = "got"
  /\ cache' = Stored(a)
  /\ load' = [load EXCEPT ![a] = NoLoad]
  /\ admin' = [admin EXCEPT ![a].pc = "viewed", ![a].view = load[a].val, ![a].ok = load[a].ok]
  /\ UNCHANGED <<overrides, recent, writes, misses>>

-------------------------------------------------------------------------------
\* Time passes, but not between an answer of Redis and what follows it.
Tick ==
  /\ \A c \in Coroutines : load[c].at # "got"
  /\ \E p \in Processes : Fresh(p)
  /\ cache' = [p \in Processes |-> [cache[p] EXCEPT !.age = IF Fresh(p) THEN @ + 1 ELSE @]]
  /\ recent' = {[v EXCEPT !.gone = @ + 1] : v \in {w \in recent : w.gone + 1 < CacheTTL}}
  /\ UNCHANGED <<overrides, load, admin, writes, misses>>

ConfigInit ==
  /\ overrides = NoOverrides
  /\ cache = [p \in Processes |-> Cleared]
  /\ load = [c \in Coroutines |-> NoLoad]
  /\ admin = [a \in Admins |-> Idler]
  /\ recent = {}
  /\ writes = 0
  /\ misses = 0

\* The steps no reader takes part in, and the answers of Redis.
Operate(a) ==
  \/ \E u \in Updates : SetMany(a, u)
  \/ \E keys \in {DOMAIN u : u \in Updates} : Reset(a, keys)
  \/ Invalidate(a) \/ Snapshot(a)

ConfigNext ==
  \/ \E a \in Admins : Operate(a)
  \/ \E c \in Coroutines : Answer(c)
  \/ Tick

-------------------------------------------------------------------------------
\* The ranges of the configuration.
ConfigTypeOK ==
  /\ IsHash(overrides)
  /\ \A p \in Processes : IsHash(cache[p].val) /\ cache[p].age \in 0..CacheTTL
  /\ \A c \in Coroutines : IsHash(load[c].val) /\ load[c].at \in {"idle", "sent", "got"}
  /\ \A a \in Admins :
       /\ admin[a].pc \in {"idle", "written", "loading", "viewed"}
       /\ IsHash(admin[a].view) /\ \A h \in admin[a].later : IsHash(h)
  /\ \A v \in recent : IsHash(v.val) /\ v.gone \in 0..(CacheTTL - 1)
  /\ writes \in 0..MaxWrites /\ misses \in 0..MaxMisses

\* The hash h was in force less than CacheTTL ago.
InForce(h) == h = overrides \/ \E v \in recent : v.val = h

\* A process serves only configurations that were committed as a whole and
\* were in force less than the lifetime of the cache ago, whichever loads,
\* writes and invalidations overlap; only a read that failed makes it serve
\* the environment instead.
BoundedStaleness ==
  \A p \in Processes : Fresh(p) /\ cache[p].ok => InForce(cache[p].val)

\* The view an operator is shown after an update is at least as new as that
\* update, unless the read behind it failed.
WriterSeesWrite ==
  \A a \in Admins : admin[a].pc = "viewed" /\ admin[a].ok => admin[a].view \in admin[a].later
===============================================================================
