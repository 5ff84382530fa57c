-------------------------- MODULE AdmissionProofs --------------------------
(***************************************************************************)
(* What processes, readers and operators are shown of the runtime          *)
(* configuration, and what an admitted or refused request leaves behind,   *)
(* for any number of processes, readers, operators, keys and updates, any  *)
(* lifetime of the cache, and the failures and crashes of Admission.       *)
(*                                                                         *)
(* BoundedStaleness is not inductive: it must be known how long ago a      *)
(* configuration was replaced that a cache of some age still has           *)
(* (Served), and that an answer that has not reached its cache is of this  *)
(* moment.                                                                 *)
(*                                                                         *)
(* WriterSeesWrite needs that what a process has cached since an operator  *)
(* wrote belongs to the history the write began (ViewInv).                 *)
(*                                                                         *)
(* The properties of requests need what a request at each step owns,       *)
(* holds and has planned (Fine), what it has left in the keys and the      *)
(* stores (TraceOK), which configurations a limit can come from (Known),   *)
(* and that the counter is the slots that are held and those of calls      *)
(* that failed half way (SlotsOK).                                         *)
(***************************************************************************)
EXTENDS IdempotencyProofs

IsEntry(e) == e = [val |-> e.val, age |-> e.age, ok |-> e.ok] /\ e.age \in Nat

IsLoad(l) == l = [at |-> l.at, val |-> l.val, ok |-> l.ok]

IsReplaced(v) == v = [val |-> v.val, gone |-> v.gone] /\ v.gone \in Nat

ConfigShape ==
  /\ cache = [p \in Processes |-> cache[p]] /\ \A p \in Processes : IsEntry(cache[p])
  /\ load = [c \in Coroutines |-> load[c]] /\ \A c \in Coroutines : IsLoad(load[c])
  /\ \A v \in recent : IsReplaced(v)

\* The hash h was in force at most age ago.
Served(h, age) == h = overrides \/ \E v \in recent : v.val = h /\ v.gone <= age

\* What the clock makes of a hash that was replaced.
Older(v) == [v EXCEPT !.gone = @ + 1]

CachesOK == \A p \in Processes : Fresh(p) /\ cache[p].ok => Served(cache[p].val, cache[p].age)

LoadsOK == \A c \in Coroutines : load[c].at = "got" /\ load[c].ok => Served(load[c].val, 0)

ConfigInv == ConfigShape /\ CachesOK /\ LoadsOK

-------------------------------------------------------------------------------
(* The steps of HotConfig                                                  *)

LEMMA HomeIn == \A c \in Coroutines : Home[c] \in Processes
  BY ProcessesAssumption DEF Coroutines

LEMMA TTL == CacheTTL \in Nat \ {0}
  BY ConfigAssumption

LEMMA ConfigStands ==
  ASSUME ConfigInv, UNCHANGED <<overrides, cache, load, recent>>
  PROVE  ConfigInv'
  BY DEF ConfigInv, ConfigShape, IsEntry, IsLoad, IsReplaced, CachesOK, LoadsOK, Served, Fresh

\* A read that is sent has no answer yet.
LEMMA SentKeeps ==
  ASSUME ConfigInv, NEW c \in Coroutines, load' = [load EXCEPT ![c].at = "sent"],
         UNCHANGED <<overrides, cache, recent>>
  PROVE  ConfigInv'
<1>1. ConfigShape'
  BY DEF ConfigInv, ConfigShape, IsEntry, IsLoad, IsReplaced
<1>2. \A d \in Coroutines : load'[d].at = "got" => load'[d] = load[d]
  BY DEF ConfigInv, ConfigShape, IsLoad
<1>3. CachesOK' /\ LoadsOK'
  BY <1>2 DEF ConfigInv, CachesOK, LoadsOK, Served, Fresh
<1> QED BY <1>1, <1>3 DEF ConfigInv

LEMMA AnsweredKeeps ==
  ASSUME ConfigInv, NEW c \in Coroutines, NEW l, IsLoad(l), l.ok => l.val = overrides,
         load' = [load EXCEPT ![c] = l], UNCHANGED <<overrides, cache, recent>>
  PROVE  ConfigInv'
<1>1. ConfigShape'
  BY DEF ConfigInv, ConfigShape, IsEntry, IsLoad, IsReplaced
<1>2. CachesOK'
  BY DEF ConfigInv, CachesOK, Served, Fresh
<1>3. LoadsOK'
  BY DEF ConfigInv, ConfigShape, LoadsOK, Served
<1> QED BY <1>1, <1>2, <1>3 DEF ConfigInv

\* The hash of this moment, or no answer.
LEMMA AnswerKeeps ==
  ASSUME ConfigInv, NEW c \in Coroutines, Answer(c)
  PROVE  ConfigInv'
<1> DEFINE hash == [at |-> "got", val |-> overrides, ok |-> TRUE]
           none == [at |-> "got", val |-> NoOverrides, ok |-> FALSE]
<1>1. IsLoad(hash) /\ IsLoad(none) /\ hash.val = overrides /\ ~none.ok
  BY DEF IsLoad
<1>2. /\ load' = [load EXCEPT ![c] = hash] \/ load' = [load EXCEPT ![c] = none]
      /\ UNCHANGED <<overrides, cache, recent>>
  BY DEF Answer
<1> HIDE DEF hash, none
<1> QED BY <1>1, <1>2, AnsweredKeeps

\* Storing an answer, by a reader or by the snapshot of an operator.
LEMMA StoredKeeps ==
  ASSUME ConfigInv, NEW c \in Coroutines, load[c].at = "got",
         cache' = Stored(c), load' = [load EXCEPT ![c] = NoLoad],
         UNCHANGED <<overrides, recent>>
  PROVE  ConfigInv'
<1>1. ConfigShape'
  BY HomeIn DEF ConfigInv, ConfigShape, IsEntry, IsLoad, IsReplaced, Stored, NoLoad
<1>2. /\ \A p \in Processes \ {Home[c]} : cache'[p] = cache[p]
      /\ cache'[Home[c]] = [val |-> load[c].val, age |-> 0, ok |-> load[c].ok]
  BY HomeIn DEF ConfigInv, ConfigShape, Stored
<1>3. ASSUME NEW p \in Processes, Fresh(p)', cache'[p].ok
      PROVE  Served(cache[p].val, cache[p].age)'
  <2>1. CASE p = Home[c]
    BY <1>2, <1>3, <2>1 DEF ConfigInv, LoadsOK, Served
  <2>2. CASE p # Home[c]
    BY <1>2, <1>3, <2>2 DEF ConfigInv, CachesOK, Served, Fresh
  <2> QED BY <2>1, <2>2
<1>4. \A d \in Coroutines : load'[d].at = "got" => load'[d] = load[d]
  BY DEF ConfigInv, ConfigShape, NoLoad
<1>5. LoadsOK'
  BY <1>4 DEF ConfigInv, LoadsOK, Served
<1> QED BY <1>1, <1>3, <1>5 DEF ConfigInv, CachesOK

\* The hash that is replaced is remembered with the age nought.
LEMMA CommitKeeps ==
  ASSUME ConfigInv, NEW a, NEW h, Commit(a, h)
  PROVE  ConfigInv'
<1>1. /\ UNCHANGED <<cache, load>> /\ overrides' = h
      /\ recent' = {v \in recent \cup {[val |-> overrides, gone |-> 0]} : v.val # h}
  BY DEF Commit
<1>2. ASSUME NEW g, NEW age \in Nat, Served(g, age)
      PROVE  Served(g, age)'
  <2>1. CASE g = h
    BY <1>1, <2>1 DEF Served
  <2>2. CASE g = overrides /\ g # h
    <3>1. [val |-> overrides, gone |-> 0] \in recent'
      BY <1>1, <2>2
    <3> QED BY <3>1, <2>2 DEF Served
  <2>3. CASE g # h /\ \E v \in recent : v.val = g /\ v.gone <= age
    BY <1>1, <2>3 DEF Served
  <2> QED BY <1>2, <2>1, <2>2, <2>3 DEF Served
<1>3. ConfigShape'
  BY <1>1 DEF ConfigInv, ConfigShape, IsEntry, IsLoad, IsReplaced
<1>4. CachesOK'
  BY <1>1, <1>2 DEF ConfigInv, ConfigShape, IsEntry, CachesOK, Fresh
<1>5. LoadsOK'
  BY <1>1, <1>2 DEF ConfigInv, LoadsOK
<1> QED BY <1>3, <1>4, <1>5 DEF ConfigInv

\* A cleared cache is not fresh.
LEMMA InvalidateKeeps ==
  ASSUME ConfigInv, NEW a \in Admins, Invalidate(a)
  PROVE  ConfigInv'
<1> a \in Coroutines /\ Home[a] \in Processes
  BY HomeIn DEF Coroutines
<1>1. /\ cache' = [cache EXCEPT ![Home[a]] = Cleared] /\ load' = [load EXCEPT ![a].at = "sent"]
      /\ UNCHANGED <<overrides, recent>>
  BY DEF Invalidate
<1>2. ConfigShape'
  BY <1>1, TTL DEF ConfigInv, ConfigShape, IsEntry, IsLoad, IsReplaced, Cleared
<1>3. \A p \in Processes : Fresh(p)' => cache'[p] = cache[p]
  BY <1>1, TTL DEF ConfigInv, ConfigShape, Cleared, Fresh
<1>4. \A d \in Coroutines : load'[d].at = "got" => load'[d] = load[d]
  BY <1>1 DEF ConfigInv, ConfigShape, IsLoad
<1>5. CachesOK' /\ LoadsOK'
  BY <1>1, <1>3, <1>4 DEF ConfigInv, CachesOK, LoadsOK, Served, Fresh
<1> QED BY <1>2, <1>5 DEF ConfigInv

\* The clock ages caches and what was replaced alike, and what it forgets no
\* fresh cache can have.
LEMMA TickKeeps ==
  ASSUME ConfigInv, Tick
  PROVE  ConfigInv'
<1>1. /\ cache' = [p \in Processes |-> [cache[p] EXCEPT !.age = IF Fresh(p) THEN @ + 1 ELSE @]]
      /\ recent' = {Older(v) : v \in {w \in recent : w.gone + 1 < CacheTTL}}
      /\ UNCHANGED <<overrides, load>> /\ \A c \in Coroutines : load[c].at # "got"
  BY DEF Tick, Older
<1>2. \A p \in Processes : /\ cache'[p].val = cache[p].val /\ cache'[p].ok = cache[p].ok
                           /\ cache'[p].age = IF Fresh(p) THEN cache[p].age + 1 ELSE cache[p].age
                           /\ IsEntry(cache'[p])
  BY <1>1 DEF ConfigInv, ConfigShape, IsEntry
<1>3. \A v \in recent : IsReplaced(Older(v))
  BY DEF ConfigInv, ConfigShape, IsReplaced, Older
<1>4. ConfigShape'
  <2>1. \A v \in recent' : IsReplaced(v)
    BY <1>1, <1>3
  <2>2. /\ cache' = [p \in Processes |-> cache'[p]]
        /\ load' = [c \in Coroutines |-> load'[c]] /\ \A c \in Coroutines : IsLoad(load'[c])
    BY <1>1 DEF ConfigInv, ConfigShape
  <2>3. (\A v \in recent : IsReplaced(v))' /\ (\A p \in Processes : IsEntry(cache[p]))'
    BY <1>2, <2>1 DEF IsReplaced, IsEntry
  <2>4. (\A c \in Coroutines : IsLoad(load[c]))'
    BY <2>2 DEF IsLoad
  <2> QED BY <2>2, <2>3, <2>4 DEF ConfigShape
<1>5. ASSUME NEW p \in Processes, Fresh(p)', cache'[p].ok
      PROVE  Served(cache[p].val, cache[p].age)'
  <2>1. Fresh(p) /\ cache'[p].age = cache[p].age + 1 /\ cache[p].age + 1 < CacheTTL
    BY <1>2, <1>5, TTL DEF Fresh, ConfigInv, ConfigShape, IsEntry
  <2>2. Served(cache[p].val, cache[p].age) /\ cache[p].age \in Nat
    BY <1>2, <1>5, <2>1 DEF ConfigInv, CachesOK, ConfigShape, IsEntry
  <2>3. CASE cache[p].val = overrides
    BY <1>1, <1>2, <2>3 DEF Served
  <2>4. CASE \E v \in recent : v.val = cache[p].val /\ v.gone <= cache[p].age
    <3> PICK v \in recent : v.val = cache[p].val /\ v.gone <= cache[p].age
      BY <2>4
    <3>1. v.gone \in Nat /\ Older(v).val = v.val /\ Older(v).gone = v.gone + 1
      BY DEF ConfigInv, ConfigShape, IsReplaced, Older
    <3>2. v.gone + 1 < CacheTTL
      BY <2>1, <2>2, <3>1, TTL
    <3>3. Older(v) \in recent'
      BY <1>1, <3>2
    <3>4. Older(v).gone <= cache'[p].age /\ Older(v).val = cache'[p].val
      BY <1>2, <2>1, <2>2, <3>1
    <3> QED BY <3>3, <3>4 DEF Served
  <2> QED BY <2>2, <2>3, <2>4 DEF Served
<1>6. CachesOK' /\ LoadsOK'
  BY <1>1, <1>5 DEF CachesOK, LoadsOK
<1> QED BY <1>4, <1>6 DEF ConfigInv

-------------------------------------------------------------------------------
(* The steps of Admission                                                  *)

\* A process that starts over has an empty cache and no reads under way.
LEMMA KillKeepsConfig ==
  ASSUME ConfigInv, NEW p \in Processes, Kill(p)
  PROVE  ConfigInv'
<1>1. /\ cache' = [cache EXCEPT ![p] = Cleared]
      /\ load' = [c \in Coroutines |-> IF Home[c] = p THEN NoLoad ELSE load[c]]
      /\ UNCHANGED <<overrides, recent>>
  BY DEF Kill
<1>2. ConfigShape'
  BY <1>1, TTL DEF ConfigInv, ConfigShape, IsEntry, IsLoad, IsReplaced, Cleared, NoLoad
<1>3. \A q \in Processes : Fresh(q)' => cache'[q] = cache[q]
  BY <1>1, TTL DEF ConfigInv, ConfigShape, Cleared, Fresh
<1>4. \A d \in Coroutines : load'[d].at = "got" => load'[d] = load[d]
  BY <1>1 DEF NoLoad
<1>5. CachesOK' /\ LoadsOK'
  BY <1>1, <1>3, <1>4 DEF ConfigInv, CachesOK, LoadsOK, Served, Fresh
<1> QED BY <1>2, <1>5 DEF ConfigInv

LEMMA HandleKeepsConfig ==
  ASSUME ConfigInv, NEW r \in Readers, Handle(r)
  PROVE  ConfigInv'
<1> r \in Coroutines
  BY DEF Coroutines
<1>1. CASE Read(r)
  <2>1. CASE Hit(r)
    BY <2>1, ConfigStands DEF Hit, config
  <2>2. CASE Miss(r)
    BY <2>2, SentKeeps DEF Miss
  <2>3. CASE Store(r)
    BY <2>3, StoredKeeps DEF Store
  <2> QED BY <1>1, <2>1, <2>2, <2>3 DEF Read
<1>2. CASE \/ Arrive(r) \/ Acquire(r) \/ Peek(r) \/ Verdict(r) \/ Release(r)
           \/ Poll(r) \/ GiveUp(r) \/ Replay(r) \/ Resolve(r)
           \/ TakeSlot(r) \/ Insert(r) \/ Fill(r) \/ Announce(r)
           \/ Unslot(r) \/ Unbatch(r)
  <2>1. UNCHANGED config
    BY <1>2 DEF Arrive, Acquire, Peek, Verdict, Release, Poll, GiveUp, Replay, Resolve,
                TakeSlot, Insert, Fill, Announce, Unslot, Unbatch
  <2> QED BY <2>1, ConfigStands DEF config
<1> QED BY <1>1, <1>2 DEF Handle

LEMMA OperateKeeps ==
  ASSUME ConfigInv, NEW a \in Admins, Operate(a)
  PROVE  ConfigInv'
<1> a \in Coroutines
  BY DEF Coroutines
<1>1. CASE \E u \in Updates : SetMany(a, u)
  BY <1>1, CommitKeeps DEF SetMany
<1>2. CASE \E keys \in {DOMAIN u : u \in Updates} : Reset(a, keys)
  BY <1>2, CommitKeeps DEF Reset
<1>3. CASE Snapshot(a)
  BY <1>3, StoredKeeps DEF Snapshot
<1> QED BY <1>1, <1>2, <1>3, InvalidateKeeps DEF Operate

LEMMA NextKeepsConfig == ConfigInv /\ [Next]_vars => ConfigInv'
<1> SUFFICES ASSUME ConfigInv, [Next]_vars PROVE ConfigInv'
  OBVIOUS
<1>1. CASE UNCHANGED vars
  BY <1>1, ConfigStands DEF vars, config
<1>2. CASE \E k \in Keys : Expire(k)
  BY <1>2, ConfigStands DEF Expire, config
<1>3. CASE Config
  BY <1>3, OperateKeeps, AnswerKeeps, TickKeeps DEF Config
<1> QED BY <1>1, <1>2, <1>3, HandleKeepsConfig, KillKeepsConfig DEF Next

LEMMA InitConfig == Init => ConfigInv
<1> SUFFICES ASSUME ConfigInit PROVE ConfigInv
  BY DEF Init
<1>1. ConfigShape
  BY TTL DEF ConfigInit, ConfigShape, IsEntry, IsLoad, Cleared, NoLoad
<1>2. CachesOK /\ LoadsOK
  BY TTL DEF ConfigInit, CachesOK, LoadsOK, Fresh, Cleared, NoLoad
<1> QED BY <1>1, <1>2 DEF ConfigInv

\* Whatever loads, writes, invalidations and crashes overlap, a process serves
\* only configurations that were committed as a whole and were in force less
\* than the lifetime of the cache ago, unless its read failed.
THEOREM StalenessBounded == Spec => []BoundedStaleness
<1>1. ConfigInv => BoundedStaleness
  BY DEF ConfigInv, CachesOK, Served, BoundedStaleness, InForce
<1> QED BY <1>1, InitConfig, NextKeepsConfig, PTL DEF Spec

-------------------------------------------------------------------------------
(* What operators are shown                                                *)

IsAdmin(m) == m = [pc |-> m.pc, view |-> m.view, ok |-> m.ok, later |-> m.later]

\* What an operator is shown belongs to the history that its write began.
AdminOK(a) ==
  /\ IsAdmin(admin[a])
  /\ load[a].at # "idle" => admin[a].pc = "loading"
  /\ admin[a].pc \in {"written", "loading", "viewed"} => overrides \in admin[a].later
  /\ load[a].at = "got" /\ load[a].ok => load[a].val \in admin[a].later
  /\ admin[a].pc = "viewed" /\ admin[a].ok => admin[a].view \in admin[a].later

AdminsOK == admin = [a \in Admins |-> admin[a]] /\ \A a \in Admins : AdminOK(a)

ViewInv == ConfigInv /\ AdminsOK

LEMMA Apart == \A r \in Readers : r \in Coroutines /\ r \notin Admins
  BY ProcessesAssumption DEF Coroutines

\* Nothing an operator sees moves.
LEMMA ViewStands ==
  ASSUME ViewInv, UNCHANGED <<overrides, admin>>,
         \A a \in Admins : load'[a] = load[a] \/ load'[a] = NoLoad
  PROVE  AdminsOK'
  BY DEF ViewInv, AdminsOK, AdminOK, IsAdmin, NoLoad

LEMMA HandleKeepsView ==
  ASSUME ViewInv, NEW r \in Readers, Handle(r)
  PROVE  AdminsOK'
<1>1. UNCHANGED <<overrides, admin>>
  <2>1. CASE Read(r)
    BY <2>1 DEF Read, Hit, Miss, Store, config
  <2>2. CASE ~Read(r)
    BY <2>2 DEF Handle, Arrive, Acquire, Peek, Verdict, Release, Poll, GiveUp, Replay, Resolve,
                TakeSlot, Insert, Fill, Announce, Unslot, Unbatch, config
  <2> QED BY <2>1, <2>2
<1>2. \A a \in Admins : load'[a] = load[a]
  <2>1. CASE Read(r)
    BY <2>1, Apart DEF Read, Hit, Miss, Store, config, ViewInv, ConfigInv, ConfigShape, Coroutines
  <2>2. CASE ~Read(r)
    BY <2>2 DEF Handle, Arrive, Acquire, Peek, Verdict, Release, Poll, GiveUp, Replay, Resolve,
                TakeSlot, Insert, Fill, Announce, Unslot, Unbatch, config
  <2> QED BY <2>1, <2>2
<1> QED BY <1>1, <1>2, ViewStands

\* An answer of this moment belongs to the history of whoever asked.
LEMMA AnswerKeepsView ==
  ASSUME ViewInv, NEW c \in Coroutines, Answer(c)
  PROVE  AdminsOK'
<1>1. UNCHANGED <<overrides, admin>> /\ \A a \in Admins \ {c} : load'[a] = load[a]
  BY DEF Answer, ViewInv, ConfigInv, ConfigShape, Coroutines
<1>2. load[c].at = "sent" /\ load'[c].at = "got" /\ (load'[c].ok => load'[c].val = overrides)
  BY DEF Answer, ViewInv, ConfigInv, ConfigShape
<1>3. ASSUME NEW a \in Admins
      PROVE  AdminOK(a)'
  BY <1>1, <1>2 DEF ViewInv, AdminsOK, AdminOK, IsAdmin
<1> QED BY <1>1, <1>3 DEF ViewInv, AdminsOK

\* Who writes has no read under way, and every history grows by the write.
LEMMA CommitKeepsView ==
  ASSUME ViewInv, NEW a \in Admins, NEW h, Commit(a, h), admin[a].pc \in {"idle", "viewed"}
  PROVE  AdminsOK'
<1>1. UNCHANGED load /\ overrides' = h
  BY DEF Commit
<1>2. admin' = [b \in Admins |->
                 IF b = a THEN [Idler EXCEPT !.pc = "written", !.later = {h}]
                          ELSE [admin[b] EXCEPT !.later = @ \cup {h}]]
  BY DEF Commit
<1>3. admin'[a] = [pc |-> "written", view |-> NoOverrides, ok |-> TRUE, later |-> {h}]
  BY <1>2 DEF Idler
<1>4. AdminOK(a)'
  BY <1>1, <1>3 DEF AdminOK, IsAdmin, ViewInv, AdminsOK
<1>5. ASSUME NEW b \in Admins, b # a
      PROVE  AdminOK(b)'
  <2>1. IsAdmin(admin[b]) /\ admin'[b] = [admin[b] EXCEPT !.later = @ \cup {h}]
    BY <1>2, <1>5 DEF ViewInv, AdminsOK, AdminOK
  <2>2. admin'[b] = [pc |-> admin[b].pc, view |-> admin[b].view, ok |-> admin[b].ok,
                     later |-> admin[b].later \cup {h}]
    BY <2>1 DEF IsAdmin
  <2> QED BY <1>1, <2>2 DEF AdminOK, IsAdmin, ViewInv, AdminsOK
<1>6. admin' = [b \in Admins |-> admin'[b]]
  BY <1>2
<1> QED BY <1>4, <1>5, <1>6 DEF AdminsOK

LEMMA InvalidateKeepsView ==
  ASSUME ViewInv, NEW a \in Admins, Invalidate(a)
  PROVE  AdminsOK'
<1> a \in Coroutines
  BY DEF Coroutines
<1>1. /\ admin[a].pc = "written" /\ UNCHANGED overrides
      /\ admin' = [admin EXCEPT ![a].pc = "loading"] /\ load' = [load EXCEPT ![a].at = "sent"]
  BY DEF Invalidate
<1>2. load'[a].at = "sent" /\ \A b \in Admins \ {a} : load'[b] = load[b]
  <2>1. load'[a] = [load[a] EXCEPT !.at = "sent"] /\ IsLoad(load[a])
    BY <1>1 DEF ViewInv, ConfigInv, ConfigShape
  <2>2. \A b \in Admins \ {a} : load'[b] = load[b]
    BY <1>1 DEF ViewInv, ConfigInv, ConfigShape, Coroutines
  <2> QED BY <2>1, <2>2 DEF IsLoad
<1>3. admin'[a] = [pc |-> "loading", view |-> admin[a].view, ok |-> admin[a].ok,
                   later |-> admin[a].later]
      /\ \A b \in Admins \ {a} : admin'[b] = admin[b]
  <2>1. IsAdmin(admin[a]) /\ admin = [b \in Admins |-> admin[b]]
    BY DEF ViewInv, AdminsOK, AdminOK
  <2> QED BY <1>1, <2>1 DEF IsAdmin
<1>4. \A b \in Admins : AdminOK(b)'
  BY <1>1, <1>2, <1>3 DEF ViewInv, AdminsOK, AdminOK, IsAdmin
<1> QED BY <1>1, <1>4 DEF ViewInv, AdminsOK

LEMMA SnapshotKeepsView ==
  ASSUME ViewInv, NEW a \in Admins, Snapshot(a)
  PROVE  AdminsOK'
<1> a \in Coroutines
  BY DEF Coroutines
<1>1. /\ load[a].at = "got" /\ UNCHANGED overrides /\ load' = [load EXCEPT ![a] = NoLoad]
      /\ admin' = [admin EXCEPT ![a].pc = "viewed", ![a].view = load[a].val, ![a].ok = load[a].ok]
  BY DEF Snapshot
<1>2. load'[a].at = "idle" /\ \A b \in Admins \ {a} : load'[b] = load[b]
  BY <1>1 DEF ViewInv, ConfigInv, ConfigShape, NoLoad, Coroutines
<1>3. admin'[a] = [pc |-> "viewed", view |-> load[a].val, ok |-> load[a].ok,
                   later |-> admin[a].later]
      /\ \A b \in Admins \ {a} : admin'[b] = admin[b]
  <2>1. IsAdmin(admin[a]) /\ admin = [b \in Admins |-> admin[b]]
    BY DEF ViewInv, AdminsOK, AdminOK
  <2> QED BY <1>1, <2>1 DEF IsAdmin
<1>4. \A b \in Admins : AdminOK(b)'
  BY <1>1, <1>2, <1>3 DEF ViewInv, AdminsOK, AdminOK, IsAdmin
<1> QED BY <1>1, <1>4 DEF ViewInv, AdminsOK

LEMMA KillKeepsView ==
  ASSUME ViewInv, NEW p \in Processes, Kill(p)
  PROVE  AdminsOK'
<1>1. /\ UNCHANGED overrides
      /\ load' = [c \in Coroutines |-> IF Home[c] = p THEN NoLoad ELSE load[c]]
      /\ admin' = [a \in Admins |-> IF Home[a] = p THEN Idler ELSE admin[a]]
  BY DEF Kill
<1>2. ASSUME NEW a \in Admins
      PROVE  AdminOK(a)'
  <2>1. CASE Home[a] = p
    BY <1>1, <2>1 DEF AdminOK, IsAdmin, Idler, NoLoad, Coroutines
  <2>2. CASE Home[a] # p
    BY <1>1, <2>2 DEF ViewInv, AdminsOK, AdminOK, IsAdmin, Coroutines
  <2> QED BY <2>1, <2>2
<1> QED BY <1>1, <1>2 DEF AdminsOK

LEMMA NextKeepsView ==
  ASSUME ViewInv, [Next]_vars
  PROVE  ViewInv'
<1>1. ConfigInv'
  BY NextKeepsConfig DEF ViewInv
<1>2. UNCHANGED <<overrides, admin, load>> => AdminsOK'
  BY ViewStands
<1>3. UNCHANGED vars \/ (\E k \in Keys : Expire(k)) => AdminsOK'
  BY <1>2 DEF vars, Expire, config
<1>4. ASSUME NEW a \in Admins, Operate(a)
      PROVE  AdminsOK'
  <2>1. CASE (\E u \in Updates : SetMany(a, u)) \/ (\E keys \in {DOMAIN u : u \in Updates} : Reset(a, keys))
    BY <2>1, CommitKeepsView DEF SetMany, Reset
  <2> QED BY <1>4, <2>1, InvalidateKeepsView, SnapshotKeepsView DEF Operate
<1>5. Tick => AdminsOK'
  BY <1>2 DEF Tick
<1>6. AdminsOK'
  <2>1. CASE Config
    BY <1>4, <1>5, <2>1, AnswerKeepsView DEF Config
  <2> QED BY <1>3, <2>1, HandleKeepsView, KillKeepsView DEF Next
<1> QED BY <1>1, <1>6 DEF ViewInv

LEMMA InitView ==
  ASSUME Init
  PROVE  ViewInv
<1>1. ConfigInit /\ ConfigInv
  BY InitConfig DEF Init
<1>2. \A a \in Admins : admin[a] = Idler /\ load[a] = NoLoad
  BY <1>1 DEF ConfigInit, Coroutines
<1>3. \A a \in Admins : AdminOK(a)
  BY <1>2 DEF AdminOK, IsAdmin, Idler, NoLoad
<1> QED BY <1>1, <1>3 DEF ConfigInit, AdminsOK, ViewInv

\* What an operator is shown after an update is at least as new as the update,
\* whatever other operators write, readers cache and processes die meanwhile,
\* unless the read behind it failed.
THEOREM WritersSeeWrites == Spec => []WriterSeesWrite
<1>1. Init => ViewInv
  BY InitView
<1>2. ViewInv /\ [Next]_vars => ViewInv'
  BY NextKeepsView
<1>3. ViewInv => WriterSeesWrite
  BY DEF ViewInv, AdminsOK, AdminOK, WriterSeesWrite
<1> QED BY <1>1, <1>2, <1>3, PTL DEF Spec

-------------------------------------------------------------------------------
(* What is served: the ranges, and where a value comes from                *)

\* The configurations in force, and the environment once a read has failed.
Known == {overrides} \cup {v.val : v \in recent} \cup (IF misses > 0 THEN {NoOverrides} ELSE {})

FailedOK ==
  /\ \A p \in Processes : ~cache[p].ok => cache[p].val = NoOverrides /\ misses > 0
  /\ \A c \in Coroutines :
       load[c].at = "got" /\ ~load[c].ok => load[c].val = NoOverrides /\ misses > 0

ValuesInv == ViewInv /\ ConfigTypeOK /\ FailedOK

LEMMA Counts == CacheTTL \in Nat \ {0} /\ MaxWrites \in Nat /\ MaxMisses \in Nat
  BY ConfigAssumption

LEMMA EmptyIsHash == IsHash(NoOverrides)
  BY DEF IsHash, NoOverrides

LEMMA ValuesStand ==
  ASSUME ValuesInv, UNCHANGED <<overrides, cache, load, admin, recent, writes, misses>>
  PROVE  (ConfigTypeOK /\ FailedOK)'
  BY DEF ValuesInv, ConfigTypeOK, FailedOK

LEMMA SentKeepsValues ==
  ASSUME ValuesInv, NEW c \in Coroutines, load' = [load EXCEPT ![c].at = "sent"],
         UNCHANGED <<overrides, cache, admin, recent, writes, misses>>
  PROVE  (ConfigTypeOK /\ FailedOK)'
<1>1. load'[c] = [load[c] EXCEPT !.at = "sent"] /\ IsLoad(load[c])
  BY DEF ValuesInv, ViewInv, ConfigInv, ConfigShape
<1>2. load'[c].at = "sent" /\ load'[c].val = load[c].val
  BY <1>1 DEF IsLoad
<1>3. \A d \in Coroutines \ {c} : load'[d] = load[d]
  BY DEF ValuesInv, ViewInv, ConfigInv, ConfigShape
<1> QED BY <1>2, <1>3 DEF ValuesInv, ConfigTypeOK, FailedOK

LEMMA AnswerKeepsValues ==
  ASSUME ValuesInv, NEW c \in Coroutines, Answer(c)
  PROVE  (ConfigTypeOK /\ FailedOK)'
<1>1. UNCHANGED <<overrides, cache, admin, recent, writes>> /\ \A d \in Coroutines \ {c} : load'[d] = load[d]
  BY DEF Answer, ValuesInv, ViewInv, ConfigInv, ConfigShape
<1>2. \/ /\ load'[c] = [at |-> "got", val |-> overrides, ok |-> TRUE] /\ misses' = misses
      \/ /\ misses < MaxMisses /\ misses' = misses + 1
         /\ load'[c] = [at |-> "got", val |-> NoOverrides, ok |-> FALSE]
  BY DEF Answer, ValuesInv, ViewInv, ConfigInv, ConfigShape
<1>3. misses' \in 0..MaxMisses /\ (misses > 0 => misses' > 0)
  BY <1>2, Counts DEF ValuesInv, ConfigTypeOK
<1>4. load'[c].at = "got" /\ IsHash(load'[c].val)
      /\ (~load'[c].ok => load'[c].val = NoOverrides /\ misses' > 0)
  BY <1>2, Counts, EmptyIsHash DEF ValuesInv, ConfigTypeOK
<1> QED BY <1>1, <1>3, <1>4 DEF ValuesInv, ConfigTypeOK, FailedOK

LEMMA StoredKeepsValues ==
  ASSUME ValuesInv, NEW c \in Coroutines, load[c].at = "got",
         cache' = Stored(c), load' = [load EXCEPT ![c] = NoLoad],
         UNCHANGED <<overrides, recent, writes, misses>>,
         \A a \in Admins : admin'[a] = admin[a] \/
           (admin'[a].pc = "viewed" /\ admin'[a].view = load[c].val /\ admin'[a].later = admin[a].later)
  PROVE  (ConfigTypeOK /\ FailedOK)'
<1>1. /\ \A p \in Processes \ {Home[c]} : cache'[p] = cache[p]
      /\ cache'[Home[c]] = [val |-> load[c].val, age |-> 0, ok |-> load[c].ok]
  BY HomeIn DEF ValuesInv, ViewInv, ConfigInv, ConfigShape, Stored
<1>2. load'[c] = NoLoad /\ \A d \in Coroutines \ {c} : load'[d] = load[d]
  BY DEF ValuesInv, ViewInv, ConfigInv, ConfigShape
<1>3. \A p \in Processes : IsHash(cache'[p].val) /\ cache'[p].age \in 0..CacheTTL
  BY <1>1, Counts DEF ValuesInv, ConfigTypeOK
<1>4. \A d \in Coroutines : IsHash(load'[d].val) /\ load'[d].at \in {"idle", "sent", "got"}
  BY <1>2, EmptyIsHash DEF ValuesInv, ConfigTypeOK, NoLoad
<1>5. \A a \in Admins :
       /\ admin'[a].pc \in {"idle", "written", "loading", "viewed"}
       /\ IsHash(admin'[a].view) /\ \A h \in admin'[a].later : IsHash(h)
  BY DEF ValuesInv, ConfigTypeOK
<1>6. ConfigTypeOK'
  BY <1>3, <1>4, <1>5 DEF ValuesInv, ConfigTypeOK
<1>7. FailedOK'
  BY <1>1, <1>2 DEF ValuesInv, FailedOK, NoLoad
<1> QED BY <1>6, <1>7

LEMMA CommitKeepsValues ==
  ASSUME ValuesInv, NEW a \in Admins, NEW h, IsHash(h), Commit(a, h)
  PROVE  (ConfigTypeOK /\ FailedOK)'
<1>1. /\ UNCHANGED <<cache, load, misses>> /\ overrides' = h
      /\ writes < MaxWrites /\ writes' = writes + 1
      /\ recent' = {v \in recent \cup {[val |-> overrides, gone |-> 0]} : v.val # h}
      /\ admin' = [b \in Admins |->
                 IF b = a THEN [Idler EXCEPT !.pc = "written", !.later = {h}]
                          ELSE [admin[b] EXCEPT !.later = @ \cup {h}]]
  BY DEF Commit
<1>2. writes' \in 0..MaxWrites
  BY <1>1, Counts DEF ValuesInv, ConfigTypeOK
<1>3. \A v \in recent' : IsHash(v.val) /\ v.gone \in 0..(CacheTTL - 1)
  BY <1>1, Counts DEF ValuesInv, ConfigTypeOK
<1>4. ASSUME NEW b \in Admins
      PROVE  /\ admin'[b].pc \in {"idle", "written", "loading", "viewed"}
             /\ IsHash(admin'[b].view) /\ \A g \in admin'[b].later : IsHash(g)
  <2>1. CASE b = a
    <3>1. admin'[b] = [pc |-> "written", view |-> NoOverrides, ok |-> TRUE, later |-> {h}]
      BY <1>1, <2>1 DEF Idler
    <3> QED BY <3>1, EmptyIsHash
  <2>2. CASE b # a
    <3>1. IsAdmin(admin[b]) /\ admin'[b] = [admin[b] EXCEPT !.later = @ \cup {h}]
      BY <1>1, <2>2 DEF ValuesInv, ViewInv, AdminsOK, AdminOK
    <3>2. admin'[b] = [pc |-> admin[b].pc, view |-> admin[b].view, ok |-> admin[b].ok,
                       later |-> admin[b].later \cup {h}]
      BY <3>1 DEF IsAdmin
    <3> QED BY <3>2 DEF ValuesInv, ConfigTypeOK
  <2> QED BY <2>1, <2>2
<1> QED BY <1>1, <1>2, <1>3, <1>4 DEF ValuesInv, ConfigTypeOK, FailedOK

\* An accepted update and a reset leave a hash.
LEMMA WritesHash ==
  ASSUME ValuesInv, NEW a \in Admins
  PROVE  /\ \A u \in Updates : SetMany(a, u) => (ConfigTypeOK /\ FailedOK)'
         /\ \A keys : Reset(a, keys) => (ConfigTypeOK /\ FailedOK)'
<1>1. ASSUME NEW u \in Updates, SetMany(a, u)
      PROVE  (ConfigTypeOK /\ FailedOK)'
  <2> DEFINE h == [k \in MUTABLE |-> IF k \in DOMAIN u THEN u[k] ELSE overrides[k]]
  <2>1. IsHash(h) /\ Commit(a, h)
    BY <1>1 DEF SetMany, Coerced, IsHash, ValuesInv, ConfigTypeOK
  <2> HIDE DEF h
  <2> QED BY <2>1, CommitKeepsValues
<1>2. ASSUME NEW keys, Reset(a, keys)
      PROVE  (ConfigTypeOK /\ FailedOK)'
  <2> DEFINE h == [k \in MUTABLE |-> IF k \in keys THEN Unset ELSE overrides[k]]
  <2>1. IsHash(h) /\ Commit(a, h)
    BY <1>2 DEF Reset, IsHash, ValuesInv, ConfigTypeOK
  <2> HIDE DEF h
  <2> QED BY <2>1, CommitKeepsValues
<1> QED BY <1>1, <1>2

LEMMA InvalidateKeepsValues ==
  ASSUME ValuesInv, NEW a \in Admins, Invalidate(a)
  PROVE  (ConfigTypeOK /\ FailedOK)'
<1> a \in Coroutines /\ Home[a] \in Processes
  BY HomeIn DEF Coroutines
<1>1. /\ cache' = [cache EXCEPT ![Home[a]] = Cleared] /\ load' = [load EXCEPT ![a].at = "sent"]
      /\ admin' = [admin EXCEPT ![a].pc = "loading"] /\ UNCHANGED <<overrides, recent, writes, misses>>
  BY DEF Invalidate
<1>2. \A p \in Processes : cache'[p] = cache[p] \/ cache'[p] = Cleared
  BY <1>1 DEF ValuesInv, ViewInv, ConfigInv, ConfigShape
<1>3. load'[a].at = "sent" /\ load'[a].val = load[a].val
  <2>1. load'[a] = [load[a] EXCEPT !.at = "sent"] /\ IsLoad(load[a])
    BY <1>1 DEF ValuesInv, ViewInv, ConfigInv, ConfigShape
  <2> QED BY <2>1 DEF IsLoad
<1>4. \A d \in Coroutines \ {a} : load'[d] = load[d]
  BY <1>1 DEF ValuesInv, ViewInv, ConfigInv, ConfigShape
<1>5. /\ admin'[a].pc = "loading" /\ admin'[a].view = admin[a].view /\ admin'[a].later = admin[a].later
      /\ \A b \in Admins \ {a} : admin'[b] = admin[b]
  <2>1. IsAdmin(admin[a]) /\ admin = [b \in Admins |-> admin[b]]
    BY DEF ValuesInv, ViewInv, AdminsOK, AdminOK
  <2> QED BY <1>1, <2>1 DEF IsAdmin
<1>6. \A p \in Processes : /\ IsHash(cache'[p].val) /\ cache'[p].age \in 0..CacheTTL
                           /\ ~cache'[p].ok => cache'[p].val = NoOverrides /\ misses > 0
  BY <1>2, Counts, EmptyIsHash DEF Cleared, ValuesInv, ConfigTypeOK, FailedOK
<1> QED BY <1>1, <1>3, <1>4, <1>5, <1>6 DEF ValuesInv, ConfigTypeOK, FailedOK

LEMMA KillKeepsValues ==
  ASSUME ValuesInv, NEW p \in Processes, Kill(p)
  PROVE  (ConfigTypeOK /\ FailedOK)'
<1>1. /\ cache' = [cache EXCEPT ![p] = Cleared] /\ UNCHANGED <<overrides, recent, writes, misses>>
      /\ load' = [c \in Coroutines |-> IF Home[c] = p THEN NoLoad ELSE load[c]]
      /\ admin' = [a \in Admins |-> IF Home[a] = p THEN Idler ELSE admin[a]]
  BY DEF Kill
<1>2. \A q \in Processes : cache'[q] = cache[q] \/ cache'[q] = Cleared
  BY <1>1 DEF ValuesInv, ViewInv, ConfigInv, ConfigShape
<1>3. \A q \in Processes : /\ IsHash(cache'[q].val) /\ cache'[q].age \in 0..CacheTTL
                           /\ ~cache'[q].ok => cache'[q].val = NoOverrides /\ misses > 0
  BY <1>2, Counts, EmptyIsHash DEF Cleared, ValuesInv, ConfigTypeOK, FailedOK
<1>4. \A c \in Coroutines : load'[c] = load[c] \/ load'[c] = NoLoad
  BY <1>1
<1>5. \A a \in Admins : admin'[a] = admin[a] \/ admin'[a] = Idler
  BY <1>1
<1> QED BY <1>1, <1>3, <1>4, <1>5, EmptyIsHash
        DEF ValuesInv, ConfigTypeOK, FailedOK, NoLoad, Idler

LEMMA TickKeepsValues ==
  ASSUME ValuesInv, Tick
  PROVE  (ConfigTypeOK /\ FailedOK)'
<1>1. /\ cache' = [p \in Processes |-> [cache[p] EXCEPT !.age = IF Fresh(p) THEN @ + 1 ELSE @]]
      /\ recent' = {Older(v) : v \in {w \in recent : w.gone + 1 < CacheTTL}}
      /\ UNCHANGED <<overrides, load, admin, writes, misses>>
  BY DEF Tick, Older
<1>2. \A p \in Processes : /\ cache'[p].val = cache[p].val /\ cache'[p].ok = cache[p].ok
                           /\ cache'[p].age = IF Fresh(p) THEN cache[p].age + 1 ELSE cache[p].age
  BY <1>1 DEF ValuesInv, ViewInv, ConfigInv, ConfigShape, IsEntry
<1>3. \A v \in recent : Older(v).val = v.val /\ Older(v).gone = v.gone + 1
  BY DEF ValuesInv, ViewInv, ConfigInv, ConfigShape, IsReplaced, Older
<1>4. \A v \in recent' : IsHash(v.val) /\ v.gone \in 0..(CacheTTL - 1)
  BY <1>1, <1>3, Counts DEF ValuesInv, ConfigTypeOK
<1>5. \A p \in Processes : IsHash(cache'[p].val) /\ cache'[p].age \in 0..CacheTTL
  BY <1>2, Counts DEF ValuesInv, ConfigTypeOK, Fresh
<1> QED BY <1>1, <1>2, <1>4, <1>5 DEF ValuesInv, ConfigTypeOK, FailedOK

\* Reading is all a request does to the configuration.
LEMMA HandleConfig ==
  ASSUME NEW r \in Readers, Handle(r)
  PROVE  /\ UNCHANGED <<overrides, admin, recent, writes, misses>>
         /\ UNCHANGED config \/ Miss(r) \/ Store(r)
<1>1. CASE Read(r)
  BY <1>1 DEF Read, Hit, Miss, Store, config
<1>2. CASE ~Read(r)
  BY <1>2 DEF Handle, Arrive, Acquire, Peek, Verdict, Release, Poll, GiveUp, Replay, Resolve,
              TakeSlot, Insert, Fill, Announce, Unslot, Unbatch, config
<1> QED BY <1>1, <1>2

LEMMA NextKeepsValues ==
  ASSUME ValuesInv, [Next]_vars
  PROVE  ValuesInv'
<1>1. UNCHANGED config => (ConfigTypeOK /\ FailedOK)'
  BY ValuesStand DEF config
<1>2. UNCHANGED vars \/ (\E k \in Keys : Expire(k)) => (ConfigTypeOK /\ FailedOK)'
  BY <1>1 DEF vars, Expire
<1>3. ASSUME NEW r \in Readers, Handle(r)
      PROVE  (ConfigTypeOK /\ FailedOK)'
  <2>1. r \in Coroutines
    BY Apart
  <2>2. Miss(r) => (ConfigTypeOK /\ FailedOK)'
    BY <2>1, SentKeepsValues DEF Miss
  <2>3. Store(r) => (ConfigTypeOK /\ FailedOK)'
    BY <2>1, StoredKeepsValues DEF Store
  <2> QED BY <1>1, <1>3, <2>2, <2>3, HandleConfig
<1>4. ASSUME NEW a \in Admins, Snapshot(a)
      PROVE  (ConfigTypeOK /\ FailedOK)'
  <2>1. a \in Coroutines
    BY DEF Coroutines
  <2>2. \A b \in Admins : admin'[b] = admin[b] \/
          (admin'[b].pc = "viewed" /\ admin'[b].view = load[a].val /\ admin'[b].later = admin[b].later)
    BY <1>4 DEF Snapshot, ValuesInv, ViewInv, AdminsOK, AdminOK, IsAdmin
  <2> QED BY <1>4, <2>1, <2>2, StoredKeepsValues DEF Snapshot
<1>5. ASSUME NEW a \in Admins, Operate(a)
      PROVE  (ConfigTypeOK /\ FailedOK)'
  BY <1>4, <1>5, WritesHash, InvalidateKeepsValues DEF Operate
<1>6. Config => (ConfigTypeOK /\ FailedOK)'
  BY <1>5, AnswerKeepsValues, TickKeepsValues DEF Config
<1>7. (ConfigTypeOK /\ FailedOK)'
  BY <1>2, <1>3, <1>6, KillKeepsValues DEF Next
<1>8. ViewInv'
  BY NextKeepsView DEF ValuesInv
<1> QED BY <1>7, <1>8 DEF ValuesInv

LEMMA InitValues ==
  ASSUME Init
  PROVE  ConfigTypeOK /\ FailedOK
<1>1. /\ overrides = NoOverrides /\ \A p \in Processes : cache[p] = Cleared
      /\ \A c \in Coroutines : load[c] = NoLoad
      /\ \A a \in Admins : admin[a] = Idler
      /\ recent = {} /\ writes = 0 /\ misses = 0
  BY DEF Init, ConfigInit
<1>2. /\ Cleared.val = NoOverrides /\ Cleared.age = CacheTTL /\ Cleared.ok
      /\ NoLoad.val = NoOverrides /\ NoLoad.at = "idle"
      /\ Idler.pc = "idle" /\ Idler.view = NoOverrides /\ Idler.later = {}
  BY DEF Cleared, NoLoad, Idler
<1>3. ConfigTypeOK
  <2>1. CacheTTL \in 0..CacheTTL /\ 0 \in 0..MaxWrites /\ 0 \in 0..MaxMisses
    BY Counts
  <2>2. /\ \A p \in Processes : cache[p].val = NoOverrides /\ cache[p].age = CacheTTL
        /\ \A c \in Coroutines : load[c].val = NoOverrides /\ load[c].at = "idle"
        /\ \A a \in Admins : admin[a].pc = "idle" /\ admin[a].view = NoOverrides /\ admin[a].later = {}
    BY <1>1, <1>2
  <2> QED BY <1>1, <2>1, <2>2, EmptyIsHash DEF ConfigTypeOK
<1> QED BY <1>1, <1>2, <1>3 DEF FailedOK

-------------------------------------------------------------------------------
(* What holds of a request                                                 *)

Back == {"unslot", "unbatch", "unplace"}

Taken(k, v) == v \in Allowed[k] \cup {Settings[k]}

\* The fields of a request, wherever it is.
KindOK(q) ==
  /\ q.end \in Ends /\ q.ask \in Profiles /\ q.found \in Readers \cup {NoTask}
  /\ q.owned \in BOOLEAN /\ q.held \in BOOLEAN /\ q.made \in BOOLEAN
  /\ q.owned => q.found = NoTask
  /\ q.got = [k \in MUTABLE |-> q.got[k]]

\* What a request has depends on where it is.
PcOK(q) ==
  /\ q.pc \in Labels
  /\ q.pc \notin Back \cup {"done"} => q.end = "none"
  /\ q.pc \in Back => q.end \in {"4xx", "5xx"}
  /\ q.pc \in {"new", "place", "peek"} => q.found = NoTask
  /\ q.held => q.pc \in {"insert", "fill", "announce", "unslot"}
               \/ (q.pc = "done" /\ q.end = "accepted")
  /\ q.pc = "unslot" => q.held
  /\ q.pc \in {"batch_wait_seconds", "plan"} => Taken("batch_size", q.got["batch_size"])
  /\ q.pc = "plan" => Taken("batch_wait_seconds", q.got["batch_wait_seconds"])

\* The settings are not compared with MAX_BATCH.
PlanOK(plan) ==
  Settings["batch_size"] <= MAX_BATCH /\ plan.enabled =>
    /\ 2 <= plan.size /\ plan.size <= MAX_BATCH
    /\ 1 <= plan.wait /\ plan.wait <= WaitCeiling

\* The limit a request is about to compare with is one in force.
LimitOK(q) ==
  q.pc = "conc" =>
    \E h \in Known : q.got["max_concurrent_tasks"] = Value(h, "max_concurrent_tasks")

Fine(q) == IsReq(q) /\ KindOK(q) /\ PcOK(q) /\ PlanOK(q.plan) /\ LimitOK(q)

\* What request r, in state q, has left behind.
TraceOK(r, q) ==
  /\ r \in rows \cup announced =>
       q.pc \in {"fill", "announce"} \/ q.end \in {"5xx", "accepted", "crashed"}
  /\ \A k \in Keys : idem[k] = Pending /\ placer[k] = r =>
       \/ q.pc \notin {"new", "announce", "done"} /\ q.owned /\ q.ask.key = k
       \/ q.pc = "done" /\ q.end \in {"5xx", "crashed"}

RequestsOK == \A r \in Readers : Fine(req[r]) /\ TraceOK(r, req[r])

SetsOK == rows \subseteq Readers /\ overrun \subseteq Keys /\ faults \in Nat

Held == {r \in Readers : req[r].held}

\* The counter is the slots that are held and those nobody knows of.
SlotsOK == IsFiniteSet(Held) /\ astray \in Nat /\ conc = Cardinality(Held) + astray

FullInv == ValuesInv /\ IdemInv /\ RequestsOK /\ SetsOK /\ SlotsOK

-------------------------------------------------------------------------------
(* How a request moves                                                     *)

\* e is q but for what is given.
Edited(e, q, pc, got, plan, held, made, end) ==
  /\ IsReq(e) /\ e.pc = pc /\ e.ask = q.ask /\ e.owned = q.owned /\ e.found = q.found
  /\ e.got = got /\ e.plan = plan /\ e.held = held /\ e.made = made /\ e.end = end

LEMMA SetPc ==
  ASSUME NEW q, IsReq(q), NEW v
  PROVE  Edited([q EXCEPT !.pc = v], q, v, q.got, q.plan, q.held, q.made, q.end)
<1>1. [q EXCEPT !.pc = v] =
        [pc |-> v, ask |-> q.ask, owned |-> q.owned, found |-> q.found, got |-> q.got,
         plan |-> q.plan, held |-> q.held, made |-> q.made, end |-> q.end]
  BY DEF IsReq
<1> QED BY <1>1 DEF Edited, IsReq

LEMMA SetGot ==
  ASSUME NEW q, IsReq(q), NEW v
  PROVE  Edited([q EXCEPT !.got = v], q, q.pc, v, q.plan, q.held, q.made, q.end)
<1>1. [q EXCEPT !.got = v] =
        [pc |-> q.pc, ask |-> q.ask, owned |-> q.owned, found |-> q.found, got |-> v,
         plan |-> q.plan, held |-> q.held, made |-> q.made, end |-> q.end]
  BY DEF IsReq
<1> QED BY <1>1 DEF Edited, IsReq

LEMMA SetPlan ==
  ASSUME NEW q, IsReq(q), NEW v
  PROVE  Edited([q EXCEPT !.plan = v], q, q.pc, q.got, v, q.held, q.made, q.end)
<1>1. [q EXCEPT !.plan = v] =
        [pc |-> q.pc, ask |-> q.ask, owned |-> q.owned, found |-> q.found, got |-> q.got,
         plan |-> v, held |-> q.held, made |-> q.made, end |-> q.end]
  BY DEF IsReq
<1> QED BY <1>1 DEF Edited, IsReq

LEMMA SetHeld ==
  ASSUME NEW q, IsReq(q), NEW v
  PROVE  Edited([q EXCEPT !.held = v], q, q.pc, q.got, q.plan, v, q.made, q.end)
<1>1. [q EXCEPT !.held = v] =
        [pc |-> q.pc, ask |-> q.ask, owned |-> q.owned, found |-> q.found, got |-> q.got,
         plan |-> q.plan, held |-> v, made |-> q.made, end |-> q.end]
  BY DEF IsReq
<1> QED BY <1>1 DEF Edited, IsReq

LEMMA SetMade ==
  ASSUME NEW q, IsReq(q), NEW v
  PROVE  Edited([q EXCEPT !.made = v], q, q.pc, q.got, q.plan, q.held, v, q.end)
<1>1. [q EXCEPT !.made = v] =
        [pc |-> q.pc, ask |-> q.ask, owned |-> q.owned, found |-> q.found, got |-> q.got,
         plan |-> q.plan, held |-> q.held, made |-> v, end |-> q.end]
  BY DEF IsReq
<1> QED BY <1>1 DEF Edited, IsReq

LEMMA SetEnd ==
  ASSUME NEW q, IsReq(q), NEW v
  PROVE  Edited([q EXCEPT !.end = v], q, q.pc, q.got, q.plan, q.held, q.made, v)
<1>1. [q EXCEPT !.end = v] =
        [pc |-> q.pc, ask |-> q.ask, owned |-> q.owned, found |-> q.found, got |-> q.got,
         plan |-> q.plan, held |-> q.held, made |-> q.made, end |-> v]
  BY DEF IsReq
<1> QED BY <1>1 DEF Edited, IsReq

LEMMA EndedFields ==
  ASSUME NEW q, NEW end
  PROVE  LET e == Ended(q, end)
         IN  /\ IsReq(e) /\ e.pc = "done" /\ e.ask = q.ask /\ e.owned = FALSE /\ e.found = q.found
             /\ e.got = NoOverrides /\ e.plan = Immediate /\ e.held = q.held /\ e.made = FALSE
             /\ e.end = end
  BY DEF Ended, IsReq

LEMMA Constants ==
  /\ NoOverrides = [k \in MUTABLE |-> NoOverrides[k]] /\ ~Immediate.enabled
  /\ Reads \subseteq MUTABLE
  BY AdmissionAssumption DEF NoOverrides, Immediate, Reads

\* What the invariant says of a request.
LEMMA RequestFacts ==
  ASSUME FullInv, NEW r \in Readers
  PROVE  /\ Fine(req[r]) /\ TraceOK(r, req[r]) /\ ReqOK(r, req[r])
         /\ req = [s \in Readers |-> req[s]]
  BY DEF FullInv, RequestsOK, IdemInv, ShapeOK

\* A key has a placeholder of r only where r has one now.
Shrinks(r) ==
  \A k \in Keys : idem'[k] = Pending /\ placer'[k] = r => idem[k] = Pending /\ placer[k] = r

\* r is in a state that fits, and holds a slot or not.
Result(r, held) == \E e : Become(r, e) /\ Fine(e) /\ TraceOK(r, e)' /\ e.held = held

\* A request ends.
LEMMA FinishResult ==
  ASSUME NEW r \in Readers, NEW q, KindOK(q), NEW end \in Ends, Finish(r, q, end),
         q.held => end = "accepted",
         end \in {"5xx", "accepted", "crashed"} \/ r \notin (rows \cup announced)',
         end \in {"5xx", "crashed"} \/ (\A k \in Keys : ~(idem'[k] = Pending /\ placer'[k] = r))
  PROVE  Result(r, q.held)
<1> DEFINE e == Ended(q, end)
<1>1. Become(r, e)
  BY DEF Finish
<1>2. /\ IsReq(e) /\ e.pc = "done" /\ e.ask = q.ask /\ e.owned = FALSE /\ e.found = q.found
      /\ e.got = NoOverrides /\ e.plan = Immediate /\ e.held = q.held /\ e.made = FALSE
      /\ e.end = end
  BY EndedFields, ZenonT(30)
<1> HIDE DEF e
<1>3. Fine(e)
  BY <1>2, Constants DEF Fine, KindOK, PcOK, PlanOK, LimitOK, Labels, Back
<1>4. TraceOK(r, e)'
  BY <1>2 DEF TraceOK
<1> QED BY <1>1, <1>2, <1>3, <1>4 DEF Result

\* The except branch: a placeholder that is left belongs to what is left to do.
LEMMA BackoutResult ==
  ASSUME NEW r \in Readers, NEW q, IsReq(q), KindOK(q), PlanOK(q.plan),
         NEW end \in {"4xx", "5xx"}, Backout(r, q, end),
         end = "5xx" \/ r \notin (rows \cup announced)',
         \A k \in Keys : idem'[k] = Pending /\ placer'[k] = r => q.owned /\ q.ask.key = k
  PROVE  Result(r, q.held)
<1>1. CASE Unwind(q) = "done"
  <2>1. ~q.held /\ ~q.owned /\ end \in Ends
    BY <1>1 DEF Unwind, Ends
  <2>2. Finish(r, q, end)
    BY <1>1 DEF Backout
  <2> QED BY <2>1, <2>2, FinishResult
<1>2. CASE Unwind(q) # "done"
  <2> DEFINE u == Unwind(q)
             d == [q EXCEPT !.pc = u]
             e == [q EXCEPT !.pc = u, !.end = end]
  <2>1. u \in Back /\ (q.held <=> u = "unslot")
    BY <1>2 DEF Unwind, Back, KindOK
  <2>2. Become(r, e)
    BY <1>2 DEF Backout
  <2>3. e = [d EXCEPT !.end = end]
    OBVIOUS
  <2> HIDE DEF u
  <2>4. Edited(d, q, u, q.got, q.plan, q.held, q.made, q.end)
    BY SetPc
  <2> HIDE DEF d, e
  <2>5. Edited(e, d, d.pc, d.got, d.plan, d.held, d.made, end)
    BY <2>3, <2>4, SetEnd DEF Edited
  <2>6. Edited(e, q, u, q.got, q.plan, q.held, q.made, end)
    BY <2>4, <2>5 DEF Edited
  <2>7. Fine(e)
    BY <2>1, <2>6 DEF Edited, Fine, KindOK, PcOK, PlanOK, LimitOK, Labels, Ends, Awaits, Back, Reads
  <2>8. TraceOK(r, e)'
    BY <2>1, <2>6 DEF Edited, TraceOK, Back
  <2>9. e.held = q.held
    BY <2>6 DEF Edited
  <2> QED BY <2>2, <2>7, <2>8, <2>9 DEF Result
<1> QED BY <1>1, <1>2

\* The awaits a request passes without any news.
Passing == {"peek", "wait", "free", "replay", "batch_enabled", "max_concurrent_tasks", "insert"}

\* From one of the first awaits to another.
LEMMA MoveResult ==
  ASSUME NEW r \in Readers, NEW q, Fine(q), TraceOK(r, q), q.pc \notin Back \cup {"done", "fill", "announce"},
         NEW pc \in Passing, NEW d, Edited(d, q, q.pc, d.got, d.plan, q.held, q.made, q.end),
         KindOK(d), PlanOK(d.plan),
         NEW e, e = [d EXCEPT !.pc = pc], Become(r, e),
         q.pc = "peek" \/ pc # "peek" \/ q.pc = "place",
         q.pc = "new" => pc # "insert",
         q.held => pc = "insert",
         UNCHANGED <<rows, announced>>, Shrinks(r)
  PROVE  Result(r, q.held)
<1>1. Edited(e, d, pc, d.got, d.plan, d.held, d.made, d.end)
  BY SetPc DEF Edited
<1>2. Edited(e, q, pc, d.got, d.plan, q.held, q.made, q.end)
  BY <1>1 DEF Edited
<1>3. Fine(e)
  BY <1>2 DEF Edited, Fine, KindOK, PcOK, LimitOK, Labels, Awaits, Back, Reads, Passing
<1>4. TraceOK(r, e)'
  BY <1>2 DEF Edited, TraceOK, Shrinks, Passing, Fine, PcOK
<1>5. e.held = q.held
  BY <1>2 DEF Edited
<1> QED BY <1>3, <1>4, <1>5 DEF Result

-------------------------------------------------------------------------------
(* One step of a request                                                   *)

LEMMA ServedKnown ==
  ASSUME ValuesInv
  PROVE  /\ \A p \in Processes : Fresh(p) => cache[p].val \in Known /\ IsHash(cache[p].val)
         /\ \A c \in Coroutines :
              load[c].at = "got" => load[c].val \in Known /\ IsHash(load[c].val)
<1>1. \A h, age : Served(h, age) => h \in Known
  BY DEF Served, Known
<1>2. \A p \in Processes : Fresh(p) => cache[p].val \in Known
  BY <1>1 DEF ValuesInv, ViewInv, ConfigInv, CachesOK, FailedOK, Known
<1>3. \A c \in Coroutines : load[c].at = "got" => load[c].val \in Known
  BY <1>1 DEF ValuesInv, ViewInv, ConfigInv, LoadsOK, FailedOK, Known
<1> QED BY <1>2, <1>3 DEF ValuesInv, ConfigTypeOK

LEMMA ValueTaken ==
  ASSUME NEW h, IsHash(h), NEW k \in MUTABLE
  PROVE  Taken(k, Value(h, k))
  BY DEF IsHash, Taken, Value

\* A request that placed its key, or found a task at it.
LEMMA SetTwo ==
  ASSUME NEW q, IsReq(q), NEW v, NEW x
  PROVE  /\ [q EXCEPT !.pc = v, !.owned = x] =
              [pc |-> v, ask |-> q.ask, owned |-> x, found |-> q.found, got |-> q.got,
               plan |-> q.plan, held |-> q.held, made |-> q.made, end |-> q.end]
         /\ [q EXCEPT !.pc = v, !.found = x] =
              [pc |-> v, ask |-> q.ask, owned |-> q.owned, found |-> x, got |-> q.got,
               plan |-> q.plan, held |-> q.held, made |-> q.made, end |-> q.end]
<1> DEFINE d == [q EXCEPT !.pc = v]
<1>1. d = [pc |-> v, ask |-> q.ask, owned |-> q.owned, found |-> q.found, got |-> q.got,
           plan |-> q.plan, held |-> q.held, made |-> q.made, end |-> q.end]
  BY DEF IsReq
<1>2. /\ [q EXCEPT !.pc = v, !.owned = x] = [d EXCEPT !.owned = x]
      /\ [q EXCEPT !.pc = v, !.found = x] = [d EXCEPT !.found = x]
  OBVIOUS
<1> HIDE DEF d
<1>3. [d EXCEPT !.owned = x] =
        [pc |-> v, ask |-> q.ask, owned |-> x, found |-> q.found, got |-> q.got,
         plan |-> q.plan, held |-> q.held, made |-> q.made, end |-> q.end]
  BY <1>1
<1>4. [d EXCEPT !.found = x] =
        [pc |-> v, ask |-> q.ask, owned |-> q.owned, found |-> x, got |-> q.got,
         plan |-> q.plan, held |-> q.held, made |-> q.made, end |-> q.end]
  BY <1>1
<1> QED BY <1>2, <1>3, <1>4

LEMMA ArriveResult ==
  ASSUME FullInv, NEW r \in Readers, Arrive(r)
  PROVE  Result(r, req[r].held)
<1>0. PICK q : q = req[r]
  OBVIOUS
<1>1. Fine(q) /\ TraceOK(r, q) /\ q.pc = "new" /\ UNCHANGED <<rows, announced, idem, placer>>
  BY <1>0, RequestFacts DEF Arrive, At, keyspace
<1>2. PICK p \in Profiles :
        LET d == [q EXCEPT !.ask = p]
        IN  \/ Become(r, [d EXCEPT !.pc = IF p.key = NoKey THEN "verdict" ELSE "place"])
            \/ Finish(r, d, "4xx")
  BY <1>0 DEF Arrive
<1> DEFINE d == [q EXCEPT !.ask = p]
           pc == IF p.key = NoKey THEN "verdict" ELSE "place"
           e == [d EXCEPT !.pc = pc]
<1>3. Become(r, e) \/ Finish(r, d, "4xx")
  BY <1>2
<1>4. pc \in {"verdict", "place"}
  OBVIOUS
<1> HIDE DEF pc
<1>5. /\ IsReq(d) /\ d.pc = "new" /\ d.ask = p /\ d.owned = q.owned /\ d.found = q.found
      /\ d.got = q.got /\ d.plan = q.plan /\ d.held = q.held /\ d.made = q.made /\ d.end = q.end
  <2>1. d = [pc |-> q.pc, ask |-> p, owned |-> q.owned, found |-> q.found, got |-> q.got,
             plan |-> q.plan, held |-> q.held, made |-> q.made, end |-> q.end]
    BY <1>1 DEF Fine, IsReq
  <2> HIDE DEF d
  <2> QED BY <1>1, <2>1 DEF IsReq
<1> HIDE DEF d
<1>6. /\ KindOK(d) /\ ~q.held /\ r \notin rows \cup announced
      /\ \A k \in Keys : ~(idem[k] = Pending /\ placer[k] = r)
  BY <1>1, <1>5 DEF Fine, KindOK, PcOK, TraceOK, Back
<1>7. CASE Become(r, e)
  <2>1. Edited(e, d, pc, d.got, d.plan, d.held, d.made, d.end)
    BY <1>5, SetPc
  <2> HIDE DEF e
  <2>2. Fine(e)
    BY <1>1, <1>4, <1>5, <1>6, <2>1
       DEF Edited, Fine, KindOK, PcOK, PlanOK, LimitOK, Labels, Awaits, Back, Reads
  <2>3. TraceOK(r, e)' /\ e.held = q.held
    BY <1>1, <1>5, <1>6, <2>1 DEF Edited, TraceOK
  <2>4. Result(r, q.held)
    BY <1>7, <2>2, <2>3 DEF Result
  <2> QED BY <1>0, <2>4
<1>8. CASE Finish(r, d, "4xx")
  <2>1. Result(r, d.held)
    BY <1>0, <1>1, <1>5, <1>6, <1>8, FinishResult DEF Ends
  <2> QED BY <1>0, <1>5, <2>1
<1> QED BY <1>3, <1>7, <1>8

\* The placeholder is the request's own, or none.
LEMMA AcquireResult ==
  ASSUME FullInv, NEW r \in Readers, Acquire(r)
  PROVE  Result(r, req[r].held)
<1>0. PICK q : q = req[r]
  OBVIOUS
<1> DEFINE k == q.ask.key
<1>1. /\ Fine(q) /\ TraceOK(r, q) /\ ReqOK(r, q) /\ q.pc = "place" /\ k \in Keys
      /\ UNCHANGED <<rows, announced>>
  BY <1>0, RequestFacts DEF Acquire, At, ReqOK
<1>2. ~q.owned /\ ~q.held /\ q.found = NoTask /\ q.end = "none" /\ r \notin rows \cup announced
      /\ \A l \in Keys : ~(idem[l] = Pending /\ placer[l] = r)
  BY <1>1 DEF ReqOK, Fine, PcOK, TraceOK, Back
<1> DEFINE Placing == /\ idem' = [idem EXCEPT ![k] = Pending]
                      /\ placer' = [placer EXCEPT ![k] = r]
<1>3. Placing \/ UNCHANGED <<idem, placer>>
  BY <1>0 DEF Acquire, Key
<1>4. \A l \in Keys \ {k} : ~(idem'[l] = Pending /\ placer'[l] = r)
  <2>1. idem \in [Keys -> Readers \cup {NoTask, Pending}] /\ placer \in [Keys -> Readers \cup {NoTask}]
    BY DEF FullInv, IdemInv, ShapeOK
  <2> QED BY <1>2, <1>3, <2>1
<1>5. \/ Become(r, [q EXCEPT !.pc = "verdict", !.owned = TRUE])
      \/ Goto(r, "peek") /\ UNCHANGED <<idem, placer>>
      \/ Finish(r, q, "5xx")
  BY <1>0 DEF Acquire
<1>6. CASE Become(r, [q EXCEPT !.pc = "verdict", !.owned = TRUE])
  <2> DEFINE e == [q EXCEPT !.pc = "verdict", !.owned = TRUE]
  <2>1. e = [pc |-> "verdict", ask |-> q.ask, owned |-> TRUE, found |-> q.found, got |-> q.got,
             plan |-> q.plan, held |-> q.held, made |-> q.made, end |-> q.end]
    BY <1>1, SetTwo DEF Fine
  <2>2. Become(r, e)
    BY <1>6
  <2> HIDE DEF e
  <2>3. Fine(e)
    BY <1>1, <1>2, <2>1
       DEF Fine, IsReq, KindOK, PcOK, PlanOK, LimitOK, Labels, Awaits, Back, Reads
  <2>4. e.held = q.held /\ e.pc = "verdict" /\ e.owned = TRUE /\ e.ask = q.ask
    BY <2>1
  <2>5. TraceOK(r, e)'
    BY <1>1, <1>2, <1>4, <2>1, <2>4 DEF TraceOK
  <2>6. Result(r, q.held)
    BY <2>2, <2>3, <2>4, <2>5 DEF Result
  <2> QED BY <1>0, <2>6
<1>7. CASE Goto(r, "peek") /\ UNCHANGED <<idem, placer>>
  <2> DEFINE e == [q EXCEPT !.pc = "peek"]
  <2>1. Become(r, e)
    BY <1>0, <1>7 DEF Goto
  <2>2. Edited(q, q, q.pc, q.got, q.plan, q.held, q.made, q.end)
    BY <1>1 DEF Edited, Fine
  <2>3. KindOK(q) /\ PlanOK(q.plan) /\ Shrinks(r)
    BY <1>1, <1>7 DEF Fine, Shrinks
  <2>4. Result(r, q.held)
    BY <1>1, <1>2, <1>7, <2>1, <2>2, <2>3, MoveResult DEF Passing, Back
  <2> QED BY <1>0, <2>4
<1>8. CASE Finish(r, q, "5xx")
  BY <1>0, <1>1, <1>2, <1>8, FinishResult DEF Fine, Ends
<1> QED BY <1>5, <1>6, <1>7, <1>8

LEMMA PeekResult ==
  ASSUME FullInv, NEW r \in Readers, Peek(r)
  PROVE  Result(r, req[r].held)
<1>0. PICK q, x : q = req[r] /\ x = TaskOf(Key(r))
  OBVIOUS
<1> DEFINE e == [q EXCEPT !.pc = "verdict", !.found = x]
<1>1. /\ Fine(q) /\ TraceOK(r, q) /\ ReqOK(r, q) /\ q.pc = "peek" /\ Become(r, e)
      /\ UNCHANGED <<rows, announced, idem, placer>>
  BY <1>0, RequestFacts DEF Peek, At, keyspace
<1>2. x \in Readers \cup {NoTask}
  BY <1>0, <1>1, Values DEF TaskOf, Key, FullInv, IdemInv, ShapeOK, ReqOK
<1>3. e = [pc |-> "verdict", ask |-> q.ask, owned |-> q.owned, found |-> x, got |-> q.got,
           plan |-> q.plan, held |-> q.held, made |-> q.made, end |-> q.end]
  BY <1>1, SetTwo DEF Fine
<1> HIDE DEF e
<1>4. ~q.owned /\ ~q.held
  BY <1>1 DEF ReqOK, Fine, PcOK
<1>5. Fine(e)
  BY <1>1, <1>2, <1>3, <1>4
     DEF Fine, IsReq, KindOK, PcOK, PlanOK, LimitOK, Labels, Awaits, Back, Reads
<1>6. e.held = q.held /\ e.pc = "verdict" /\ e.owned = q.owned /\ e.ask = q.ask
  BY <1>3
<1>7. TraceOK(r, e)'
  BY <1>1, <1>6 DEF TraceOK, Fine, PcOK, Back
<1>8. Result(r, q.held)
  BY <1>1, <1>5, <1>6, <1>7 DEF Result
<1> QED BY <1>0, <1>8

\* A step that changes nothing but the place.
LEMMA GotoResult ==
  ASSUME FullInv, NEW r \in Readers, NEW pc \in Passing, Goto(r, pc),
         req[r].pc \notin Back \cup {"done", "fill", "announce", "new"},
         pc # "peek" \/ req[r].pc = "place", req[r].held => pc = "insert",
         UNCHANGED <<rows, announced, idem, placer>>
  PROVE  Result(r, req[r].held)
<1>0. PICK q : q = req[r]
  OBVIOUS
<1> DEFINE e == [q EXCEPT !.pc = pc]
<1>1. Fine(q) /\ TraceOK(r, q) /\ Become(r, e) /\ Shrinks(r)
  BY <1>0, RequestFacts DEF Goto, Shrinks
<1>2. Edited(q, q, q.pc, q.got, q.plan, q.held, q.made, q.end) /\ KindOK(q) /\ PlanOK(q.plan)
  BY <1>1 DEF Edited, Fine
<1>3. q.pc \notin Back \cup {"done", "fill", "announce", "new"} /\ (q.held => pc = "insert")
      /\ (pc # "peek" \/ q.pc = "place")
  BY <1>0
<1>4. Result(r, q.held)
  BY <1>1, <1>2, <1>3, MoveResult
<1> QED BY <1>0, <1>4

LEMMA VerdictResult ==
  ASSUME FullInv, NEW r \in Readers, Verdict(r)
  PROVE  Result(r, req[r].held)
<1>0. PICK q : q = req[r]
  OBVIOUS
<1>1. /\ Fine(q) /\ TraceOK(r, q) /\ q.pc = "verdict" /\ UNCHANGED <<rows, announced, idem, placer>>
  BY <1>0, RequestFacts DEF Verdict, At, keyspace
<1>2. ~q.held /\ q.owned \in BOOLEAN /\ r \notin rows \cup announced
      /\ \A k \in Keys : idem[k] = Pending /\ placer[k] = r => q.owned /\ q.ask.key = k
  BY <1>1 DEF Fine, KindOK, PcOK, TraceOK, Back
<1>3. \/ \E pc \in {"replay", "batch_enabled", "wait", "free"} : Goto(r, pc)
      \/ Backout(r, q, "4xx")
      \/ ~q.owned /\ Finish(r, q, "4xx")
  BY <1>0 DEF Verdict, Admitted
<1>4. ASSUME NEW pc \in {"replay", "batch_enabled", "wait", "free"}, Goto(r, pc)
      PROVE  Result(r, q.held)
  BY <1>0, <1>1, <1>2, <1>4, GotoResult DEF Passing, Back
<1>5. CASE Backout(r, q, "4xx")
  BY <1>0, <1>1, <1>2, <1>5, BackoutResult DEF Fine
<1>6. CASE ~q.owned /\ Finish(r, q, "4xx")
  BY <1>0, <1>1, <1>2, <1>6, FinishResult DEF Fine, Ends
<1> QED BY <1>0, <1>3, <1>4, <1>5, <1>6

\* The placeholder goes, or the client is told of trouble.
LEMMA ReleaseResult ==
  ASSUME FullInv, NEW r \in Readers, Release(r)
  PROVE  Result(r, req[r].held)
<1>0. PICK q : q = req[r]
  OBVIOUS
<1> DEFINE k == q.ask.key
           end == IF q.pc = "free" THEN "4xx" ELSE q.end
<1>1. /\ Fine(q) /\ TraceOK(r, q) /\ ReqOK(r, q) /\ q.pc \in {"free", "unplace"} /\ k \in Keys
      /\ UNCHANGED <<rows, announced, placer>>
  BY <1>0, RequestFacts DEF Release, At, ReqOK
<1>2. /\ ~q.held /\ end \in {"4xx", "5xx"} /\ (end = "4xx" => r \notin rows \cup announced)
      /\ \A l \in Keys : idem[l] = Pending /\ placer[l] = r => l = k
  BY <1>1 DEF Fine, PcOK, TraceOK, Back
<1>3. \/ idem' = Freed(k) /\ Finish(r, q, end)
      \/ Finish(r, q, "5xx")
  BY <1>0 DEF Release, Key
<1>4. CASE Finish(r, q, "5xx")
  BY <1>0, <1>1, <1>2, <1>4, FinishResult DEF Fine, Ends
<1>5. CASE idem' = Freed(k) /\ Finish(r, q, end)
  <2>1. \A l \in Keys : ~(idem'[l] = Pending /\ placer'[l] = r)
    <3>1. idem \in [Keys -> Readers \cup {NoTask, Pending}]
      BY DEF FullInv, IdemInv, ShapeOK
    <3> QED BY <1>1, <1>2, <1>5, <3>1, Values DEF Freed
  <2> QED BY <1>0, <1>1, <1>2, <1>5, <2>1, FinishResult DEF Fine, Ends
<1> QED BY <1>3, <1>4, <1>5

\* Poll, GiveUp and Replay: a request without a placeholder.
LEMMA WaitResult ==
  ASSUME FullInv, NEW r \in Readers, Poll(r) \/ GiveUp(r) \/ Replay(r)
  PROVE  Result(r, req[r].held)
<1>0. PICK q, x : q = req[r] /\ x = idem[Key(r)]
  OBVIOUS
<1> DEFINE e == [q EXCEPT !.pc = "replay", !.found = x]
<1>1. /\ Fine(q) /\ TraceOK(r, q) /\ ReqOK(r, q) /\ q.pc \in {"wait", "replay"}
      /\ UNCHANGED <<rows, announced, idem, placer>>
  BY <1>0, RequestFacts DEF Poll, GiveUp, Replay, At, keyspace
<1>2. ~q.held /\ ~q.owned /\ r \notin rows \cup announced /\ q.end = "none"
  BY <1>1 DEF ReqOK, Fine, KindOK, PcOK, TraceOK, Back
<1>3. \A k \in Keys : ~(idem[k] = Pending /\ placer[k] = r)
  BY <1>1, <1>2 DEF TraceOK
<1>4. \/ Finish(r, q, "4xx") \/ Finish(r, q, "replayed")
      \/ x \in Readers /\ Become(r, e)
  BY <1>0, <1>1, Values DEF Poll, GiveUp, Replay, At, Key, ReqOK, FullInv, IdemInv, ShapeOK
<1>5. CASE Finish(r, q, "4xx") \/ Finish(r, q, "replayed")
  BY <1>0, <1>1, <1>2, <1>3, <1>5, FinishResult DEF Fine, Ends
<1>6. CASE x \in Readers /\ Become(r, e)
  <2>1. e = [pc |-> "replay", ask |-> q.ask, owned |-> q.owned, found |-> x, got |-> q.got,
             plan |-> q.plan, held |-> q.held, made |-> q.made, end |-> q.end]
    BY <1>1, SetTwo DEF Fine
  <2>2. Become(r, e)
    BY <1>6
  <2> HIDE DEF e
  <2>3. Fine(e)
    BY <1>1, <1>2, <1>6, <2>1
       DEF Fine, IsReq, KindOK, PcOK, PlanOK, LimitOK, Labels, Awaits, Back, Reads
  <2>4. e.held = q.held /\ e.pc = "replay" /\ e.owned = q.owned /\ e.ask = q.ask
    BY <2>1
  <2>5. TraceOK(r, e)'
    BY <1>1, <1>2, <1>3, <2>1, <2>4 DEF TraceOK
  <2>6. Result(r, q.held)
    BY <2>2, <2>3, <2>4, <2>5 DEF Result
  <2> QED BY <1>0, <2>6
<1> QED BY <1>4, <1>5, <1>6

\* A value of the configuration in force.
LEMMA ReadResult ==
  ASSUME FullInv, NEW r \in Readers, Read(r)
  PROVE  Result(r, req[r].held) \/ UNCHANGED req
<1>0. PICK q : q = req[r]
  OBVIOUS
<1>1. /\ Fine(q) /\ TraceOK(r, q) /\ q.pc \in Reads
      /\ UNCHANGED <<rows, announced, idem, placer>>
  BY <1>0, RequestFacts DEF Read, keyspace
<1>2. PICK pc : pc = AfterRead[q.pc]
  OBVIOUS
<1>3. /\ q.pc = "batch_enabled" => pc = "batch_size"
      /\ q.pc = "batch_size" => pc = "batch_wait_seconds"
      /\ q.pc = "batch_wait_seconds" => pc = "plan"
      /\ q.pc = "max_concurrent_tasks" => pc = "conc"
  BY <1>2 DEF AfterRead
<1>4. ASSUME NEW hash \in Known, IsHash(hash), Take(r, q.pc, hash)
      PROVE  Result(r, q.held)
  <2>1. PICK v : v = Value(hash, q.pc)
    OBVIOUS
  <2>2. Taken(q.pc, v)
    BY <1>1, <1>4, <2>1, ValueTaken, Constants
  <2> DEFINE got == [q.got EXCEPT ![q.pc] = v]
             d == [q EXCEPT !.pc = pc]
             e == [d EXCEPT !.got = got]
  <2>3. Become(r, [q EXCEPT !.pc = pc, !.got[q.pc] = v])
    BY <1>0, <1>2, <1>4, <2>1 DEF Take
  <2>4. Edited(d, q, pc, q.got, q.plan, q.held, q.made, q.end)
    BY <1>1, SetPc DEF Fine
  <2>5. [q EXCEPT !.pc = pc, !.got[q.pc] = v] = e
    <3>1. d.got = q.got
      BY <2>4 DEF Edited
    <3> QED BY <3>1
  <2>6. /\ got = [k \in MUTABLE |-> got[k]] /\ got[q.pc] = v
        /\ \A k \in MUTABLE \ {q.pc} : got[k] = q.got[k]
    BY <1>1, Constants DEF Fine, KindOK
  <2> HIDE DEF d, got
  <2>7. Edited(e, q, pc, got, q.plan, q.held, q.made, q.end)
    <3>1. Edited(e, d, d.pc, got, d.plan, d.held, d.made, d.end)
      BY <2>4, SetGot DEF Edited
    <3> QED BY <2>4, <3>1 DEF Edited
  <2> HIDE DEF e
  <2>8. KindOK(e) /\ PlanOK(e.plan)
    BY <1>1, <2>6, <2>7 DEF Edited, Fine, KindOK
  <2>9. q.end = "none" /\ ~q.held
    BY <1>1 DEF Fine, PcOK, Back, Reads
  <2>10. PcOK(e)
    <3>1. pc \in {"batch_size", "batch_wait_seconds", "plan", "conc"}
      BY <1>1, <1>3 DEF Reads
    <3>2. pc \in {"batch_wait_seconds", "plan"} => Taken("batch_size", got["batch_size"])
      BY <1>1, <1>3, <2>2, <2>6, Constants DEF Fine, PcOK, Reads
    <3>3. pc = "plan" => Taken("batch_wait_seconds", got["batch_wait_seconds"])
      BY <1>1, <1>3, <2>2, <2>6, Constants DEF Fine, PcOK, Reads
    <3> QED BY <2>7, <2>9, <3>1, <3>2, <3>3 DEF Edited, PcOK, Labels, Awaits, Back, Reads
  <2>11. LimitOK(e)
    BY <1>1, <1>3, <1>4, <2>1, <2>6, <2>7 DEF Edited, LimitOK, Reads
  <2>12. TraceOK(r, e)'
    BY <1>1, <1>3, <2>7, <2>9 DEF Edited, TraceOK, Reads
  <2>13. IsReq(e) /\ e.held = q.held
    BY <2>7 DEF Edited
  <2> QED BY <2>3, <2>5, <2>8, <2>10, <2>11, <2>12, <2>13 DEF Result, Fine
<1>5. UNCHANGED req \/ \E hash \in Known : IsHash(hash) /\ Take(r, q.pc, hash)
  <2>1. Home[r] \in Processes /\ r \in Coroutines /\ ValuesInv
    BY Apart, HomeIn DEF FullInv
  <2> QED BY <1>0, <2>1, ServedKnown DEF Read, Hit, Store
<1> QED BY <1>0, <1>4, <1>5

\* What a plan is made of keeps it within its bounds.
LEMMA PlanFits ==
  ASSUME NEW p \in Profiles, NEW conf, NEW model, NEW token, HeadersValid(p.headers),
         Taken("batch_size", conf["batch_size"]),
         Taken("batch_wait_seconds", conf["batch_wait_seconds"])
  PROVE  PlanOK(resolve_plan(p.headers, conf, model, token))
<1> DEFINE h == p.headers
           size == EffectiveSize(h, conf.batch_size)
           wait == EffectiveWait(h, conf.batch_wait_seconds)
           plan == resolve_plan(h, conf, model, token)
<1>1. /\ conf.batch_size \in Int /\ conf.batch_wait_seconds \in Int
      /\ Settings["batch_size"] <= MAX_BATCH => conf.batch_size <= MAX_BATCH
  BY ValuesAssumption DEF Taken
<1>2. MAX_BATCH \in Nat /\ MaxWait \in Int
  BY PlanAssumption
<1>3. /\ h.size # Absent => h.size \in Int /\ h.size >= 1 /\ h.size <= MAX_BATCH
      /\ h.wait # Absent => h.wait \in Int /\ h.wait >= 1 /\ h.wait <= WaitCeiling
  BY ValuesAssumption DEF HeadersValid, Positive
<1> HIDE DEF h
<1>4. size \in Int /\ (Settings["batch_size"] <= MAX_BATCH => size <= MAX_BATCH)
  BY <1>1, <1>2, <1>3 DEF EffectiveSize, AtLeast
<1>5. 1 <= wait /\ wait <= WaitCeiling
  BY <1>1, <1>2, <1>3 DEF EffectiveWait, AtMost, AtLeast, WaitCeiling
<1>6. plan.enabled => ~(size < 2) /\ plan.size = size /\ plan.wait = wait
  BY DEF resolve_plan, Immediate
<1> HIDE DEF size, wait, plan
<1>7. PlanOK(plan)
  BY <1>4, <1>5, <1>6 DEF PlanOK
<1> QED BY <1>7 DEF plan, h

LEMMA ResolveResult ==
  ASSUME FullInv, NEW r \in Readers, Resolve(r)
  PROVE  Result(r, req[r].held)
<1>0. PICK q, plan : /\ q = req[r]
                     /\ plan = resolve_plan(q.ask.headers, q.got, q.ask.model, NoName)
  OBVIOUS
<1>1. /\ Fine(q) /\ TraceOK(r, q) /\ q.pc = "plan"
      /\ UNCHANGED <<rows, announced, idem, placer>>
  BY <1>0, RequestFacts DEF Resolve, At, keyspace
<1> DEFINE pc == IF plan.enabled THEN "insert" ELSE "max_concurrent_tasks"
           bare == [q EXCEPT !.got = NoOverrides]
           both == [q EXCEPT !.got = NoOverrides, !.plan = plan]
           planned == [bare EXCEPT !.plan = plan]
           e == [planned EXCEPT !.pc = pc]
<1>2. \/ HeadersValid(q.ask.headers) /\ Become(r, [both EXCEPT !.pc = pc])
      \/ HeadersValid(q.ask.headers) /\ Backout(r, both, "4xx")
      \/ Backout(r, bare, "4xx")
  BY <1>0 DEF Resolve
<1>3. both = planned
  OBVIOUS
<1>4. pc \in {"insert", "max_concurrent_tasks"}
  OBVIOUS
<1> HIDE DEF pc
<1>5. HeadersValid(q.ask.headers) => PlanOK(plan)
  BY <1>0, <1>1, PlanFits DEF Fine, KindOK, PcOK
<1>6. Edited(bare, q, q.pc, NoOverrides, q.plan, q.held, q.made, q.end)
  BY <1>1, SetGot DEF Fine
<1> HIDE DEF bare
<1>7. Edited(planned, q, q.pc, NoOverrides, plan, q.held, q.made, q.end)
  <2>1. Edited(planned, bare, bare.pc, bare.got, plan, bare.held, bare.made, bare.end)
    BY <1>6, SetPlan DEF Edited
  <2> QED BY <1>6, <2>1 DEF Edited
<1> HIDE DEF planned, both
<1>8. KindOK(bare) /\ KindOK(planned)
  BY <1>1, <1>6, <1>7, Constants DEF Edited, Fine, KindOK
<1>9. /\ ~q.held /\ r \notin rows \cup announced
      /\ \A k \in Keys : idem[k] = Pending /\ placer[k] = r => q.owned /\ q.ask.key = k
  BY <1>1 DEF Fine, PcOK, TraceOK, Back
<1>10. CASE HeadersValid(q.ask.headers) /\ Become(r, e)
  <2>1. Edited(planned, q, q.pc, planned.got, planned.plan, q.held, q.made, q.end) /\ PlanOK(planned.plan)
    BY <1>5, <1>7, <1>10 DEF Edited
  <2>2. Shrinks(r)
    BY <1>1 DEF Shrinks
  <2>3. Result(r, q.held)
    BY <1>1, <1>4, <1>8, <1>9, <1>10, <2>1, <2>2, MoveResult DEF Passing, Back
  <2> QED BY <1>0, <2>3
<1>11. CASE HeadersValid(q.ask.headers) /\ Backout(r, planned, "4xx")
  <2>1. /\ IsReq(planned) /\ PlanOK(planned.plan) /\ planned.held = q.held /\ planned.owned = q.owned
        /\ planned.ask = q.ask
    BY <1>5, <1>7, <1>11 DEF Edited
  <2>2. Result(r, planned.held)
    BY <1>1, <1>8, <1>9, <1>11, <2>1, BackoutResult
  <2> QED BY <1>0, <2>1, <2>2
<1>12. CASE Backout(r, bare, "4xx")
  <2>1. IsReq(bare) /\ PlanOK(bare.plan) /\ bare.held = q.held /\ bare.owned = q.owned /\ bare.ask = q.ask
    BY <1>1, <1>6 DEF Edited, Fine
  <2>2. Result(r, bare.held)
    BY <1>1, <1>8, <1>9, <1>12, <2>1, BackoutResult
  <2> QED BY <1>0, <2>1, <2>2
<1> QED BY <1>2, <1>3, <1>10, <1>11, <1>12

\* A slot of the request's own, none, or one that nobody knows of.
LEMMA TakeSlotResult ==
  ASSUME FullInv, NEW r \in Readers, TakeSlot(r)
  PROVE  /\ ~req[r].held
         /\ \/ Result(r, TRUE) /\ conc' = conc + 1 /\ astray' = astray
            \/ Result(r, FALSE) /\ conc' = conc /\ astray' = astray
            \/ Result(r, FALSE) /\ conc' = conc + 1 /\ astray' = astray + 1
<1>0. PICK q : q = req[r]
  OBVIOUS
<1>1. /\ Fine(q) /\ TraceOK(r, q) /\ q.pc = "conc"
      /\ UNCHANGED <<rows, announced, idem, placer>>
  BY <1>0, RequestFacts DEF TakeSlot, At, keyspace
<1>2. /\ ~q.held /\ q.end = "none" /\ r \notin rows \cup announced
      /\ \A k \in Keys : idem[k] = Pending /\ placer[k] = r => q.owned /\ q.ask.key = k
  BY <1>1 DEF Fine, PcOK, TraceOK, Back
<1> DEFINE bare == [q EXCEPT !.got = NoOverrides]
           there == [bare EXCEPT !.pc = "insert"]
           e == [there EXCEPT !.held = TRUE]
<1>3. \/ Become(r, e) /\ conc' = conc + 1 /\ astray' = astray
      \/ (Backout(r, bare, "4xx") \/ Backout(r, bare, "5xx")) /\ conc' = conc /\ astray' = astray
      \/ Backout(r, bare, "5xx") /\ conc' = conc + 1 /\ astray' = astray + 1
  BY <1>0 DEF TakeSlot, Counted
<1>4. Edited(bare, q, q.pc, NoOverrides, q.plan, q.held, q.made, q.end)
  BY <1>1, SetGot DEF Fine
<1> HIDE DEF bare
<1>5. Edited(there, q, "insert", NoOverrides, q.plan, q.held, q.made, q.end)
  <2>1. Edited(there, bare, "insert", bare.got, bare.plan, bare.held, bare.made, bare.end)
    BY <1>4, SetPc DEF Edited
  <2> QED BY <1>4, <2>1 DEF Edited
<1> HIDE DEF there
<1>6. Edited(e, q, "insert", NoOverrides, q.plan, TRUE, q.made, q.end)
  <2>1. Edited(e, there, there.pc, there.got, there.plan, TRUE, there.made, there.end)
    BY <1>5, SetHeld DEF Edited
  <2> QED BY <1>5, <2>1 DEF Edited
<1> HIDE DEF e
<1>7. KindOK(bare) /\ PlanOK(bare.plan) /\ IsReq(bare)
  BY <1>1, <1>4, Constants DEF Edited, Fine, KindOK
<1>8. Become(r, e) => Result(r, TRUE)
  <2>1. Fine(e)
    BY <1>1, <1>2, <1>6, Constants
       DEF Edited, Fine, KindOK, PcOK, LimitOK, Labels, Awaits, Back, Reads
  <2>2. TraceOK(r, e)'
    BY <1>1, <1>2, <1>6 DEF Edited, TraceOK
  <2> QED BY <1>6, <2>1, <2>2 DEF Edited, Result
<1>9. ASSUME NEW end \in {"4xx", "5xx"}, Backout(r, bare, end)
      PROVE  Result(r, FALSE)
  <2>1. bare.held = FALSE /\ bare.owned = q.owned /\ bare.ask = q.ask
    BY <1>1, <1>2, <1>4 DEF Edited, Fine, KindOK
  <2>2. Result(r, bare.held)
    BY <1>1, <1>2, <1>7, <1>9, <2>1, BackoutResult
  <2> QED BY <2>1, <2>2
<1>10. ~req[r].held
  BY <1>0, <1>2
<1> QED BY <1>3, <1>8, <1>9, <1>10

LEMMA InsertResult ==
  ASSUME FullInv, NEW r \in Readers, Insert(r)
  PROVE  Result(r, req[r].held)
<1>0. PICK q : q = req[r]
  OBVIOUS
<1>1. /\ Fine(q) /\ TraceOK(r, q) /\ q.pc = "insert" /\ UNCHANGED <<announced, idem, placer>>
  BY <1>0, RequestFacts DEF Insert, At, keyspace
<1> DEFINE pc == IF q.ask.key = NoKey THEN "announce" ELSE "fill"
           made == [q EXCEPT !.made = TRUE]
           e == [made EXCEPT !.pc = pc]
<1>2. Become(r, e) \/ Backout(r, q, "5xx")
  BY <1>0 DEF Insert, Key
<1>3. \A k \in Keys : idem'[k] = Pending /\ placer'[k] = r => q.owned /\ q.ask.key = k
  BY <1>1 DEF TraceOK
<1>4. CASE Become(r, e)
  <2>1. (pc = "announce" /\ q.ask.key = NoKey) \/ pc = "fill"
    OBVIOUS
  <2> HIDE DEF pc
  <2>2. Edited(made, q, q.pc, q.got, q.plan, q.held, TRUE, q.end)
    BY <1>1, SetMade DEF Fine
  <2> HIDE DEF made
  <2>3. Edited(e, q, pc, q.got, q.plan, q.held, TRUE, q.end)
    <3>1. Edited(e, made, pc, made.got, made.plan, made.held, made.made, made.end)
      BY <2>2, SetPc DEF Edited
    <3> QED BY <2>2, <3>1 DEF Edited
  <2> HIDE DEF e
  <2>4. Fine(e)
    BY <1>1, <2>1, <2>3
       DEF Edited, Fine, KindOK, PcOK, LimitOK, Labels, Awaits, Back, Reads
  <2>5. TraceOK(r, e)'
    BY <1>3, <2>1, <2>3, Values DEF Edited, TraceOK
  <2>6. Result(r, q.held)
    BY <1>4, <2>3, <2>4, <2>5 DEF Edited, Result
  <2> QED BY <1>0, <2>6
<1>5. CASE Backout(r, q, "5xx")
  BY <1>0, <1>1, <1>3, <1>5, BackoutResult DEF Fine
<1> QED BY <1>2, <1>4, <1>5

\* From now on the key leads to the task.
LEMMA FillResult ==
  ASSUME FullInv, NEW r \in Readers, Fill(r)
  PROVE  Result(r, req[r].held)
<1>0. PICK q : q = req[r]
  OBVIOUS
<1>1. /\ Fine(q) /\ TraceOK(r, q) /\ ReqOK(r, q) /\ q.pc = "fill" /\ q.ask.key \in Keys
      /\ UNCHANGED <<rows, announced, placer>>
  BY <1>0, RequestFacts DEF Fill, At, ReqOK
<1> DEFINE e == [q EXCEPT !.pc = "announce"]
           filled == [idem EXCEPT ![q.ask.key] = r]
<1>2. \/ Become(r, e) /\ idem' = filled
      \/ Backout(r, q, "5xx") /\ idem' \in {idem, filled}
  BY <1>0 DEF Fill, Filled, Key, Goto
<1>3. /\ \A k \in Keys : idem[k] = Pending /\ placer[k] = r => q.owned /\ q.ask.key = k
      /\ idem \in [Keys -> Readers \cup {NoTask, Pending}]
  BY <1>1 DEF TraceOK, FullInv, IdemInv, ShapeOK
<1>4. CASE Become(r, e) /\ idem' = filled
  <2>1. \A k \in Keys : ~(idem'[k] = Pending /\ placer'[k] = r)
    BY <1>1, <1>3, <1>4, Values
  <2>2. Edited(e, q, "announce", q.got, q.plan, q.held, q.made, q.end)
    BY <1>1, SetPc DEF Fine
  <2> HIDE DEF e
  <2>3. Fine(e)
    BY <1>1, <2>2 DEF Edited, Fine, KindOK, PcOK, LimitOK, Labels, Awaits, Back, Reads
  <2>4. TraceOK(r, e)'
    BY <2>1, <2>2 DEF Edited, TraceOK
  <2>5. Result(r, q.held)
    BY <1>4, <2>2, <2>3, <2>4 DEF Edited, Result
  <2> QED BY <1>0, <2>5
<1>5. CASE Backout(r, q, "5xx") /\ idem' \in {idem, filled}
  <2>1. \A k \in Keys : idem'[k] = Pending /\ placer'[k] = r => q.owned /\ q.ask.key = k
    BY <1>1, <1>3, <1>5, Values
  <2> QED BY <1>0, <1>1, <1>5, <2>1, BackoutResult DEF Fine
<1> QED BY <1>2, <1>4, <1>5

LEMMA AnnounceResult ==
  ASSUME FullInv, NEW r \in Readers, Announce(r)
  PROVE  Result(r, req[r].held)
<1>0. PICK q : q = req[r]
  OBVIOUS
<1>1. Fine(q) /\ TraceOK(r, q) /\ q.pc = "announce" /\ UNCHANGED <<idem, placer>>
  BY <1>0, RequestFacts DEF Announce, At, keyspace
<1>2. \A k \in Keys : ~(idem'[k] = Pending /\ placer'[k] = r)
  BY <1>1 DEF TraceOK
<1>3. Finish(r, q, "accepted") \/ Backout(r, q, "5xx")
  BY <1>0 DEF Announce
<1>4. CASE Finish(r, q, "accepted")
  BY <1>0, <1>1, <1>2, <1>4, FinishResult DEF Fine, Ends
<1>5. CASE Backout(r, q, "5xx")
  BY <1>0, <1>1, <1>2, <1>5, BackoutResult DEF Fine
<1> QED BY <1>3, <1>4, <1>5

\* The slot and the batch of a failed creation.
LEMMA GiveBackResult ==
  ASSUME FullInv, NEW r \in Readers
  PROVE  /\ Unslot(r) => Result(r, FALSE) /\ req[r].held
         /\ Unbatch(r) => Result(r, req[r].held)
<1>0. PICK q : q = req[r]
  OBVIOUS
<1> SUFFICES ASSUME q.pc \in {"unslot", "unbatch"}, UNCHANGED <<rows, announced, idem, placer>>
             PROVE  /\ Backout(r, [q EXCEPT !.held = FALSE], q.end) => Result(r, FALSE)
                    /\ Backout(r, [q EXCEPT !.made = FALSE], q.end) => Result(r, q.held)
                    /\ q.pc = "unslot" => q.held
  BY <1>0 DEF Unslot, Unbatch, At, keyspace
<1>1. Fine(q) /\ TraceOK(r, q)
  BY <1>0, RequestFacts
<1>2. /\ q.pc = "unslot" => q.held
      /\ q.end \in {"4xx", "5xx"} /\ (q.end = "5xx" \/ r \notin rows \cup announced)
      /\ \A k \in Keys : idem[k] = Pending /\ placer[k] = r => q.owned /\ q.ask.key = k
  BY <1>1 DEF Fine, PcOK, TraceOK, Back
<1> DEFINE without == [q EXCEPT !.held = FALSE]
           left == [q EXCEPT !.made = FALSE]
<1>3. Edited(without, q, q.pc, q.got, q.plan, FALSE, q.made, q.end)
  BY <1>1, SetHeld DEF Fine
<1>4. Edited(left, q, q.pc, q.got, q.plan, q.held, FALSE, q.end)
  BY <1>1, SetMade DEF Fine
<1> HIDE DEF without, left
<1>5. /\ IsReq(without) /\ KindOK(without) /\ PlanOK(without.plan) /\ without.held = FALSE
      /\ without.owned = q.owned /\ without.ask = q.ask
  BY <1>1, <1>3 DEF Edited, Fine, KindOK
<1>6. /\ IsReq(left) /\ KindOK(left) /\ PlanOK(left.plan) /\ left.held = q.held
      /\ left.owned = q.owned /\ left.ask = q.ask
  BY <1>1, <1>4 DEF Edited, Fine, KindOK
<1>7. Backout(r, without, q.end) => Result(r, without.held)
  BY <1>2, <1>5, BackoutResult
<1>8. Backout(r, left, q.end) => Result(r, left.held)
  BY <1>2, <1>6, BackoutResult
<1> QED BY <1>2, <1>5, <1>6, <1>7, <1>8 DEF without, left

-------------------------------------------------------------------------------
(* The steps together                                                      *)

\* What r does to the slots: held says whether r has one afterwards.
SlotStep(r, held) ==
  LET was == req[r].held
  IN  \/ (held <=> was) /\ UNCHANGED <<conc, astray>>
      \/ (held <=> was) /\ conc' = conc + 1 /\ astray' = astray + 1
      \/ ~was /\ held /\ conc' = conc + 1 /\ astray' = astray
      \/ was /\ ~held /\ conc' = conc /\ astray' = astray + 1
      \/ was /\ ~held /\ conc' = (IF conc = 0 THEN 0 ELSE conc - 1) /\ astray' = astray

LEMMA HandleResult ==
  ASSUME FullInv, NEW r \in Readers, Handle(r)
  PROVE  \/ UNCHANGED <<req, rows, announced, idem, placer, conc, astray>>
         \/ \E held \in BOOLEAN : Result(r, held) /\ SlotStep(r, held)
<1>0. req[r].held \in BOOLEAN
  BY RequestFacts DEF Fine, KindOK
<1>1. ASSUME UNCHANGED <<conc, astray>>, Result(r, req[r].held)
      PROVE  \E held \in BOOLEAN : Result(r, held) /\ SlotStep(r, held)
  BY <1>0, <1>1 DEF SlotStep
<1>2. CASE Arrive(r) \/ Acquire(r) \/ Peek(r) \/ Verdict(r) \/ Release(r)
           \/ Poll(r) \/ GiveUp(r) \/ Replay(r)
  <2>1. UNCHANGED <<conc, astray>>
    BY <1>2 DEF Arrive, Acquire, Peek, Verdict, Release, Poll, GiveUp, Replay
  <2> QED BY <1>1, <1>2, <2>1, ArriveResult, AcquireResult, PeekResult, VerdictResult,
             ReleaseResult, WaitResult
<1>3. CASE Read(r)
  <2>1. UNCHANGED <<conc, astray, rows, announced, idem, placer>>
    BY <1>3 DEF Read, keyspace
  <2> QED BY <1>1, <1>3, <2>1, ReadResult
<1>4. CASE Resolve(r) \/ Insert(r) \/ Fill(r) \/ Announce(r) \/ Unbatch(r)
  <2>1. UNCHANGED <<conc, astray>>
    BY <1>4 DEF Resolve, Insert, Fill, Announce, Unbatch
  <2> QED BY <1>1, <1>4, <2>1, ResolveResult, InsertResult, FillResult, AnnounceResult,
             GiveBackResult
<1>5. CASE TakeSlot(r)
  BY <1>5, TakeSlotResult DEF SlotStep
<1>6. CASE Unslot(r)
  <2>1. Result(r, FALSE) /\ req[r].held
    BY <1>6, GiveBackResult
  <2>2. \/ conc' = (IF conc = 0 THEN 0 ELSE conc - 1) /\ astray' = astray
        \/ conc' = conc /\ astray' = astray + 1
    BY <1>6 DEF Unslot
  <2> QED BY <2>1, <2>2 DEF SlotStep
<1> QED BY <1>2, <1>3, <1>4, <1>5, <1>6 DEF Handle

\* What r leaves alone.
LEMMA HandleFrame ==
  ASSUME FullInv, NEW r \in Readers, Handle(r)
  PROVE  /\ rows' \in {rows, rows \cup {r}} /\ announced' \in {announced, announced \cup {r}}
         /\ overrun' = overrun /\ faults' \in {faults, faults + 1}
         /\ \A s \in Readers \ {r} : Shrinks(s)
<1>1. CASE Read(r) \/ Arrive(r) \/ Peek(r) \/ Verdict(r) \/ Poll(r) \/ GiveUp(r) \/ Replay(r)
           \/ Resolve(r) \/ TakeSlot(r) \/ Unslot(r) \/ Unbatch(r)
  <2>1. UNCHANGED <<rows, announced, keyspace>> /\ faults' \in {faults, faults + 1}
    BY <1>1 DEF Read, Arrive, Peek, Verdict, Poll, GiveUp, Replay, Resolve, TakeSlot, Unslot, Unbatch,
                Fails, Trouble
  <2> QED BY <2>1 DEF Shrinks, keyspace
<1>2. CASE Insert(r) \/ Announce(r)
  <2>1. /\ rows' \in {rows, rows \cup {r}} /\ announced' \in {announced, announced \cup {r}}
        /\ UNCHANGED keyspace /\ faults' \in {faults, faults + 1}
    BY <1>2 DEF Insert, Announce, Fails, Trouble
  <2> QED BY <2>1 DEF Shrinks, keyspace
<1>3. idem \in [Keys -> Readers \cup {NoTask, Pending}] /\ placer \in [Keys -> Readers \cup {NoTask}]
  BY DEF FullInv, IdemInv, ShapeOK
<1>4. CASE Acquire(r)
  <2>1. Key(r) \in Keys
    BY <1>4, RequestFacts DEF Acquire, At, ReqOK, Key
  <2>2. /\ UNCHANGED <<rows, announced, overrun>> /\ faults' \in {faults, faults + 1}
        /\ \/ UNCHANGED <<idem, placer>>
           \/ /\ idem' = [idem EXCEPT ![Key(r)] = Pending]
              /\ placer' = [placer EXCEPT ![Key(r)] = r]
    BY <1>4 DEF Acquire, Fails, Trouble
  <2> QED BY <1>3, <2>1, <2>2 DEF Shrinks
<1>5. CASE Release(r) \/ Fill(r)
  <2>1. /\ UNCHANGED <<rows, announced, overrun, placer>> /\ faults' \in {faults, faults + 1}
        /\ idem' \in {idem, Freed(Key(r)), Filled(r)}
    BY <1>5 DEF Release, Fill, Fails, Trouble
  <2> QED BY <1>3, <2>1, Values DEF Shrinks, Freed, Filled
<1> QED BY <1>1, <1>2, <1>4, <1>5 DEF Handle

LEMMA KnownStays ==
  ASSUME UNCHANGED <<overrides, recent, misses>>
  PROVE  Known' = Known
  BY DEF Known

\* The counter follows the slots that are held.
LEMMA SlotsFollow ==
  ASSUME FullInv, NEW r \in Readers, NEW e, Become(r, e), SlotStep(r, e.held)
  PROVE  SlotsOK'
<1>1. req'[r] = e /\ \A s \in Readers \ {r} : req'[s] = req[s]
  BY RequestFacts DEF Become
<1>2. IsFiniteSet(Held) /\ Cardinality(Held) \in Nat /\ astray \in Nat
      /\ conc = Cardinality(Held) + astray
  BY FS_CardinalityType DEF FullInv, SlotsOK
<1>3. CASE req[r].held <=> e.held
  <2>1. Held' = Held
    BY <1>1, <1>3 DEF Held
  <2>2. Cardinality(Held)' = Cardinality(Held)
    BY <2>1
  <2> QED BY <1>2, <1>3, <2>1, <2>2 DEF SlotStep, SlotsOK
<1>4. CASE ~req[r].held /\ e.held
  <2>1. Held' = Held \cup {r} /\ r \notin Held
    BY <1>1, <1>4 DEF Held
  <2>2. IsFiniteSet(Held') /\ Cardinality(Held') = Cardinality(Held) + 1
    BY <1>2, <2>1, FS_AddElement
  <2> QED BY <1>2, <1>4, <2>2 DEF SlotStep, SlotsOK
<1>5. CASE req[r].held /\ ~e.held
  <2>1. Held' = Held \ {r} /\ r \in Held
    BY <1>1, <1>5 DEF Held
  <2>2. IsFiniteSet(Held') /\ Cardinality(Held') = Cardinality(Held) - 1
    BY <1>2, <2>1, FS_RemoveElement
  <2>3. Cardinality(Held') \in Nat
    BY <2>2, FS_CardinalityType
  <2> QED BY <1>2, <1>5, <2>2, <2>3 DEF SlotStep, SlotsOK
<1> QED BY <1>3, <1>4, <1>5

LEMMA HandleKeepsRequests ==
  ASSUME FullInv, NEW r \in Readers, Handle(r)
  PROVE  (RequestsOK /\ SetsOK /\ SlotsOK)'
<1>1. Known' = Known
  BY KnownStays, HandleConfig
<1>2. SetsOK'
  BY HandleFrame DEF FullInv, SetsOK
<1>3. CASE UNCHANGED <<req, rows, announced, idem, placer, conc, astray>>
  <2>1. RequestsOK'
    BY <1>1, <1>3 DEF FullInv, RequestsOK, Fine, IsReq, KindOK, PcOK, PlanOK, LimitOK, TraceOK
  <2>2. SlotsOK'
    BY <1>3 DEF FullInv, SlotsOK, Held
  <2> QED BY <1>2, <2>1, <2>2
<1>4. CASE \E held \in BOOLEAN : Result(r, held) /\ SlotStep(r, held)
  <2>1. PICK e : Become(r, e) /\ Fine(e) /\ TraceOK(r, e)' /\ SlotStep(r, e.held)
    BY <1>4 DEF Result
  <2>2. SlotsOK'
    BY <2>1, SlotsFollow
  <2>3. req'[r] = e /\ \A s \in Readers \ {r} : req'[s] = req[s]
    BY <2>1, RequestFacts DEF Become
  <2>4. \A q : Fine(q) => Fine(q)'
    BY <1>1 DEF Fine, IsReq, KindOK, PcOK, PlanOK, LimitOK
  <2>5. ASSUME NEW s \in Readers
        PROVE  (Fine(req[s]) /\ TraceOK(s, req[s]))'
    <3>1. CASE s = r
      BY <2>1, <2>3, <2>4, <3>1
    <3>2. CASE s # r
      <4>1. PICK q : q = req[s]
        OBVIOUS
      <4>2. Fine(q) /\ TraceOK(s, q)
        BY <4>1, RequestFacts
      <4>3. TraceOK(s, q)'
        BY <3>2, <4>2, HandleFrame DEF TraceOK, Shrinks
      <4> QED BY <2>3, <2>4, <3>2, <4>1, <4>2, <4>3
    <3> QED BY <3>1, <3>2
  <2> QED BY <1>2, <2>2, <2>5 DEF RequestsOK
<1> QED BY <1>3, <1>4, HandleResult

\* Whatever takes the placeholders, the configurations in force are more.
LEMMA OthersKeepRequests ==
  ASSUME FullInv, UNCHANGED <<req, rows, announced, placer, conc, astray>>,
         \A k \in Keys : idem'[k] = Pending => idem[k] = Pending,
         Known \subseteq Known' \/ (\A r \in Readers : req[r].pc # "conc"),
         overrun' \subseteq Keys, faults' \in Nat
  PROVE  (RequestsOK /\ SetsOK /\ SlotsOK)'
<1>1. \A r \in Readers : LimitOK(req[r])'
  BY DEF FullInv, RequestsOK, Fine, LimitOK
<1>2. \A r \in Readers : Fine(req[r])'
  BY <1>1 DEF FullInv, RequestsOK, Fine, IsReq, KindOK, PcOK, PlanOK
<1>3. \A r \in Readers : TraceOK(r, req[r])'
  BY DEF FullInv, RequestsOK, TraceOK
<1>4. SlotsOK' /\ SetsOK'
  BY DEF FullInv, SlotsOK, SetsOK, Held
<1> QED BY <1>2, <1>3, <1>4 DEF RequestsOK

LEMMA KnownGrows ==
  ASSUME FullInv
  PROVE  /\ \A a, h : Commit(a, h) => Known \subseteq Known'
         /\ \A c \in Coroutines : Answer(c) => Known \subseteq Known'
         /\ \A a : Invalidate(a) \/ Snapshot(a) => Known \subseteq Known'
<1>1. ASSUME NEW a, NEW h, Commit(a, h)
      PROVE  Known \subseteq Known'
  <2>1. /\ overrides' = h /\ misses' = misses
        /\ recent' = {v \in recent \cup {[val |-> overrides, gone |-> 0]} : v.val # h}
    BY <1>1 DEF Commit
  <2>2. overrides \in Known'
    <3>1. overrides # h => [val |-> overrides, gone |-> 0] \in recent'
      BY <2>1
    <3> QED BY <2>1, <3>1 DEF Known
  <2>3. \A v \in recent : v.val \in Known'
    BY <2>1 DEF Known
  <2> QED BY <2>1, <2>2, <2>3 DEF Known
<1>2. ASSUME NEW c \in Coroutines, Answer(c)
      PROVE  Known \subseteq Known'
  <2>1. UNCHANGED <<overrides, recent>> /\ (misses > 0 => misses' > 0)
    BY <1>2, Counts DEF Answer, FullInv, ValuesInv, ConfigTypeOK
  <2> QED BY <2>1 DEF Known
<1>3. ASSUME NEW a, Invalidate(a) \/ Snapshot(a)
      PROVE  Known \subseteq Known'
  BY <1>3, KnownStays DEF Invalidate, Snapshot
<1> QED BY <1>1, <1>2, <1>3

LEMMA ConfigStepKeepsRequests ==
  ASSUME FullInv, Config
  PROVE  (RequestsOK /\ SetsOK /\ SlotsOK)'
<1>1. /\ UNCHANGED <<req, rows, announced, placer, idem, overrun, faults, conc, astray>>
      /\ \/ \E a \in Admins : Operate(a)
         \/ \E c \in Coroutines : Answer(c)
         \/ \A r \in Readers : req[r].pc # "conc"
  BY DEF Config, keyspace
<1>2. Known \subseteq Known' \/ \A r \in Readers : req[r].pc # "conc"
  BY <1>1, KnownGrows DEF Operate, SetMany, Reset
<1>3. overrun' \subseteq Keys /\ faults' \in Nat
  BY <1>1 DEF FullInv, SetsOK
<1> QED BY <1>1, <1>2, <1>3, OthersKeepRequests

\* The slots of the requests that died with their process are astray.
LEMMA KillKeepsRequests ==
  ASSUME FullInv, NEW p \in Processes, Kill(p)
  PROVE  (RequestsOK /\ SetsOK /\ SlotsOK)'
<1> DEFINE dead == {s \in Readers : Home[s] = p /\ Running(s)}
           lostSlots == {s \in dead : req[s].held}
<1>1. /\ UNCHANGED <<overrides, recent, misses, idem, placer, overrun, rows, announced, conc>>
      /\ faults' = faults + 1 /\ astray' = astray + Cardinality(lostSlots)
  BY DEF Kill, Trouble, keyspace
<1>2. req' = [s \in Readers |-> IF s \in dead THEN Ended([req[s] EXCEPT !.held = FALSE], "crashed")
                                ELSE req[s]]
  BY DEF Kill
<1>3. Known' = Known
  BY <1>1, KnownStays
<1>4. \A q : Fine(q) => Fine(q)'
  BY <1>3 DEF Fine, IsReq, KindOK, PcOK, PlanOK, LimitOK
<1>5. ASSUME NEW s \in Readers
      PROVE  \E e : /\ req'[s] = e /\ Fine(e) /\ TraceOK(s, e)'
                    /\ e.held <=> (req[s].held /\ s \notin dead)
  <2>1. PICK q : q = req[s]
    OBVIOUS
  <2>2. Fine(q) /\ TraceOK(s, q)
    BY <2>1, RequestFacts
  <2>3. CASE s \notin dead
    BY <1>1, <1>2, <2>1, <2>2, <2>3 DEF TraceOK
  <2>4. CASE s \in dead
    <3> DEFINE b == [q EXCEPT !.held = FALSE]
               e == Ended(b, "crashed")
    <3>1. req'[s] = e
      BY <1>2, <2>1, <2>4
    <3>2. Edited(b, q, q.pc, q.got, q.plan, FALSE, q.made, q.end)
      BY <2>2, SetHeld DEF Fine
    <3> HIDE DEF b
    <3>3. /\ IsReq(e) /\ e.pc = "done" /\ e.ask = b.ask /\ e.owned = FALSE /\ e.found = b.found
          /\ e.got = NoOverrides /\ e.plan = Immediate /\ e.held = b.held /\ e.made = FALSE
          /\ e.end = "crashed"
      BY EndedFields, ZenonT(30)
    <3> HIDE DEF e
    <3>4. b.held = FALSE /\ b.ask = q.ask /\ b.found = q.found
      BY <3>2 DEF Edited
    <3>5. Fine(e)
      BY <2>2, <3>3, <3>4, Constants DEF Fine, KindOK, PcOK, PlanOK, LimitOK, Labels, Back, Ends
    <3>6. TraceOK(s, e)'
      BY <3>3 DEF TraceOK
    <3> QED BY <2>4, <3>1, <3>3, <3>4, <3>5, <3>6
  <2> QED BY <2>3, <2>4
<1>6. RequestsOK'
  <2>1. ASSUME NEW s \in Readers
        PROVE  (Fine(req[s]) /\ TraceOK(s, req[s]))'
    BY <1>4, <1>5
  <2> QED BY <2>1 DEF RequestsOK
<1>7. SlotsOK'
  <2>1. Held' = Held \ lostSlots /\ lostSlots \subseteq Held
    BY <1>5 DEF Held
  <2>2. IsFiniteSet(Held) /\ astray \in Nat /\ conc = Cardinality(Held) + astray
    BY DEF FullInv, SlotsOK
  <2> HIDE DEF lostSlots
  <2>3. IsFiniteSet(lostSlots) /\ IsFiniteSet(Held')
    BY <2>1, <2>2, FS_Subset, FS_Difference
  <2>4. Cardinality(Held') = Cardinality(Held) - Cardinality(Held \cap lostSlots)
    BY <2>1, <2>2, FS_Difference
  <2>5. Held \cap lostSlots = lostSlots
    BY <2>1
  <2>6. Cardinality(lostSlots) \in Nat /\ Cardinality(Held) \in Nat
    BY <2>2, <2>3, FS_CardinalityType
  <2>7. Cardinality(Held') = Cardinality(Held) - Cardinality(lostSlots)
    BY <2>4, <2>5
  <2> QED BY <1>1, <2>2, <2>3, <2>6, <2>7 DEF SlotsOK
<1>8. SetsOK'
  BY <1>1 DEF FullInv, SetsOK
<1> QED BY <1>6, <1>7, <1>8

LEMMA NextKeepsAll ==
  ASSUME FullInv, [Next]_vars
  PROVE  FullInv'
<1>1. ValuesInv' /\ IdemInv'
  BY NextKeepsValues, NextKeeps DEF FullInv
<1>2. CASE UNCHANGED vars
  <2>1. /\ UNCHANGED <<req, rows, announced, placer, idem, overrun, faults, conc, astray>>
        /\ UNCHANGED <<overrides, recent, misses>>
    BY <1>2 DEF vars, config, keyspace
  <2>2. overrun' \subseteq Keys /\ faults' \in Nat
    BY <2>1 DEF FullInv, SetsOK
  <2>3. (RequestsOK /\ SetsOK /\ SlotsOK)'
    BY <2>1, <2>2, KnownStays, OthersKeepRequests
  <2> QED BY <1>1, <2>3 DEF FullInv
<1>3. CASE \E k \in Keys : Expire(k)
  <2> PICK k \in Keys : Expire(k)
    BY <1>3
  <2>1. /\ UNCHANGED <<req, rows, announced, placer, faults, conc, astray>>
        /\ UNCHANGED <<overrides, recent, misses>>
        /\ idem' = [idem EXCEPT ![k] = NoTask] /\ overrun' \in {overrun, overrun \cup {k}}
    BY DEF Expire, config
  <2>2. overrun' \subseteq Keys /\ faults' \in Nat
    BY <2>1 DEF FullInv, SetsOK
  <2>3. \A l \in Keys : idem'[l] = Pending => idem[l] = Pending
    BY <2>1, Values DEF FullInv, IdemInv, ShapeOK
  <2>4. (RequestsOK /\ SetsOK /\ SlotsOK)'
    BY <2>1, <2>2, <2>3, KnownStays, OthersKeepRequests
  <2> QED BY <1>1, <2>4 DEF FullInv
<1>4. CASE \E r \in Readers : Handle(r)
  BY <1>1, <1>4, HandleKeepsRequests DEF FullInv
<1>5. CASE \E p \in Processes : Kill(p)
  BY <1>1, <1>5, KillKeepsRequests DEF FullInv
<1>6. CASE Config
  BY <1>1, <1>6, ConfigStepKeepsRequests DEF FullInv
<1> QED BY <1>2, <1>3, <1>4, <1>5, <1>6 DEF Next

LEMMA InitAll ==
  ASSUME Init
  PROVE  FullInv
<1>1. ValuesInv /\ IdemInv
  BY InitValues, InitInv, InitView DEF ValuesInv
<1>2. /\ rows = {} /\ conc = 0 /\ announced = {} /\ astray = 0 /\ faults = 0 /\ overrun = {}
      /\ \A r \in Readers : req[r] = NewRequest
      /\ \A k \in Keys : idem[k] = NoTask
  BY DEF Init
<1>3. Profile \in Profiles
  BY AdmissionAssumption DEF Profile
<1>4. /\ IsReq(NewRequest) /\ NewRequest.pc = "new" /\ NewRequest.ask = Profile
      /\ NewRequest.owned = FALSE /\ NewRequest.found = NoTask /\ NewRequest.got = NoOverrides
      /\ NewRequest.plan = Immediate /\ NewRequest.held = FALSE /\ NewRequest.made = FALSE
      /\ NewRequest.end = "none"
  BY DEF NewRequest, IsReq
<1>5. Fine(NewRequest)
  BY <1>3, <1>4, Constants
     DEF Fine, KindOK, PcOK, PlanOK, LimitOK, Labels, Back, Reads, Ends
<1>6. \A r \in Readers : TraceOK(r, req[r])
  BY <1>2, Values DEF TraceOK
<1>7. SlotsOK /\ SetsOK
  <2>1. Held = {}
    BY <1>2, <1>4 DEF Held
  <2>2. IsFiniteSet({}) /\ Cardinality({}) = 0
    BY FS_EmptySet
  <2> QED BY <1>2, <2>1, <2>2 DEF SlotsOK, SetsOK
<1> QED BY <1>1, <1>2, <1>5, <1>6, <1>7 DEF FullInv, RequestsOK

LEMMA Always == Spec => []FullInv
<1>1. Init => FullInv
  BY InitAll
<1>2. FullInv /\ [Next]_vars => FullInv'
  BY NextKeepsAll
<1> QED BY <1>1, <1>2, PTL DEF Spec

\* The ranges of the state, and the counter that is exactly the slots of the
\* requests that hold one and those of calls that failed half way: no give-back
\* is lost at nought.
THEOREM TypesCorrect == Spec => []TypeOK
<1>1. FullInv => TypeOK
  <2> SUFFICES ASSUME FullInv PROVE TypeOK
    OBVIOUS
  <2>1. /\ idem \in [Keys -> Readers \cup {NoTask, Pending}]
        /\ placer \in [Keys -> Readers \cup {NoTask}] /\ overrun \subseteq Keys
        /\ rows \subseteq Readers /\ announced \subseteq Readers
    BY DEF FullInv, IdemInv, ShapeOK, SetsOK
  <2>2. \A r \in Readers :
          /\ req[r].pc \in Labels /\ req[r].end \in Ends /\ req[r].ask \in Profiles
          /\ req[r].found \in Readers \cup {NoTask}
          /\ {req[r].owned, req[r].held, req[r].made} \subseteq BOOLEAN
    <3>1. TAKE r \in Readers
    <3>2. PcOK(req[r]) /\ KindOK(req[r])
      BY RequestFacts DEF Fine
    <3> QED BY <3>2 DEF PcOK, KindOK
  <2>3. {astray, faults} \subseteq Nat /\ conc = Cardinality({r \in Readers : req[r].held}) + astray
    BY DEF FullInv, SlotsOK, SetsOK, Held
  <2> QED BY <2>1, <2>2, <2>3 DEF TypeOK, FullInv, ValuesInv
<1> QED BY <1>1, Always, PTL

\* A request that is refused has left no task, no slot and no placeholder,
\* whatever failed, expired or died meanwhile.
THEOREM RefusalsLeaveNothing == Spec => []RejectedLeavesNoTrace
<1>1. FullInv => RejectedLeavesNoTrace
  BY RequestFacts DEF RejectedLeavesNoTrace, Fine, PcOK, TraceOK
<1> QED BY <1>1, Always, PTL

\* A batch has bounds the release can honour, also when an update came between
\* the three reads of the configuration; the size of the environment, which
\* the service takes as it is, must be one of them.
THEOREM PlansInBounds ==
  ASSUME Settings["batch_size"] <= MAX_BATCH
  PROVE  Spec => []PlanInBounds
<1>1. FullInv => PlanInBounds
  <2> SUFFICES ASSUME FullInv, NEW r \in Readers, req[r].plan.enabled
               PROVE  /\ 2 <= req[r].plan.size /\ req[r].plan.size <= MAX_BATCH
                      /\ 1 <= req[r].plan.wait /\ req[r].plan.wait <= WaitCeiling
    BY DEF PlanInBounds, Plan
  <2>1. PlanOK(req[r].plan)
    BY RequestFacts DEF Fine
  <2> QED BY <2>1 DEF PlanOK
<1> QED BY <1>1, Always, PTL

\* A slot is taken only below a limit that was in force at most CacheTTL ago,
\* or below that of the environment once a read has failed.
THEOREM LimitsHonoured == Spec => LimitHonoured
<1> DEFINE Honoured == conc' > conc =>
             \E h \in {overrides} \cup {v.val : v \in recent}
                        \cup (IF misses > 0 THEN {NoOverrides} ELSE {}) :
               conc < Value(h, "max_concurrent_tasks")
<1>1. ASSUME FullInv, [Next]_vars
      PROVE  Honoured
  <2>1. conc \in Nat
    <3>1. IsFiniteSet(Held) /\ astray \in Nat /\ conc = Cardinality(Held) + astray
      BY <1>1 DEF FullInv, SlotsOK
    <3>2. Cardinality(Held) \in Nat
      BY <3>1, FS_CardinalityType
    <3> QED BY <3>1, <3>2
  <2>2. ASSUME NEW r \in Readers, TakeSlot(r), conc' > conc
        PROVE  Honoured
    <3>1. PICK limit : limit = req[r].got["max_concurrent_tasks"]
      OBVIOUS
    <3>2. Fits(conc, limit)
      BY <2>1, <2>2, <3>1 DEF TakeSlot, Counted
    <3>3. LimitOK(req[r]) /\ req[r].pc = "conc"
      BY <1>1, <2>2, RequestFacts DEF Fine, TakeSlot, At
    <3>4. PICK h \in Known : limit = Value(h, "max_concurrent_tasks")
      BY <3>1, <3>3 DEF LimitOK
    <3>5. limit \in Int
      <4>1. IsHash(h)
        <5>1. ConfigTypeOK
          BY <1>1 DEF FullInv, ValuesInv
        <5>2. h = overrides \/ (\E v \in recent : h = v.val) \/ h = NoOverrides
          BY <3>4 DEF Known
        <5>3. h = overrides => IsHash(h)
          BY <5>1 DEF ConfigTypeOK
        <5>4. (\E v \in recent : h = v.val) => IsHash(h)
          BY <5>1 DEF ConfigTypeOK
        <5> QED BY <5>2, <5>3, <5>4, EmptyIsHash
      <4>2. "max_concurrent_tasks" \in MUTABLE
        BY AdmissionAssumption
      <4>3. Taken("max_concurrent_tasks", limit)
        BY <3>4, <4>1, <4>2, ValueTaken
      <4> QED BY <4>3, ValuesAssumption DEF Taken
    <3>6. conc < limit
      BY <2>1, <3>2, <3>5 DEF Fits
    <3> QED BY <3>4, <3>6 DEF Known
  <2>3. conc' > conc => \E r \in Readers : TakeSlot(r)
    <3>1. UNCHANGED conc => ~(conc' > conc)
      BY <2>1
    <3>2. \A r \in Readers : Unslot(r) => ~(conc' > conc)
      BY <2>1 DEF Unslot
    <3>3. UNCHANGED vars \/ (\E k \in Keys : Expire(k)) \/ (\E p \in Processes : Kill(p)) \/ Config
            => UNCHANGED conc
      BY DEF vars, Expire, Kill, Config
    <3>4. ASSUME NEW r \in Readers, Handle(r), ~TakeSlot(r), ~Unslot(r)
          PROVE  UNCHANGED conc
      BY <3>4 DEF Handle, Arrive, Acquire, Peek, Verdict, Release, Poll, GiveUp, Replay, Read,
                  Resolve, Insert, Fill, Announce, Unbatch
    <3> QED BY <1>1, <3>1, <3>2, <3>3, <3>4 DEF Next
  <2> QED BY <2>2, <2>3
<1>2. FullInv /\ [Next]_vars => [Honoured]_vars
  BY <1>1
<1> QED BY <1>2, Always, PTL DEF Spec, LimitHonoured
===============================================================================
