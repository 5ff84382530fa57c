------------------------------ MODULE Admission ------------------------------
(***************************************************************************)
(* create_queue_task in app/services/relayflow.py as the clients of one    *)
(* token meet it: the idempotency keys of app/services/idem.py, the        *)
(* runtime configuration of HotConfig read through the cache of each       *)
(* process, the concurrency counter of app/deps/ratelimit.py, the insert,  *)
(* the hand-over to batch or queue and the way back when a step fails.     *)
(*                                                                         *)
(* One step of a request runs from one await on shared state to the next.  *)
(* The task a request creates has the name of the request.                 *)
(***************************************************************************)
EXTENDS HotConfig, BatchPlan

CONSTANTS
  Keys,        \* the Idempotency-Keys clients send
  NoKey,       \* no Idempotency-Key header
  Profiles,    \* the requests clients may send: [key, headers, model]
  NoTask,      \* a value outside Readers
  Pending,     \* the placeholder of a key
  Failing,     \* the awaits that may raise
  MaxFaults    \* bound: awaits that raise, reads that fail and processes killed

Awaits == {"place", "free", "conc", "insert", "fill", "announce", "unslot", "unplace"}

ASSUME AdmissionAssumption ==
  /\ NoKey \notin Keys /\ {NoTask, Pending} \cap Readers = {} /\ NoTask # Pending
  /\ Failing \subseteq Awaits /\ MaxFaults \in Nat
  /\ Profiles # {} /\ \A p \in Profiles : p.key \in Keys \cup {NoKey}
  /\ {"batch_enabled", "batch_size", "batch_wait_seconds", "max_concurrent_tasks"} \subseteq MUTABLE

\* The Specs of dynconf.MUTABLE coerce to integers, those of the size to at most
\* MAX_BATCH; a header is there or not, and an integer or not.
ASSUME ValuesAssumption ==
  /\ \A k \in {"batch_size", "batch_wait_seconds", "max_concurrent_tasks"} :
       Allowed[k] \subseteq Int /\ Settings[k] \in Int
  /\ \A n \in Allowed["batch_size"] : n <= MAX_BATCH
  /\ \A p \in Profiles : \A text \in {p.headers.size, p.headers.wait} :
       text \in {Absent, Garbage} \/ text \in Int

VARIABLES
  idem,      \* per key: nothing, the placeholder or a task
  rows,      \* tasks in the tasks table
  conc,      \* the counter of the token
  announced, \* tasks that were put into a batch or on the queue
  req,       \* per request: how far it is
  placer,    \* per key: the request whose placeholder was the last (history)
  overrun,   \* keys whose placeholder expired under its owner (history)
  astray,    \* slots of failed calls nobody knows about (history)
  faults     \* awaits that raised and processes killed so far

keyspace == <<idem, placer, overrun>>
vars == <<config, keyspace, rows, conc, announced, req, astray, faults>>

Profile == CHOOSE p \in Profiles : TRUE

NewRequest == [pc |-> "new", ask |-> Profile, owned |-> FALSE, found |-> NoTask,
               got |-> NoOverrides, plan |-> Immediate, held |-> FALSE, made |-> FALSE,
               end |-> "none"]

Key(r) == req[r].ask.key
Plan(r) == req[r].plan

\* A coroutine between two awaits keeps the event loop of its process.
Busy(r) == /\ req[r].pc \in {"batch_size", "batch_wait_seconds", "plan", "max_concurrent_tasks"}
           /\ load[r].at = "idle"
Free(c) == \A r \in Readers \ {c} : Home[r] = Home[c] => ~Busy(r)

At(r, pc) == req[r].pc = pc /\ Free(r)

Become(r, q) == req' = [req EXCEPT ![r] = q]
Goto(r, pc) == Become(r, [req[r] EXCEPT !.pc = pc])

\* What is left of q when it has ended.
Ended(q, end) ==
  [pc |-> "done", ask |-> q.ask, owned |-> FALSE, found |-> q.found, got |-> NoOverrides,
   plan |-> Immediate, held |-> q.held, made |-> FALSE, end |-> end]
Finish(r, q, end) == Become(r, Ended(q, end))

\* The first call of the except branch that applies to q.
Unwind(q) == IF q.held THEN "unslot"
             ELSE IF q.plan.enabled /\ q.made THEN "unbatch"
             ELSE IF q.owned THEN "unplace" ELSE "done"

Backout(r, q, end) ==
  IF Unwind(q) = "done" THEN Finish(r, q, end)
  ELSE Become(r, [q EXCEPT !.pc = Unwind(q), !.end = end])

Trouble == faults + misses < MaxFaults /\ faults' = faults + 1

Fails(label) == label \in Failing /\ Trouble

-------------------------------------------------------------------------------
(* _rate_and_place                                                         *)

\* _read_body_limited: a body that is too large ends here.
Arrive(r) ==
  /\ At(r, "new")
  /\ \E p \in Profiles :
       LET q == [req[r] EXCEPT !.ask = p]
       IN  \/ Become(r, [q EXCEPT !.pc = IF p.key = NoKey THEN "verdict" ELSE "place"])
           \/ Finish(r, q, "4xx")
  /\ UNCHANGED <<config, keyspace, rows, conc, announced, astray, faults>>

\* Mutant: SET without NX.
AcquireAlways(r) ==
  /\ At(r, "place")
  /\ idem' = [idem EXCEPT ![Key(r)] = Pending]
  /\ placer' = [placer EXCEPT ![Key(r)] = r]
  /\ Become(r, [req[r] EXCEPT !.pc = "verdict", !.owned = TRUE])
  /\ UNCHANGED <<config, overrun, rows, conc, announced, astray, faults>>

\* acquire(): SET NX takes the key, or the call goes on to read it.  A reply
\* that is lost may leave the placeholder behind.
Acquire(r) ==
  /\ At(r, "place")
  /\ LET absent == idem[Key(r)] = NoTask
         Place == /\ idem' = [idem EXCEPT ![Key(r)] = Pending]
                  /\ placer' = [placer EXCEPT ![Key(r)] = r]
     IN  \/ /\ absent /\ Place
            /\ Become(r, [req[r] EXCEPT !.pc = "verdict", !.owned = TRUE])
            /\ UNCHANGED faults
         \/ /\ ~absent
            /\ Goto(r, "peek")
            /\ UNCHANGED <<idem, placer, faults>>
         \/ /\ Fails("place")
            /\ IF absent THEN Place \/ UNCHANGED <<idem, placer>> ELSE UNCHANGED <<idem, placer>>
            /\ Finish(r, req[r], "5xx")
  /\ UNCHANGED <<config, overrun, rows, conc, announced, astray>>

TaskOf(k) == IF idem[k] = Pending THEN NoTask ELSE idem[k]

\* get_task_id() of acquire(): by now the placeholder may be gone.
Peek(r) ==
  /\ At(r, "peek")
  /\ Become(r, [req[r] EXCEPT !.pc = "verdict", !.found = TaskOf(Key(r))])
  /\ UNCHANGED <<config, keyspace, rows, conc, announced, astray, faults>>

\* Past the rate limit: replay, create or wait.  What is validated before the
\* first await of the creation (ensure_path_allowed, the upstream base,
\* assert_upstream_allowed) may refuse the request.
Admitted(r) ==
  IF req[r].found # NoTask THEN Goto(r, "replay")
  ELSE IF req[r].owned \/ Key(r) = NoKey
       THEN Goto(r, "batch_enabled") \/ Backout(r, req[r], "4xx")
       ELSE Goto(r, "wait")

\* Mutant: a refused request keeps its placeholder.
VerdictKeeping(r) ==
  /\ At(r, "verdict")
  /\ Admitted(r) \/ Finish(r, req[r], "4xx")
  /\ UNCHANGED <<config, keyspace, rows, conc, announced, astray, faults>>

\* check_rate() has answered: any window of other requests is possible.
Verdict(r) ==
  /\ At(r, "verdict")
  /\ \/ Admitted(r)
     \/ IF req[r].owned THEN Goto(r, "free") ELSE Finish(r, req[r], "4xx")
  /\ UNCHANGED <<config, keyspace, rows, conc, announced, astray, faults>>

\* Mutant: DEL, whatever the key holds.
FreedBare(k) == [idem EXCEPT ![k] = NoTask]

\* idem.release(): the key goes only if it still holds the placeholder.
Freed(k) == [idem EXCEPT ![k] = IF @ = Pending THEN NoTask ELSE @]

\* release() after a refusal and at the end of the except branch; what it
\* raises replaces the refusal.
Release(r) ==
  /\ At(r, "free") \/ At(r, "unplace")
  /\ LET end == IF req[r].pc = "free" THEN "4xx" ELSE req[r].end
     IN  \/ idem' = Freed(Key(r)) /\ Finish(r, req[r], end) /\ UNCHANGED faults
         \/ /\ Fails(req[r].pc)
            /\ idem' \in {idem, Freed(Key(r))}
            /\ Finish(r, req[r], "5xx")
  /\ UNCHANGED <<config, placer, overrun, rows, conc, announced, astray>>

\* One round of wait_task_id(); a placeholder lets it sleep and look again.
Poll(r) ==
  /\ At(r, "wait")
  /\ idem[Key(r)] # Pending
  /\ IF idem[Key(r)] = NoTask THEN Finish(r, req[r], "4xx")
     ELSE Become(r, [req[r] EXCEPT !.pc = "replay", !.found = idem[Key(r)]])
  /\ UNCHANGED <<config, keyspace, rows, conc, announced, astray, faults>>

\* The wait ends without a task.
GiveUp(r) ==
  /\ At(r, "wait")
  /\ Finish(r, req[r], "4xx")
  /\ UNCHANGED <<config, keyspace, rows, conc, announced, astray, faults>>

Replay(r) ==
  /\ At(r, "replay")
  /\ Finish(r, req[r], IF req[r].found \in rows THEN "replayed" ELSE "4xx")
  /\ UNCHANGED <<config, keyspace, rows, conc, announced, astray, faults>>

-------------------------------------------------------------------------------
(* The batching plan                                                       *)

Reads == {"batch_enabled", "batch_size", "batch_wait_seconds", "max_concurrent_tasks"}

AfterRead == [batch_enabled |-> "batch_size", batch_size |-> "batch_wait_seconds",
              batch_wait_seconds |-> "plan", max_concurrent_tasks |-> "conc"]

\* get(key) returns: the request goes on with the value.
Take(r, key, hash) ==
  Become(r, [req[r] EXCEPT !.pc = AfterRead[key], !.got[key] = Value(hash, key)])

\* One dynconf.get(): from the cache, or by way of Redis.
Read(r) ==
  /\ req[r].pc \in Reads /\ Free(r)
  /\ \/ Hit(r) /\ Take(r, req[r].pc, cache[Home[r]].val)
     \/ Miss(r) /\ UNCHANGED req
     \/ Store(r) /\ Take(r, req[r].pc, load[r].val)
  /\ UNCHANGED <<keyspace, rows, conc, announced, astray, faults>>

\* resolve_plan(), and the check of the callback address after it.
Resolve(r) ==
  /\ At(r, "plan")
  /\ LET ask == req[r].ask
         plan == resolve_plan(ask.headers, req[r].got, ask.model, NoName)
         q == [req[r] EXCEPT !.got = NoOverrides, !.plan = plan]
     IN  IF HeadersValid(ask.headers)
         THEN \/ Become(r, [q EXCEPT !.pc = IF plan.enabled THEN "insert" ELSE "max_concurrent_tasks"])
              \/ Backout(r, q, "4xx")
         ELSE Backout(r, [req[r] EXCEPT !.got = NoOverrides], "4xx")
  /\ UNCHANGED <<config, keyspace, rows, conc, announced, astray, faults>>

-------------------------------------------------------------------------------
(* conc_acquire, create, set_task_id, hand-over                            *)

\* Mutant: the script compares before it counts.
FitsLast(n, limit) == n <= limit

Fits(n, limit) == n + 1 <= limit

\* Mutant: what is above the limit stays counted.
CountedAbove(n, limit) == n + 1

\* LUA_CONC_ACQUIRE: INCR, and DECR again above the limit.
Counted(n, limit) == IF Fits(n, limit) THEN n + 1 ELSE n

TakeSlot(r) ==
  /\ At(r, "conc")
  /\ LET limit == req[r].got.max_concurrent_tasks
         q == [req[r] EXCEPT !.got = NoOverrides]
     IN  \/ /\ conc' = Counted(conc, limit)
            /\ IF Fits(conc, limit) THEN Become(r, [q EXCEPT !.pc = "insert", !.held = TRUE])
                                    ELSE Backout(r, q, "4xx")
            /\ UNCHANGED <<astray, faults>>
         \/ /\ Fails("conc")
            /\ \/ UNCHANGED <<conc, astray>>
               \/ /\ Fits(conc, limit)
                  /\ conc' = Counted(conc, limit)
                  /\ astray' = astray + 1
            /\ Backout(r, q, "5xx")
  /\ UNCHANGED <<config, keyspace, rows, announced>>

\* tokensession.store and taskstore.create.
Insert(r) ==
  /\ At(r, "insert")
  /\ \/ /\ rows' = rows \cup {r}
        /\ Become(r, [req[r] EXCEPT !.made = TRUE, !.pc = IF Key(r) = NoKey THEN "announce" ELSE "fill"])
        /\ UNCHANGED faults
     \/ /\ Fails("insert")
        /\ rows' \in {rows, rows \cup {r}}
        /\ Backout(r, req[r], "5xx")
  /\ UNCHANGED <<config, keyspace, conc, announced, astray>>

Filled(r) == [idem EXCEPT ![Key(r)] = r]

\* set_task_id: SET, whatever the key holds by now.
Fill(r) ==
  /\ At(r, "fill")
  /\ \/ idem' = Filled(r) /\ Goto(r, "announce") /\ UNCHANGED faults
     \/ /\ Fails("fill")
        /\ idem' \in {idem, Filled(r)}
        /\ Backout(r, req[r], "5xx")
  /\ UNCHANGED <<config, placer, overrun, rows, conc, announced, astray>>

\* _join_batch or publish_queue_submit, and the answer.
Announce(r) ==
  /\ At(r, "announce")
  /\ \/ announced' = announced \cup {r} /\ Finish(r, req[r], "accepted") /\ UNCHANGED faults
     \/ /\ Fails("announce")
        /\ announced' \in {announced, announced \cup {r}}
        /\ Backout(r, req[r], "5xx")
  /\ UNCHANGED <<config, keyspace, rows, conc, astray>>

-------------------------------------------------------------------------------
(* The except branch                                                       *)

\* conc_release() swallows its failure and costs no more than the slot.
Unslot(r) ==
  /\ At(r, "unslot")
  /\ \/ conc' = (IF conc = 0 THEN 0 ELSE conc - 1) /\ UNCHANGED astray
     \/ "unslot" \in Failing /\ astray' = astray + 1 /\ UNCHANGED conc
  /\ Backout(r, [req[r] EXCEPT !.held = FALSE], req[r].end)
  /\ UNCHANGED <<config, keyspace, rows, announced, faults>>

\* batching.leave() swallows its failure; a release may have taken the member
\* out of the batch before, so the task counts as handed over all the same.
Unbatch(r) ==
  /\ At(r, "unbatch")
  /\ Backout(r, [req[r] EXCEPT !.made = FALSE], req[r].end)
  /\ UNCHANGED <<config, keyspace, rows, conc, announced, astray, faults>>

-------------------------------------------------------------------------------
(* What else happens                                                       *)

Running(r) == req[r].pc \notin {"new", "done"}

\* A process is killed and starts over: its requests, its operators and its
\* cache are gone.
Kill(p) ==
  LET dead == {r \in Readers : Home[r] = p /\ Running(r)}
  IN  /\ dead # {}
      /\ Trouble
      /\ req' = [r \in Readers |->
                   IF r \in dead THEN Ended([req[r] EXCEPT !.held = FALSE], "crashed")
                   ELSE req[r]]
      /\ astray' = astray + Cardinality({r \in dead : req[r].held})
      /\ cache' = [cache EXCEPT ![p] = Cleared]
      /\ load' = [c \in Coroutines |-> IF Home[c] = p THEN NoLoad ELSE load[c]]
      /\ admin' = [a \in Admins |-> IF Home[a] = p THEN Idler ELSE admin[a]]
      /\ UNCHANGED <<overrides, recent, writes, misses, keyspace, rows, conc, announced>>

\* IDEM_PENDING_TTL_SECONDS have passed since a placeholder was set.
Expire(k) ==
  /\ idem[k] = Pending
  /\ idem' = [idem EXCEPT ![k] = NoTask]
  /\ overrun' = IF Running(placer[k]) THEN overrun \cup {k} ELSE overrun
  /\ UNCHANGED <<config, placer, rows, conc, announced, req, astray, faults>>

\* Operators, answers of Redis and the clock.
Config ==
  /\ \/ \E a \in Admins : Free(a) /\ Operate(a)
     \/ \E c \in Coroutines : Answer(c)
     \/ (\A r \in Readers : req[r].pc \notin {"plan", "conc"}) /\ Tick
  /\ faults + misses' <= MaxFaults
  /\ UNCHANGED <<keyspace, rows, conc, announced, req, astray, faults>>

Handle(r) ==
  \/ Arrive(r) \/ Acquire(r) \/ Peek(r) \/ Verdict(r) \/ Release(r)
  \/ Poll(r) \/ GiveUp(r) \/ Replay(r)
  \/ Read(r) \/ Resolve(r)
  \/ TakeSlot(r) \/ Insert(r) \/ Fill(r) \/ Announce(r)
  \/ Unslot(r) \/ Unbatch(r)

Init ==
  /\ ConfigInit
  /\ idem = [k \in Keys |-> NoTask]
  /\ placer = [k \in Keys |-> NoTask]
  /\ overrun = {}
  /\ rows = {} /\ conc = 0 /\ announced = {}
  /\ req = [r \in Readers |-> NewRequest]
  /\ astray = 0 /\ faults = 0

Next ==
  \/ \E r \in Readers : Handle(r)
  \/ \E k \in Keys : Expire(k)
  \/ \E p \in Processes : Kill(p)
  \/ Config

Spec == Init /\ [][Next]_vars

-------------------------------------------------------------------------------
Labels == {"new", "peek", "verdict", "wait", "replay", "plan", "unbatch", "done"} \cup Reads \cup Awaits

Ends == {"none", "accepted", "replayed", "4xx", "5xx", "crashed"}

\* The ranges of the state, the counter that no step takes below what it
\* counts included: the slots of the requests that hold one and those of
\* calls that failed half way, since conc_release clamps and cannot notice.
TypeOK ==
  /\ ConfigTypeOK
  /\ idem \in [Keys -> Readers \cup {NoTask, Pending}]
  /\ placer \in [Keys -> Readers \cup {NoTask}] /\ overrun \subseteq Keys
  /\ rows \subseteq Readers /\ announced \subseteq Readers
  /\ \A r \in Readers :
       /\ req[r].pc \in Labels /\ req[r].end \in Ends /\ req[r].ask \in Profiles
       /\ req[r].found \in Readers \cup {NoTask}
       /\ {req[r].owned, req[r].held, req[r].made} \subseteq BOOLEAN
  /\ {astray, faults} \subseteq Nat
  /\ conc = Cardinality({r \in Readers : req[r].held}) + astray

\* What clients of key k were told: the tasks of answers with a task id.
Told(k) ==
  {r \in Readers : Key(r) = k /\ req[r].end = "accepted"}
    \cup {req[r].found : r \in {s \in Readers : Key(s) = k /\ req[s].end = "replayed"}}

\* Requests with one Idempotency-Key lead to one task: at most one of theirs
\* is put to work and none of them is told of another, whatever fails, races
\* or crashes, unless a creation outlived its placeholder.
OneTaskPerKey ==
  \A k \in Keys \ overrun :
    Cardinality({r \in announced : Key(r) = k} \cup Told(k)) <= 1

\* A key that holds a task keeps it: the release of a failed creation never
\* erases it, and only a creation that outlived its placeholder replaces it.
FilledKeyStays ==
  [][\A k \in Keys : idem[k] \in Readers =>
       idem'[k] = idem[k] \/ (k \in overrun /\ idem'[k] \in Readers)]_vars

\* A request that is refused leaves nothing behind: no task, no slot, and no
\* placeholder that would make the retry wait for it.
RejectedLeavesNoTrace ==
  \A r \in Readers : req[r].pc = "done" /\ req[r].end = "4xx" =>
    /\ r \notin rows \cup announced
    /\ ~req[r].held
    /\ \A k \in Keys : ~(idem[k] = Pending /\ placer[k] = r)

\* A slot is taken only below a limit that was in force at most CacheTTL ago,
\* or below the limit of the environment once a read has failed.
LimitHonoured ==
  [][conc' > conc =>
       \E h \in {overrides} \cup {v.val : v \in recent} \cup (IF misses > 0 THEN {NoOverrides} ELSE {}) :
         conc < Value(h, "max_concurrent_tasks")]_vars

\* A batch a request is planned into has bounds the release can honour, also
\* when an update came between the three reads of the configuration or the
\* configured wait is none or more than the ceiling.
PlanInBounds ==
  \A r \in Readers : Plan(r).enabled =>
    /\ 2 <= Plan(r).size /\ Plan(r).size <= MAX_BATCH
    /\ 1 <= Plan(r).wait /\ Plan(r).wait <= WaitCeiling
===============================================================================
