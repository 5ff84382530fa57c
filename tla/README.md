# Formal model of atask-service

atask-service accepts long-running AI tasks over HTTP, optionally collects them
into batches, submits them to an upstream relay and tells the client how they
ended. It keeps its facts in one MySQL table it shares with another program, and
everything that can be rebuilt (slots, batches, sessions, queues, keys, runtime
configuration) in Redis. Many coroutines of several replicas work on the same rows
and keys without locks: what keeps them apart is a handful of conditional UPDATEs
and Lua scripts, and the order in which each handler does its writes. This directory
models that part in TLA+, checks it with TLC and proves what holds for every size
with TLAPS.

## 1. Inventory

| Component | State it keeps | Operations | Modelled in |
|---|---|---|---|
| `services/taskstore.py` | rows of `tasks`: status, `data` (batch state, slot mask, upstream id, due time) | create, cas, patch_data, claim/unclaim_for_release, claim_slot_release, the two sweep selections | `TaskStore` |
| `services/relayflow.py` | none of its own | accept, release, submit, view, sweep, finalise, cancel | `RelayFlow`; acceptance in full in `Admission`; the sweep's rescue in time in `BatchWindow` |
| `services/batching.py` | K_BATCH members, K_BATCH_DUE deadline | join, leave, claim, release, requeue, effective plan | `BatchWindow`, `RelayFlow`, `BatchPlan` |
| `app/queue.py` | message list, delayed messages, dead letters | publish, retry or dead letter, replay | `Delivery`, `RelayFlow` |
| `deps/ratelimit.py`, `app/redis.py` | K_CONC slot counter, rate window | acquire, release, check_rate | `RelayFlow`, `Admission` (slots) |
| `services/idem.py` | Idempotency-Key placeholder or task id | acquire, get, wait, set, release | `Admission` |
| `services/dynconf.py` | overrides in a hash, a 5 s cache per process | get, set_many, reset, snapshot, invalidate | `HotConfig` |
| `services/upstream.py`, `services/relay.py` | breaker counter K_BREAKER | guard, report, call | `Delivery` |
| `services/tokensession.py` | the token of a task | store, get, clear | `RelayFlow`, `Delivery` |
| `services/notify.py` | none | push of a callback | `Delivery` (outcomes) |
| `routers/ops.py`, `routers/admin.py` | none | requeue, dead-letter replay, configuration, diagnostics | `RelayFlow`, `Delivery`, `HotConfig` |
| `services/statusmap.py`, `httpc.py`, `callback_addr.py`, identity | none | tables, parsing, address checks | not modelled (section 6) |
| routers, config, logging, observability, standalone | none | wiring | not modelled (section 6) |

How they interact. A request (`create_queue_task`) places its idempotency key, passes
the rate limit, reads the runtime configuration for its plan, takes a slot if it is
not batched, inserts a row, fills the key, and either queues a submission or joins a
batch, which owes a *size* trigger, a *due* trigger or both. A trigger empties the
batch and calls `release_batched_task` for each member: claim the row, take a slot,
write the mask, look again, queue the submission. A submission
(`submit_queue_task`) checks the row and the session, passes the breaker, calls the
upstream and writes the answer back, or finalises; when it raises, the message is
retried with a delay until it becomes a dead letter. Client views and the minute
sweep probe the upstream through the same breaker and finalise too; the sweep also
releases batches whose trigger was lost, under a lock that expires. Finalising
publishes the callback, a message like any other. A cancellation has its own path.

What is hard about it: every handler reads a row, awaits, and acts on what it read;
a slot lives in two places (a Redis counter and a mask in the row) that no
transaction joins; messages are taken off the list before they run, so a crash loses
them, and retried or replayed, so they are duplicated; each await may fail after the
ones before it succeeded, or take effect and fail; locks, placeholders, caches and
sessions expire under their owners. PROJECT.json lists these hazards at their lines
with the properties that cover them.

## 2. Modules

* **`TaskStore`** has no variables: a row is a record and each SQL statement an
  operator on it. MySQL executes a statement atomically, so an action that applies
  one operator has exactly the atomicity of the code. `CanClaim`/`Claimed` are the
  WHERE and the SET of `claim_for_release`, `CasHits`/`CasTo` those of `cas`, and so
  on. `Released` and `Requeued` have no WHERE: `patch_data` has none.
* **`RelayFlow`** is the life of tasks. `call[p]` is a coroutine at an await; every
  action runs from one await on shared state to the next. The other variables are the
  table (`row`), the Redis keys (`conc`, `index`, `session`), the messages (`trig`,
  `woken`, `timers`, `submits`, `dlq`) and history (`notified`, `orders`, `strays`, `lost`:
  `strays` counts the upstream tasks the gateway never learned of or could not record).
  All tasks belong to one token and one batch key; keys of different tokens and
  batches never meet.
* **`TaskLifecycle`** is what a client is promised about one task: created once,
  ends once, told at most once and only after the end. `RelayFlow` implements it
  under a refinement mapping that reads "a callback is owed" off the running calls.
* **`HotConfig`** is the runtime configuration: the hash (`overrides`), one `cache`
  per process with its age, the `load` of each coroutine on its way to Redis and back,
  and the requests of operators (`admin`). `recent` is history: what the hash held
  less than a cache lifetime ago. Ages saturate, so the model has no last moment.
* **`BatchPlan`** has no variables: `resolve_plan` as an operator on headers, the three
  values read from the configuration, and the settings.
* **`Admission`** composes the two with the acceptance of requests: `req[r]` is a
  request at an await, `idem` the keys, `conc` the counter, `rows` the table. It
  refines in detail what `RelayFlow` calls `AcceptStart` to `AcceptSubmit`: the key,
  the refusals, the plan and the except branch.
* **`BatchWindow`** is one batch key with a clock: `index` and `deadline` are the two
  Redis keys, `trig` the two kinds of trigger with their times, `work` the release of
  a member by a worker, `round` and `lock` the sweep. `stale`, `past`, `full`,
  `joined`, `sent` and `overlap` are history. `RelayFlow` leaves time out; here the
  slots are left out.
* **`Delivery`** is what carries messages: `list`, `delayed` and `dlq` are the broker's
  list, its scheduled messages and the stream of dead letters, `failures` and `ttl`
  the breaker, `call` the workers and probers, `replay` the requests that replay.
* The theorems are in **`RelayFlowProofs`** and, building on it, **`LifecycleProofs`**,
  **`SlotProofs`** and **`ReleaseProofs`**; in **`IdempotencyProofs`** and, building on it,
  **`AdmissionProofs`**; in **`BatchWindowProofs`**; and in **`DeliveryProofs`**.
* **`MCRelayFlow`**, **`MCAdmission`**, **`MCBatchWindow`** and **`MCDelivery`** name
  model values, functions and symmetries for TLC.

From code to actions:

| Code | Actions |
|---|---|
| *`RelayFlow`* | |
| `create_queue_task`, `_join_batch` | `AcceptStart` .. `AcceptSubmit`, `AcceptUndo` (the except branch) |
| `batching.claim`, `batching.release` | `FireTrigger`, `MemberStart`, `CrashBatch` |
| `queue_release_task` | `TimerStart` |
| `_rescue_overdue_batches` | `RescueStart`, `RescueUnclaim`, `RescueMeta` |
| `release_batched_task`, `batching.requeue` | `Claim`, `Acquire`, `Unclaim`, `Requeue`, `Schedule`, `Mask`, `Backout`, `Recheck`, `Send`, `FailCas` |
| `_release_slot` | `ClaimSlot`, `GiveSlot` |
| `submit_queue_task`, `_retry_or_dlq` | `SubmitStart`, `PostAccepted`, `PostRejected`, `PostAmbiguous`, `Landed`, `Raise` |
| `_finalize_queue` | `Final`, then the slot, `Notify`, `Clear` |
| `view_queue_task`, `_advance_from_probe`, `_sweep_queue_rows` | `ProbeStart`, `ProbeTerminal`, `ProbeActive`, `ProbeNothing`, `Advance` |
| `cancel_queue_task` | `CancelStart`, `CancelCas`, `CancelLeave`, then the slot and `Clear` |
| `/ops/requeue`, `/admin` requeue, `/ops/dlq/replay` | `OpsRequeue`, `OpsReplay` |
| any await outside a `try`, up to whoever logs the exception | `Escape`, which ends in `Raise` |
| *`HotConfig`* | |
| `_load` under `get` | `Hit`, or `Miss`, `Answer`, `Store` |
| `set_many`, `reset`, `_invalidate`, `snapshot` | `SetMany`, `Reset`, `Invalidate`, `Snapshot` |
| *`Admission`* | |
| `_rate_and_place`, `idem.acquire`, `idem.release` | `Arrive`, `Acquire`, `Peek`, `Verdict`, `Release` |
| `wait_task_id`, the answer of a replayed key | `Poll`, `GiveUp`, `Replay` |
| `_effective_plan`, `resolve_plan`, `_enforce_concurrency` | `Read`, `Resolve`, `TakeSlot` |
| the creation: `create`, `set_task_id`, hand-over | `Insert`, `Fill`, `Announce` |
| its except branch | `Unslot`, `Unbatch`, `Release` |
| expiry of the placeholder, death of a process | `Expire`, `Kill` |
| *`BatchWindow`* | |
| `taskstore.create`, `LUA_BATCH_JOIN`, `_join_batch` | `Create`, `Join`, `Patch`, `PublishDue`, `PublishSize`, `AcceptDies` |
| `cancel_queue_task`, `LUA_BATCH_LEAVE` | `Cancel`, `Leave` |
| `LUA_BATCH_CLAIM`, `release_batched_task` | `Fire`, `Take`, `Send` |
| `sweep_queue_once`, `_rescue_overdue_batches`, `LUA_CAS_DELETE` | `StartRound`, `SkipRound`, `Unclaim`, `Rescue`, `RescueSend`, `EndRound`, `RoundDies` |
| *`Delivery`* | |
| `publish_*`, BRPOP, the scheduler | `Accept`, `OpsRequeue`, `Take`, `Due` |
| `_retry_or_dlq` | `RetryOrDlq`, `RetryFails` |
| `submit_queue_task`, probes | `ReadRow`, `ProbeStart`, `Landed`, `Final`, `Announce` |
| `breaker_guard`, `breaker_report`, `call_upstream` | `GuardRead`, `Guard`, `AnswerAmbiguous`, `AnswerClear`, `ReportFails`, `WindowPasses`, `WindowEnds` |
| `notify.push` | `PushTaken`, `PushRefused` |
| `replay_dlq` | `ReplayStart`, `ReplaySend`, `ReplayDelete`, `ReplayStops` |
| death of a coroutine, expiry of a session | `Crash`, `SessionExpires` |

### Abstractions worth knowing

`RelayFlow`:

* Time is not a number. A delayed message may be delivered at any moment. The sweep
  takes a waiting row when `batch_due_at` is known; with `LateTriggers = FALSE` it
  does so only when nothing else will release the task, which is what the grace of
  120 s means when messages are not late; with `LateTriggers = TRUE` it may do so at
  any moment. A row in `releasing` is taken back only when the call that claimed it
  is gone: its `updated_at` is then old. `BatchWindow` has the clock that justifies
  both.
* The upstream says anything: any terminal status at once, an id, a rejection, or
  nothing conclusive. Every task has a callback address, so that a missing callback
  shows. The upstream DELETE of a cancellation changes nothing here.
* Every await on shared state may raise: those inside a `try` (`Handled`) have a disjunct
  of their action for it, those outside (`Uncaught`) end the call (`Escape`), and only
  `queue_submit_task` retries what leaves it (`Raise`). An await that raises has had no
  effect; `Admission` has lost replies. This limits `NoStolenSlot` and `ConcurrencyGate`: a
  write of the mask, or an insert, that commits and then raises makes relayflow.py:517 or
  446 decrement the counter by hand while the mask in the row allows it to be decremented
  again.
* The one call whose reply may be lost is that to the upstream (`PostAmbiguous`): it raises
  and may have created a task, which is then a stray. So is one whose id could not be
  written back. A retry submits again.
* `Operators` says what operators do: `requeue` publishes a submission at any time,
  `replay` takes a dead letter along, `repeat` is a replay that leaves the entry behind,
  because it died on the way or two ran at once.
* The retry counter of a message is a choice between another try and the dead letter;
  `Delivery` counts.
* The reads at the start of `submit_queue_task` (row, session) are one step: they
  only decide whether to go on, and the window that matters, the upstream call, is
  open after them.

`HotConfig` and `Admission`:

* The time unit is long against a Redis round trip and short against `_CACHE_TTL`.
  A process is an event loop: between two awaits a coroutine is alone in it
  (`Busy`, `Free`).
* The window of the rate limit is a verdict that may go either way. A filled key
  (a day) outlives the requests. `wait_task_id` may give up at any moment.
* A failing await may have taken effect or not (a lost reply).

`BatchWindow`:

* Slots are always free: `RelayFlow` has the members that back off. The LIMIT of the
  sweep's query is never reached. The keys K_BATCH and K_BATCH_DUE do not expire.
* The unit is long against the steps of a coroutine, so acceptances and sweep rounds at
  their limit hold up the clock. A trigger that the clock overtakes by more than
  `Late`, and a release that it overtakes by `Grace`, counts as lost.

`Delivery`:

* The insert of a row and the first publication are one step (`RelayFlow` and
  `Admission` have what may happen between them). Terminal statuses are `ENDED`, and
  `IN_PROGRESS` is `QUEUED`. The lengths of the delays do not matter, only that they
  end. There is one upstream host, with a constant threshold; a guard that cannot be
  read raises like an open breaker. Refused base URLs are left out.
* A crash takes what the caller carried; an expired session takes the submission.

## 3. Runs

A constant commented `bound:` in a module bounds the instance, never the program.
Deadlock is not checked in any run: when every task, request or message has ended
there is nothing left to do. Each run is one question:

| Run | Instance | Shows |
|---|---|---|
| `relay_live` | 2 batched tasks, 1 slot, no faults, fair | `SlotsConserved` (the counter is exactly masks plus calls carrying a slot), `InFlightHoldsSlot`, `CallbackOwed`, `EventuallyFinished` |
| `relay_roomy` | 1 batched task, 2 slots, 2 handlers and a sweep that may overtake, lost answers, retries and replayed dead letters, 2 messages, 3 orders, two faults, one crash | `SlotOwed`, `SingleReleaser`, `OrdersExplained` (a second task upstream only after a stray), `TerminalIsFinal` |
| `relay_shared` | 1 batched and 1 immediate task, 1 slot, one fault at any await but three | `NoStolenSlot`, `ConcurrencyGate`, `NotStranded` |
| `relay_faults` | 1 batched task, every kind of operator, one fault at any await, one crash | `TypeOK`, `ImplementsLifecycle` |
| `admission` | 2 requests in one process, operators in two, 1 key, one update or reset, one fault (a raise, a failed read or a killed process) | one key leads to one task (`OneTaskPerKey`, `FilledKeyStays`); refusals leave nothing (`RejectedLeavesNoTrace`); slots and plans follow configurations in force (`LimitHonoured`, `PlanInBounds`, `BoundedStaleness`, `WriterSeesWrite`) |
| `batch` | 2 tasks, N = 2, T = 1, several windows, late triggers, slow rounds, 2 cancellations, one crash | `DueIsDeadline`, `TriggerArmed`, `EarlyForAReason` (nothing is released early without a reason), `Timely`, `LockDiscipline`, `OnceUnlessOverlap` |
| `delivery` | 1 task with a callback, 2 workers, a prober, a replay, a requeue, 2 attempts, threshold 2, one mishap, fair | `NothingLost`, `Settled`, `BoundedOvershoot`, `BreakerHeals` |

Why the bounds are enough.

* `relay_*`: two handlers and a sweep let every pair of handlers race under the third;
  `MaxMsgs` messages and `MaxOrders` upstream ids per task; one fault and one crash,
  because each recovery is a path of its own. `relay_roomy` has two faults and three
  orders, so that a task can be submitted twice after two different failures and a
  third order would show; the last order is kept for an answer that arrives.
* `admission`: two requests in one process share a cache, and an operator in that
  process and one in another are the two positions a writer can have. One key is
  enough, since no step touches two (`OneTask` is proved for any number). The three profiles are a request with a key and a
  header that raises the batch size to two, one without either, and one with a header
  that is no number. The configured wait of 9 is above the ceiling of 3, as the
  allowed 3600 s are above the default ceiling of 300 s. One fault: the properties
  hold in the face of one, and section 4 proves them for any number.
* `batch`: with N = 2 and two tasks a window can be full, half full, emptied by a
  cancellation and opened again; the last arrival at 3 is late enough for a second
  window to open after the first one ended by T and after it ended by N. `Slow` equals
  `LockTTL`, so a round can outlive its lock. Time stops at 12, and earlier once every
  task is released or canceled; `Timely` bounds a wait by the sum of the settings,
  which that leaves room for.
* `delivery`: two attempts distinguish the last one from another; two workers and a
  prober are one caller more than the threshold, so the breaker can be overrun.

Where a run leaves an await out of `Failing`, one of its properties does not survive that
failure, and a finding below says so or the code accepts it:
`relay_shared` leaves out `submit` (finding 3), `recheck` and `failcas` (finding 5);
`relay_roomy` leaves out `recheck` and `slot` (`SlotOwed`: a slot whose claim raises leaks
until the counter expires) and `mask` (a release whose mask fails puts the task back
without looking whether it still holds the claim). What else `relay_roomy` leaves out only
keeps it small; section 4 names the failures that each property really excludes.
`relay_faults` and `admission` leave out nothing, `relay_live` has no failures.

Properties that are conditional say so in their statement, and the condition is one
the code cannot avoid: `OneTaskPerKey` excludes keys whose placeholder expired under a
running creation, `OnceUnlessOverlap` the rounds that outlive their lock,
`NothingLost` and `Settled` what a mishap took, `CallbackOwed`, `SlotOwed` and
`NotStranded` the tasks one of whose calls or messages a crash took (`lost`; what such a
crash does to them is finding 5). `NotStranded` also excludes an `Orphan`: a batched row
whose acceptance failed before it had a due time, whose client was told 500.
`OrdersExplained` allows one more order for every stray, since no idempotency key is sent
upstream. `CallbackOwed` is about SUCCESS and FAILURE: a task the upstream reports as
canceled ends as `CANCELED`, like one its client cancels, and the property does not tell
the two apart.

Fairness.

* `relay_live`: coroutines are scheduled and messages delivered (weak fairness of
  `Step` and `FireTrigger`). What starts a call gets strong fairness: the number of
  calls at a time is a bound of the model, not of the service, so the clients may not
  occupy it for ever. The sweep runs every minute. Of the upstream we assume that it
  sometimes answers. A submission that used up its attempts becomes a dead letter and
  keeps its slot; `EventuallyFinished` says what this costs: tasks behind it finish
  unless dead letters fill the limit.
* `delivery`: workers take messages and go on, since every await they make has a
  timeout; probers finish a call they have begun, for the same reason; the scheduler
  delivers what is due; the window of the breaker passes. The upstream may fail for
  ever and the client may refuse for ever. Probes, replays, requeues and mishaps owe
  nothing.

### Disagreements between the code and what it says

1. `claim_race`: no free slot means `unclaim_for_release` and then an unconditional
   write of `requeued`. Between the two another release claims the row; the late
   write reopens it and a third call claims it as well. The two calls both take slots
   and both submit. The claim is said to be won by one side only.
2. `releasing_gate`: the gate of `submit_queue_task` knows `waiting` and `requeued`
   but not `releasing`, so an operator's requeue during a release reaches the upstream
   without a slot.
3. `double_return`: when queueing an accepted task fails, the except branch
   decrements the counter and leaves `slot_flags = 1` on the row. Whoever ends the row
   returns the slot again.
4. `silent_failure`: when queueing a released task fails, a bare `cas` to FAILURE
   stands in for `_finalize_queue`: no callback, and the token session stays.
5. `stranded`: a release cut short after `batch_state = released` and before the message
   is sent leaves a row neither sweep channel selects. A crash does it (also while the
   submission runs, whose message has been taken off the list), and without one so does
   the read of the second look when it raises: it is outside any `try`, and
   `batching.release` logs the exception. A task canceled between claim and mask keeps its
   slot in that way (`SlotOwed`). The `cas` after a failed enqueue (relayflow.py:537)
   strands its task too when it raises.

Also seen while modelling, without a run of their own:

* A load that is in flight during `set_many` fills the cache with the old values after
  `_invalidate` cleared it, so the writer's own process may serve them for up to 5 s as
  well (dynconf.py:199, 269). `BoundedStaleness` is what does hold.
* A request reads its plan with three `get`s; an update or the end of the cache's life
  in between gives it parts of two configurations. `PlanInBounds` says that this is
  harmless; `batch_size` from the environment is not compared with `MAX_BATCH`.
* A step that fails after `set_task_id` leaves the key filled (relayflow.py:428-449):
  for a day retries are told of a task that nobody was handed.
* idem.py:75 says that the placeholder guarantees a single writer; it does not once it
  has expired under a slow creation, and `set_task_id` writes whatever the key holds.
* relayflow.py:974 says that the lock keeps a slow round from overlapping the next;
  it does not once a round outlives the lock (`LockDiscipline`).
* `count >= plan.size` (relayflow.py:309) lets every joiner from the N-th on publish a
  size trigger, where redis.py:103 says that ZCARD == N
  cannot trigger twice. The later ones find an empty
  batch or the next one (`EarlyForAReason`).
* The rescue takes rows and leaves the members in the index and the deadline in place:
  later joiners get a deadline that has passed and no trigger of their own, and the
  sweep releases them, within the time `Timely` allows.
* `cancel_queue_task` leaves the batch only when `batch_key` is not empty
  (relayflow.py:737); requests without a model have an empty one.
* An open breaker raises before a request is sent, which costs the message an attempt:
  a submission can become a dead letter without ever having been sent. A breaker
  report that fails after the upstream accepted leads to a second submission.
* The upstream id is read before the call to the upstream (relayflow.py:809) and written
  after it. A requeue in between submits the task a second time, and so do two replays at
  once, which queue the same entry twice; docs/ARCH-queue-relay-lifecycle.md:302 says that
  neither ever does. With `requeue` or `repeat` in `Operators`, TLC finds
  `OrdersExplained` violated at once.
* `_rescue_overdue_batches` has no `try` around a row: one that raises ends the round and
  the rows behind it wait for the next, where the comment at relayflow.py:988 says that
  each channel goes on row by row.
* `_local_body` (relayflow.py:211) prefers `data.upstream_status` to the status of the
  row, so a task canceled after a probe or a landing answers with its last upstream
  status, where docs/SPEC.md:125 promises `canceled`; a late probe writes
  `upstream_status` to terminal rows too (relayflow.py:697).
* `unclaim_for_release` asks its callers for the waiting state the row had before
  (taskstore.py:432) and every caller takes the default.

## 4. Proofs

The theorems hold for any number of tasks, coroutines, processes, keys and messages,
any limit and any number of faults, under the named ASSUMEs of their modules: finite
sets, natural bounds, special values outside the sets they must differ from. Every
invariant and every action property of the passing runs is stated by one. Each rests on
an inductive invariant, which TLC checked on the run of its module before it was proved.

### Relay flow

| Theorem | Property | What must not fail or happen, and why |
|---|---|---|
| `TypeCorrect`, `TerminalStays` | `TypeOK`, `TerminalIsFinal` | - |
| `LifecycleImplemented` | `ImplementsLifecycle` | - |
| `CallbackKept` | `CallbackOwed` | `notify`, `slot`, `send`: the steps between the end and the callback (finding 4) |
| `NoSlotStolen`, `GateHolds` | `NoStolenSlot`, `ConcurrencyGate` (masks, not work upstream) | `submit`: the except branch returns a slot the row still claims (finding 3) |
| `SlotReturned` | `SlotOwed` | `slot`: a claim of the slot that fails is nobody's any more; `recheck`: nobody looks again (finding 5) |
| `UpstreamWorkCounted` | `InFlightHoldsSlot` | requeues (finding 2); `send`: the failed release gives back the slot of a task another one has sent |
| `WorkWithinLimit` | at most `Limit` tasks at work upstream | the conditions of the two it combines: requeues, `submit`, `send` |
| `NobodyStranded` | `NotStranded` | `submit`: an unbatched task nobody publishes, whose client is told 500; `recheck` (finding 5); `send` together with `slot` or `failcas`: the failure branch ends before its CAS |
| `OneReleaser` | `SingleReleaser` | `mask`, refused releases (finding 1) |
| `OneSubmission` | `OrdersExplained` | the same; requeues, and replays that leave their entry behind: two copies both submit |
| `NoSlotLeaks` | `SlotsConserved` | `submit`, `mask`, refused releases; `decr` and crashes, which leak a slot until `K_CONC` expires (redis.py:71) |

What is excluded is a hypothesis of the theorem, about the constants `Failing`,
`Operators` and `MaxCrashes` or, for refused releases, about the behaviour:
`Spec /\ []NoRefusal => ...`, where `NoRefusal` says that no call is at `unclaim`, that
is, no release finds the limit reached. Without these hypotheses the formulas are false:
the runs of the findings show the cases they leave out.

* **`RelayFlowProofs`**. `TypeOK` is not inductive, since a call that forgot its
  task could put anything into the sets of tasks. `CallsOK` says that a call is idle or
  knows a task. `FreshAlone` says that a call before its INSERT is the only one that
  knows its task and finds no row; without it the INSERT could overwrite a terminal
  row. Under their conjunction `IndInv` every write is either one that leaves the status
  alone (`StatusAlone`) or a CAS from an active status (`CasWrites`); so each step keeps
  every terminal status (`Kept`). One lemma per group of actions has a step per action;
  `GoOn`, `CarryOn` and `Begin` are the three ways a call can move.
* **`LifecycleProofs`**. That a callback is owed is read off the running calls, so the
  refinement needs to know which calls announce a task: at most one, and only after the
  end (`AnnounceOK`, `EndsOK`). A call that announces comes from a won CAS of
  `_finalize_queue`, which needs an active status, so no other announces the task then.
  `Kind` sorts the steps into those that create, end, announce or drop, and those that
  change neither the status nor the debt; each maps to an action of `TaskLifecycle` or to
  a stutter. For `CallbackKept` it is added that no release is on its way to the bare CAS
  to FAILURE (`NoFailCas`).
* **`SlotProofs`**. The first half is a table: each action is unfolded once, into what
  it does to its call and its row (`MaskDoes`, `FinalDoes`, ...), and `NextEffect`
  says that the table covers every step. `Knows` is what a call may rely on at each
  label: one that gives a slot back has a finished task, one that probes an upstream id.
  The properties are then followed through the table. For the counter, a step takes a
  slot, passes one between call and row, gives one back, or does none of this
  (`SlotStep`); the cardinalities of the holders and of the carriers move with it
  (`SlotStepCounts`), so the counter is never below their sum (`Accounted`). The gate
  follows, as the counter is never above the limit. An await that raises outside any `try`
  is one more row of the table (`Escape`): what its call was carrying is then nobody's.
* **`ReleaseProofs`** uses the same table. `Pushed` says what drives a task the upstream
  does not know: the sweep or an acceptance until its release is written, a message, a dead
  letter or a call after that. `ClaimOK` and `OneClaim` say that a call between the claim
  and the mask finds the row in `releasing` and that one call is there; a refused
  release breaks the first of them, as it writes `requeued` when the row may
  be another's. From the mask on `TokenOK` passes the right to submit: one message, one
  dead letter or one call has it (`OneRight`), and until the right is used up every order is
  a stray; writing the upstream id down uses it up. A call that raises hands the right to
  the retry or the dead letter it leaves, which needs that only submissions are retried
  and that they know their task (`JobOK`). `NoSlotLeaks`
  turns the inequality of `Accounted` into an equation, which needs that a mask is
  written only to a row without one (`Bare`).

### Admission and configuration

`ValuesAssumption` says that configured values and headers are integers (the coercions of
`dynconf.MUTABLE`), and that an allowed `batch_size` is at most `MAX_BATCH`
(dynconf.py:140).

* **`IdempotencyProofs`**: `OneTask` (`Spec => []OneTaskPerKey`) and `FilledKeysStay`
  (`Spec => FilledKeyStays`). What was put to work and what clients were told agrees with
  the task the key holds (`LeadsTo`), and a creation that is under way placed the
  placeholder and finds it untouched until it fills it (`Owns`), unless the key was
  overrun. `IdemInv` says this of each request at its await. A second creation then finds
  the key taken, and a task at work has a filled key that no release erases. One lemma per
  action shows what it does to its own request (`ArriveOK`, ...); the steps that touch
  keys have a second one about all others (`AcquireKeeps`, `ReleaseKeeps`, ...).
* **`AdmissionProofs`**, configuration: `StalenessBounded`
  (`Spec => []BoundedStaleness`) and `WritersSeeWrites` (`Spec => []WriterSeesWrite`).
  That a cached configuration was in force recently is not inductive: `ConfigInv` says
  how recently (what a cache holds was replaced at most as long ago as the cache is old,
  `CachesOK`), and that an answer that has not reached its cache is of this moment
  (`LoadsOK`). The clock ages caches and history alike (`TickKeeps`), an update moves the
  old hash into the history with age 0 (`CommitKeeps`), and the clock cannot pass between
  an answer and its use. `ViewInv` adds that what an operator is shown belongs to the
  history that began with the write.
* **`AdmissionProofs`**, requests: `TypesCorrect`, `RefusalsLeaveNothing`,
  `PlansInBounds` and `LimitsHonoured`. `FullInv` says of each request what it has read,
  planned and taken at its await (`Fine`), what it has left in the keys, the table and the
  counter (`TraceOK`), and that the counter is the number of requests that hold a slot plus
  the slots of half-failed calls (`SlotsOK`). One lemma per action shows that its
  request ends in a fitting state (`Result`). A limit that was read comes from a
  configuration in force recently, or from the environment once a read failed (`Known`).
  `PlansInBounds` assumes that the `batch_size` of the environment is at most `MAX_BATCH`:
  config.py:108 names that ceiling and nothing enforces it.

### Batch windows

**`BatchWindowProofs`**: `WindowTypes`, `DeadlineKnown` (`DueIsDeadline`), `TriggersArmed`
(`TriggerArmed`), `RoundsDisciplined` (`LockDiscipline`), `SubmittedOnce`
(`OnceUnlessOverlap`), `EarlyForReason` (`EarlyForAReason`) and `NobodyWaitsLong`
(`Timely`), all without conditions, from `WindowInv`:

* `SafeInv`: the types; how each acceptance stands to the index and the deadline
  (`AcceptInv`, `WindowOK`); how the clock stands to the cron, the lock and the rounds
  (`ClockOK`): an active round that has not outlived its lock is the one that holds it.
* `TurnsOK` for `Timely`. One round is not enough: a round may have read the row before it
  was old enough, or find it just claimed, and then the next one must come. So the
  rounds that come for a row are counted: with each of them and each crash the latest
  start of the next round moves by one `Turn`, the life of a lock and a period
  (`WaitOK`). A round that has read the row as stuck either takes it or finds that
  somebody has, which renews `updated` (`RoundReads`).
* `SentOK`: as long as rounds do not overlap (`Alone`), a worker has the task for
  itself until the sweep would take it for dead, and then so has the round. `ArmedOK`
  follows one trigger of the window of today through the windows of yesterday, and
  `EarlyOK` says that whatever fires is of a full window or of a deadline that is known.

### Delivery

**`DeliveryProofs`**: `OvershootBounded` (`Spec => []BoundedOvershoot`), `NothingIsLost`
(`Spec => []NothingLost`) and `DeliveryTypes` (`Spec => []TypeOK`), from `DeliveryInv`.

* The callers in `overrun` are those that failed when or after the breaker opened.
  `Barred` says that none of them can send another request: it has read the counter
  again since, and found the breaker open. So the next failure beyond the threshold is
  that of a caller not yet in the set, and counter and cardinality grow together
  (`ReportFailureKeeps`); while the breaker is closed the set is empty, and both ways to
  reset the counter empty it.
* A replay reads the dead letters, then queues and deletes them one by one. Between
  the two the message it queued may run, fail and become a dead letter again, and another
  replay may hold the same entries. So it is not enough that what is owed is somewhere:
  `JobsKept` says that a job whose entry a replay is about to delete is running, queued
  or in a later entry (`Safe`). An id names one job for ever, also in what replays have read
  (`Recorded`), so a deletion cannot hit another one.

### Only model-checked

* Liveness: `EventuallyFinished`, `BreakerHeals`, `Settled`. Fairness and ENABLED are
  out of the prover's reach.
* What the conditions above leave open: with refused releases, `SingleReleaser` is
  checked in `relay_roomy` where none occurs, and `SlotsConserved` in `relay_live`, where
  one slot for two tasks makes them occur, but without faults and late triggers.
* The disagreements of section 3, which are counterexamples.

## 5. Plan

Done: `TaskStore`, `RelayFlow`, `TaskLifecycle`; `HotConfig`, `BatchPlan`, `Admission`;
`BatchWindow`; `Delivery`; the theorems of section 4. What would come next:

1. Proofs: a form of `SlotsConserved` that admits refused releases where the sweep
   cannot overtake (`LateTriggers = FALSE`), and one of `SingleReleaser` that says how
   many calls a refusal can let in; the part of `Settled` that is safety (what is
   enabled when nothing is settled).
2. The expiry of the slot counter (`CONC_TTL_SECONDS`, renewed by every acquisition)
   next to leaked slots, and the sliding window of the rate limit.
3. What a client reads: `_local_body`, `_terminal_response` and `statusmap` against the
   lifecycle of the row.

## 6. Not modelled

* `services/statusmap.py` is a pure table from the words of upstreams to statuses; the
  models let the upstream say any status, so no property depends on its entries.
* The checks of callback and upstream addresses (`callback_addr.py`, `httpc.py`) and of
  identity are pure functions of strings and DNS answers; `Admission` has the place at
  which a refusal ends the request, which is what its properties depend on.
* Rewriting ids in bodies, parsing answers, signing callbacks and the transparent GET
  (`free_queue_get`) change no state.
* Observability, logging, the dashboard, health checks, settings and wiring: nothing
  the models describe reads them back.
* TTLs of K_CONC, of K_BATCH and of filled idempotency keys: long against everything
  else, see sections 2 and 5.
