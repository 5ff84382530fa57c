------------------------------ MODULE RelayFlow ------------------------------
(***************************************************************************)
(* The life of a task in app/services/relayflow.py: acceptance, batching   *)
(* and release, upstream submission, probing, the background sweep and     *)
(* cancellation, over the rows of TaskStore, the Redis keys they share and *)
(* the taskiq queues that connect them.                                    *)
(*                                                                         *)
(* Every running coroutine is a call; one step of a call runs from one     *)
(* await on shared state to the next, so calls interleave as they do       *)
(* across coroutines, worker processes and replicas.  All tasks belong to  *)
(* one token and one batch key: the keys of different tokens and batches   *)
(* never meet.                                                             *)
(***************************************************************************)
EXTENDS TaskStore, Integers, FiniteSets

CONSTANTS
  Tasks,         \* the tasks clients may create
  NoTask,        \* a value outside Tasks
  Batched,       \* the tasks whose batching.Plan is enabled
  BatchSize,     \* batch_size (N)
  Limit,         \* max_concurrent_tasks
  Procs,         \* coroutines that may run at the same time
  Sweepers,      \* the coroutines of Procs that are sweep rounds; more than
                 \* one when the lock expires under a slow round
  Operators,     \* what operators call: /ops/requeue ("requeue"), and
                 \* /ops/dlq/replay, which takes the entry along ("replay") or,
                 \* when it dies on the way or two run at once, not ("repeat")
  LateTriggers,  \* whether a delayed release may be late by more than the
                 \* rescue grace, so that the sweep overtakes it
  Failing,       \* the awaits that may raise
  MaxFaults,     \* bound: how many of them do
  MaxCrashes,    \* bound: how many calls die half way
  MaxMsgs,       \* bound: submit messages queued for one task
  MaxOrders      \* bound: upstream ids handed out for one task

\* The awaits whose failure the code handles, named by the label they run at.
Handled == {"insert", "join", "due", "trigger", "submit", "unclaim", "mask", "send",
            "decr", "leave"}

\* Those outside any try.
Uncaught == {"conc", "meta", "claim", "acquire", "requeue", "schedule", "recheck",
             "failcas", "slot", "landed", "final", "notify", "clear", "cancel", "advance"}

ASSUME TasksAssumption == IsFiniteSet(Tasks) /\ NoTask \notin Tasks /\ Batched \subseteq Tasks

ASSUME ProcsAssumption == IsFiniteSet(Procs) /\ Sweepers \subseteq Procs

ASSUME BoundsAssumption ==
  /\ {BatchSize, Limit, MaxFaults, MaxCrashes, MaxMsgs, MaxOrders} \subseteq Nat
  /\ MaxMsgs > 0 /\ MaxOrders > 0

ASSUME SwitchesAssumption ==
  /\ Operators \subseteq {"requeue", "replay", "repeat"}
  /\ LateTriggers \in BOOLEAN
  /\ Failing \subseteq Handled \cup Uncaught

VARIABLES
  row,      \* the tasks table
  conc,     \* K_CONC: slots taken by the token
  index,    \* K_BATCH: members of the batch
  trig,     \* batch_release_task messages, immediate ("size") or delayed ("due")
  woken,    \* members a batch release has taken out of the index, not yet released
  timers,   \* delayed queue_release_task messages
  submits,  \* queue_submit_task messages per task, delayed retries included
  dlq,      \* tasks with a QUEUE_SUBMIT entry in the dead letters
  session,  \* tasks whose token session exists
  notified, \* callbacks published per task
  orders,   \* tasks created upstream per task (history)
  strays,   \* those the gateway never learned of or could not record (history)
  lost,     \* tasks a crash hit (history)
  call,     \* the running coroutines
  faults,   \* failures so far
  crashes   \* crashes so far

redis == <<conc, index, session>>
queues == <<trig, woken, timers, submits, dlq>>
history == <<notified, orders, strays, lost>>
budget == <<faults, crashes>>
vars == <<row, redis, queues, history, budget, call>>

-------------------------------------------------------------------------------
(* Calls.  pc is the await a call has reached, t its task; st and id are   *)
(* the status and upstream id it carries, then is where _release_slot      *)
(* returns to, quit whether a cancellation read a waiting batch_state, job *)
(* whether queue_submit_task retries what the call raises, and want the    *)
(* triggers a join decided to publish.                                     *)

Triggers == {"size", "due"}

AcceptLabels == {"conc", "insert", "join", "due", "trigger", "submit", "undo"}
ReleaseLabels == {"meta", "claim", "acquire", "unclaim", "requeue", "schedule",
                  "mask", "backout", "recheck", "send", "failcas"}
SlotLabels == {"slot", "decr"}
UpstreamLabels == {"post", "landed", "probe", "advance"}
FinishLabels == {"final", "notify", "clear", "cancel", "leave"}
Labels == {"idle"} \cup AcceptLabels \cup ReleaseLabels \cup SlotLabels
            \cup UpstreamLabels \cup FinishLabels

Returns == {"idle", "failcas", "notify", "clear"}

Calls == [pc : Labels, t : Tasks \cup {NoTask}, st : Statuses, id : Nat,
          then : Returns, quit : BOOLEAN, job : BOOLEAN, want : SUBSET Triggers]

Idle == [pc |-> "idle", t |-> NoTask, st |-> "NONE", id |-> 0,
         then |-> "idle", quit |-> FALSE, job |-> FALSE, want |-> {}]

At(p, label) == call[p].pc = label

Become(p, c) == call' = [call EXCEPT ![p] = c]

Goto(p, label) == Become(p, IF label = "idle" THEN Idle ELSE [call[p] EXCEPT !.pc = label])

Start(p, label, t) == call[p] = Idle /\ Become(p, [Idle EXCEPT !.pc = label, !.t = t])

\* _release_slot(), to continue at label.
ReleaseSlotThen(p, label) == Become(p, [call[p] EXCEPT !.pc = "slot", !.then = label])

SetRow(t, r) == row' = [row EXCEPT ![t] = r]

\* An await that raises, within the budget.
Fails(label) == label \in Failing /\ faults < MaxFaults /\ faults' = faults + 1

\* conc_release(): the script clamps the counter at zero.
Decr(n) == IF n = 0 THEN 0 ELSE n - 1

\* One more queue_submit_task message.
Publish(t) == submits' = [submits EXCEPT ![t] = IF @ < MaxMsgs THEN @ + 1 ELSE @]

\* _retry_or_dlq: the message is scheduled again or, its attempts used up,
\* becomes a dead letter.
Retry(t) ==
  \/ Publish(t) /\ UNCHANGED dlq
  \/ dlq' = dlq \cup {t} /\ UNCHANGED submits

\* The exception leaves the call; only queue_submit_task retries it.
Raise(p) ==
  /\ IF call[p].job THEN Retry(call[p].t) ELSE UNCHANGED <<submits, dlq>>
  /\ Goto(p, "idle")

-------------------------------------------------------------------------------
(* create_queue_task                                                       *)

\* A request for a task that does not exist yet passes validation.
AcceptStart(p, t) ==
  /\ p \notin Sweepers
  /\ row[t].status = "NONE"
  /\ \A q \in Procs : call[q].t # t
  /\ Start(p, IF t \in Batched THEN "insert" ELSE "conc", t)
  /\ UNCHANGED <<row, redis, queues, history, budget>>

\* conc_acquire(): at the limit the request is answered 429.
AcceptConc(p) ==
  /\ At(p, "conc")
  /\ IF conc < Limit
     THEN conc' = conc + 1 /\ Goto(p, "insert")
     ELSE UNCHANGED conc /\ Goto(p, "idle")
  /\ UNCHANGED <<row, index, session, queues, history, budget>>

\* tokensession.store, then taskstore.create.  No other call knows the task
\* id before the row exists, so the two writes are one step.
AcceptInsert(p) ==
  LET t == call[p].t IN
  /\ At(p, "insert")
  /\ session' = session \cup {t}
  /\ \/ /\ SetRow(t, NewRow(t \in Batched))
        /\ Goto(p, IF t \in Batched THEN "join" ELSE "submit")
        /\ UNCHANGED faults
     \/ Fails("insert") /\ Goto(p, "undo") /\ UNCHANGED row
  /\ UNCHANGED <<conc, index, queues, history, crashes>>

\* batching.join: the member that finds no deadline writes it and owes the
\* due trigger; whoever sees the count at N or above owes a size trigger.
AcceptJoin(p) ==
  LET t == call[p].t
      wanted == (IF index = {} THEN {"due"} ELSE {})
                  \cup (IF Cardinality(index \cup {t}) >= BatchSize THEN {"size"} ELSE {})
  IN
  /\ At(p, "join")
  /\ \/ /\ index' = index \cup {t}
        /\ Become(p, [call[p] EXCEPT !.pc = "due", !.want = wanted])
        /\ UNCHANGED faults
     \/ Fails("join") /\ Goto(p, "undo") /\ UNCHANGED index
  /\ UNCHANGED <<row, conc, session, queues, history, crashes>>

\* patch_data(batch_due_at): the fact the sweep rebuilds the deadline from.
AcceptDue(p) ==
  LET t == call[p].t IN
  /\ At(p, "due")
  /\ \/ SetRow(t, [row[t] EXCEPT !.due = TRUE]) /\ Goto(p, "trigger") /\ UNCHANGED faults
     \/ Fails("due") /\ Goto(p, "undo") /\ UNCHANGED row
  /\ UNCHANGED <<redis, queues, history, crashes>>

\* publish_batch_release, at most once per owed trigger; a failure is logged
\* and swallowed, leaving the batch to the other trigger and the sweep.
AcceptTrigger(p) ==
  /\ At(p, "trigger")
  /\ \/ trig' = trig \cup call[p].want /\ UNCHANGED faults
     \/ \E some \in SUBSET call[p].want :
          some # call[p].want /\ Fails("trigger") /\ trig' = trig \cup some
  /\ Goto(p, "idle")
  /\ UNCHANGED <<row, redis, woken, timers, submits, dlq, history, crashes>>

AcceptSubmit(p) ==
  /\ At(p, "submit")
  /\ \/ Publish(call[p].t) /\ Goto(p, "idle") /\ UNCHANGED faults
     \/ Fails("submit") /\ Goto(p, "undo") /\ UNCHANGED submits
  /\ UNCHANGED <<row, redis, trig, woken, timers, dlq, history, crashes>>

\* The except branch: the slot is given back by a plain DECR, a batched task
\* leaves its batch; both swallow their own failure.  The row stays.
AcceptUndo(p) ==
  LET t == call[p].t IN
  /\ At(p, "undo")
  /\ \/ /\ IF t \in Batched
           THEN index' = index \ {t} /\ UNCHANGED conc
           ELSE conc' = Decr(conc) /\ UNCHANGED index
        /\ UNCHANGED faults
     \/ Fails(IF t \in Batched THEN "leave" ELSE "decr") /\ UNCHANGED <<conc, index>>
  /\ Goto(p, "idle")
  /\ UNCHANGED <<row, session, queues, history, crashes>>

-------------------------------------------------------------------------------
(* Who calls release_batched_task                                          *)

\* batch_release_task: batching.claim empties the index; its members wait for
\* their turn at the release semaphore.
FireTrigger(k) ==
  /\ k \in trig
  /\ trig' = trig \ {k}
  /\ woken' = woken \cup index
  /\ index' = {}
  /\ UNCHANGED <<row, conc, session, timers, submits, dlq, history, budget, call>>

\* release_batched_task starts by reading the row and drops a task that is
\* not waiting.
ReadMeta(p, t) ==
  IF Releasable(row[t]) THEN Start(p, "claim", t) ELSE UNCHANGED call

MemberStart(p, t) ==
  /\ t \in woken
  /\ p \notin Sweepers
  /\ call[p] = Idle
  /\ woken' = woken \ {t}
  /\ ReadMeta(p, t)
  /\ UNCHANGED <<row, redis, trig, timers, submits, dlq, history, budget>>

\* queue_release_task: the delayed retry of one task.
TimerStart(p, t) ==
  /\ t \in timers
  /\ p \notin Sweepers
  /\ call[p] = Idle
  /\ timers' = timers \ {t}
  /\ ReadMeta(p, t)
  /\ UNCHANGED <<row, redis, trig, woken, submits, dlq, history, budget>>

\* Some call of release_batched_task for t is under way.
ReleaseRunning(t) == \E q \in Procs : call[q].t = t /\ call[q].pc \in ReleaseLabels

\* A release of t is under way or some message will still start one.
ReleaseComing(t) == t \in woken \cup timers \/ (t \in index /\ trig # {}) \/ ReleaseRunning(t)

AcceptRunning(t) == \E q \in Procs : call[q].t = t /\ call[q].pc \in AcceptLabels

\* _rescue_overdue_batches on a waiting row.  Its batch_due_at is older than
\* the grace, so the triggers are lost, or late when LateTriggers holds.
RescueStart(p, t) ==
  /\ p \in Sweepers
  /\ RescuableWaiting(row[t])
  /\ LateTriggers \/ ~(ReleaseComing(t) \/ AcceptRunning(t))
  /\ Start(p, "claim", t)
  /\ UNCHANGED <<row, redis, queues, history, budget>>

\* _rescue_overdue_batches on a row stuck in releasing.  updated_at is older
\* than the grace: the release that claimed it has died.
RescueUnclaim(p, t) ==
  /\ p \in Sweepers
  /\ RescuableReleasing(row[t])
  /\ ~ReleaseRunning(t)
  /\ Start(p, "meta", t)
  /\ SetRow(t, Unclaimed(row[t]))
  /\ UNCHANGED <<redis, queues, history, budget>>

RescueMeta(p) ==
  /\ At(p, "meta")
  /\ Goto(p, IF Releasable(row[call[p].t]) THEN "claim" ELSE "idle")
  /\ UNCHANGED <<row, redis, queues, history, budget>>

-------------------------------------------------------------------------------
(* release_batched_task                                                    *)

\* Mutant: the row count of the claim is ignored.
ClaimIgnoringRowcount(p) ==
  LET t == call[p].t IN
  /\ At(p, "claim")
  /\ SetRow(t, IF CanClaim(row[t]) THEN Claimed(row[t]) ELSE row[t])
  /\ Goto(p, "acquire")
  /\ UNCHANGED <<redis, queues, history, budget>>

Claim(p) ==
  LET t == call[p].t IN
  /\ At(p, "claim")
  /\ IF CanClaim(row[t])
     THEN SetRow(t, Claimed(row[t])) /\ Goto(p, "acquire")
     ELSE UNCHANGED row /\ Goto(p, "idle")
  /\ UNCHANGED <<redis, queues, history, budget>>

\* Mutant: off by one at the limit.
AcquireOneMore(p) ==
  /\ At(p, "acquire")
  /\ IF conc <= Limit
     THEN conc' = conc + 1 /\ Goto(p, "mask")
     ELSE UNCHANGED conc /\ Goto(p, "unclaim")
  /\ UNCHANGED <<row, index, session, queues, history, budget>>

Acquire(p) ==
  /\ At(p, "acquire")
  /\ IF conc < Limit
     THEN conc' = conc + 1 /\ Goto(p, "mask")
     ELSE UNCHANGED conc /\ Goto(p, "unclaim")
  /\ UNCHANGED <<row, index, session, queues, history, budget>>

\* unclaim_for_release swallows its own failure.
Unclaim(p) ==
  LET t == call[p].t IN
  /\ At(p, "unclaim")
  /\ \/ SetRow(t, Unclaimed(row[t])) /\ UNCHANGED faults
     \/ Fails("unclaim") /\ UNCHANGED row
  /\ Goto(p, "requeue")
  /\ UNCHANGED <<redis, queues, history, crashes>>

\* batching.requeue: the row first, then the delayed retry.
Requeue(p) ==
  LET t == call[p].t IN
  /\ At(p, "requeue")
  /\ SetRow(t, Requeued(row[t]))
  /\ Goto(p, "schedule")
  /\ UNCHANGED <<redis, queues, history, budget>>

Schedule(p) ==
  /\ At(p, "schedule")
  /\ timers' = timers \cup {call[p].t}
  /\ Goto(p, "idle")
  /\ UNCHANGED <<row, redis, trig, woken, submits, dlq, history, budget>>

\* The mask is written after the slot is taken.
Mask(p) ==
  LET t == call[p].t IN
  /\ At(p, "mask")
  /\ \/ SetRow(t, Released(row[t])) /\ Goto(p, "recheck") /\ UNCHANGED faults
     \/ Fails("mask") /\ Goto(p, "backout") /\ UNCHANGED row
  /\ UNCHANGED <<redis, queues, history, crashes>>

\* The mask was not written: a plain DECR is right here.
Backout(p) ==
  /\ At(p, "backout")
  /\ \/ conc' = Decr(conc) /\ UNCHANGED faults
     \/ Fails("decr") /\ UNCHANGED conc
  /\ Goto(p, "unclaim")
  /\ UNCHANGED <<row, index, session, queues, history, crashes>>

\* Mutant: no second look.
RecheckNothing(p) ==
  /\ At(p, "recheck")
  /\ Goto(p, "send")
  /\ UNCHANGED <<row, redis, queues, history, budget>>

\* The second look at the row: a task canceled meanwhile is not dispatched.
\* When this read raises, nothing goes on with the release (Escape).
Recheck(p) ==
  /\ At(p, "recheck")
  /\ IF row[call[p].t].status \in ACTIVE THEN Goto(p, "send") ELSE ReleaseSlotThen(p, "idle")
  /\ UNCHANGED <<row, redis, queues, history, budget>>

Send(p) ==
  /\ At(p, "send")
  /\ \/ Publish(call[p].t) /\ Goto(p, "idle") /\ UNCHANGED faults
     \/ Fails("send") /\ ReleaseSlotThen(p, "failcas") /\ UNCHANGED submits
  /\ UNCHANGED <<row, redis, trig, woken, timers, dlq, history, crashes>>

\* The enqueue failed: the task is judged dead if it is still SUBMITTED.  When
\* this cas raises, nobody judges it (Escape).
FailCas(p) ==
  LET t == call[p].t
      failed == [CasTo(row[t], "FAILURE", 0) EXCEPT !.slot = 0, !.batch = "released"]
  IN
  /\ At(p, "failcas")
  /\ SetRow(t, IF CasHits(row[t], {"SUBMITTED"}) THEN failed ELSE row[t])
  /\ Goto(p, "idle")
  /\ UNCHANGED <<redis, queues, history, budget>>

-------------------------------------------------------------------------------
(* _release_slot                                                           *)

\* Mutant: a DECR whoever cleared the mask.
ClaimSlotBlind(p) ==
  LET t == call[p].t IN
  /\ At(p, "slot")
  /\ SetRow(t, SlotCleared(row[t]))
  /\ Goto(p, "decr")
  /\ UNCHANGED <<redis, queues, history, budget>>

ClaimSlot(p) ==
  LET t == call[p].t IN
  /\ At(p, "slot")
  /\ SetRow(t, SlotCleared(row[t]))
  /\ Goto(p, IF HoldsSlot(row[t]) THEN "decr" ELSE call[p].then)
  /\ UNCHANGED <<redis, queues, history, budget>>

\* conc_release swallows its own failure.
GiveSlot(p) ==
  /\ At(p, "decr")
  /\ \/ conc' = Decr(conc) /\ UNCHANGED faults
     \/ Fails("decr") /\ UNCHANGED conc
  /\ Goto(p, call[p].then)
  /\ UNCHANGED <<row, index, session, queues, history, crashes>>

-------------------------------------------------------------------------------
(* submit_queue_task, run by queue_submit_task                             *)

\* The checks made before the upstream is called.
Submittable(t) ==
  /\ row[t].status \in ACTIVE
  /\ row[t].batch \notin BATCH_WAITING_STATES
  /\ row[t].up = 0
  /\ t \in session

SubmitStart(p, t) ==
  /\ submits[t] > 0
  /\ p \notin Sweepers
  /\ call[p] = Idle
  /\ submits' = [submits EXCEPT ![t] = @ - 1]
  /\ IF Submittable(t)
     THEN Become(p, [Idle EXCEPT !.pc = "post", !.t = t, !.job = TRUE])
     ELSE UNCHANGED call
  /\ UNCHANGED <<row, redis, trig, woken, timers, dlq, history, budget>>

\* The upstream accepts and names the task; st is what its first status says.
PostAccepted(p) ==
  LET t == call[p].t IN
  /\ At(p, "post")
  /\ orders[t] < MaxOrders
  /\ orders' = [orders EXCEPT ![t] = @ + 1]
  /\ \/ Become(p, [call[p] EXCEPT !.pc = "landed", !.id = orders[t] + 1])
     \/ \E s \in TERMINAL :
          Become(p, [call[p] EXCEPT !.pc = "final", !.id = orders[t] + 1, !.st = s])
  /\ UNCHANGED <<row, redis, queues, notified, strays, lost, budget>>

\* 4xx, or a 2xx without a task id: no retry.
PostRejected(p) ==
  /\ At(p, "post")
  /\ Become(p, [call[p] EXCEPT !.pc = "final", !.st = "FAILURE"])
  /\ UNCHANGED <<row, redis, queues, history, budget>>

\* Transport error, 5xx, open breaker: nothing is known of the task's fate,
\* and the upstream may have accepted it.  The last of the MaxOrders ids is
\* left for an answer that arrives.
PostAmbiguous(p) ==
  LET t == call[p].t IN
  /\ At(p, "post")
  /\ Raise(p)
  /\ \/ UNCHANGED <<orders, strays>>
     \/ /\ orders[t] + 1 < MaxOrders
        /\ orders' = [orders EXCEPT ![t] = @ + 1]
        /\ strays' = [strays EXCEPT ![t] = @ + 1]
  /\ UNCHANGED <<row, redis, trig, woken, timers, notified, lost, budget>>

\* Mutant: the write-back as a plain update of the status column.
LandedBare(p) ==
  LET t == call[p].t IN
  /\ At(p, "landed")
  /\ SetRow(t, CasTo(row[t], "QUEUED", call[p].id))
  /\ Goto(p, "idle")
  /\ UNCHANGED <<redis, queues, history, budget>>

\* The write-back: a CAS from an active status; when it is lost the orphan id
\* is recorded and the status left alone.
Landed(p) ==
  LET t == call[p].t  id == call[p].id IN
  /\ At(p, "landed")
  /\ SetRow(t, IF CasHits(row[t], ACTIVE) THEN CasTo(row[t], "QUEUED", id)
                                          ELSE MergeUp(row[t], id))
  /\ Goto(p, "idle")
  /\ UNCHANGED <<redis, queues, history, budget>>

-------------------------------------------------------------------------------
(* _finalize_queue: CAS, then the slot, the callback and the session       *)

\* Mutant: the loser of the CAS goes on as if it had won.
FinalWithoutWinner(p) ==
  LET t == call[p].t IN
  /\ At(p, "final")
  /\ SetRow(t, IF CasHits(row[t], ACTIVE) THEN CasTo(row[t], call[p].st, call[p].id) ELSE row[t])
  /\ ReleaseSlotThen(p, "notify")
  /\ UNCHANGED <<redis, queues, history, budget>>

\* Mutant: no callback.
FinalSilent(p) ==
  LET t == call[p].t IN
  /\ At(p, "final")
  /\ IF CasHits(row[t], ACTIVE)
     THEN SetRow(t, CasTo(row[t], call[p].st, call[p].id)) /\ ReleaseSlotThen(p, "clear")
     ELSE UNCHANGED row /\ Goto(p, "idle")
  /\ UNCHANGED <<redis, queues, history, budget>>

\* Mutant: the slot stays with the finished task.
FinalKeepingSlot(p) ==
  LET t == call[p].t IN
  /\ At(p, "final")
  /\ IF CasHits(row[t], ACTIVE)
     THEN SetRow(t, CasTo(row[t], call[p].st, call[p].id)) /\ Goto(p, "notify")
     ELSE UNCHANGED row /\ Goto(p, "idle")
  /\ UNCHANGED <<redis, queues, history, budget>>

Final(p) ==
  LET t == call[p].t IN
  /\ At(p, "final")
  /\ IF CasHits(row[t], ACTIVE)
     THEN SetRow(t, CasTo(row[t], call[p].st, call[p].id)) /\ ReleaseSlotThen(p, "notify")
     ELSE UNCHANGED row /\ Goto(p, "idle")
  /\ UNCHANGED <<redis, queues, history, budget>>

\* publish_notify; when it raises, the callback and the session stay behind.
Notify(p) ==
  /\ At(p, "notify")
  /\ notified' = [notified EXCEPT ![call[p].t] = @ + 1]
  /\ Goto(p, "clear")
  /\ UNCHANGED <<row, redis, queues, orders, strays, lost, budget>>

\* tokensession.clear, the last step of _finalize_queue and of a cancellation.
Clear(p) ==
  /\ At(p, "clear")
  /\ session' = session \ {call[p].t}
  /\ Goto(p, "idle")
  /\ UNCHANGED <<row, conc, index, queues, history, budget>>

-------------------------------------------------------------------------------
(* view_queue_task and _sweep_queue_rows                                   *)

\* Both probe an active task with a known upstream id and a live session; st
\* remembers the status that was read.
ProbeStart(p, t) ==
  /\ row[t].status \in ACTIVE /\ row[t].up # 0 /\ t \in session
  /\ call[p] = Idle
  /\ Become(p, [Idle EXCEPT !.pc = "probe", !.t = t, !.st = row[t].status])
  /\ UNCHANGED <<row, redis, queues, history, budget>>

ProbeTerminal(p) ==
  /\ At(p, "probe")
  /\ \E s \in TERMINAL : Become(p, [call[p] EXCEPT !.pc = "final", !.st = s])
  /\ UNCHANGED <<row, redis, queues, history, budget>>

\* _advance_from_probe with another active status; the sweep ignores those.
ProbeActive(p) ==
  /\ At(p, "probe")
  /\ p \notin Sweepers
  /\ \E s \in {"QUEUED", "IN_PROGRESS"} \ {call[p].st} :
       Become(p, [call[p] EXCEPT !.pc = "advance", !.st = s])
  /\ UNCHANGED <<row, redis, queues, history, budget>>

\* The probe fails, or tells nothing new.
ProbeNothing(p) ==
  /\ At(p, "probe")
  /\ Goto(p, "idle")
  /\ UNCHANGED <<row, redis, queues, history, budget>>

Advance(p) ==
  LET t == call[p].t IN
  /\ At(p, "advance")
  /\ SetRow(t, IF CasHits(row[t], ACTIVE) THEN CasTo(row[t], call[p].st, 0) ELSE row[t])
  /\ Goto(p, "idle")
  /\ UNCHANGED <<redis, queues, history, budget>>

-------------------------------------------------------------------------------
(* cancel_queue_task                                                       *)

CancelStart(p, t) ==
  /\ p \notin Sweepers
  /\ row[t].status \in ACTIVE
  /\ call[p] = Idle
  /\ Become(p, [Idle EXCEPT !.pc = "cancel", !.t = t,
                            !.quit = row[t].batch \in BATCH_WAITING_STATES])
  /\ UNCHANGED <<row, redis, queues, history, budget>>

CancelCas(p) ==
  LET t == call[p].t IN
  /\ At(p, "cancel")
  /\ IF CasHits(row[t], ACTIVE)
     THEN /\ SetRow(t, CasTo(row[t], "CANCELED", 0))
          /\ IF call[p].quit THEN Goto(p, "leave") ELSE ReleaseSlotThen(p, "clear")
     ELSE UNCHANGED row /\ Goto(p, "idle")
  /\ UNCHANGED <<redis, queues, history, budget>>

\* batching.leave swallows its own failure.
CancelLeave(p) ==
  /\ At(p, "leave")
  /\ \/ index' = index \ {call[p].t} /\ UNCHANGED faults
     \/ Fails("leave") /\ UNCHANGED index
  /\ ReleaseSlotThen(p, "clear")
  /\ UNCHANGED <<row, conc, session, queues, history, crashes>>

-------------------------------------------------------------------------------
(* Operators, and what the process dies of                                 *)

\* /ops/requeue publishes without looking at the task.
OpsRequeue(t) ==
  /\ "requeue" \in Operators
  /\ row[t].status # "NONE"
  /\ submits[t] < MaxMsgs
  /\ Publish(t)
  /\ UNCHANGED <<row, redis, trig, woken, timers, dlq, history, budget, call>>

\* /ops/dlq/replay, one entry: it is queued first and deleted then.
OpsReplay(t) ==
  /\ t \in dlq
  /\ Publish(t)
  /\ \/ "replay" \in Operators /\ dlq' = dlq \ {t}
     \/ "repeat" \in Operators /\ UNCHANGED dlq
  /\ UNCHANGED <<row, redis, trig, woken, timers, history, budget, call>>

\* The call knows an upstream task that the row does not name yet.
Unrecorded(p) == call[p].pc \in {"landed", "final"} /\ call[p].id # 0

\* An await outside any try raises: the coroutine ends where it stands, and
\* batching.release, the route or the cron only log it.  A first read that
\* raises, before the claim, is a claim that raises.
Escape(p) ==
  LET t == call[p].t IN
  /\ call[p].pc \in Uncaught
  /\ Fails(call[p].pc)
  /\ Raise(p)
  /\ strays' = IF Unrecorded(p) THEN [strays EXCEPT ![t] = @ + 1] ELSE strays
  /\ UNCHANGED <<row, redis, trig, woken, timers, notified, orders, lost, crashes>>

\* A coroutine dies with its process.  The message it was running was taken
\* off the list before it started, so it is gone too.
Crash(p) ==
  /\ call[p] # Idle
  /\ crashes < MaxCrashes
  /\ crashes' = crashes + 1
  /\ lost' = lost \cup {call[p].t}
  /\ Goto(p, "idle")
  /\ UNCHANGED <<row, redis, queues, notified, orders, strays, faults>>

\* A worker dies between taking a batch out of the index and releasing t.
CrashBatch(t) ==
  /\ t \in woken
  /\ crashes < MaxCrashes
  /\ crashes' = crashes + 1
  /\ woken' = woken \ {t}
  /\ lost' = lost \cup {t}
  /\ UNCHANGED <<row, redis, trig, timers, submits, dlq, notified, orders, strays, faults, call>>

-------------------------------------------------------------------------------
Init ==
  /\ row = [t \in Tasks |-> NoRow]
  /\ conc = 0
  /\ index = {}
  /\ trig = {}
  /\ woken = {}
  /\ timers = {}
  /\ submits = [t \in Tasks |-> 0]
  /\ dlq = {}
  /\ session = {}
  /\ notified = [t \in Tasks |-> 0]
  /\ orders = [t \in Tasks |-> 0]
  /\ strays = [t \in Tasks |-> 0]
  /\ lost = {}
  /\ call = [p \in Procs |-> Idle]
  /\ faults = 0
  /\ crashes = 0

AcceptStep(p) ==
  \/ AcceptConc(p) \/ AcceptInsert(p) \/ AcceptJoin(p) \/ AcceptDue(p)
  \/ AcceptTrigger(p) \/ AcceptSubmit(p) \/ AcceptUndo(p)

ReleaseStep(p) ==
  \/ RescueMeta(p) \/ Claim(p) \/ Acquire(p) \/ Unclaim(p) \/ Requeue(p) \/ Schedule(p)
  \/ Mask(p) \/ Backout(p) \/ Recheck(p) \/ Send(p) \/ FailCas(p)

FinishStep(p) ==
  \/ Final(p) \/ ClaimSlot(p) \/ GiveSlot(p) \/ Notify(p) \/ Clear(p)
  \/ CancelCas(p) \/ CancelLeave(p)

UpstreamStep(p) ==
  \/ PostAccepted(p) \/ PostRejected(p) \/ PostAmbiguous(p) \/ Landed(p)
  \/ ProbeTerminal(p) \/ ProbeActive(p) \/ ProbeNothing(p) \/ Advance(p)

\* A call that has started goes on.
Step(p) == AcceptStep(p) \/ ReleaseStep(p) \/ FinishStep(p) \/ UpstreamStep(p)

\* What the queues and the cron start.
WorkerStart(p, t) == MemberStart(p, t) \/ TimerStart(p, t) \/ SubmitStart(p, t)
SweepStart(p, t) == RescueStart(p, t) \/ RescueUnclaim(p, t)

\* What clients start.
ClientStart(p, t) == AcceptStart(p, t) \/ CancelStart(p, t)

Next ==
  \/ \E p \in Procs : Step(p) \/ Escape(p) \/ Crash(p)
  \/ \E p \in Procs, t \in Tasks :
       WorkerStart(p, t) \/ SweepStart(p, t) \/ ClientStart(p, t) \/ ProbeStart(p, t)
  \/ \E k \in Triggers : FireTrigger(k)
  \/ \E t \in Tasks : OpsRequeue(t) \/ OpsReplay(t) \/ CrashBatch(t)

Spec == Init /\ [][Next]_vars

(***************************************************************************)
(* Fairness, for runs without operators.  Coroutines are scheduled; queued *)
(* and due messages are delivered; the sweep runs every minute.  The       *)
(* number of calls at a time is a bound of the model, so what starts a     *)
(* call gets strong fairness: clients cannot occupy the service for ever.  *)
(* Of the upstream we assume that it sometimes answers: a submission       *)
(* retried for ever would be accepted, a task probed for ever would end.   *)
(***************************************************************************)
Fairness ==
  /\ \A p \in Procs : WF_vars(Step(p))
  /\ WF_vars(\E k \in Triggers : FireTrigger(k))
  /\ \A t \in Tasks :
       /\ SF_vars(\E p \in Procs : WorkerStart(p, t))
       /\ SF_vars(\E p \in Sweepers : SweepStart(p, t) \/ ProbeStart(p, t))
       /\ SF_vars(\E p \in Procs : call[p].t = t /\ (PostAccepted(p) \/ ProbeTerminal(p)))

LiveSpec == Spec /\ Fairness
-------------------------------------------------------------------------------
(* Properties                                                              *)

\* Every variable stays in its range.
TypeOK ==
  /\ row \in [Tasks -> Rows]
  /\ conc \in Nat
  /\ index \subseteq Tasks /\ woken \subseteq Tasks /\ timers \subseteq Tasks
  /\ dlq \subseteq Tasks /\ session \subseteq Tasks /\ lost \subseteq Tasks
  /\ trig \subseteq Triggers
  /\ submits \in [Tasks -> Nat] /\ notified \in [Tasks -> Nat]
  /\ orders \in [Tasks -> Nat] /\ strays \in [Tasks -> Nat]
  /\ call \in [Procs -> Calls]
  /\ faults \in Nat /\ crashes \in Nat

\* A terminal status is never left, whoever writes to the row: the write-back
\* of a submission, a late probe, a release or a second finisher.
TerminalIsFinal ==
  [][\A t \in Tasks : row[t].status \in TERMINAL => row'[t].status = row[t].status]_vars

\* The tasks whose mask says they hold a slot, and the calls that hold one
\* that no mask shows: taken and not yet masked, or unmasked and not yet
\* given back.
Holders == {t \in Tasks : HoldsSlot(row[t])}

Carriers ==
  {p \in Procs :
     \/ call[p].pc \in {"mask", "backout", "decr"}
     \/ call[p].pc = "insert" /\ call[p].t \notin Batched
     \/ call[p].pc = "undo" /\ call[p].t \notin Batched /\ row[call[p].t].status = "NONE"}

\* No caller gives back a slot that belongs to another task: the counter
\* never falls below the slots that masks and calls account for, whichever of
\* a cancellation, a finisher and a release return a slot at the same time.
NoStolenSlot == conc >= Cardinality(Holders) + Cardinality(Carriers)

\* The limit holds for the tasks themselves and not only for the counter.
ConcurrencyGate == Cardinality(Holders) <= Limit

\* And no slot leaks: the counter is exactly what is accounted for.
SlotsConserved == conc = Cardinality(Holders) + Cardinality(Carriers)

\* A finished task that still has its mask has a call that is about to return
\* the slot, unless a crash took that call: a release that masks the row of a
\* task canceled a moment ago finds out and gives the slot back.  Two awaits
\* must not raise: that second look of the release, and claim_slot_release.
SlotOwed ==
  \A t \in Tasks :
    row[t].status \in TERMINAL /\ HoldsSlot(row[t]) /\ t \notin lost =>
      \E p \in Procs : call[p].t = t /\ call[p].pc \in {"recheck", "slot", "leave"}

\* A call between winning claim_for_release and giving it up or using it.
HoldsClaim(p, t) == call[p].t = t /\ call[p].pc \in {"acquire", "unclaim", "mask", "backout"}

\* The right to release a task is held by one call at a time.
SingleReleaser ==
  \A t \in Tasks, p, q \in Procs : HoldsClaim(p, t) /\ HoldsClaim(q, t) => p = q

\* A task the upstream is working on counts against the limit: nothing gets
\* to the upstream around the slot.
InFlightHoldsSlot ==
  \A t \in Tasks : row[t].status \in ACTIVE /\ row[t].up # 0 => HoldsSlot(row[t])

\* The upstream creates a second task for one task only when the gateway never
\* learned of the first, or could not write it down.  No two triggers,
\* messages, retries or dead letters submit the same task.
OrdersExplained == \A t \in Tasks : orders[t] <= strays[t] + 1

\* Something will still move t towards the upstream: a running call, a
\* message that will not be dropped, or the sweep.  A dead letter is one: it
\* is there for an operator to replay.
Driven(t) ==
  \/ \E p \in Procs : call[p].t = t
  \/ ReleaseComing(t)
  \/ submits[t] > 0 /\ row[t].batch \notin BATCH_WAITING_STATES
  \/ t \in dlq
  \/ RescuableWaiting(row[t]) \/ RescuableReleasing(row[t])

\* A batched row without batch_due_at: its acceptance is under way, or has
\* failed, and the client was told so.
Orphan(r) == r.batch \in {"waiting", "releasing"} /\ ~r.due

\* No accepted task hangs silently: before the upstream knows it, it has its
\* token session and something that drives it, unless a crash took a call.
\* Three awaits must not raise: the publication of an unbatched task, whose
\* client is told so, the second look of a release, and the cas that judges a
\* task whose enqueue failed.
NotStranded ==
  \A t \in Tasks :
    row[t].status \in ACTIVE /\ row[t].up = 0 /\ ~Orphan(row[t]) /\ t \notin lost =>
      t \in session /\ Driven(t)

\* The same of a task whose release has been written, for runs that crash or
\* in which the second look raises: whatever cut the release short, the sweep
\* finds the task.
ReleaseSurvives ==
  \A t \in Tasks :
    row[t].status \in ACTIVE /\ row[t].batch = "released" /\ row[t].up = 0 => Driven(t)

\* The calls that will publish the callback of t.
Announces(p, t) ==
  /\ call[p].t = t
  /\ call[p].pc = "notify" \/ (call[p].pc \in SlotLabels /\ call[p].then = "notify")

\* A task that succeeded or failed has had its callback, or a running call is
\* about to publish it, unless a crash took that call.
CallbackOwed ==
  \A t \in Tasks :
    row[t].status \in {"SUCCESS", "FAILURE"} /\ notified[t] = 0 /\ t \notin lost =>
      \E p \in Procs : Announces(p, t)

\* Every accepted task ends: with fewer slots than tasks the others queue up
\* and get their turn.  A dead letter waits for an operator and keeps its
\* slot, so dead letters that fill the limit hold up the tasks behind them.
EventuallyFinished ==
  \A t \in Tasks :
    row[t].status \in ACTIVE ~>
      row[t].status \in TERMINAL \/ t \in dlq \/ Cardinality(dlq) >= Limit

\* What a client is promised about the status and the callback of a task.
Lifecycle ==
  INSTANCE TaskLifecycle WITH
    status <- [t \in Tasks |-> row[t].status],
    owed <- {t \in Tasks : \E p \in Procs : Announces(p, t)},
    told <- notified

\* The detailed system implements that promise.
ImplementsLifecycle == Lifecycle!Spec
===============================================================================
