----------------------------- MODULE BatchWindow -----------------------------
(***************************************************************************)
(* When a batch is released: the windows of app/services/batching.py over  *)
(* the scripts LUA_BATCH_JOIN, LUA_BATCH_CLAIM and LUA_BATCH_LEAVE, their  *)
(* triggers, and the rescue of sweep_queue_once under its lock.            *)
(*                                                                         *)
(* RelayFlow has the same calls without a clock; here the clock is what    *)
(* matters, slots are always free, and there is one batch key.  The unit   *)
(* is long against the steps of a coroutine: acceptances and sweep rounds  *)
(* hold up the clock, and a trigger or a release it overtakes is lost.     *)
(***************************************************************************)
EXTENDS Integers, FiniteSets

CONSTANTS
  Tasks,       \* the tasks of the batch key
  Rounds,      \* coroutines for rounds of the sweep
  Size,        \* batch_size (N)
  Wait,        \* batch_wait_seconds (T), in time units like all of the below
  Grace,       \* _BATCH_RESCUE_GRACE_SECONDS
  Period,      \* the cron of queue_sweep_task
  LockTTL,     \* queue_sweep_lock_ttl_seconds
  Late,        \* bound: how late a trigger runs, if it runs
  Slow,        \* bound: how long a round takes, probes included
  LastArrival, \* bound: the last moment a task arrives
  MaxTime,     \* bound: the last moment of the model
  MaxCancels,  \* bound: tasks that are canceled
  MaxCrashes   \* bound: acceptances and rounds that die, due triggers that
               \* cannot be published

ASSUME WindowAssumption ==
  /\ IsFiniteSet(Tasks) /\ IsFiniteSet(Rounds)
  /\ {Size, Wait, Grace, Period, LockTTL, MaxTime} \subseteq Nat \ {0}
  /\ {Late, Slow, LastArrival, MaxCancels, MaxCrashes} \subseteq Nat

VARIABLES
  now,       \* the clock
  row,       \* tasks table: batch state, batch_due_at, updated_at
  accept,    \* create_queue_task from the insert on: where it stands
  quitting,  \* cancellations that still have to call batching.leave
  index,     \* K_BATCH: the members
  deadline,  \* K_BATCH_DUE: the score of the key
  trig,      \* batch_release_task messages: when they run and who sent them
  work,      \* the release of a member by a worker
  round,     \* the rounds of the sweep
  lock,      \* K_QUEUE_SWEEP_LOCK
  cron,      \* when the next round is due
  stale,     \* acceptances and triggers of windows that are over (history)
  past,      \* the earliest deadline of a window that is over (history)
  full,      \* a window has reached Size (history)
  joined,    \* when a task joined (history)
  sent,      \* how often a task was put on the submit queue (history)
  overlap,   \* two rounds have run at once (history)
  crashes    \* crashes so far

batch == <<index, deadline, stale, past>>
sweep == <<round, lock, cron, overlap>>
vars == <<now, row, accept, quitting, batch, trig, work, sweep, full, joined, sent, crashes>>

None == 0          \* no deadline, no batch_due_at

NoAccept == [pc |-> "new", due |-> None, wrote |-> FALSE, full |-> FALSE]
NoWork == [pc |-> "no", since |-> 0]
NoRound == [pc |-> "idle", started |-> 0, todo |-> {}, stuck |-> {}, held |-> {},
            claimed |-> FALSE]
Unlocked == [by |-> {}, until |-> 0]

Crashing == crashes < MaxCrashes /\ crashes' = crashes + 1

\* updated_at counts only until a row is released.
Touched(r) == [r EXCEPT !.updated = IF r.state \in {"waiting", "releasing"} THEN now ELSE 0]

SetState(t, state) == row' = [row EXCEPT ![t] = Touched([@ EXCEPT !.state = state])]

-------------------------------------------------------------------------------
(* Acceptance: taskstore.create and _join_batch                            *)

AcceptTo(t, pc) ==
  accept' = [accept EXCEPT ![t] = [IF pc = "done" THEN NoAccept ELSE @ EXCEPT !.pc = pc]]

Create(t) ==
  /\ accept[t].pc = "new" /\ now <= LastArrival
  /\ AcceptTo(t, "join")
  /\ SetState(t, "waiting")
  /\ UNCHANGED <<now, quitting, batch, trig, work, sweep, full, joined, sent, crashes>>

\* Mutant: the caller keeps the deadline it has computed.
OwnDeadline(d) == now + Wait

\* What LUA_BATCH_JOIN returns as the deadline of the batch.
RealDeadline(d) == d

\* Mutant: every member starts the window anew.
PushedDeadline == IF deadline = None THEN now + Wait ELSE deadline + Wait

\* ZADD NX: the first member sets the deadline.
FirstDeadline == IF deadline = None THEN now + Wait ELSE deadline

\* LUA_BATCH_JOIN: ZADD, ZADD NX, ZCARD and ZSCORE in one script.
Join(t) ==
  LET d == FirstDeadline
      reached == Cardinality(index \cup {t}) >= Size
  IN  /\ accept[t].pc = "join"
      /\ index' = index \cup {t}
      /\ deadline' = d
      /\ accept' = [accept EXCEPT ![t] = [pc |-> "patch", due |-> RealDeadline(d), wrote |-> deadline = None,
                                          full |-> reached]]
      /\ full' = (full \/ reached)
      /\ joined' = [joined EXCEPT ![t] = now]
      /\ UNCHANGED <<now, row, quitting, stale, past, trig, work, sweep, sent, crashes>>

\* What is published after the deadline is in the row.
Triggers(a) == (IF a.wrote THEN {"due"} ELSE {}) \cup (IF a.full THEN {"size"} ELSE {})

Patch(t) ==
  /\ accept[t].pc = "patch"
  /\ row' = [row EXCEPT ![t] = Touched([@ EXCEPT !.due = accept[t].due])]
  /\ AcceptTo(t, IF accept[t].wrote THEN "due" ELSE IF accept[t].full THEN "size" ELSE "done")
  /\ UNCHANGED <<now, quitting, batch, trig, work, sweep, full, joined, sent, crashes>>

\* Mutant: the delay is a label the broker does not know.
AtOnce(due) == now

\* schedule_by_time, or kiq when the deadline has passed.
RunAt(due) == IF due > now THEN due ELSE now

\* The T trigger; when it cannot be published the acceptance goes on.
PublishDue(t) ==
  /\ accept[t].pc = "due"
  /\ \/ /\ trig' = trig \cup {[by |-> t, kind |-> "due", at |-> RunAt(accept[t].due)]}
        /\ UNCHANGED crashes
     \/ Crashing /\ UNCHANGED trig
  /\ AcceptTo(t, IF accept[t].full THEN "size" ELSE "done")
  /\ UNCHANGED <<now, row, quitting, batch, work, sweep, full, joined, sent>>

\* The N trigger; losing it is the same as never running it.
PublishSize(t) ==
  /\ accept[t].pc = "size"
  /\ trig' = trig \cup {[by |-> t, kind |-> "size", at |-> now]}
  /\ AcceptTo(t, "done")
  /\ UNCHANGED <<now, row, quitting, batch, work, sweep, full, joined, sent, crashes>>

\* Whoever has joined so far, and the triggers they publish, belong to the
\* window that ends.
EndWindow ==
  /\ deadline' = None
  /\ stale' = {t \in Tasks : joined[t] # 0}
  /\ past' = IF past = None \/ deadline < past THEN deadline ELSE past

\* LUA_BATCH_LEAVE: ZREM, and an empty batch has no deadline.
Left(t) ==
  /\ index' = index \ {t}
  /\ IF index' = {} /\ deadline # None THEN EndWindow ELSE UNCHANGED <<deadline, stale, past>>

\* The acceptance dies; or the patch raises and the except branch leaves the
\* batch, while the row stays.
AcceptDies(t) ==
  /\ accept[t].pc \notin {"new", "done"}
  /\ Crashing
  /\ AcceptTo(t, "done")
  /\ \/ UNCHANGED batch
     \/ accept[t].pc \in {"join", "patch"} /\ Left(t)
  /\ UNCHANGED <<now, row, quitting, trig, work, sweep, full, joined, sent>>

-------------------------------------------------------------------------------
(* Cancellation                                                            *)

\* The CAS to CANCELED; whoever read a waiting row leaves the batch next.
Cancel(t) ==
  /\ row[t].state \in {"waiting", "releasing"}
  /\ Cardinality({o \in Tasks : row[o].state = "canceled"}) < MaxCancels
  /\ quitting' = IF row[t].state = "waiting" THEN quitting \cup {t} ELSE quitting
  /\ SetState(t, "canceled")
  /\ UNCHANGED <<now, accept, batch, trig, work, sweep, full, joined, sent, crashes>>

Leave(t) ==
  /\ t \in quitting
  /\ quitting' = quitting \ {t}
  /\ Left(t)
  /\ UNCHANGED <<now, row, accept, trig, work, sweep, full, joined, sent, crashes>>

-------------------------------------------------------------------------------
(* batching.release and release_batched_task                               *)

\* Mutant: the key keeps its score.
ClaimedBare ==
  /\ index' = {}
  /\ UNCHANGED <<deadline, stale, past>>

\* LUA_BATCH_CLAIM: members, DEL, ZREM.
Claimed ==
  /\ index' = {}
  /\ IF deadline # None THEN EndWindow ELSE UNCHANGED <<deadline, stale, past>>

\* A trigger runs, whatever the batch of its key is by now.
Fire(m) ==
  /\ m \in trig /\ m.at <= now
  /\ trig' = trig \ {m}
  /\ Claimed
  /\ work' = [t \in Tasks |-> IF t \in index THEN [pc |-> "woken", since |-> 0] ELSE work[t]]
  /\ UNCHANGED <<now, row, accept, quitting, sweep, full, joined, sent, crashes>>

\* claim_for_release.
Take(t) ==
  /\ work[t].pc = "woken"
  /\ IF row[t].state = "waiting"
     THEN SetState(t, "releasing") /\ work' = [work EXCEPT ![t] = [pc |-> "claimed", since |-> now]]
     ELSE work' = [work EXCEPT ![t] = NoWork] /\ UNCHANGED row
  /\ UNCHANGED <<now, accept, quitting, batch, trig, sweep, full, joined, sent, crashes>>

\* The release after the claim, unless the task is canceled: patch and publish.
Dispatch(t) ==
  IF row[t].state = "canceled" THEN UNCHANGED <<row, sent>>
  ELSE SetState(t, "released") /\ sent' = [sent EXCEPT ![t] = @ + 1]

\* A worker that is alive is done before the sweep would take it for dead.
Send(t) ==
  /\ work[t].pc = "claimed" /\ now < work[t].since + Grace
  /\ Dispatch(t)
  /\ work' = [work EXCEPT ![t] = NoWork]
  /\ UNCHANGED <<now, accept, quitting, batch, trig, sweep, full, joined, crashes>>

-------------------------------------------------------------------------------
(* sweep_queue_once and _rescue_overdue_batches                            *)

Active(s) == round[s].pc = "active"

\* Mutant: a release is judged by the deadline it follows, not by its age.
StuckByDue(t) == row[t].state = "releasing" /\ row[t].due # None /\ row[t].due + Grace <= now

\* A release that has stood still for Grace.
Stuck(t) == row[t].state = "releasing" /\ row[t].updated + Grace <= now

Overdue(t) == row[t].state = "waiting" /\ row[t].due # None /\ row[t].due + Grace <= now

\* Mutant: the rows that wait are all there is to rescue.
OnlyOverdue == {t \in Tasks : Overdue(t)}

\* stale_batch_waiting: the rows a round will work on, as it reads them once.
Candidates == {t \in Tasks : Stuck(t) \/ Overdue(t)}

\* SET NX EX, and the query.
StartRound(s) ==
  /\ ~Active(s) /\ now >= cron
  /\ lock = Unlocked
  /\ cron' = now + Period
  /\ lock' = [by |-> {s}, until |-> now + LockTTL]
  /\ round' = [round EXCEPT ![s] = [pc |-> "active", started |-> now, todo |-> Candidates,
                                    stuck |-> {t \in Tasks : Stuck(t)}, held |-> {}, claimed |-> FALSE]]
  /\ overlap' = (overlap \/ \E o \in Rounds : Active(o))
  /\ UNCHANGED <<now, row, accept, quitting, batch, trig, work, full, joined, sent, crashes>>

\* Another round holds the lock.
SkipRound ==
  /\ now >= cron /\ lock # Unlocked
  /\ cron' = now + Period
  /\ UNCHANGED <<now, row, accept, quitting, batch, trig, work, round, lock, overlap, full, joined, sent, crashes>>

\* A row that was read as releasing goes back to waiting first.
Unclaim(s, t) ==
  /\ Active(s) /\ round[s].held = {} /\ t \in round[s].stuck
  /\ round' = [round EXCEPT ![s].stuck = @ \ {t}, ![s].todo = @ \ {t}, ![s].held = {t}]
  /\ IF row[t].state = "releasing" THEN SetState(t, "waiting") ELSE UNCHANGED row
  /\ UNCHANGED <<now, accept, quitting, batch, trig, work, lock, cron, overlap, full, joined, sent, crashes>>

\* release_batched_task up to the claim; one row after the other.
Rescue(s, t) ==
  /\ Active(s) /\ ~round[s].claimed
  /\ IF round[s].held = {} THEN t \in round[s].todo \ round[s].stuck ELSE t \in round[s].held
  /\ LET taken == row[t].state = "waiting"
     IN  /\ IF taken THEN SetState(t, "releasing") ELSE UNCHANGED row
         /\ round' = [round EXCEPT ![s].todo = @ \ {t}, ![s].held = IF taken THEN {t} ELSE {},
                                   ![s].claimed = taken]
  /\ UNCHANGED <<now, accept, quitting, batch, trig, work, lock, cron, overlap, full, joined, sent, crashes>>

\* The rest of it.
RescueSend(s, t) ==
  /\ Active(s) /\ round[s].claimed /\ t \in round[s].held
  /\ Dispatch(t)
  /\ round' = [round EXCEPT ![s].held = {}, ![s].claimed = FALSE]
  /\ UNCHANGED <<now, accept, quitting, batch, trig, work, lock, cron, overlap, full, joined, crashes>>

\* Mutant: DEL.
UnlockedBare(s) == Unlocked

\* LUA_CAS_DELETE with the guard of the round.
Released(s) == IF lock.by = {s} THEN Unlocked ELSE lock

\* After the rescue and the probes.
EndRound(s) ==
  /\ Active(s) /\ round[s].todo = {} /\ round[s].held = {}
  /\ lock' = Released(s)
  /\ round' = [round EXCEPT ![s] = NoRound]
  /\ UNCHANGED <<now, row, accept, quitting, batch, trig, work, cron, overlap, full, joined, sent, crashes>>

\* The lock stays until it expires.
RoundDies(s) ==
  /\ Active(s)
  /\ Crashing
  /\ round' = [round EXCEPT ![s] = NoRound]
  /\ UNCHANGED <<now, row, accept, quitting, batch, trig, work, lock, cron, overlap, full, joined, sent>>

-------------------------------------------------------------------------------
Settled == \A t \in Tasks : row[t].state \in {"released", "canceled"}

\* Time waits for acceptances, for the cron and for rounds at their limit, and
\* takes an expired lock, lost triggers and dead releases with it.
Tick ==
  /\ now < MaxTime /\ ~Settled
  /\ \A t \in Tasks : accept[t].pc \in {"new", "done"}
  /\ now < cron
  /\ \A s \in Rounds : Active(s) => now < round[s].started + Slow
  /\ now' = now + 1
  /\ lock' = IF lock.until <= now' THEN Unlocked ELSE lock
  /\ trig' = {m \in trig : now' <= m.at + Late}
  /\ work' = [t \in Tasks |-> IF work[t].pc = "claimed" /\ now' < work[t].since + Grace
                              THEN work[t] ELSE NoWork]
  /\ UNCHANGED <<row, accept, quitting, batch, round, cron, overlap, full, joined, sent, crashes>>

Init ==
  /\ now = 1
  /\ row = [t \in Tasks |-> [state |-> "none", due |-> None, updated |-> 0]]
  /\ accept = [t \in Tasks |-> NoAccept]
  /\ quitting = {} /\ index = {} /\ deadline = None
  /\ trig = {} /\ work = [t \in Tasks |-> NoWork]
  /\ round = [s \in Rounds |-> NoRound] /\ lock = Unlocked /\ cron = 1
  /\ stale = {} /\ past = None /\ full = FALSE
  /\ joined = [t \in Tasks |-> 0] /\ sent = [t \in Tasks |-> 0]
  /\ overlap = FALSE /\ crashes = 0

Next ==
  \/ \E t \in Tasks :
       \/ Create(t) \/ Join(t) \/ Patch(t) \/ PublishDue(t) \/ PublishSize(t) \/ AcceptDies(t)
       \/ Cancel(t) \/ Leave(t) \/ Take(t) \/ Send(t)
  \/ \E m \in trig : Fire(m)
  \/ SkipRound
  \/ \E s \in Rounds :
       \/ StartRound(s) \/ EndRound(s) \/ RoundDies(s)
       \/ \E t \in Tasks : Unclaim(s, t) \/ Rescue(s, t) \/ RescueSend(s, t)
  \/ Tick

Spec == Init /\ [][Next]_vars

-------------------------------------------------------------------------------
Times == 0..MaxTime

\* The ranges of the state; no deadline lies later than T after the last
\* arrival, however the tasks trickle in.
TypeOK ==
  /\ now \in Times /\ cron \in 0..(MaxTime + Period)
  /\ \A t \in Tasks :
       /\ row[t].state \in {"none", "waiting", "releasing", "released", "canceled"}
       /\ row[t].due \in 0..(LastArrival + Wait) /\ row[t].updated \in Times
       /\ accept[t].pc \in {"new", "join", "patch", "due", "size", "done"}
       /\ work[t].pc \in {"no", "woken", "claimed"}
  /\ quitting \subseteq Tasks /\ index \subseteq Tasks
  /\ deadline \in 0..(LastArrival + Wait)
  /\ \A m \in trig : m.by \in Tasks /\ m.kind \in {"due", "size"}
  /\ \A s \in Rounds : round[s].stuck \subseteq Tasks /\ round[s].todo \subseteq Tasks
  /\ lock.by \subseteq Rounds
  /\ stale \subseteq Tasks /\ past \in 0..(LastArrival + Wait)

\* The row of a member knows the deadline of its batch, which is what the
\* sweep goes by when Redis forgets: the deadline of the first member, never
\* later than T after any member joined, and gone with the last one.
DueIsDeadline ==
  /\ (index = {}) = (deadline = None)
  /\ \A t \in index : deadline <= joined[t] + Wait
  /\ \A t \in index : row[t].due # None => row[t].due = deadline

\* Whoever wrote the deadline of the batch has published the trigger for it
\* or is about to, until it is lost, unless that acceptance died or failed.
TriggerArmed ==
  deadline # None /\ now <= deadline + Late /\ crashes = 0 =>
    \/ \E m \in trig : m.kind = "due" /\ m.by \notin stale /\ m.at = deadline
    \/ \E t \in Tasks : accept[t].pc \in {"patch", "due"} /\ accept[t].wrote /\ t \notin stale

\* A batch is taken before its deadline only when some batch of the key was
\* full, or when an earlier deadline of the key has passed: its trigger is
\* still about.
EarlyForAReason ==
  [][index # {} /\ index' = {} /\ work' # work /\ now < deadline =>
       full \/ (past # None /\ past <= now)]_vars

\* Whatever triggers and workers fail to do, no row with a deadline stands
\* still for longer than the settings of the sweep add up to, counted from the
\* deadline T allows or from the last step of a release; each crash costs the
\* life of one lock.
Patience == Grace + (crashes + 1) * (LockTTL + Period) + Slow

Larger(a, b) == IF a > b THEN a ELSE b

Timely ==
  \A t \in Tasks : row[t].state \in {"waiting", "releasing"} /\ row[t].due # None =>
    now <= Larger(joined[t] + Wait, row[t].updated) + Patience

\* Two rounds run at once only if one of them has outlived its lock.
LockDiscipline ==
  \A s, o \in Rounds : s # o /\ Active(s) /\ Active(o) =>
    \E r \in {s, o} : now >= round[r].started + LockTTL

\* As long as no round outlives its lock, no task is submitted twice.
OnceUnlessOverlap == overlap \/ \A t \in Tasks : sent[t] <= 1
===============================================================================
