------------------------------ MODULE TaskStore ------------------------------
(***************************************************************************)
(* The row of one task in the tasks table, and the conditional UPDATEs of  *)
(* app/services/taskstore.py as operators on it.  MySQL executes each      *)
(* statement atomically, so a caller that applies one of these operators   *)
(* in one step has the atomicity of the code.                              *)
(*                                                                         *)
(*   status  the status column; "NONE" stands for "no such row"            *)
(*   batch   data.batch_state; "none" when the key is absent               *)
(*   slot    data.slot_flags, the mask that says the row holds a           *)
(*           concurrency slot                                              *)
(*   up      data.upstream_task_id as a number, 0 when absent              *)
(*   due     whether data.batch_due_at has been written                    *)
(***************************************************************************)
EXTENDS Integers

ACTIVE == {"SUBMITTED", "QUEUED", "IN_PROGRESS"}

TERMINAL == {"SUCCESS", "FAILURE", "CANCELED"}

Statuses == {"NONE"} \cup ACTIVE \cup TERMINAL

BATCH_WAITING_STATES == {"waiting", "requeued"}

BatchStates == {"none", "releasing", "released"} \cup BATCH_WAITING_STATES

\* Every value the row can have.
Rows == [status : Statuses, batch : BatchStates, slot : {0, 1},
         up : Nat, due : BOOLEAN]

NoRow == [status |-> "NONE", batch |-> "none", slot |-> 0, up |-> 0, due |-> FALSE]

\* The row create() inserts: a batched task waits and holds no slot, any
\* other task already holds the slot taken on acceptance.
NewRow(batched) ==
  [NoRow EXCEPT !.status = "SUBMITTED",
                !.batch  = IF batched THEN "waiting" ELSE "none",
                !.slot   = IF batched THEN 0 ELSE 1]

\* JSON_MERGE_PATCH of an upstream id: 0 means the patch has no such key.
MergeUp(r, id) == IF id = 0 THEN r ELSE [r EXCEPT !.up = id]

\* cas(): a guarded transition of the status column.
CasHits(r, froms) == r.status \in froms

CasTo(r, to, id) == [MergeUp(r, id) EXCEPT !.status = to]

\* Mutant: a claim that forgets to look at batch_state.
CanClaimAnyBatch(r) == r.status = "SUBMITTED"

\* claim_for_release(): take the right to release; never touches the status.
CanClaim(r) == r.status = "SUBMITTED" /\ r.batch \in BATCH_WAITING_STATES

Claimed(r) == [r EXCEPT !.batch = "releasing"]

\* unclaim_for_release(): give that right back; every caller relies on the
\* default restore="waiting".
Unclaimed(r) ==
  IF r.status = "SUBMITTED" /\ r.batch = "releasing"
  THEN [r EXCEPT !.batch = "waiting"]
  ELSE r

\* claim_slot_release(): whoever zeroes the mask must do the DECR.
HoldsSlot(r) == r.slot > 0

\* Mutant: the mask is decremented, by whoever comes.
SlotDecremented(r) == [r EXCEPT !.slot = @ - 1]

SlotCleared(r) == [r EXCEPT !.slot = 0]

\* Mutant: a release that marks the row and forgets the mask.
ReleasedUnmasked(r) == [r EXCEPT !.batch = "released"]

\* patch_data() of release_batched_task and of batching.requeue: neither
\* looks at the row it overwrites.
Released(r) == [r EXCEPT !.batch = "released", !.slot = 1]

Requeued(r) == [r EXCEPT !.batch = "requeued", !.due = TRUE]

\* The quick check of release_batched_task on the row it has just read.
Releasable(r) == r.status \in ACTIVE /\ r.batch \in BATCH_WAITING_STATES

\* Mutant: a rescue that only knows rows waiting for their batch.
RescuableFirstWait(r) == r.status = "SUBMITTED" /\ r.batch = "waiting" /\ r.due

\* stale_batch_waiting(), first half: a waiting row whose batch_due_at is
\* known (and, for the caller, long past).
RescuableWaiting(r) ==
  r.status = "SUBMITTED" /\ r.batch \in BATCH_WAITING_STATES /\ r.due

\* Second half: a row left in releasing (the caller adds "for long").
RescuableReleasing(r) == r.status = "SUBMITTED" /\ r.batch = "releasing"
===============================================================================
