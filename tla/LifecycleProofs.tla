--------------------------- MODULE LifecycleProofs ---------------------------
(***************************************************************************)
(* RelayFlow implements TaskLifecycle, for every set of tasks and          *)
(* coroutines, every failure and crash, and with operators at work.        *)
(*                                                                         *)
(* Whether a callback is owed is read off the calls, so what has to be     *)
(* known is which calls announce a task: at most one, and only once the    *)
(* task has ended (AnnounceOK).  A call that announces comes from a won    *)
(* CAS of _finalize_queue, which needs an active status, so no other call  *)
(* announces the task when it begins to.                                   *)
(***************************************************************************)
EXTENDS RelayFlowProofs

\* A call that is past the CAS of _finalize_queue and before the callback.
Announcing(c) == c.pc = "notify" \/ (c.pc \in SlotLabels /\ c.then = "notify")

\* What a call writes to the status column is an end, or another active status.
EndsOK ==
  \A p \in Procs :
    /\ call[p].pc = "final" => call[p].st \in TERMINAL
    /\ call[p].pc = "advance" => call[p].st \in {"QUEUED", "IN_PROGRESS"}

AnnounceOK ==
  \A p \in Procs :
    Announcing(call[p]) =>
      /\ row[call[p].t].status \in TERMINAL
      /\ \A q \in Procs : Announcing(call[q]) /\ call[q].t = call[p].t => q = p

LifeInv == IndInv /\ EndsOK /\ AnnounceOK

-------------------------------------------------------------------------------
(* The kinds of step a call can take                                       *)

\* The call of p has become c, which still has its task or none.
Moves(p, c) ==
  /\ call' = [call EXCEPT ![p] = c]
  /\ c = Idle \/ c.t = call[p].t \/ ~Announcing(call[p])
  /\ c.pc = "final" => c.st \in TERMINAL
  /\ c.pc = "advance" => c.st \in {"QUEUED", "IN_PROGRESS"}
  /\ c.pc = "failcas" \/ c.then = "failcas" => call[p].then = "failcas" \/ "send" \in Failing

\* What makes a call give up an announcement: a crash, or an await that raises.
Dropped(p) == call[p].t \in lost' \/ {"slot", "notify"} \cap Failing # {}

SameStatus == \A t \in Tasks : row'[t].status = row[t].status

\* Only the status of t changes, to s.
NewStatus(t, s) ==
  /\ row'[t].status = s
  /\ \A o \in Tasks \ {t} : row'[o].status = row[o].status

\* A step the client does not see, unless it gives up an announcement.
Unseen(p, c) ==
  /\ Moves(p, c) /\ SameStatus /\ UNCHANGED notified
  /\ Announcing(c) => Announcing(call[p]) /\ c.t = call[p].t
  /\ Announcing(call[p]) => Announcing(c) \/ Dropped(p)

\* A step that moves the status of t and announces nothing.
Writes(p, c, t) ==
  /\ Moves(p, c) /\ UNCHANGED notified /\ ~Announcing(c) /\ ~Announcing(call[p])
  /\ \/ row[t].status = "NONE" /\ NewStatus(t, "SUBMITTED")
     \/ \E s \in {"QUEUED", "IN_PROGRESS"} : row[t].status \in ACTIVE /\ NewStatus(t, s)
     \/ row[t].status \in ACTIVE /\ NewStatus(t, "CANCELED")
     \/ row[t].status = "SUBMITTED" /\ call[p].pc = "failcas" /\ NewStatus(t, "FAILURE")

\* The CAS of _finalize_queue is won.
Ends(p, c) ==
  /\ Moves(p, c) /\ UNCHANGED notified /\ Announcing(c) /\ ~Announcing(call[p])
  /\ c.t = call[p].t /\ c.t \in Tasks
  /\ row[c.t].status \in ACTIVE
  /\ \E s \in TERMINAL : NewStatus(c.t, s)

\* The callback is published.
Tells(p, c) ==
  /\ Moves(p, c) /\ SameStatus /\ ~Announcing(c) /\ Announcing(call[p])
  /\ notified' = [notified EXCEPT ![call[p].t] = @ + 1]

Kind ==
  \/ UNCHANGED <<call, notified>> /\ SameStatus
  \/ \E p \in Procs : \E c \in Calls :
       \/ Unseen(p, c) \/ Ends(p, c) \/ Tells(p, c)
       \/ \E t \in Tasks : Writes(p, c, t)

-------------------------------------------------------------------------------
(* What a row write does to the statuses                                   *)

LEMMA CasStatus ==
  ASSUME NEW r \in Rows, NEW s \in Statuses, NEW id \in Nat
  PROVE  CasTo(r, s, id) \in Rows /\ CasTo(r, s, id).status = s
  BY DEF Rows, CasTo, MergeUp

LEMMA WriteStatus ==
  ASSUME RowsOK, NEW t \in Tasks, NEW r \in Rows, SetRow(t, r)
  PROVE  /\ r.status = row[t].status => SameStatus
         /\ NewStatus(t, r.status)
  BY DEF RowsOK, SetRow, SameStatus, NewStatus

LEMMA NoWrite == UNCHANGED row => SameStatus
  BY DEF SameStatus

-------------------------------------------------------------------------------
(* Steps the client does not see                                           *)

\* A call goes on at a label where it writes no status and announces nothing.
LEMMA GotoUnseen ==
  ASSUME LifeInv, NEW p \in Procs, call[p].pc # "idle",
         NEW label \in Labels \ ({"final", "advance", "notify"} \cup SlotLabels),
         Goto(p, label), SameStatus, UNCHANGED notified,
         label = "failcas" => call[p].then = "failcas",
         Announcing(call[p]) => Dropped(p)
  PROVE  Kind
<1> DEFINE c == IF label = "idle" THEN Idle ELSE [call[p] EXCEPT !.pc = label]
<1>1. call[p] \in Calls
  BY DEF LifeInv, IndInv, Good, CallsOK
<1>2. /\ c \in Calls /\ c.pc = label /\ (c = Idle \/ c.t = call[p].t)
      /\ c.then \in {"idle", call[p].then}
  BY <1>1, IdleCall DEF Calls, Idle
<1>3. call' = [call EXCEPT ![p] = c]
  BY DEF Goto, Become
<1>4. ~Announcing(c)
  BY <1>2 DEF Announcing
<1>5. Unseen(p, c)
  BY <1>2, <1>3, <1>4 DEF Unseen, Moves
<1> QED BY <1>2, <1>5 DEF Kind

\* A call goes through _release_slot to somewhere other than the callback.
LEMMA SlotUnseen ==
  ASSUME LifeInv, NEW p \in Procs, call[p].pc # "idle",
         NEW label \in Returns \ {"notify"}, ReleaseSlotThen(p, label),
         label = "failcas" => "send" \in Failing,
         ~Announcing(call[p]), SameStatus, UNCHANGED notified
  PROVE  Kind
<1> DEFINE c == [call[p] EXCEPT !.pc = "slot", !.then = label]
<1>1. call[p] \in Calls
  BY DEF LifeInv, IndInv, Good, CallsOK
<1>2. c \in Calls /\ c.pc = "slot" /\ c.then = label /\ c.t = call[p].t
  BY <1>1 DEF Calls, Labels, SlotLabels
<1>3. call' = [call EXCEPT ![p] = c]
  BY DEF ReleaseSlotThen, Become
<1>4. ~Announcing(c)
  BY <1>2 DEF Announcing
<1>5. Unseen(p, c)
  BY <1>2, <1>3, <1>4 DEF Unseen, Moves
<1> QED BY <1>2, <1>5 DEF Kind

\* A call begins, or goes on with other contents.
LEMMA BecomeUnseen ==
  ASSUME NEW p \in Procs, ~Announcing(call[p]), NEW c \in Calls, Become(p, c),
         ~Announcing(c),
         c.pc = "final" => c.st \in TERMINAL,
         c.pc = "advance" => c.st \in {"QUEUED", "IN_PROGRESS"},
         c.pc # "failcas" /\ c.then \in {"idle", call[p].then},
         SameStatus, UNCHANGED notified
  PROVE  Kind
<1>1. Unseen(p, c)
  BY DEF Unseen, Moves, Become
<1> QED BY <1>1 DEF Kind

LEMMA StandStillUnseen ==
  ASSUME UNCHANGED <<row, call, notified>> PROVE Kind
  BY NoWrite DEF Kind

-------------------------------------------------------------------------------
(* create_queue_task                                                       *)

LEMMA AcceptKind ==
  ASSUME LifeInv, NEW p \in Procs, AcceptStep(p)
  PROVE  Kind
<1> DEFINE t == call[p].t
           Silent == Labels \ ({"final", "advance", "notify", "failcas"} \cup SlotLabels)
<1>0. RowsOK /\ CallsOK /\ FreshAlone
  BY DEF LifeInv, IndInv, Good
<1>1. call[p].pc # "idle" /\ t \in Tasks /\ row[t] \in Rows /\ call[p] \in Calls
  BY <1>0 DEF AcceptStep, AcceptConc, AcceptInsert, AcceptJoin, AcceptDue, AcceptTrigger,
              AcceptSubmit, AcceptUndo, At, CallsOK, RowsOK, Idle
<1>2. UNCHANGED notified
  BY DEF AcceptStep, AcceptConc, AcceptInsert, AcceptJoin, AcceptDue, AcceptTrigger,
         AcceptSubmit, AcceptUndo, queues, history
<1>3. ~Announcing(call[p])
  BY DEF AcceptStep, AcceptConc, AcceptInsert, AcceptJoin, AcceptDue, AcceptTrigger,
         AcceptSubmit, AcceptUndo, At, Announcing, SlotLabels
<1>4. {"insert", "join", "due", "trigger", "submit", "undo", "idle"} \subseteq Silent
  BY DEF Labels, AcceptLabels, SlotLabels
<1>5. CASE AcceptConc(p) \/ AcceptTrigger(p) \/ AcceptSubmit(p) \/ AcceptUndo(p)
  <2>1. SameStatus
    BY <1>5, NoWrite DEF AcceptConc, AcceptTrigger, AcceptSubmit, AcceptUndo
  <2>2. \E label \in Silent : Goto(p, label)
    BY <1>4, <1>5 DEF AcceptConc, AcceptTrigger, AcceptSubmit, AcceptUndo
  <2> QED BY <1>1, <1>2, <1>3, <2>1, <2>2, GotoUnseen
<1>6. CASE AcceptInsert(p)
  <2>1. CASE UNCHANGED row
    <3>1. \E label \in Silent : Goto(p, label)
      BY <1>4, <1>6 DEF AcceptInsert
    <3> QED BY <1>1, <1>2, <1>3, <2>1, <3>1, NoWrite, GotoUnseen
  <2>2. CASE SetRow(t, NewRow(t \in Batched))
                /\ Goto(p, IF t \in Batched THEN "join" ELSE "submit")
    <3> DEFINE c == [call[p] EXCEPT !.pc = IF t \in Batched THEN "join" ELSE "submit"]
    <3>1. c \in Calls /\ c.pc \in {"join", "submit"} /\ c.t = t
      BY <1>1 DEF Calls, Labels, AcceptLabels
    <3>2. call' = [call EXCEPT ![p] = c]
      BY <2>2 DEF Goto, Become
    <3>3. NewRow(t \in Batched) \in Rows /\ NewRow(t \in Batched).status = "SUBMITTED"
      BY DEF Rows, NewRow, NoRow, Statuses, ACTIVE, BatchStates, BATCH_WAITING_STATES
    <3>4. row[t].status = "NONE" /\ NewStatus(t, "SUBMITTED")
      BY <1>0, <1>1, <1>6, <2>2, <3>3, WriteStatus
      DEF AcceptInsert, At, FreshAlone, FreshLabels
    <3>5. Writes(p, c, t)
      BY <1>2, <1>3, <3>1, <3>2, <3>4 DEF Writes, Moves, Announcing, SlotLabels
    <3> QED BY <1>1, <3>1, <3>5 DEF Kind
  <2> QED BY <1>6, <2>1, <2>2 DEF AcceptInsert
<1>7. CASE AcceptJoin(p)
  <2> DEFINE wanted == (IF index = {} THEN {"due"} ELSE {})
                        \cup (IF Cardinality(index \cup {t}) >= BatchSize THEN {"size"} ELSE {})
             c == [call[p] EXCEPT !.pc = "due", !.want = wanted]
  <2>1. SameStatus
    BY <1>7, NoWrite DEF AcceptJoin
  <2>2. CASE Become(p, c)
    <3>1. c \in Calls /\ c.pc = "due" /\ c.then = call[p].then
      BY <1>1 DEF Calls, Labels, AcceptLabels, Triggers
    <3> QED BY <1>2, <1>3, <2>1, <2>2, <3>1, BecomeUnseen DEF Announcing, SlotLabels
  <2>3. CASE Goto(p, "undo")
    BY <1>1, <1>2, <1>3, <1>4, <2>1, <2>3, GotoUnseen
  <2> QED BY <1>7, <2>2, <2>3 DEF AcceptJoin
<1>8. CASE AcceptDue(p)
  <2>1. \E label \in Silent : Goto(p, label)
    BY <1>4, <1>8 DEF AcceptDue
  <2>2. UNCHANGED row \/ SetRow(t, [row[t] EXCEPT !.due = TRUE])
    BY <1>8 DEF AcceptDue
  <2>3. [row[t] EXCEPT !.due = TRUE] \in Rows
        /\ [row[t] EXCEPT !.due = TRUE].status = row[t].status
    BY <1>1 DEF Rows
  <2>4. SameStatus
    BY <1>0, <1>1, <2>2, <2>3, WriteStatus, NoWrite
  <2> QED BY <1>1, <1>2, <1>3, <2>1, <2>4, GotoUnseen
<1> QED BY <1>5, <1>6, <1>7, <1>8 DEF AcceptStep

-------------------------------------------------------------------------------
(* release_batched_task                                                    *)

LEMMA ReleaseKind ==
  ASSUME LifeInv, NEW p \in Procs, ReleaseStep(p)
  PROVE  Kind
<1> DEFINE t == call[p].t
           Silent == Labels \ ({"final", "advance", "notify", "failcas"} \cup SlotLabels)
<1>0. RowsOK /\ CallsOK
  BY DEF LifeInv, IndInv, Good
<1>1. call[p].pc # "idle" /\ t \in Tasks /\ row[t] \in Rows /\ call[p] \in Calls
  BY <1>0 DEF ReleaseStep, RescueMeta, Claim, Acquire, Unclaim, Requeue, Schedule, Mask,
              Backout, Recheck, Send, FailCas, At, CallsOK, RowsOK, Idle
<1>2. UNCHANGED notified
  BY DEF ReleaseStep, RescueMeta, Claim, Acquire, Unclaim, Requeue, Schedule, Mask,
         Backout, Recheck, Send, FailCas, queues, history
<1>3. ~Announcing(call[p])
  BY DEF ReleaseStep, RescueMeta, Claim, Acquire, Unclaim, Requeue, Schedule, Mask,
         Backout, Recheck, Send, FailCas, At, Announcing, SlotLabels
<1>4. {"claim", "acquire", "mask", "unclaim", "requeue", "schedule", "recheck", "backout",
       "send", "idle"} \subseteq Silent
  BY DEF Labels, ReleaseLabels, SlotLabels
<1>5. SameStatus \/ FailCas(p)
  <2>1. CASE RescueMeta(p) \/ Acquire(p) \/ Schedule(p) \/ Backout(p) \/ Recheck(p) \/ Send(p)
    BY <2>1, NoWrite DEF RescueMeta, Acquire, Schedule, Backout, Recheck, Send
  <2>2. CASE Claim(p) \/ Unclaim(p) \/ Requeue(p) \/ Mask(p)
    <3>1. \/ UNCHANGED row
          \/ \E r \in {Claimed(row[t]), Unclaimed(row[t]), Requeued(row[t]), Released(row[t])} :
               SetRow(t, r)
      BY <2>2 DEF Claim, Unclaim, Requeue, Mask
    <3>2. \A r \in {Claimed(row[t]), Unclaimed(row[t]), Requeued(row[t]), Released(row[t])} :
            r \in Rows /\ r.status = row[t].status
      BY <1>1, RowOps, StatusAlone, 0 \in Nat, "NONE" \in Statuses DEF Statuses
    <3> QED BY <1>0, <1>1, <3>1, <3>2, WriteStatus, NoWrite
  <2> QED BY <2>1, <2>2 DEF ReleaseStep
<1>6. CASE FailCas(p)
  <2> DEFINE failed == [CasTo(row[t], "FAILURE", 0) EXCEPT !.slot = 0, !.batch = "released"]
  <2>1. CASE CasHits(row[t], {"SUBMITTED"})
    <3>1. SetRow(t, failed) /\ row[t].status = "SUBMITTED"
      BY <1>6, <2>1 DEF FailCas, CasHits
    <3>2. failed \in Rows /\ failed.status = "FAILURE"
      <4>1. CasTo(row[t], "FAILURE", 0) \in Rows
            /\ CasTo(row[t], "FAILURE", 0).status = "FAILURE"
        BY <1>1, CasStatus, 0 \in Nat, "FAILURE" \in Statuses DEF Statuses, TERMINAL
      <4> QED BY <4>1 DEF Rows, BatchStates
    <3>3. NewStatus(t, "FAILURE")
      BY <1>0, <1>1, <3>1, <3>2, WriteStatus
    <3>4. call' = [call EXCEPT ![p] = Idle]
      BY <1>6 DEF FailCas, Goto, Become
    <3>5. Writes(p, Idle, t)
      BY <1>2, <1>3, <1>6, <3>1, <3>3, <3>4
      DEF Writes, Moves, Announcing, SlotLabels, Idle, FailCas, At
    <3> QED BY <1>1, <3>5, IdleCall DEF Kind
  <2>2. CASE ~CasHits(row[t], {"SUBMITTED"})
    <3>1. SetRow(t, row[t])
      BY <1>6, <2>2 DEF FailCas
    <3>2. SameStatus
      BY <1>0, <1>1, <3>1, WriteStatus
    <3> QED BY <1>1, <1>2, <1>3, <1>4, <1>6, <3>2, GotoUnseen DEF FailCas
  <2> QED BY <2>1, <2>2
<1>7. CASE ~FailCas(p)
  <2>1. \/ \E label \in Silent : Goto(p, label)
        \/ ReleaseSlotThen(p, "idle")
        \/ ReleaseSlotThen(p, "failcas") /\ "send" \in Failing
    BY <1>4, <1>7 DEF ReleaseStep, RescueMeta, Claim, Acquire, Unclaim, Requeue, Schedule,
                      Mask, Backout, Recheck, Send, Fails
  <2> QED BY <1>1, <1>2, <1>3, <1>5, <1>7, <2>1, GotoUnseen, SlotUnseen DEF Returns
<1> QED BY <1>6, <1>7

-------------------------------------------------------------------------------
(* _release_slot, _finalize_queue, cancel_queue_task                       *)

LEMMA RaiseIdles == ASSUME NEW p, Raise(p) PROVE Goto(p, "idle")
  BY DEF Raise

LEMMA FinishKind ==
  ASSUME LifeInv, NEW p \in Procs, FinishStep(p)
  PROVE  Kind
<1> DEFINE t == call[p].t
           Silent == Labels \ ({"final", "advance", "notify", "failcas"} \cup SlotLabels)
<1>0. RowsOK /\ CallsOK /\ EndsOK
  BY DEF LifeInv, IndInv, Good
<1>1. call[p].pc # "idle" /\ t \in Tasks /\ row[t] \in Rows /\ call[p] \in Calls
  BY <1>0 DEF FinishStep, Final, ClaimSlot, GiveSlot, Notify, Clear, CancelCas, CancelLeave,
              At, CallsOK, RowsOK, Idle
<1>2. call[p].st \in Statuses /\ call[p].id \in Nat /\ call[p].then \in Returns
  BY <1>1 DEF Calls
<1>3. {"idle", "clear", "leave"} \subseteq Silent
  BY DEF Labels, FinishLabels, SlotLabels
<1>4. CASE Final(p)
  <2>1. UNCHANGED notified
    BY <1>4 DEF Final, history
  <2>2. CASE CasHits(row[t], ACTIVE) /\ ReleaseSlotThen(p, "notify")
             /\ SetRow(t, CasTo(row[t], call[p].st, call[p].id))
    <3> DEFINE c == [call[p] EXCEPT !.pc = "slot", !.then = "notify"]
               r == CasTo(row[t], call[p].st, call[p].id)
    <3>1. c \in Calls /\ c.pc = "slot" /\ c.then = "notify" /\ c.t = t
      BY <1>1 DEF Calls, Labels, SlotLabels, Returns
    <3>2. call' = [call EXCEPT ![p] = c]
      BY <2>2 DEF ReleaseSlotThen, Become
    <3>3. r \in Rows /\ r.status = call[p].st /\ call[p].st \in TERMINAL
      <4>1. r \in Rows /\ r.status = call[p].st
        BY <1>1, <1>2, CasStatus
      <4> QED BY <1>0, <1>4, <4>1 DEF Final, At, EndsOK
    <3>4. row[t].status \in ACTIVE /\ NewStatus(t, call[p].st)
      <4>1. NewStatus(t, r.status)
        BY <1>0, <1>1, <2>2, <3>3, WriteStatus
      <4> QED BY <2>2, <3>3, <4>1 DEF CasHits
    <3>5. Announcing(c) /\ ~Announcing(call[p])
      BY <1>4, <3>1 DEF Announcing, SlotLabels, Final, At
    <3>6. Ends(p, c)
      BY <1>1, <2>1, <3>1, <3>2, <3>3, <3>4, <3>5 DEF Ends, Moves
    <3> QED BY <3>1, <3>6 DEF Kind
  <2>3. CASE UNCHANGED row /\ Goto(p, "idle")
    <3>1. ~Announcing(call[p])
      BY <1>4 DEF Announcing, SlotLabels, Final, At
    <3> QED BY <1>1, <1>3, <2>1, <2>3, <3>1, NoWrite, GotoUnseen
  <2> QED BY <1>4, <2>2, <2>3 DEF Final
<1>5. CASE ClaimSlot(p)
  <2>1. UNCHANGED notified
    BY <1>5 DEF ClaimSlot, history
  <2>2. SameStatus
    <3>1. SlotCleared(row[t]) \in Rows /\ SlotCleared(row[t]).status = row[t].status
      BY <1>1, RowOps, StatusAlone, 0 \in Nat, "NONE" \in Statuses DEF Statuses
    <3> QED BY <1>0, <1>1, <1>5, <3>1, NoWrite, WriteStatus DEF ClaimSlot
  <2>3. CASE Goto(p, "idle") /\ call[p].then = "idle"
    <3>1. Announcing(call[p]) => Dropped(p)
      BY <1>5, <2>3 DEF Announcing, Dropped, SlotLabels, ClaimSlot, At
    <3> QED BY <1>1, <1>3, <2>1, <2>2, <2>3, <3>1, GotoUnseen
  <2>4. CASE Goto(p, IF HoldsSlot(row[t]) THEN "decr" ELSE call[p].then)
    <3>1. CASE call[p].then = "idle" /\ ~HoldsSlot(row[t])
      BY <2>3, <2>4, <3>1
    <3>2. CASE call[p].then # "idle" \/ HoldsSlot(row[t])
      <4> DEFINE label == IF HoldsSlot(row[t]) THEN "decr" ELSE call[p].then
                 c == [call[p] EXCEPT !.pc = label]
      <4>1. label \in {"decr", "failcas", "notify", "clear"}
        BY <1>2, <3>2 DEF Returns
      <4>2. c \in Calls /\ c.pc = label /\ c.t = t /\ c.then = call[p].then
        BY <1>1, <4>1 DEF Calls, Labels, SlotLabels, ReleaseLabels, FinishLabels
      <4>3. call' = [call EXCEPT ![p] = c]
        BY <2>4, <4>1 DEF Goto, Become
      <4>4. Announcing(c) <=> Announcing(call[p])
        BY <1>5, <3>2, <4>1, <4>2 DEF Announcing, SlotLabels, ClaimSlot, At
      <4>5. Unseen(p, c)
        BY <2>1, <2>2, <4>1, <4>2, <4>3, <4>4 DEF Unseen, Moves
      <4> QED BY <4>2, <4>5 DEF Kind
    <3> QED BY <3>1, <3>2
  <2> QED BY <1>5, <2>4 DEF ClaimSlot
<1>6. CASE GiveSlot(p)
  <2>1. UNCHANGED notified /\ SameStatus
    BY <1>6, NoWrite DEF GiveSlot, queues, history
  <2>2. CASE call[p].then \in {"idle", "failcas", "clear"}
    <3>1. ~Announcing(call[p]) /\ "failcas" \in Labels \ SlotLabels
      BY <1>6, <2>2 DEF Announcing, GiveSlot, At, Labels, ReleaseLabels, SlotLabels
    <3> QED BY <1>1, <1>3, <1>6, <2>1, <2>2, <3>1, GotoUnseen DEF GiveSlot
  <2>3. CASE call[p].then = "notify"
    <3> DEFINE c == [call[p] EXCEPT !.pc = "notify"]
    <3>1. c \in Calls /\ c.pc = "notify" /\ c.t = t /\ c.then = call[p].then
      BY <1>1 DEF Calls, Labels, FinishLabels
    <3>2. call' = [call EXCEPT ![p] = c]
      BY <1>6, <2>3 DEF GiveSlot, Goto, Become
    <3>3. Announcing(call[p])
      BY <1>6, <2>3 DEF GiveSlot, At, Announcing, SlotLabels
    <3>4. Unseen(p, c)
      BY <2>1, <3>1, <3>2, <3>3 DEF Unseen, Moves, Announcing
    <3> QED BY <3>1, <3>4 DEF Kind
  <2> QED BY <1>2, <2>2, <2>3 DEF Returns
<1>7. CASE Notify(p)
  <2>1. SameStatus /\ Announcing(call[p])
    BY <1>7, NoWrite DEF Notify, At, Announcing
  <2>2. CASE notified' = [notified EXCEPT ![t] = @ + 1] /\ Goto(p, "clear")
    <3> DEFINE c == [call[p] EXCEPT !.pc = "clear"]
    <3>1. c \in Calls /\ c.pc = "clear" /\ c.t = t
      BY <1>1 DEF Calls, Labels, FinishLabels
    <3>2. call' = [call EXCEPT ![p] = c]
      BY <2>2 DEF Goto, Become
    <3>3. Tells(p, c)
      BY <2>1, <2>2, <3>1, <3>2 DEF Tells, Moves, Announcing, SlotLabels
    <3> QED BY <3>1, <3>3 DEF Kind
  <2> QED BY <1>7, <2>2 DEF Notify
<1>8. CASE Clear(p) \/ CancelLeave(p)
  <2>1. UNCHANGED notified /\ SameStatus
    BY <1>8, NoWrite DEF Clear, CancelLeave, queues, history
  <2>2. ~Announcing(call[p])
    BY <1>8 DEF Clear, CancelLeave, At, Announcing, SlotLabels
  <2> QED BY <1>1, <1>3, <1>8, <2>1, <2>2, GotoUnseen, SlotUnseen DEF Clear, CancelLeave, Returns
<1>9. CASE CancelCas(p)
  <2>1. UNCHANGED notified
    BY <1>9 DEF CancelCas, history
  <2>2. CASE CasHits(row[t], ACTIVE)
    <3> DEFINE c == IF call[p].quit THEN [call[p] EXCEPT !.pc = "leave"]
                                    ELSE [call[p] EXCEPT !.pc = "slot", !.then = "clear"]
               r == CasTo(row[t], "CANCELED", 0)
    <3>1. /\ c \in Calls /\ c.t = t
          /\ c.pc = "leave" \/ (c.pc = "slot" /\ c.then = "clear")
      BY <1>1 DEF Calls, Labels, FinishLabels, SlotLabels, Returns
    <3>2. call' = [call EXCEPT ![p] = c]
      BY <1>9, <2>2 DEF CancelCas, Goto, ReleaseSlotThen, Become
    <3>3. r \in Rows /\ r.status = "CANCELED"
      BY <1>1, CasStatus, 0 \in Nat, "CANCELED" \in Statuses DEF Statuses, TERMINAL
    <3>4. row[t].status \in ACTIVE /\ NewStatus(t, "CANCELED")
      <4>1. NewStatus(t, r.status)
        BY <1>0, <1>1, <1>9, <2>2, <3>3, WriteStatus DEF CancelCas
      <4> QED BY <2>2, <3>3, <4>1 DEF CasHits
    <3>5. ~Announcing(c) /\ ~Announcing(call[p])
      BY <1>9, <3>1 DEF Announcing, SlotLabels, CancelCas, At
    <3>6. Writes(p, c, t)
      BY <2>1, <3>1, <3>2, <3>4, <3>5 DEF Writes, Moves
    <3> QED BY <1>1, <3>1, <3>6 DEF Kind
  <2>3. CASE ~CasHits(row[t], ACTIVE)
    <3>1. ~Announcing(call[p])
      BY <1>9 DEF CancelCas, At, Announcing, SlotLabels
    <3> QED BY <1>1, <1>3, <1>9, <2>1, <2>3, <3>1, NoWrite, GotoUnseen DEF CancelCas
  <2> QED BY <2>2, <2>3
<1> QED BY <1>4, <1>5, <1>6, <1>7, <1>8, <1>9 DEF FinishStep

-------------------------------------------------------------------------------
(* submit_queue_task and the probes                                        *)

LEMMA UpstreamKind ==
  ASSUME LifeInv, NEW p \in Procs, UpstreamStep(p)
  PROVE  Kind
<1> DEFINE t == call[p].t
           Silent == Labels \ ({"final", "advance", "notify", "failcas"} \cup SlotLabels)
<1>0. RowsOK /\ CallsOK /\ RestOK /\ EndsOK
  BY DEF LifeInv, IndInv, Good
<1>1. call[p].pc # "idle" /\ t \in Tasks /\ row[t] \in Rows /\ call[p] \in Calls
  <2>1. \E label \in UpstreamLabels : At(p, label)
    BY DEF UpstreamStep, PostAccepted, PostRejected, PostAmbiguous, Landed, ProbeTerminal,
           ProbeActive, ProbeNothing, Advance, UpstreamLabels
  <2> QED BY <1>0, <2>1 DEF At, UpstreamLabels, CallsOK, RowsOK, Idle
<1>2. call[p].st \in Statuses /\ call[p].id \in Nat /\ orders[t] + 1 \in Nat
  BY <1>0, <1>1 DEF Calls, RestOK
<1>3. UNCHANGED notified
  BY DEF UpstreamStep, PostAccepted, PostRejected, PostAmbiguous, Landed, ProbeTerminal,
         ProbeActive, ProbeNothing, Advance, queues, history
<1>4. ~Announcing(call[p])
  BY DEF UpstreamStep, PostAccepted, PostRejected, PostAmbiguous, Landed, ProbeTerminal,
         ProbeActive, ProbeNothing, Advance, At, Announcing, SlotLabels
<1>5. "idle" \in Silent
  BY DEF Labels, SlotLabels
<1>6. CASE PostAmbiguous(p) \/ ProbeNothing(p)
  <2>1. UNCHANGED row /\ Goto(p, "idle")
    BY <1>6, RaiseIdles DEF PostAmbiguous, ProbeNothing
  <2> QED BY <1>1, <1>3, <1>4, <1>5, <2>1, NoWrite, GotoUnseen
<1>7. CASE PostAccepted(p) \/ PostRejected(p) \/ ProbeTerminal(p) \/ ProbeActive(p)
  <2>1. UNCHANGED row
    BY <1>7 DEF PostAccepted, PostRejected, ProbeTerminal, ProbeActive
  <2>2. \E c \in Calls :
          /\ Become(p, c) /\ c.pc \in {"landed", "final", "advance"}
          /\ c.then = call[p].then
          /\ c.pc = "final" => c.st \in TERMINAL
          /\ c.pc = "advance" => c.st \in {"QUEUED", "IN_PROGRESS"}
    <3> DEFINE Fits(c) == /\ c \in Calls /\ c.pc \in {"landed", "final", "advance"}
                          /\ c.then = call[p].then
                          /\ c.pc = "final" => c.st \in TERMINAL
                          /\ c.pc = "advance" => c.st \in {"QUEUED", "IN_PROGRESS"}
    <3>1. Fits([call[p] EXCEPT !.pc = "landed", !.id = orders[t] + 1])
      BY <1>1, <1>2 DEF Calls, Labels, UpstreamLabels
    <3>2. \A s \in TERMINAL : Fits([call[p] EXCEPT !.pc = "final", !.id = orders[t] + 1, !.st = s])
      BY <1>1, <1>2 DEF Calls, Labels, FinishLabels, Statuses
    <3>3. \A s \in TERMINAL : Fits([call[p] EXCEPT !.pc = "final", !.st = s])
      BY <1>1 DEF Calls, Labels, FinishLabels, Statuses
    <3>4. \A s \in {"QUEUED", "IN_PROGRESS"} : Fits([call[p] EXCEPT !.pc = "advance", !.st = s])
      BY <1>1 DEF Calls, Labels, UpstreamLabels, Statuses, ACTIVE
    <3>5. "FAILURE" \in TERMINAL
      BY DEF TERMINAL
    <3>6. \E c : Become(p, c) /\ Fits(c)
      <4> HIDE DEF Fits
      <4> QED BY <1>7, <3>1, <3>2, <3>3, <3>4, <3>5
              DEF PostAccepted, PostRejected, ProbeTerminal, ProbeActive
    <3> QED BY <3>6
  <2>3. \A c : c.pc \in {"landed", "final", "advance"} => ~Announcing(c)
    BY DEF Announcing, SlotLabels
  <2> QED BY <1>3, <1>4, <2>1, <2>2, <2>3, NoWrite, BecomeUnseen
<1>8. CASE Landed(p) \/ Advance(p)
  <2> DEFINE s == IF call[p].pc = "landed" THEN "QUEUED" ELSE call[p].st
  <2>1. Goto(p, "idle")
    BY <1>8 DEF Landed, Advance
  <2>2. s \in {"QUEUED", "IN_PROGRESS"}
    BY <1>0, <1>8 DEF Landed, Advance, At, EndsOK
  <2>3. \/ UNCHANGED row
        \/ SetRow(t, row[t]) \/ SetRow(t, MergeUp(row[t], call[p].id))
        \/ /\ row[t].status \in ACTIVE
           /\ SetRow(t, CasTo(row[t], s, call[p].id)) \/ SetRow(t, CasTo(row[t], s, 0))
    BY <1>8 DEF Landed, Advance, At, CasHits
  <2>4. CASE \/ UNCHANGED row
             \/ SetRow(t, row[t]) \/ SetRow(t, MergeUp(row[t], call[p].id))
    <3>1. MergeUp(row[t], call[p].id) \in Rows
          /\ MergeUp(row[t], call[p].id).status = row[t].status
      BY <1>1, <1>2, RowOps, StatusAlone
    <3>2. SameStatus
      BY <1>0, <1>1, <2>4, <3>1, NoWrite, WriteStatus
    <3> QED BY <1>1, <1>3, <1>4, <1>5, <2>1, <3>2, GotoUnseen
  <2>5. CASE row[t].status \in ACTIVE
             /\ \E id \in {0, call[p].id} : SetRow(t, CasTo(row[t], s, id))
    <3>1. PICK id \in {0, call[p].id} : SetRow(t, CasTo(row[t], s, id))
      BY <2>5
    <3>2. CasTo(row[t], s, id) \in Rows /\ CasTo(row[t], s, id).status = s
      <4>1. s \in Statuses /\ id \in Nat
        BY <1>2, <2>2 DEF Statuses, ACTIVE
      <4> QED BY <1>1, <4>1, CasStatus
    <3>3. NewStatus(t, s)
      <4>1. NewStatus(t, CasTo(row[t], s, id).status)
        BY <1>0, <1>1, <3>1, <3>2, WriteStatus
      <4> QED BY <3>2, <4>1
    <3>4. call' = [call EXCEPT ![p] = Idle]
      BY <2>1 DEF Goto, Become
    <3>5. Writes(p, Idle, t)
      BY <1>3, <1>4, <2>2, <2>5, <3>3, <3>4
      DEF Writes, Moves, Announcing, SlotLabels, Idle
    <3> QED BY <1>1, <3>5, IdleCall DEF Kind
  <2> QED BY <2>3, <2>4, <2>5
<1> QED BY <1>6, <1>7, <1>8 DEF UpstreamStep

-------------------------------------------------------------------------------
(* What starts a call, and what happens around the calls                   *)

LEMMA StartUnseen ==
  ASSUME LifeInv, NEW p \in Procs, NEW t \in Tasks, NEW label \in Labels, Start(p, label, t),
         label \notin {"final", "advance", "notify", "failcas"} \cup SlotLabels,
         SameStatus, UNCHANGED notified
  PROVE  Kind
<1> DEFINE c == [Idle EXCEPT !.pc = label, !.t = t]
<1>1. c \in Calls /\ c.pc = label /\ c.then = "idle"
  BY IdleCall DEF Calls, Idle
<1>2. Become(p, c) /\ ~Announcing(call[p])
  BY DEF Start, Announcing, SlotLabels, Idle
<1> QED BY <1>1, <1>2, BecomeUnseen DEF Announcing

LEMMA StartKind ==
  ASSUME LifeInv, NEW p \in Procs, NEW t \in Tasks,
         WorkerStart(p, t) \/ SweepStart(p, t) \/ ClientStart(p, t) \/ ProbeStart(p, t)
  PROVE  Kind
<1>0. RowsOK /\ row[t] \in Rows
  BY DEF LifeInv, IndInv, Good, RowsOK
<1>1. UNCHANGED notified
  BY DEF WorkerStart, SweepStart, ClientStart, ProbeStart, MemberStart, TimerStart,
         SubmitStart, RescueStart, RescueUnclaim, AcceptStart, CancelStart, queues, history
<1>2. SameStatus
  <2>1. UNCHANGED row \/ SetRow(t, Unclaimed(row[t]))
    BY DEF WorkerStart, SweepStart, ClientStart, ProbeStart, MemberStart, TimerStart,
           SubmitStart, RescueStart, RescueUnclaim, AcceptStart, CancelStart
  <2>2. Unclaimed(row[t]) \in Rows /\ Unclaimed(row[t]).status = row[t].status
    BY <1>0, RowOps, StatusAlone, 0 \in Nat, "NONE" \in Statuses DEF Statuses
  <2> QED BY <1>0, <2>1, <2>2, NoWrite, WriteStatus
<1>3. CASE UNCHANGED call
  BY <1>1, <1>2, <1>3 DEF Kind
<1>4. CASE \E label \in {"claim", "meta", "insert", "conc"} : Start(p, label, t)
  BY <1>1, <1>2, <1>4, StartUnseen DEF Labels, AcceptLabels, ReleaseLabels, SlotLabels
<1>5. CASE SubmitStart(p, t) /\ Submittable(t)
  <2> DEFINE c == [Idle EXCEPT !.pc = "post", !.t = t, !.job = TRUE]
  <2>1. c \in Calls /\ c.pc = "post" /\ c.then = "idle"
    BY IdleCall DEF Calls, Idle, Labels, UpstreamLabels
  <2>2. Become(p, c) /\ ~Announcing(call[p])
    BY <1>5 DEF SubmitStart, Announcing, SlotLabels, Idle
  <2> QED BY <1>1, <1>2, <2>1, <2>2, BecomeUnseen DEF Announcing, SlotLabels
<1>6. CASE ProbeStart(p, t)
  <2> DEFINE c == [Idle EXCEPT !.pc = "probe", !.t = t, !.st = row[t].status]
  <2>1. c \in Calls /\ c.pc = "probe" /\ c.then = "idle"
    BY <1>0, IdleCall DEF Calls, Idle, Labels, UpstreamLabels, Rows
  <2>2. Become(p, c) /\ ~Announcing(call[p])
    BY <1>6 DEF ProbeStart, Announcing, SlotLabels, Idle
  <2> QED BY <1>1, <1>2, <2>1, <2>2, BecomeUnseen DEF Announcing, SlotLabels
<1>7. CASE CancelStart(p, t)
  <2> DEFINE c == [Idle EXCEPT !.pc = "cancel", !.t = t,
                               !.quit = row[t].batch \in BATCH_WAITING_STATES]
  <2>1. CallsOK'
    BY <1>7, ProbeAndCancelKeep DEF LifeInv, IndInv, Good
  <2>2. call'[p] = c /\ call' = [call EXCEPT ![p] = c] /\ call[p] = Idle
    BY <1>7 DEF CancelStart, Become, LifeInv, IndInv, Good, CallsOK
  <2>3. c \in Calls /\ c.pc = "cancel" /\ c.then = "idle"
    BY <2>1, <2>2 DEF CallsOK, Idle
  <2>4. Become(p, c) /\ ~Announcing(call[p]) /\ ~Announcing(c)
    BY <2>2, <2>3 DEF Become, Announcing, SlotLabels, Idle
  <2> QED BY <1>1, <1>2, <2>3, <2>4, BecomeUnseen
<1> QED BY <1>3, <1>4, <1>5, <1>6, <1>7
        DEF WorkerStart, SweepStart, ClientStart, MemberStart, TimerStart, SubmitStart,
            ReadMeta, RescueStart, RescueUnclaim, AcceptStart

LEMMA NextKind == ASSUME LifeInv, [Next]_vars PROVE Kind
<1>1. CASE UNCHANGED vars
  BY <1>1, StandStillUnseen DEF vars, history
<1>2. CASE \E p \in Procs : Step(p)
  BY <1>2, AcceptKind, ReleaseKind, FinishKind, UpstreamKind DEF Step
<1>3. CASE \E p \in Procs : Crash(p)
  <2>1. PICK p \in Procs : Crash(p)
    BY <1>3
  <2>2. call[p].pc # "idle"
    BY <2>1 DEF Crash, LifeInv, IndInv, Good, CallsOK
  <2>3. Dropped(p)
    BY <2>1 DEF Crash, Dropped
  <2> QED BY <2>1, <2>2, <2>3, NoWrite, GotoUnseen DEF Crash, Labels, SlotLabels
<1>4. CASE \E p \in Procs : Escape(p)
  <2>1. PICK p \in Procs : Escape(p)
    BY <1>4
  <2>2. call[p].pc \in Uncaught \cap Failing /\ Goto(p, "idle")
    BY <2>1, RaiseIdles DEF Escape, Fails
  <2>3. UNCHANGED <<row, notified>>
    BY <2>1 DEF Escape
  <2>4. Announcing(call[p]) => Dropped(p)
    BY <2>2 DEF Announcing, Dropped, Uncaught, SlotLabels
  <2>5. call[p].pc # "idle"
    BY <2>2 DEF Uncaught
  <2> QED BY <2>2, <2>3, <2>4, <2>5, NoWrite, GotoUnseen DEF Labels, SlotLabels
<1>6. CASE \E p \in Procs, t \in Tasks :
             WorkerStart(p, t) \/ SweepStart(p, t) \/ ClientStart(p, t) \/ ProbeStart(p, t)
  BY <1>6, StartKind
<1>5. CASE \/ \E k \in Triggers : FireTrigger(k)
           \/ \E t \in Tasks : OpsRequeue(t) \/ OpsReplay(t) \/ CrashBatch(t)
  <2>1. UNCHANGED <<row, call, notified>>
    BY <1>5 DEF FireTrigger, OpsRequeue, OpsReplay, CrashBatch, history
  <2> QED BY <2>1, StandStillUnseen
<1> QED BY <1>1, <1>2, <1>3, <1>4, <1>5, <1>6 DEF Next

-------------------------------------------------------------------------------
(* The invariant, and the steps of TaskLifecycle                           *)

\* Whoever begins to announce a task won a CAS from an active status, so
\* nobody else announces it; and the task has ended.
LEMMA KindKeeps ==
  ASSUME LifeInv, CallsOK', Kept, Kind
  PROVE  EndsOK' /\ AnnounceOK'
<1>0. CallsOK /\ EndsOK /\ AnnounceOK
  BY DEF LifeInv, IndInv, Good
<1>1. CASE UNCHANGED <<call, notified>> /\ SameStatus
  <2>1. EndsOK'
    BY <1>0, <1>1 DEF EndsOK
  <2>2. AnnounceOK'
    <3> SUFFICES ASSUME NEW p \in Procs, Announcing(call[p])
                 PROVE  /\ row'[call[p].t].status \in TERMINAL
                        /\ \A q \in Procs : Announcing(call[q]) /\ call[q].t = call[p].t => q = p
      BY <1>1 DEF AnnounceOK
    <3>1. call[p].t \in Tasks
      BY <1>0 DEF CallsOK, Announcing, SlotLabels, Idle
    <3> QED BY <1>0, <1>1, <3>1 DEF AnnounceOK, SameStatus
  <2> QED BY <2>1, <2>2
<1>2. ASSUME NEW p \in Procs, NEW c \in Calls,
             Unseen(p, c) \/ Ends(p, c) \/ Tells(p, c) \/ \E t \in Tasks : Writes(p, c, t)
      PROVE  EndsOK' /\ AnnounceOK'
  <2>1. Moves(p, c)
    BY <1>2 DEF Unseen, Ends, Tells, Writes
  <2>2. call'[p] = c /\ \A q \in Procs \ {p} : call'[q] = call[q]
    BY <1>0, <2>1 DEF Moves, CallsOK
  <2>3. EndsOK'
    BY <1>0, <2>1, <2>2 DEF EndsOK, Moves
  <2>4. \A q \in Procs \ {p} : Announcing(call[q]) => row'[call[q].t].status \in TERMINAL
    <3> TAKE q \in Procs \ {p}
    <3>1. Announcing(call[q]) => call[q].t \in Tasks
      BY <1>0 DEF CallsOK, Announcing, SlotLabels, Idle
    <3> QED BY <1>0, <3>1 DEF AnnounceOK, Kept
  <2>5. CASE ~Announcing(c)
    BY <1>0, <2>2, <2>4, <2>5, <2>3 DEF AnnounceOK
  <2>6. CASE Announcing(c) /\ Announcing(call[p]) /\ c.t = call[p].t
    <3>1. call[p].t \in Tasks
      BY <1>0, <2>6 DEF CallsOK, Announcing, SlotLabels, Idle
    <3>2. row'[c.t].status \in TERMINAL
      BY <1>0, <2>6, <3>1 DEF AnnounceOK, Kept
    <3> QED BY <1>0, <2>2, <2>3, <2>4, <2>6, <3>2 DEF AnnounceOK
  <2>7. CASE Ends(p, c)
    <3>1. row[c.t].status \in ACTIVE /\ row'[c.t].status \in TERMINAL
      BY <2>7 DEF Ends, NewStatus
    <3>2. \A q \in Procs : Announcing(call[q]) => call[q].t # c.t
      BY <1>0, <3>1, Disjoint DEF AnnounceOK
    <3> QED BY <2>2, <2>3, <2>4, <3>1, <3>2, <1>0 DEF AnnounceOK
  <2> QED BY <1>2, <2>5, <2>6, <2>7 DEF Unseen, Tells, Writes
<1> QED BY <1>1, <1>2 DEF Kind

LEMMA LifeInit == Init => LifeInv
<1>1. Init => IndInv
  BY InitGood
<1>2. Init => EndsOK /\ AnnounceOK
  BY DEF Init, EndsOK, AnnounceOK, Announcing, SlotLabels, Idle
<1> QED BY <1>1, <1>2 DEF LifeInv

LEMMA LifeNext == LifeInv /\ [Next]_vars => LifeInv'
<1> SUFFICES ASSUME LifeInv, [Next]_vars PROVE LifeInv'
  OBVIOUS
<1>1. IndInv' /\ Kept
  <2>1. IndInv' /\ (Kept \/ UNCHANGED vars)
    BY NextKeeps DEF LifeInv
  <2>2. UNCHANGED vars => Kept
    BY StandStill DEF vars, LifeInv, IndInv
  <2> QED BY <2>1, <2>2
<1>2. Kind
  BY NextKind
<1> QED BY <1>1, <1>2, KindKeeps DEF LifeInv, IndInv, Good

\* The state functions the refinement substitutes.
StatusMap == [t \in Tasks |-> row[t].status]
OwedSet == {t \in Tasks : \E p \in Procs : Announces(p, t)}

\* A changed status column is one move of TaskLifecycle.
LEMMA MapMoves ==
  ASSUME NEW t \in Tasks, NEW s, NewStatus(t, s)
  PROVE  StatusMap' = [StatusMap EXCEPT ![t] = s]
  BY DEF StatusMap, NewStatus

LEMMA MapStays == SameStatus => UNCHANGED StatusMap
  BY DEF StatusMap, SameStatus

LEMMA MapStutters ==
  ASSUME UNCHANGED StatusMap, UNCHANGED OwedSet, UNCHANGED notified
  PROVE  UNCHANGED Lifecycle!vars
  BY DEF StatusMap, OwedSet, Lifecycle!vars

\* What a move of one call does to the set of owed callbacks.
LEMMA OwedMoves ==
  ASSUME LifeInv, NEW p \in Procs, NEW c \in Calls, Moves(p, c)
  PROVE  /\ ~Announcing(c) /\ ~Announcing(call[p]) => UNCHANGED OwedSet
         /\ Announcing(c) /\ Announcing(call[p]) /\ c.t = call[p].t => UNCHANGED OwedSet
         /\ ~Announcing(c) /\ Announcing(call[p]) => OwedSet' = OwedSet \ {call[p].t}
         /\ Announcing(c) /\ ~Announcing(call[p]) => OwedSet' = OwedSet \cup ({c.t} \cap Tasks)
<1>0. CallsOK /\ AnnounceOK
  BY DEF LifeInv, IndInv, Good
<1>1. call'[p] = c /\ \A q \in Procs \ {p} : call'[q] = call[q]
  BY <1>0 DEF Moves, CallsOK
<1>2. OwedSet = {t \in Tasks : \E q \in Procs : call[q].t = t /\ Announcing(call[q])}
  BY DEF OwedSet, Announces, Announcing
<1>3. OwedSet' = {t \in Tasks : \E q \in Procs : call'[q].t = t /\ Announcing(call'[q])}
  BY DEF OwedSet, Announces, Announcing
<1>4. Announcing(call[p]) => \A q \in Procs : Announcing(call[q]) /\ call[q].t = call[p].t => q = p
  BY <1>0 DEF AnnounceOK
<1> HIDE DEF OwedSet
<1>5. CASE ~Announcing(c) /\ ~Announcing(call[p])
  BY <1>1, <1>2, <1>3, <1>5
<1>6. CASE Announcing(c) /\ Announcing(call[p])
  BY <1>1, <1>2, <1>3, <1>6
<1>7. CASE ~Announcing(c) /\ Announcing(call[p])
  BY <1>1, <1>2, <1>3, <1>4, <1>7
<1>8. CASE Announcing(c) /\ ~Announcing(call[p])
  BY <1>1, <1>2, <1>3, <1>8
<1> QED BY <1>5, <1>6, <1>7, <1>8

\* Every kind of step is a step of TaskLifecycle or leaves it alone.
LEMMA KindIsStep ==
  ASSUME LifeInv, Kind
  PROVE  [Lifecycle!Next]_(Lifecycle!vars)
<1>0. CallsOK /\ RestOK /\ RowsOK
  BY DEF LifeInv, IndInv, Good
<1>1. /\ ACTIVE = Lifecycle!Active /\ TERMINAL = Lifecycle!Ended
      /\ Lifecycle!vars = <<StatusMap, OwedSet, notified>>
      /\ \A t \in Tasks : StatusMap[t] = row[t].status
  BY DEF ACTIVE, TERMINAL, Lifecycle!Active, Lifecycle!Ended, Lifecycle!vars,
         StatusMap, OwedSet
<1>2. CASE UNCHANGED <<call, notified>> /\ SameStatus
  <2>1. UNCHANGED OwedSet
    BY <1>2 DEF OwedSet, Announces
  <2>2. UNCHANGED Lifecycle!vars
    BY <1>2, <2>1, MapStays, MapStutters
  <2> QED BY <2>2
<1>3. ASSUME NEW p \in Procs, NEW c \in Calls, Unseen(p, c)
      PROVE  [Lifecycle!Next]_(Lifecycle!vars)
  <2>1. UNCHANGED StatusMap /\ UNCHANGED notified /\ Moves(p, c)
    BY <1>3, MapStays DEF Unseen
  <2>2. CASE UNCHANGED OwedSet
    <3>1. UNCHANGED Lifecycle!vars
      BY <2>1, <2>2, MapStutters
    <3> QED BY <3>1
  <2>3. CASE ~Announcing(c) /\ Announcing(call[p])
    <3>1. call[p].t \in Tasks /\ call[p].t \in OwedSet
      BY <1>0, <2>3 DEF CallsOK, Announcing, SlotLabels, Idle, OwedSet, Announces
    <3>2. Lifecycle!Forget(call[p].t)
      BY <2>1, <2>3, <3>1, OwedMoves DEF Lifecycle!Forget, StatusMap, OwedSet
    <3> QED BY <3>1, <3>2 DEF Lifecycle!Next
  <2> QED BY <1>3, <2>1, <2>2, <2>3, OwedMoves DEF Unseen
<1>4. ASSUME NEW p \in Procs, NEW c \in Calls, NEW t \in Tasks, Writes(p, c, t)
      PROVE  [Lifecycle!Next]_(Lifecycle!vars)
  <2>1. UNCHANGED OwedSet /\ UNCHANGED notified
    BY <1>4, OwedMoves DEF Writes
  <2>2. CASE row[t].status = "NONE" /\ NewStatus(t, "SUBMITTED")
    <3>1. Lifecycle!Create(t)
      BY <1>1, <2>1, <2>2, MapMoves DEF Lifecycle!Create, Lifecycle!Move, StatusMap, OwedSet
    <3> QED BY <3>1 DEF Lifecycle!Next
  <2>3. CASE row[t].status \in ACTIVE
             /\ \E s \in {"QUEUED", "IN_PROGRESS"} : NewStatus(t, s)
    <3>1. PICK s \in {"QUEUED", "IN_PROGRESS"} : NewStatus(t, s)
      BY <2>3
    <3>2. s \in Lifecycle!Active \ {"SUBMITTED"} /\ Lifecycle!Move(t, s)
      BY <3>1, MapMoves DEF Lifecycle!Active, Lifecycle!Move, StatusMap
    <3>3. Lifecycle!Advance(t)
      BY <1>1, <2>1, <2>3, <3>2 DEF Lifecycle!Advance, StatusMap, OwedSet
    <3> QED BY <3>3 DEF Lifecycle!Next
  <2>4. CASE row[t].status \in ACTIVE /\ NewStatus(t, "CANCELED")
    <3>1. Lifecycle!Abort(t)
      BY <1>1, <2>1, <2>4, MapMoves DEF Lifecycle!Abort, Lifecycle!Move, StatusMap, OwedSet
    <3> QED BY <3>1 DEF Lifecycle!Next
  <2>5. CASE row[t].status = "SUBMITTED" /\ NewStatus(t, "FAILURE")
    <3>1. Lifecycle!Abort(t)
      BY <1>1, <2>1, <2>5, MapMoves DEF Lifecycle!Abort, Lifecycle!Move, StatusMap, OwedSet
    <3> QED BY <3>1 DEF Lifecycle!Next
  <2> QED BY <1>4, <2>2, <2>3, <2>4, <2>5 DEF Writes
<1>5. ASSUME NEW p \in Procs, NEW c \in Calls, Ends(p, c)
      PROVE  [Lifecycle!Next]_(Lifecycle!vars)
  <2>1. c.t \in Tasks
    BY <1>5 DEF Ends
  <2>2. OwedSet' = OwedSet \cup {c.t} /\ UNCHANGED notified
    BY <1>5, <2>1, OwedMoves DEF Ends
  <2>3. PICK s \in TERMINAL : NewStatus(c.t, s)
    BY <1>5 DEF Ends
  <2>4. row[c.t].status \in ACTIVE /\ StatusMap' = [StatusMap EXCEPT ![c.t] = s]
    BY <1>5, <2>1, <2>3, MapMoves DEF Ends
  <2>5. Lifecycle!Finish(c.t)
    BY <1>1, <2>1, <2>2, <2>3, <2>4 DEF Lifecycle!Finish, Lifecycle!Move, StatusMap, OwedSet
  <2> QED BY <2>1, <2>5 DEF Lifecycle!Next
<1>6. ASSUME NEW p \in Procs, NEW c \in Calls, Tells(p, c)
      PROVE  [Lifecycle!Next]_(Lifecycle!vars)
  <2> DEFINE t == call[p].t
  <2>1. t \in Tasks /\ t \in OwedSet
    BY <1>0, <1>6 DEF Tells, CallsOK, Announcing, SlotLabels, Idle, OwedSet, Announces
  <2>2. OwedSet' = OwedSet \ {t} /\ UNCHANGED StatusMap
    BY <1>6, OwedMoves, MapStays DEF Tells
  <2>3. Lifecycle!Tell(t)
    BY <1>6, <2>1, <2>2 DEF Lifecycle!Tell, Tells, StatusMap, OwedSet
  <2>4. \E o \in Tasks : Lifecycle!Tell(o)
    BY <2>1, <2>3
  <2> QED BY <2>4 DEF Lifecycle!Next
<1> QED BY <1>2, <1>3, <1>4, <1>5, <1>6 DEF Kind

-------------------------------------------------------------------------------
(* The theorem                                                             *)

\* The relay flow keeps the promise of TaskLifecycle to the client whatever
\* fails, crashes, races or is replayed: a task is created once, ends once,
\* and its callback is published at most once, after an end that
\* _finalize_queue wrote.
THEOREM LifecycleImplemented == Spec => ImplementsLifecycle
<1>1. Init => Lifecycle!Init
  <2>1. Init => notified = [t \in Tasks |-> 0]
    BY DEF Init
  <2>2. Init => StatusMap = [t \in Tasks |-> "NONE"]
    BY DEF Init, StatusMap, NoRow
  <2>3. Init => OwedSet = {}
    BY DEF Init, OwedSet, Announces, SlotLabels, Idle
  <2> QED BY <2>1, <2>2, <2>3 DEF Lifecycle!Init, StatusMap, OwedSet
<1>2. LifeInv /\ [Next]_vars => [Lifecycle!Next]_(Lifecycle!vars)
  BY NextKind, KindIsStep
<1>3. Spec => []LifeInv
  BY LifeInit, LifeNext, PTL DEF Spec
<1> QED BY <1>1, <1>2, <1>3, PTL DEF Spec, ImplementsLifecycle, Lifecycle!Spec

-------------------------------------------------------------------------------
(* The callback                                                            *)

\* No release is about to declare its task dead.
NoFailCas == \A p \in Procs : call[p].pc # "failcas" /\ call[p].then # "failcas"

CallbackInv == LifeInv /\ NoFailCas /\ CallbackOwed

\* Crashes are not forgotten.
LEMMA LostGrows == ASSUME [Next]_vars PROVE lost \subseteq lost'
<1>1. CASE UNCHANGED vars
  BY <1>1 DEF vars, history
<1>2. ASSUME NEW p \in Procs, Step(p) \/ Escape(p) \/ Crash(p) PROVE lost \subseteq lost'
  <2>1. CASE AcceptStep(p)
    BY <2>1 DEF AcceptStep, AcceptConc, AcceptInsert, AcceptJoin, AcceptDue, AcceptTrigger,
                AcceptSubmit, AcceptUndo, history
  <2>2. CASE ReleaseStep(p)
    BY <2>2 DEF ReleaseStep, RescueMeta, Claim, Acquire, Unclaim, Requeue, Schedule, Mask,
                Backout, Recheck, Send, FailCas, history
  <2>3. CASE FinishStep(p)
    BY <2>3 DEF FinishStep, Final, ClaimSlot, GiveSlot, Notify, Clear, CancelCas,
                CancelLeave, history
  <2>4. CASE UpstreamStep(p)
    BY <2>4 DEF UpstreamStep, PostAccepted, PostRejected, PostAmbiguous, Landed,
                ProbeTerminal, ProbeActive, ProbeNothing, Advance, history
  <2> QED BY <1>2, <2>1, <2>2, <2>3, <2>4 DEF Step, Escape, Crash
<1>3. CASE \E p \in Procs, t \in Tasks :
             WorkerStart(p, t) \/ SweepStart(p, t) \/ ClientStart(p, t) \/ ProbeStart(p, t)
  BY <1>3 DEF WorkerStart, SweepStart, ClientStart, ProbeStart, MemberStart, TimerStart,
              SubmitStart, RescueStart, RescueUnclaim, AcceptStart, CancelStart, history
<1>4. CASE \/ \E k \in Triggers : FireTrigger(k)
           \/ \E t \in Tasks : OpsRequeue(t) \/ OpsReplay(t) \/ CrashBatch(t)
  BY <1>4 DEF FireTrigger, OpsRequeue, OpsReplay, CrashBatch, history
<1> QED BY <1>1, <1>2, <1>3, <1>4 DEF Next

\* Each kind of step hands the duty to publish on, fulfils it or loses it to a
\* crash; only _finalize_queue writes SUCCESS or FAILURE.
LEMMA KindOwes ==
  ASSUME CallbackInv, {"notify", "slot", "send"} \cap Failing = {}, Kind, lost \subseteq lost'
  PROVE  NoFailCas' /\ CallbackOwed'
<1>0. CallsOK /\ RestOK /\ NoFailCas /\ CallbackOwed
  BY DEF CallbackInv, LifeInv, IndInv, Good
<1>1. CASE UNCHANGED <<call, notified>> /\ SameStatus
  BY <1>0, <1>1 DEF NoFailCas, CallbackOwed, Announces, SameStatus
<1>2. ASSUME NEW p \in Procs, NEW c \in Calls,
             Unseen(p, c) \/ Ends(p, c) \/ Tells(p, c) \/ \E t \in Tasks : Writes(p, c, t)
      PROVE  NoFailCas' /\ CallbackOwed'
  <2>1. Moves(p, c)
    BY <1>2 DEF Unseen, Ends, Tells, Writes
  <2>2. call'[p] = c /\ \A q \in Procs \ {p} : call'[q] = call[q]
    BY <1>0, <2>1 DEF Moves, CallsOK
  <2>3. NoFailCas'
    BY <1>0, <2>1, <2>2 DEF NoFailCas, Moves
  <2>4. CallbackOwed'
    <3> SUFFICES ASSUME NEW t \in Tasks, row'[t].status \in {"SUCCESS", "FAILURE"},
                        notified'[t] = 0, t \notin lost'
                 PROVE  \E q \in Procs : call'[q].t = t /\ Announcing(call'[q])
      BY DEF CallbackOwed, Announces, Announcing
    <3>1. row[t].status \in {"SUCCESS", "FAILURE"} /\ notified[t] = 0 =>
            \E q \in Procs : call[q].t = t /\ Announcing(call[q])
      BY <1>0 DEF CallbackOwed, Announces, Announcing
    <3>2. CASE Unseen(p, c)
      <4>1. PICK q \in Procs : call[q].t = t /\ Announcing(call[q])
        BY <3>1, <3>2 DEF Unseen, SameStatus
      <4>2. CASE q = p
        BY <2>2, <3>2, <4>1, <4>2 DEF Unseen, Dropped
      <4> QED BY <2>2, <4>1, <4>2
    <3>3. CASE Ends(p, c)
      <4>1. CASE c.t = t
        BY <2>2, <3>3, <4>1 DEF Ends
      <4>2. CASE c.t # t
        <5>1. row'[t].status = row[t].status /\ notified'[t] = notified[t]
          BY <3>3, <4>2 DEF Ends, NewStatus
        <5>2. ~Announcing(call[p])
          BY <3>3 DEF Ends
        <5> QED BY <2>2, <3>1, <5>1, <5>2
      <4> QED BY <4>1, <4>2
    <3>4. CASE Tells(p, c)
      <4>1. row'[t].status = row[t].status
        BY <3>4 DEF Tells, SameStatus
      <4>2. call[p].t # t /\ notified'[t] = notified[t]
        BY <1>0, <3>4 DEF Tells, RestOK
      <4> QED BY <2>2, <3>1, <4>1, <4>2
    <3>5. ASSUME NEW o \in Tasks, Writes(p, c, o)
          PROVE  \E q \in Procs : call'[q].t = t /\ Announcing(call'[q])
      <4>1. t # o
        BY <1>0, <3>5 DEF Writes, NewStatus, NoFailCas
      <4>2. row'[t].status = row[t].status /\ notified'[t] = notified[t]
        BY <3>5, <4>1 DEF Writes, NewStatus
      <4>3. ~Announcing(call[p])
        BY <3>5 DEF Writes
      <4> QED BY <2>2, <3>1, <4>2, <4>3
    <3> QED BY <1>2, <3>2, <3>3, <3>4, <3>5
  <2> QED BY <2>3, <2>4
<1> QED BY <1>1, <1>2 DEF Kind

\* If the release of the slot, the publication and the message that starts a
\* submission do not fail, a task that succeeded or failed has had its callback
\* or a running call is about to publish it, whatever else fails and however
\* often a finisher, a cancellation and a late answer race; only a crash between
\* the end and the callback loses it.
THEOREM CallbackKept ==
  ASSUME {"notify", "slot", "send"} \cap Failing = {}
  PROVE  Spec => []CallbackOwed
<1>1. Init => CallbackInv
  <2>1. Init => NoFailCas
    BY DEF Init, NoFailCas, Idle
  <2>2. Init => CallbackOwed
    BY DEF Init, CallbackOwed, NoRow
  <2> QED BY <2>1, <2>2, LifeInit DEF CallbackInv
<1>2. CallbackInv /\ [Next]_vars => CallbackInv'
  BY LifeNext, NextKind, LostGrows, KindOwes DEF CallbackInv
<1>3. CallbackInv => CallbackOwed
  BY DEF CallbackInv
<1> QED BY <1>1, <1>2, <1>3, PTL DEF Spec
===============================================================================
