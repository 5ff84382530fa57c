------------------------------ MODULE SlotProofs ------------------------------
(***************************************************************************)
(* Slots of the token: none is stolen, the limit holds for the tasks, a    *)
(* finished task gives its slot back, and what the upstream works on is    *)
(* counted.                                                                *)
(*                                                                         *)
(* The first half is a table. Every action is unfolded once, into what it  *)
(* does to its call and to the row of its task (InsertDoes, MaskDoes,      *)
(* ...), and NextEffect says that the table covers every step. The         *)
(* invariants of this module and of ReleaseProofs are then followed        *)
(* through the table.                                                      *)
(*                                                                         *)
(* Knows is what a call may rely on at each label: a call that gives a     *)
(* slot back has a finished task, one that probes has an upstream id. The  *)
(* counter is followed by Accounted: whoever adds a mask or a call that    *)
(* carries a slot has taken one, whoever takes one back has had one.       *)
(***************************************************************************)
EXTENDS RelayFlowProofs, FiniteSetTheorems

-------------------------------------------------------------------------------
(* The effect of a step, field by field                                    *)

\* A call moves, and with it at most the row of its task.
Local(p, t) ==
  /\ \A q \in Procs \ {p} : call'[q] = call[q]
  /\ \A o \in Tasks \ {t} : row'[o] = row[o]

Keeps(t) == row'[t] = row[t]

RowIs(t, status, batch, slot, up, due) ==
  /\ row'[t].status = status /\ row'[t].batch = batch /\ row'[t].slot = slot
  /\ row'[t].up = up /\ row'[t].due = due

\* What a call carries along.
Luggage(p) ==
  /\ call'[p].t = call[p].t /\ call'[p].st = call[p].st /\ call'[p].id = call[p].id
  /\ call'[p].job = call[p].job

Goes(p, label) == call'[p].pc = label /\ Luggage(p) /\ call'[p].then = call[p].then

ToSlot(p, label) == call'[p].pc = "slot" /\ Luggage(p) /\ call'[p].then = label

Dies(p) == call'[p] = Idle

Sent(t) ==
  /\ submits'[t] > 0 /\ submits'[t] \in {submits[t], submits[t] + 1}
  /\ \A o \in Tasks \ {t} : submits'[o] = submits[o]

\* The exception leaves the call, and its message is retried or kept.
Drops(p) ==
  /\ Dies(p)
  /\ \/ call[p].job /\ Sent(call[p].t) /\ UNCHANGED dlq
     \/ call[p].job /\ dlq' = dlq \cup {call[p].t} /\ UNCHANGED submits
     \/ ~call[p].job /\ UNCHANGED <<submits, dlq>>

\* One more task is created upstream, or goes astray.
OrdersMore(t) ==
  orders'[t] = orders[t] + 1 /\ \A o \in Tasks \ {t} : orders'[o] = orders[o]

StraysMore(t) ==
  strays'[t] = strays[t] + 1 /\ \A o \in Tasks \ {t} : strays'[o] = strays[o]

LEMMA GotoFields ==
  ASSUME CallsOK, NEW p \in Procs, call[p].pc # "idle", NEW label, Goto(p, label)
  PROVE  /\ \A q \in Procs \ {p} : call'[q] = call[q]
         /\ label = "idle" => Dies(p)
         /\ label # "idle" => Goes(p, label)
  BY DEF CallsOK, Goto, Become, Dies, Goes, Luggage, Calls

LEMMA SlotFields ==
  ASSUME CallsOK, NEW p \in Procs, call[p].pc # "idle", NEW label, ReleaseSlotThen(p, label)
  PROVE  /\ \A q \in Procs \ {p} : call'[q] = call[q]
         /\ ToSlot(p, label)
  BY DEF CallsOK, ReleaseSlotThen, Become, ToSlot, Luggage, Calls

LEMMA RowFields ==
  ASSUME RowsOK, NEW t \in Tasks, NEW r, SetRow(t, r)
  PROVE  row'[t] = r /\ \A o \in Tasks \ {t} : row'[o] = row[o]
  BY DEF RowsOK, SetRow

LEMMA PublishFields ==
  ASSUME RestOK, NEW t \in Tasks, Publish(t)
  PROVE  Sent(t)
<1>1. submits[t] \in Nat /\ submits \in [Tasks -> Nat]
  BY DEF RestOK
<1> QED BY <1>1, BoundsAssumption DEF Publish, Sent

LEMMA RaiseFields ==
  ASSUME CallsOK, RestOK, NEW p \in Procs, call[p].pc # "idle", call[p].t \in Tasks, Raise(p)
  PROVE  Drops(p) /\ \A q \in Procs \ {p} : call'[q] = call[q]
<1>1. Dies(p) /\ \A q \in Procs \ {p} : call'[q] = call[q]
  BY GotoFields DEF Raise
<1>2. CASE call[p].job
  BY <1>1, <1>2, PublishFields DEF Raise, Drops, Retry
<1>3. CASE ~call[p].job
  BY <1>1, <1>3 DEF Raise, Drops
<1> QED BY <1>2, <1>3

\* The operations of TaskStore, on the row of a task.
LEMMA RowEffects ==
  ASSUME RowsOK, NEW t \in Tasks
  PROVE  LET r == row[t] IN
         /\ SetRow(t, Claimed(r)) => RowIs(t, r.status, "releasing", r.slot, r.up, r.due)
         /\ SetRow(t, Unclaimed(r)) =>
              \/ Keeps(t)
              \/ /\ r.status = "SUBMITTED" /\ r.batch = "releasing"
                 /\ RowIs(t, r.status, "waiting", r.slot, r.up, r.due)
         /\ SetRow(t, Requeued(r)) => RowIs(t, r.status, "requeued", r.slot, r.up, TRUE)
         /\ SetRow(t, Released(r)) => RowIs(t, r.status, "released", 1, r.up, r.due)
         /\ SetRow(t, SlotCleared(r)) => RowIs(t, r.status, r.batch, 0, r.up, r.due)
         /\ SetRow(t, [r EXCEPT !.due = TRUE]) => RowIs(t, r.status, r.batch, r.slot, r.up, TRUE)
         /\ SetRow(t, r) => Keeps(t)
<1> DEFINE r == row[t]
<1>0. r \in Rows /\ row \in [Tasks -> Rows]
  BY DEF RowsOK
<1>1. SetRow(t, Claimed(r)) => RowIs(t, r.status, "releasing", r.slot, r.up, r.due)
  BY <1>0 DEF SetRow, Claimed, RowIs, Rows
<1>2. SetRow(t, Unclaimed(r)) =>
        \/ Keeps(t)
        \/ /\ r.status = "SUBMITTED" /\ r.batch = "releasing"
           /\ RowIs(t, r.status, "waiting", r.slot, r.up, r.due)
  BY <1>0 DEF SetRow, Unclaimed, RowIs, Rows, Keeps
<1>3. SetRow(t, Requeued(r)) => RowIs(t, r.status, "requeued", r.slot, r.up, TRUE)
  BY <1>0 DEF SetRow, Requeued, RowIs, Rows
<1>4. SetRow(t, Released(r)) => RowIs(t, r.status, "released", 1, r.up, r.due)
  BY <1>0 DEF SetRow, Released, RowIs, Rows
<1>5. SetRow(t, SlotCleared(r)) => RowIs(t, r.status, r.batch, 0, r.up, r.due)
  BY <1>0 DEF SetRow, SlotCleared, RowIs, Rows
<1>6. SetRow(t, [r EXCEPT !.due = TRUE]) => RowIs(t, r.status, r.batch, r.slot, r.up, TRUE)
  BY <1>0 DEF SetRow, RowIs, Rows
<1>7. SetRow(t, r) => Keeps(t)
  BY <1>0 DEF SetRow, Keeps
<1> QED BY <1>1, <1>2, <1>3, <1>4, <1>5, <1>6, <1>7

\* A transition, and the record of an upstream id.
LEMMA CasEffects ==
  ASSUME RowsOK, NEW t \in Tasks, NEW s \in Statuses, NEW id \in Nat
  PROVE  LET r == row[t]
             up == IF id = 0 THEN r.up ELSE id IN
         /\ SetRow(t, CasTo(r, s, id)) => RowIs(t, s, r.batch, r.slot, up, r.due)
         /\ SetRow(t, MergeUp(r, id)) => RowIs(t, r.status, r.batch, r.slot, up, r.due)
         /\ SetRow(t, [CasTo(r, s, id) EXCEPT !.slot = 0, !.batch = "released"]) =>
              RowIs(t, s, "released", 0, up, r.due)
<1> DEFINE r == row[t]
           up == IF id = 0 THEN r.up ELSE id
<1>0. r \in Rows /\ row \in [Tasks -> Rows]
  BY DEF RowsOK
<1>1. SetRow(t, CasTo(r, s, id)) => RowIs(t, s, r.batch, r.slot, up, r.due)
  BY <1>0 DEF SetRow, CasTo, MergeUp, RowIs, Rows
<1>2. SetRow(t, MergeUp(r, id)) => RowIs(t, r.status, r.batch, r.slot, up, r.due)
  BY <1>0 DEF SetRow, MergeUp, RowIs, Rows
<1>3. SetRow(t, [CasTo(r, s, id) EXCEPT !.slot = 0, !.batch = "released"]) =>
        RowIs(t, s, "released", 0, up, r.due)
  BY <1>0 DEF SetRow, CasTo, MergeUp, RowIs, Rows
<1> QED BY <1>1, <1>2, <1>3

-------------------------------------------------------------------------------
(* The effects of release_batched_task                                     *)

MetaDoes(p) ==
  At(p, "meta") /\ (Goes(p, "claim") \/ Dies(p)) /\ Keeps(call[p].t) /\ UNCHANGED <<conc, submits>>

ClaimDoes(p) ==
  LET t == call[p].t  r == row[t] IN
  /\ At(p, "claim") /\ UNCHANGED <<conc, submits>>
  /\ \/ CanClaim(r) /\ Goes(p, "acquire") /\ RowIs(t, r.status, "releasing", r.slot, r.up, r.due)
     \/ ~CanClaim(r) /\ Dies(p) /\ Keeps(t)

AcquireDoes(p) ==
  /\ At(p, "acquire") /\ Keeps(call[p].t) /\ UNCHANGED submits
  /\ \/ conc < Limit /\ conc' = conc + 1 /\ Goes(p, "mask")
     \/ ~(conc < Limit) /\ UNCHANGED conc /\ Goes(p, "unclaim")

UnclaimDoes(p) ==
  LET t == call[p].t  r == row[t] IN
  /\ At(p, "unclaim") /\ Goes(p, "requeue") /\ UNCHANGED <<conc, submits>>
  /\ \/ Keeps(t)
     \/ /\ r.status = "SUBMITTED" /\ r.batch = "releasing"
        /\ RowIs(t, r.status, "waiting", r.slot, r.up, r.due)

RequeueDoes(p) ==
  LET t == call[p].t  r == row[t] IN
  /\ At(p, "requeue") /\ UNCHANGED <<conc, submits>>
  /\ Goes(p, "schedule") /\ RowIs(t, r.status, "requeued", r.slot, r.up, TRUE)

ScheduleDoes(p) ==
  At(p, "schedule") /\ Dies(p) /\ Keeps(call[p].t) /\ UNCHANGED <<conc, submits>>

MaskDoes(p) ==
  LET t == call[p].t  r == row[t] IN
  /\ At(p, "mask") /\ UNCHANGED <<conc, submits>>
  /\ \/ Goes(p, "recheck") /\ RowIs(t, r.status, "released", 1, r.up, r.due)
     \/ "mask" \in Failing /\ Goes(p, "backout") /\ Keeps(t)

BackoutDoes(p) ==
  /\ At(p, "backout") /\ Goes(p, "unclaim") /\ Keeps(call[p].t) /\ UNCHANGED submits
  /\ conc' = Decr(conc) \/ ("decr" \in Failing /\ UNCHANGED conc)

RecheckDoes(p) ==
  LET t == call[p].t IN
  /\ At(p, "recheck") /\ Keeps(t) /\ UNCHANGED <<conc, submits>>
  /\ \/ row[t].status \in ACTIVE /\ Goes(p, "send")
     \/ row[t].status \notin ACTIVE /\ ToSlot(p, "idle")

SendDoes(p) ==
  LET t == call[p].t IN
  /\ At(p, "send") /\ Keeps(t) /\ UNCHANGED conc
  /\ \/ Sent(t) /\ Dies(p)
     \/ "send" \in Failing /\ ToSlot(p, "failcas") /\ UNCHANGED submits

FailCasDoes(p) ==
  LET t == call[p].t  r == row[t] IN
  /\ At(p, "failcas") /\ Dies(p) /\ UNCHANGED <<conc, submits>>
  /\ \/ r.status = "SUBMITTED" /\ RowIs(t, "FAILURE", "released", 0, r.up, r.due)
     \/ r.status # "SUBMITTED" /\ Keeps(t)

ReleaseEffect(p) ==
  /\ Local(p, call[p].t) /\ UNCHANGED <<session, orders, strays, lost, dlq>>
  /\ \/ MetaDoes(p) \/ ClaimDoes(p) \/ AcquireDoes(p) \/ UnclaimDoes(p) \/ RequeueDoes(p)
     \/ ScheduleDoes(p) \/ MaskDoes(p) \/ BackoutDoes(p) \/ RecheckDoes(p) \/ SendDoes(p)
     \/ FailCasDoes(p)

LEMMA ReleaseEffects ==
  ASSUME IndInv, NEW p \in Procs, ReleaseStep(p)
  PROVE  ReleaseEffect(p)
<1> DEFINE t == call[p].t
           r == row[t]
<1>0. RowsOK /\ CallsOK /\ RestOK
  BY DEF IndInv, Good
<1>1. call[p].pc # "idle" /\ t \in Tasks /\ r \in Rows /\ call[p] \in Calls
  BY <1>0 DEF ReleaseStep, RescueMeta, Claim, Acquire, Unclaim, Requeue, Schedule, Mask,
              Backout, Recheck, Send, FailCas, At, CallsOK, RowsOK, Idle
<1>2. \A label : Goto(p, label) => /\ \A q \in Procs \ {p} : call'[q] = call[q]
                                   /\ label = "idle" => Dies(p)
                                   /\ label # "idle" => Goes(p, label)
  BY <1>0, <1>1, GotoFields
<1>3. \A label : ReleaseSlotThen(p, label) => /\ \A q \in Procs \ {p} : call'[q] = call[q]
                                              /\ ToSlot(p, label)
  BY <1>0, <1>1, SlotFields
<1>4. UNCHANGED <<session, orders, strays, lost, dlq>>
  BY DEF ReleaseStep, RescueMeta, Claim, Acquire, Unclaim, Requeue, Schedule, Mask,
         Backout, Recheck, Send, FailCas, redis, queues, history
<1>5. Local(p, t)
  <2>1. \A q \in Procs \ {p} : call'[q] = call[q]
    BY <1>2, <1>3 DEF ReleaseStep, RescueMeta, Claim, Acquire, Unclaim, Requeue, Schedule, Mask,
         Backout, Recheck, Send, FailCas
  <2>2. UNCHANGED row \/ \E s : SetRow(t, s)
    BY DEF ReleaseStep, RescueMeta, Claim, Acquire, Unclaim, Requeue, Schedule, Mask,
         Backout, Recheck, Send, FailCas
  <2> QED BY <1>0, <1>1, <2>1, <2>2 DEF Local, SetRow, RowsOK
<1>6. ASSUME RescueMeta(p) PROVE MetaDoes(p)
  BY <1>2, <1>6 DEF RescueMeta, MetaDoes, Keeps, redis, queues
<1>7. ASSUME Claim(p) PROVE ClaimDoes(p)
  <2>1. SetRow(t, Claimed(r)) => RowIs(t, r.status, "releasing", r.slot, r.up, r.due)
    BY <1>0, <1>1, RowEffects
  <2> QED BY <1>2, <1>7, <2>1 DEF Claim, ClaimDoes, Keeps, redis, queues
<1>8. ASSUME Acquire(p) PROVE AcquireDoes(p)
  BY <1>2, <1>8 DEF Acquire, AcquireDoes, Keeps, redis, queues
<1>9. ASSUME Unclaim(p) PROVE UnclaimDoes(p)
  <2>1. SetRow(t, Unclaimed(r)) =>
          \/ Keeps(t)
          \/ /\ r.status = "SUBMITTED" /\ r.batch = "releasing"
             /\ RowIs(t, r.status, "waiting", r.slot, r.up, r.due)
    BY <1>0, <1>1, RowEffects
  <2> QED BY <1>2, <1>9, <2>1 DEF Unclaim, UnclaimDoes, Keeps, redis, queues
<1>10. ASSUME Requeue(p) PROVE RequeueDoes(p)
  <2>1. SetRow(t, Requeued(r)) => RowIs(t, r.status, "requeued", r.slot, r.up, TRUE)
    BY <1>0, <1>1, RowEffects
  <2>2. At(p, "requeue") /\ UNCHANGED <<conc, submits>>
    BY <1>10 DEF Requeue, redis, queues
  <2>3. SetRow(t, Requeued(r)) /\ Goto(p, "schedule")
    BY <1>10 DEF Requeue
  <2>4. Goes(p, "schedule")
    BY <1>2, <2>3
  <2> QED BY <2>1, <2>2, <2>3, <2>4 DEF RequeueDoes
<1>11. ASSUME Schedule(p) PROVE ScheduleDoes(p)
  BY <1>2, <1>11 DEF Schedule, ScheduleDoes, Keeps, redis, queues
<1>12. ASSUME Mask(p) PROVE MaskDoes(p)
  <2>1. SetRow(t, Released(r)) => RowIs(t, r.status, "released", 1, r.up, r.due)
    BY <1>0, <1>1, RowEffects
  <2> QED BY <1>2, <1>12, <2>1 DEF Mask, MaskDoes, Fails, Keeps, redis, queues
<1>13. ASSUME Backout(p) PROVE BackoutDoes(p)
  BY <1>2, <1>13 DEF Backout, BackoutDoes, Fails, Keeps, queues
<1>14. ASSUME Recheck(p) PROVE RecheckDoes(p)
  BY <1>2, <1>3, <1>14 DEF Recheck, RecheckDoes, Keeps, redis, queues
<1>15. ASSUME Send(p) PROVE SendDoes(p)
  BY <1>0, <1>1, <1>2, <1>3, <1>15, PublishFields DEF Send, SendDoes, Fails, Keeps, redis
<1>16. ASSUME FailCas(p) PROVE FailCasDoes(p)
  <2>1. "FAILURE" \in Statuses /\ 0 \in Nat
    BY DEF Statuses, TERMINAL
  <2>2. SetRow(t, [CasTo(r, "FAILURE", 0) EXCEPT !.slot = 0, !.batch = "released"]) =>
          RowIs(t, "FAILURE", "released", 0, r.up, r.due)
    BY <1>0, <1>1, <2>1, CasEffects
  <2> QED BY <1>0, <1>1, <1>2, <1>16, <2>2, RowEffects
          DEF FailCas, FailCasDoes, CasHits, redis, queues
<1> QED BY <1>4, <1>5, <1>6, <1>7, <1>8, <1>9, <1>10, <1>11, <1>12, <1>13, <1>14, <1>15, <1>16
        DEF ReleaseStep, ReleaseEffect

-------------------------------------------------------------------------------
(* The effects of create_queue_task                                        *)

ConcDoes(p) ==
  /\ At(p, "conc") /\ Keeps(call[p].t) /\ UNCHANGED <<submits, session>>
  /\ \/ conc < Limit /\ conc' = conc + 1 /\ Goes(p, "insert")
     \/ UNCHANGED conc /\ Dies(p)

InsertDoes(p) ==
  LET t == call[p].t IN
  /\ At(p, "insert") /\ session' = session \cup {t} /\ UNCHANGED <<conc, submits>>
  /\ \/ t \in Batched /\ RowIs(t, "SUBMITTED", "waiting", 0, 0, FALSE) /\ Goes(p, "join")
     \/ t \notin Batched /\ RowIs(t, "SUBMITTED", "none", 1, 0, FALSE) /\ Goes(p, "submit")
     \/ "insert" \in Failing /\ Keeps(t) /\ Goes(p, "undo")

JoinDoes(p) ==
  /\ At(p, "join") /\ Keeps(call[p].t) /\ UNCHANGED <<conc, submits, session>>
  /\ Goes(p, "due") \/ ("join" \in Failing /\ Goes(p, "undo"))

DueDoes(p) ==
  LET t == call[p].t  r == row[t] IN
  /\ At(p, "due") /\ UNCHANGED <<conc, submits, session>>
  /\ \/ RowIs(t, r.status, r.batch, r.slot, r.up, TRUE) /\ Goes(p, "trigger")
     \/ "due" \in Failing /\ Keeps(t) /\ Goes(p, "undo")

TriggerDoes(p) ==
  At(p, "trigger") /\ Dies(p) /\ Keeps(call[p].t) /\ UNCHANGED <<conc, submits, session>>

SubmitDoes(p) ==
  /\ At(p, "submit") /\ Keeps(call[p].t) /\ UNCHANGED <<conc, session>>
  /\ \/ Sent(call[p].t) /\ Dies(p)
     \/ "submit" \in Failing /\ Goes(p, "undo") /\ UNCHANGED submits

UndoDoes(p) ==
  /\ At(p, "undo") /\ Dies(p) /\ Keeps(call[p].t) /\ UNCHANGED <<submits, session>>
  /\ \/ call[p].t \notin Batched /\ conc' = Decr(conc)
     \/ (call[p].t \in Batched \/ "decr" \in Failing) /\ UNCHANGED conc

AcceptEffect(p) ==
  /\ Local(p, call[p].t) /\ UNCHANGED <<orders, strays, lost, dlq>>
  /\ \/ ConcDoes(p) \/ InsertDoes(p) \/ JoinDoes(p) \/ DueDoes(p) \/ TriggerDoes(p)
     \/ SubmitDoes(p) \/ UndoDoes(p)

LEMMA AcceptEffects ==
  ASSUME IndInv, NEW p \in Procs, AcceptStep(p)
  PROVE  AcceptEffect(p)
<1> DEFINE t == call[p].t
           r == row[t]
<1>0. RowsOK /\ CallsOK /\ RestOK
  BY DEF IndInv, Good
<1>1. call[p].pc # "idle" /\ t \in Tasks /\ r \in Rows /\ call[p] \in Calls
  BY <1>0 DEF AcceptStep, AcceptConc, AcceptInsert, AcceptJoin, AcceptDue, AcceptTrigger,
              AcceptSubmit, AcceptUndo, At, CallsOK, RowsOK, Idle
<1>2. \A label : Goto(p, label) => /\ \A q \in Procs \ {p} : call'[q] = call[q]
                                   /\ label = "idle" => Dies(p)
                                   /\ label # "idle" => Goes(p, label)
  BY <1>0, <1>1, GotoFields
<1>20. /\ Goto(p, "idle") => Dies(p)
       /\ Goto(p, "insert") => Goes(p, "insert")
       /\ Goto(p, "join") => Goes(p, "join")
       /\ Goto(p, "trigger") => Goes(p, "trigger")
       /\ Goto(p, "submit") => Goes(p, "submit")
       /\ Goto(p, "undo") => Goes(p, "undo")
  BY <1>2
<1>3. \A wanted : Become(p, [call[p] EXCEPT !.pc = "due", !.want = wanted]) =>
                    Goes(p, "due") /\ \A q \in Procs \ {p} : call'[q] = call[q]
  BY <1>0, <1>1 DEF CallsOK, Become, Goes, Luggage, Calls
<1>4. UNCHANGED <<orders, strays, lost, dlq>>
  BY DEF AcceptStep, AcceptConc, AcceptInsert, AcceptJoin, AcceptDue, AcceptTrigger,
         AcceptSubmit, AcceptUndo, redis, queues, history
<1>5. Local(p, t)
  <2>1. \A q \in Procs \ {p} : call'[q] = call[q]
    BY <1>2, <1>3 DEF AcceptStep, AcceptConc, AcceptInsert, AcceptJoin, AcceptDue, AcceptTrigger,
         AcceptSubmit, AcceptUndo
  <2>2. UNCHANGED row \/ \E s : SetRow(t, s)
    BY DEF AcceptStep, AcceptConc, AcceptInsert, AcceptJoin, AcceptDue, AcceptTrigger,
         AcceptSubmit, AcceptUndo
  <2> QED BY <1>0, <1>1, <2>1, <2>2 DEF Local, SetRow, RowsOK
<1>6. UNCHANGED row => Keeps(t)
  BY DEF Keeps
<1>7. ASSUME AcceptConc(p) PROVE ConcDoes(p)
  BY <1>2, <1>6, <1>7 DEF AcceptConc, ConcDoes, redis, queues
<1>8. ASSUME AcceptInsert(p) PROVE InsertDoes(p)
  <2>1. SetRow(t, NewRow(t \in Batched)) =>
          \/ t \in Batched /\ RowIs(t, "SUBMITTED", "waiting", 0, 0, FALSE)
          \/ t \notin Batched /\ RowIs(t, "SUBMITTED", "none", 1, 0, FALSE)
    <3>1. CASE t \in Batched
      BY <1>0, <1>1, <3>1 DEF RowsOK, SetRow, NewRow, NoRow, RowIs
    <3>2. CASE t \notin Batched
      BY <1>0, <1>1, <3>2 DEF RowsOK, SetRow, NewRow, NoRow, RowIs
    <3> QED BY <3>1, <3>2
  <2>2. At(p, "insert") /\ session' = session \cup {t} /\ UNCHANGED <<conc, submits>>
    BY <1>8 DEF AcceptInsert, queues
  <2>3. CASE "insert" \in Failing /\ Goto(p, "undo") /\ UNCHANGED row
    BY <1>20, <1>6, <2>2, <2>3 DEF InsertDoes
  <2>4. CASE SetRow(t, NewRow(t \in Batched)) /\ Goto(p, IF t \in Batched THEN "join" ELSE "submit")
    <3>1. CASE t \in Batched
      BY <1>20, <2>1, <2>2, <2>4, <3>1 DEF InsertDoes
    <3>2. CASE t \notin Batched
      BY <1>20, <2>1, <2>2, <2>4, <3>2 DEF InsertDoes
    <3> QED BY <3>1, <3>2
  <2> QED BY <1>8, <2>3, <2>4 DEF AcceptInsert, Fails
<1>9. ASSUME AcceptJoin(p) PROVE JoinDoes(p)
  <2>1. At(p, "join") /\ UNCHANGED <<row, conc, submits, session>>
    BY <1>9 DEF AcceptJoin, queues
  <2>2. Goes(p, "due") \/ ("join" \in Failing /\ Goto(p, "undo"))
    BY <1>3, <1>9 DEF AcceptJoin, Fails
  <2> QED BY <1>20, <1>6, <2>1, <2>2 DEF JoinDoes
<1>10. ASSUME AcceptDue(p) PROVE DueDoes(p)
  <2>1. SetRow(t, [r EXCEPT !.due = TRUE]) => RowIs(t, r.status, r.batch, r.slot, r.up, TRUE)
    BY <1>0, <1>1, RowEffects
  <2>2. At(p, "due") /\ UNCHANGED <<conc, submits, session>>
    BY <1>10 DEF AcceptDue, redis, queues
  <2>3. CASE SetRow(t, [r EXCEPT !.due = TRUE]) /\ Goto(p, "trigger")
    BY <1>20, <2>1, <2>2, <2>3 DEF DueDoes
  <2>4. CASE "due" \in Failing /\ Goto(p, "undo") /\ UNCHANGED row
    BY <1>20, <1>6, <2>2, <2>4 DEF DueDoes
  <2> QED BY <1>10, <2>3, <2>4 DEF AcceptDue, Fails
<1>11. ASSUME AcceptTrigger(p) PROVE TriggerDoes(p)
  BY <1>2, <1>6, <1>11 DEF AcceptTrigger, TriggerDoes, redis
<1>12. ASSUME AcceptSubmit(p) PROVE SubmitDoes(p)
  BY <1>0, <1>1, <1>2, <1>6, <1>12, PublishFields DEF AcceptSubmit, SubmitDoes, Fails, redis
<1>13. ASSUME AcceptUndo(p) PROVE UndoDoes(p)
  BY <1>20, <1>6, <1>13 DEF AcceptUndo, UndoDoes, Fails, queues
<1> QED BY <1>4, <1>5, <1>7, <1>8, <1>9, <1>10, <1>11, <1>12, <1>13 DEF AcceptStep, AcceptEffect

-------------------------------------------------------------------------------
(* The effects of _finalize_queue, cancel_queue_task and _release_slot     *)

\* The upstream id a transition leaves in the row.
NewUp(p) == IF call[p].id = 0 THEN row[call[p].t].up ELSE call[p].id

\* _release_slot() returns to its caller.
Returned(p) ==
  \/ call[p].then = "idle" /\ Dies(p)
  \/ call[p].then # "idle" /\ Goes(p, call[p].then)

FinalDoes(p) ==
  LET t == call[p].t  r == row[t] IN
  /\ At(p, "final") /\ UNCHANGED <<conc, session>>
  /\ \/ /\ r.status \in ACTIVE /\ RowIs(t, call[p].st, r.batch, r.slot, NewUp(p), r.due)
        /\ ToSlot(p, "notify")
     \/ r.status \notin ACTIVE /\ Keeps(t) /\ Dies(p)

ClaimSlotDoes(p) ==
  LET t == call[p].t  r == row[t] IN
  /\ At(p, "slot") /\ UNCHANGED <<conc, session>>
  /\ RowIs(t, r.status, r.batch, 0, r.up, r.due)
  /\ \/ HoldsSlot(r) /\ Goes(p, "decr")
     \/ ~HoldsSlot(r) /\ Returned(p)

GiveSlotDoes(p) ==
  /\ At(p, "decr") /\ Keeps(call[p].t) /\ Returned(p) /\ UNCHANGED session
  /\ conc' = Decr(conc) \/ ("decr" \in Failing /\ UNCHANGED conc)

NotifyDoes(p) ==
  At(p, "notify") /\ Keeps(call[p].t) /\ Goes(p, "clear") /\ UNCHANGED <<conc, session>>

ClearDoes(p) ==
  /\ At(p, "clear") /\ Keeps(call[p].t) /\ Dies(p)
  /\ session' = session \ {call[p].t} /\ UNCHANGED conc

CancelDoes(p) ==
  LET t == call[p].t  r == row[t] IN
  /\ At(p, "cancel") /\ UNCHANGED <<conc, session>>
  /\ \/ /\ r.status \in ACTIVE /\ RowIs(t, "CANCELED", r.batch, r.slot, r.up, r.due)
        /\ Goes(p, "leave") \/ ToSlot(p, "clear")
     \/ r.status \notin ACTIVE /\ Keeps(t) /\ Dies(p)

LeaveDoes(p) ==
  At(p, "leave") /\ Keeps(call[p].t) /\ ToSlot(p, "clear") /\ UNCHANGED <<conc, session>>

FinishEffect(p) ==
  /\ Local(p, call[p].t) /\ UNCHANGED <<submits, dlq, orders, strays, lost>>
  /\ \/ FinalDoes(p) \/ ClaimSlotDoes(p) \/ GiveSlotDoes(p) \/ NotifyDoes(p) \/ ClearDoes(p)
     \/ CancelDoes(p) \/ LeaveDoes(p)

LEMMA FinishEffects ==
  ASSUME IndInv, NEW p \in Procs, FinishStep(p)
  PROVE  FinishEffect(p)
<1> DEFINE t == call[p].t
           r == row[t]
<1>0. RowsOK /\ CallsOK /\ RestOK
  BY DEF IndInv, Good
<1>1. call[p].pc # "idle" /\ t \in Tasks /\ r \in Rows /\ call[p] \in Calls
  BY <1>0 DEF FinishStep, Final, ClaimSlot, GiveSlot, Notify, Clear, CancelCas, CancelLeave,
              At, CallsOK, RowsOK, Idle
<1>2. \A label : Goto(p, label) => /\ \A q \in Procs \ {p} : call'[q] = call[q]
                                   /\ label = "idle" => Dies(p)
                                   /\ label # "idle" => Goes(p, label)
  BY <1>0, <1>1, GotoFields
<1>20. /\ Goto(p, "idle") => Dies(p)
       /\ Goto(p, "decr") => Goes(p, "decr")
       /\ Goto(p, "clear") => Goes(p, "clear")
       /\ Goto(p, "leave") => Goes(p, "leave")
       /\ Goto(p, call[p].then) => Returned(p)
  BY <1>2 DEF Returned
<1>3. \A label : ReleaseSlotThen(p, label) => /\ \A q \in Procs \ {p} : call'[q] = call[q]
                                              /\ ToSlot(p, label)
  BY <1>0, <1>1, SlotFields
<1>30. /\ ReleaseSlotThen(p, "notify") => ToSlot(p, "notify")
       /\ ReleaseSlotThen(p, "clear") => ToSlot(p, "clear")
  BY <1>3
<1>5. UNCHANGED <<submits, dlq, orders, strays, lost>>
  BY DEF FinishStep, Final, ClaimSlot, GiveSlot, Notify, Clear, CancelCas, CancelLeave,
         redis, queues, history
<1>6. Local(p, t)
  <2>1. \A q \in Procs \ {p} : call'[q] = call[q]
    BY <1>2, <1>3
    DEF FinishStep, Final, ClaimSlot, GiveSlot, Notify, Clear, CancelCas, CancelLeave
  <2>2. UNCHANGED row \/ \E s : SetRow(t, s)
    BY DEF FinishStep, Final, ClaimSlot, GiveSlot, Notify, Clear, CancelCas, CancelLeave
  <2> QED BY <1>0, <1>1, <2>1, <2>2 DEF Local, SetRow, RowsOK
<1>7. UNCHANGED row => Keeps(t)
  BY DEF Keeps
<1>8. ASSUME Final(p) PROVE FinalDoes(p)
  <2>1. SetRow(t, CasTo(r, call[p].st, call[p].id)) =>
          RowIs(t, call[p].st, r.batch, r.slot, NewUp(p), r.due)
    <3>1. call[p].st \in Statuses /\ call[p].id \in Nat
      BY <1>1 DEF Calls
    <3> QED BY <1>0, <1>1, <3>1, CasEffects DEF NewUp
  <2>2. At(p, "final") /\ UNCHANGED <<conc, session>>
    BY <1>8 DEF Final, redis
  <2>3. CASE /\ r.status \in ACTIVE /\ SetRow(t, CasTo(r, call[p].st, call[p].id))
             /\ ReleaseSlotThen(p, "notify")
    BY <1>30, <2>1, <2>2, <2>3 DEF FinalDoes
  <2>4. CASE r.status \notin ACTIVE /\ Goto(p, "idle") /\ UNCHANGED row
    BY <1>20, <1>7, <2>2, <2>4 DEF FinalDoes
  <2> QED BY <1>8, <2>3, <2>4 DEF Final, CasHits
<1>9. ASSUME ClaimSlot(p) PROVE ClaimSlotDoes(p)
  <2>1. SetRow(t, SlotCleared(r)) => RowIs(t, r.status, r.batch, 0, r.up, r.due)
    BY <1>0, <1>1, RowEffects
  <2>2. At(p, "slot") /\ UNCHANGED <<conc, session>>
    BY <1>9 DEF ClaimSlot, redis
  <2>3. RowIs(t, r.status, r.batch, 0, r.up, r.due)
    BY <1>9, <2>1 DEF ClaimSlot
  <2>4. (HoldsSlot(r) /\ Goes(p, "decr")) \/ (~HoldsSlot(r) /\ Returned(p))
    BY <1>9, <1>20 DEF ClaimSlot
  <2> QED BY <2>2, <2>3, <2>4 DEF ClaimSlotDoes
<1>10. ASSUME GiveSlot(p) PROVE GiveSlotDoes(p)
  BY <1>20, <1>7, <1>10 DEF GiveSlot, GiveSlotDoes, Fails
<1>11. ASSUME Notify(p) PROVE NotifyDoes(p)
  BY <1>20, <1>7, <1>11 DEF Notify, NotifyDoes, redis
<1>12. ASSUME Clear(p) PROVE ClearDoes(p)
  BY <1>20, <1>7, <1>12 DEF Clear, ClearDoes
<1>13. ASSUME CancelCas(p) PROVE CancelDoes(p)
  <2>1. SetRow(t, CasTo(r, "CANCELED", 0)) => RowIs(t, "CANCELED", r.batch, r.slot, r.up, r.due)
    <3>1. "CANCELED" \in Statuses /\ 0 \in Nat
      BY DEF Statuses, TERMINAL
    <3> QED BY <1>0, <1>1, <3>1, CasEffects
  <2>2. At(p, "cancel") /\ UNCHANGED <<conc, session>>
    BY <1>13 DEF CancelCas, redis
  <2>3. CASE /\ r.status \in ACTIVE /\ SetRow(t, CasTo(r, "CANCELED", 0))
             /\ Goto(p, "leave") \/ ReleaseSlotThen(p, "clear")
    BY <1>20, <1>30, <2>1, <2>2, <2>3 DEF CancelDoes
  <2>4. CASE r.status \notin ACTIVE /\ UNCHANGED row /\ Goto(p, "idle")
    BY <1>20, <1>7, <2>2, <2>4 DEF CancelDoes
  <2> QED BY <1>13, <2>3, <2>4 DEF CancelCas, CasHits
<1>14. ASSUME CancelLeave(p) PROVE LeaveDoes(p)
  BY <1>30, <1>7, <1>14 DEF CancelLeave, LeaveDoes
<1> QED BY <1>5, <1>6, <1>8, <1>9, <1>10, <1>11, <1>12, <1>13, <1>14 DEF FinishStep, FinishEffect

-------------------------------------------------------------------------------
(* The effects of submit_queue_task and of a probe                         *)

\* A call learns a status, and perhaps an id, and goes on.
Learns(p, label, st, id) ==
  /\ call'[p].pc = label /\ call'[p].t = call[p].t /\ call'[p].job = call[p].job
  /\ call'[p].then = call[p].then /\ call'[p].st = st /\ call'[p].id = id

PostAcceptedDoes(p) ==
  LET t == call[p].t IN
  /\ At(p, "post") /\ Keeps(t) /\ OrdersMore(t) /\ UNCHANGED <<submits, dlq, strays>>
  /\ \/ Learns(p, "landed", call[p].st, orders[t] + 1)
     \/ \E s \in TERMINAL : Learns(p, "final", s, orders[t] + 1)

PostFailedDoes(p) ==
  LET t == call[p].t IN
  /\ At(p, "post") /\ Keeps(t)
  /\ \/ Learns(p, "final", "FAILURE", call[p].id) /\ UNCHANGED <<submits, dlq, orders, strays>>
     \/ Drops(p) /\ (UNCHANGED <<orders, strays>> \/ (OrdersMore(t) /\ StraysMore(t)))

LandedDoes(p) ==
  LET t == call[p].t  r == row[t] IN
  /\ At(p, "landed") /\ Dies(p) /\ UNCHANGED <<submits, dlq, orders, strays>>
  /\ \/ r.status \in ACTIVE /\ RowIs(t, "QUEUED", r.batch, r.slot, NewUp(p), r.due)
     \/ r.status \notin ACTIVE /\ RowIs(t, r.status, r.batch, r.slot, NewUp(p), r.due)

ProbeDoes(p) ==
  /\ At(p, "probe") /\ Keeps(call[p].t) /\ UNCHANGED <<submits, dlq, orders, strays>>
  /\ \/ \E s \in TERMINAL : Learns(p, "final", s, call[p].id)
     \/ \E s \in ACTIVE : Learns(p, "advance", s, call[p].id)
     \/ Dies(p)

AdvanceDoes(p) ==
  LET t == call[p].t  r == row[t] IN
  /\ At(p, "advance") /\ Dies(p) /\ UNCHANGED <<submits, dlq, orders, strays>>
  /\ \/ r.status \in ACTIVE /\ RowIs(t, call[p].st, r.batch, r.slot, r.up, r.due)
     \/ r.status \notin ACTIVE /\ Keeps(t)

UpstreamEffect(p) ==
  /\ Local(p, call[p].t) /\ UNCHANGED <<conc, session, lost>>
  /\ PostAcceptedDoes(p) \/ PostFailedDoes(p) \/ LandedDoes(p) \/ ProbeDoes(p) \/ AdvanceDoes(p)

LEMMA UpstreamEffects ==
  ASSUME IndInv, NEW p \in Procs, UpstreamStep(p)
  PROVE  UpstreamEffect(p)
<1> DEFINE t == call[p].t
           r == row[t]
<1>0. RowsOK /\ CallsOK /\ RestOK
  BY DEF IndInv, Good
<1>1. call[p].pc # "idle" /\ t \in Tasks /\ r \in Rows /\ call[p] \in Calls
  <2>1. call[p].pc # "idle"
    BY DEF UpstreamStep, PostAccepted, PostRejected, PostAmbiguous, Landed, ProbeTerminal,
           ProbeActive, ProbeNothing, Advance, At
  <2> QED BY <1>0, <2>1 DEF CallsOK, RowsOK, Idle
<1>2. Goto(p, "idle") => Dies(p) /\ \A q \in Procs \ {p} : call'[q] = call[q]
  BY <1>0, <1>1, GotoFields
<1>3. Raise(p) => Drops(p) /\ \A q \in Procs \ {p} : call'[q] = call[q]
  BY <1>0, <1>1, RaiseFields
<1>4. \A c : Become(p, c) => call'[p] = c /\ \A q \in Procs \ {p} : call'[q] = call[q]
  BY <1>0 DEF CallsOK, Become
<1>5. UNCHANGED <<conc, session, lost>>
  BY DEF UpstreamStep, PostAccepted, PostRejected, PostAmbiguous, Landed, ProbeTerminal,
         ProbeActive, ProbeNothing, Advance, redis, queues, history
<1>6. Local(p, t)
  <2>1. \A q \in Procs \ {p} : call'[q] = call[q]
    BY <1>2, <1>3, <1>4 DEF UpstreamStep, PostAccepted, PostRejected, PostAmbiguous, Landed,
         ProbeTerminal, ProbeActive, ProbeNothing, Advance
  <2>2. UNCHANGED row \/ \E s : SetRow(t, s)
    BY DEF UpstreamStep, PostAccepted, PostRejected, PostAmbiguous, Landed, ProbeTerminal,
         ProbeActive, ProbeNothing, Advance
  <2> QED BY <1>0, <1>1, <2>1, <2>2 DEF Local, SetRow, RowsOK
<1>7. UNCHANGED row => Keeps(t)
  BY DEF Keeps
<1>8. ASSUME PostAccepted(p) PROVE PostAcceptedDoes(p)
  <2>1. orders \in [Tasks -> Nat]
    BY <1>0 DEF RestOK
  <2>2. At(p, "post") /\ UNCHANGED <<row, submits, dlq, strays>> /\ OrdersMore(t)
    BY <1>1, <1>8, <2>1 DEF PostAccepted, OrdersMore, queues
  <2>3. ASSUME Become(p, [call[p] EXCEPT !.pc = "landed", !.id = orders[t] + 1])
        PROVE  Learns(p, "landed", call[p].st, orders[t] + 1)
    BY <1>0, <1>1, <2>3 DEF Become, CallsOK, Learns, Calls
  <2>4. ASSUME NEW s \in TERMINAL,
               Become(p, [call[p] EXCEPT !.pc = "final", !.id = orders[t] + 1, !.st = s])
        PROVE  Learns(p, "final", s, orders[t] + 1)
    BY <1>0, <1>1, <2>4 DEF Become, CallsOK, Learns, Calls
  <2> QED BY <1>7, <1>8, <2>2, <2>3, <2>4 DEF PostAccepted, PostAcceptedDoes
<1>9. ASSUME PostRejected(p) \/ PostAmbiguous(p) PROVE PostFailedDoes(p)
  <2>1. At(p, "post") /\ UNCHANGED row
    BY <1>9 DEF PostRejected, PostAmbiguous
  <2>2. CASE PostRejected(p)
    <3>1. Learns(p, "final", "FAILURE", call[p].id) /\ UNCHANGED <<submits, dlq, orders, strays>>
      BY <1>0, <1>1, <2>2 DEF PostRejected, Become, CallsOK, Learns, Calls, queues, history
    <3> QED BY <1>7, <2>1, <3>1 DEF PostFailedDoes
  <2>3. CASE PostAmbiguous(p)
    <3>1. orders \in [Tasks -> Nat] /\ strays \in [Tasks -> Nat]
      BY <1>0 DEF RestOK
    <3>2. UNCHANGED <<orders, strays>> \/ (OrdersMore(t) /\ StraysMore(t))
      BY <1>1, <2>3, <3>1 DEF PostAmbiguous, OrdersMore, StraysMore
    <3>3. Drops(p)
      BY <1>3, <2>3 DEF PostAmbiguous
    <3> QED BY <1>7, <2>1, <3>2, <3>3 DEF PostFailedDoes
  <2> QED BY <1>9, <2>2, <2>3
<1>10. ASSUME Landed(p) PROVE LandedDoes(p)
  <2>1. At(p, "landed") /\ Dies(p) /\ UNCHANGED <<submits, dlq, orders, strays>>
    BY <1>2, <1>10 DEF Landed, queues, history
  <2>2. "QUEUED" \in Statuses /\ call[p].id \in Nat
    BY <1>1 DEF Statuses, ACTIVE, Calls
  <2>3. CASE r.status \in ACTIVE
    <3>1. RowIs(t, "QUEUED", r.batch, r.slot, NewUp(p), r.due)
      BY <1>0, <1>1, <1>10, <2>2, <2>3, CasEffects DEF Landed, CasHits, NewUp
    <3> QED BY <2>1, <2>3, <3>1 DEF LandedDoes
  <2>4. CASE r.status \notin ACTIVE
    <3>1. RowIs(t, r.status, r.batch, r.slot, NewUp(p), r.due)
      BY <1>0, <1>1, <1>10, <2>2, <2>4, CasEffects DEF Landed, CasHits, NewUp
    <3> QED BY <2>1, <2>4, <3>1 DEF LandedDoes
  <2> QED BY <2>3, <2>4
<1>11. ASSUME ProbeTerminal(p) \/ ProbeActive(p) \/ ProbeNothing(p) PROVE ProbeDoes(p)
  <2>1. At(p, "probe") /\ UNCHANGED <<row, submits, dlq, orders, strays>>
    BY <1>11 DEF ProbeTerminal, ProbeActive, ProbeNothing, queues, history
  <2>2. CASE ProbeTerminal(p)
    <3>1. PICK s \in TERMINAL : Become(p, [call[p] EXCEPT !.pc = "final", !.st = s])
      BY <2>2 DEF ProbeTerminal
    <3>2. Learns(p, "final", s, call[p].id)
      BY <1>0, <1>1, <3>1 DEF Become, CallsOK, Learns, Calls
    <3> QED BY <1>7, <2>1, <3>2 DEF ProbeDoes
  <2>3. CASE ProbeActive(p)
    <3>1. PICK s \in ACTIVE : Become(p, [call[p] EXCEPT !.pc = "advance", !.st = s])
      BY <2>3 DEF ProbeActive, ACTIVE
    <3>2. Learns(p, "advance", s, call[p].id)
      BY <1>0, <1>1, <3>1 DEF Become, CallsOK, Learns, Calls
    <3> QED BY <1>7, <2>1, <3>2 DEF ProbeDoes
  <2>4. CASE ProbeNothing(p)
    BY <1>2, <1>7, <2>1, <2>4 DEF ProbeNothing, ProbeDoes
  <2> QED BY <1>11, <2>2, <2>3, <2>4
<1>12. ASSUME Advance(p) PROVE AdvanceDoes(p)
  <2>1. At(p, "advance") /\ Dies(p) /\ UNCHANGED <<submits, dlq, orders, strays>>
    BY <1>2, <1>12 DEF Advance, queues, history
  <2>2. call[p].st \in Statuses /\ 0 \in Nat
    BY <1>1 DEF Calls
  <2>3. CASE r.status \in ACTIVE
    <3>1. RowIs(t, call[p].st, r.batch, r.slot, r.up, r.due)
      BY <1>0, <1>1, <1>12, <2>2, <2>3, CasEffects DEF Advance, CasHits
    <3> QED BY <2>1, <2>3, <3>1 DEF AdvanceDoes
  <2>4. CASE r.status \notin ACTIVE
    <3>1. SetRow(t, r) => Keeps(t)
      BY <1>0, <1>1, RowEffects
    <3>2. Keeps(t)
      BY <1>12, <2>4, <3>1 DEF Advance, CasHits
    <3> QED BY <2>1, <2>4, <3>2 DEF AdvanceDoes
  <2> QED BY <2>3, <2>4
<1> QED BY <1>5, <1>6, <1>8, <1>9, <1>10, <1>11, <1>12 DEF UpstreamStep, UpstreamEffect

-------------------------------------------------------------------------------
(* The effects of what starts a call, and of what happens outside of one   *)

Begins(p, t, label, job) ==
  /\ call[p] = Idle /\ call'[p].pc = label /\ call'[p].t = t /\ call'[p].job = job
  /\ call'[p].id = 0 /\ call'[p].then = "idle"

\* A request for a task nobody knows.
RequestBegins(p, t) ==
  /\ Keeps(t) /\ UNCHANGED submits
  /\ row[t].status = "NONE" /\ \A q \in Procs : call[q].t # t
  /\ IF t \in Batched THEN Begins(p, t, "insert", FALSE) ELSE Begins(p, t, "conc", FALSE)

\* A message or the sweep finds a task that waits; a message that finds
\* another is dropped.
ReleaseBegins(p, t) ==
  /\ Keeps(t) /\ UNCHANGED submits
  /\ (Releasable(row[t]) /\ Begins(p, t, "claim", FALSE)) \/ UNCHANGED call

\* The sweep puts a stuck release back.
RescueBegins(p, t) ==
  LET r == row[t] IN
  /\ r.status = "SUBMITTED" /\ r.batch = "releasing" /\ ~ReleaseRunning(t) /\ UNCHANGED submits
  /\ RowIs(t, r.status, "waiting", r.slot, r.up, r.due) /\ Begins(p, t, "meta", FALSE)

SubmissionBegins(p, t) ==
  /\ Keeps(t)
  /\ submits[t] > 0 /\ submits'[t] = submits[t] - 1
  /\ \A o \in Tasks \ {t} : submits'[o] = submits[o]
  /\ (Submittable(t) /\ Begins(p, t, "post", TRUE)) \/ (~Submittable(t) /\ UNCHANGED call)

ProbeBegins(p, t) ==
  /\ Keeps(t) /\ UNCHANGED submits
  /\ row[t].status \in ACTIVE /\ row[t].up # 0 /\ Begins(p, t, "probe", FALSE)

CancelBegins(p, t) ==
  Keeps(t) /\ UNCHANGED submits /\ row[t].status \in ACTIVE /\ Begins(p, t, "cancel", FALSE)

StartEffect(p, t) ==
  /\ Local(p, t) /\ UNCHANGED <<conc, session, dlq, orders, strays, lost>>
  /\ \/ RequestBegins(p, t) \/ ReleaseBegins(p, t) \/ RescueBegins(p, t)
     \/ SubmissionBegins(p, t) \/ ProbeBegins(p, t) \/ CancelBegins(p, t)

CrashEffect(p) ==
  /\ Local(p, call[p].t) /\ Keeps(call[p].t) /\ Dies(p) /\ lost' = lost \cup {call[p].t}
  /\ UNCHANGED <<conc, session, submits, dlq, orders, strays>>

\* An exception that nobody catches.
EscapeEffect(p) ==
  /\ call[p].pc \in Uncaught /\ call[p].pc \in Failing
  /\ Local(p, call[p].t) /\ Keeps(call[p].t) /\ Drops(p)
  /\ IF Unrecorded(p) THEN StraysMore(call[p].t) ELSE UNCHANGED strays
  /\ UNCHANGED <<conc, session, orders, lost>>

\* What an operator sends: any task that has a row, or a dead letter.
OpsSends(t) ==
  /\ Sent(t)
  /\ \/ "requeue" \in Operators /\ row[t].status # "NONE" /\ UNCHANGED dlq
     \/ "replay" \in Operators /\ t \in dlq /\ dlq' = dlq \ {t}
     \/ "repeat" \in Operators /\ t \in dlq /\ UNCHANGED dlq

OutsideEffect ==
  /\ UNCHANGED <<row, call, conc, session, orders, strays>> /\ lost \subseteq lost'
  /\ UNCHANGED <<submits, dlq>> \/ \E t \in Tasks : OpsSends(t)

LEMMA BeginFields ==
  ASSUME CallsOK, NEW p \in Procs, call[p] = Idle, NEW t \in Tasks, NEW label, NEW st, NEW quit
  PROVE  /\ Start(p, label, t) => Begins(p, t, label, FALSE)
         /\ Become(p, [Idle EXCEPT !.pc = label, !.t = t, !.job = TRUE]) =>
              Begins(p, t, label, TRUE)
         /\ Become(p, [Idle EXCEPT !.pc = label, !.t = t, !.st = st]) => Begins(p, t, label, FALSE)
         /\ Become(p, [Idle EXCEPT !.pc = label, !.t = t, !.quit = quit]) =>
              Begins(p, t, label, FALSE)
<1>1. \A c : Become(p, c) => call'[p] = c
  BY DEF CallsOK, Become
<1>2. Start(p, label, t) => Begins(p, t, label, FALSE)
  BY <1>1 DEF Start, Begins, Idle
<1>3. Become(p, [Idle EXCEPT !.pc = label, !.t = t, !.job = TRUE]) => Begins(p, t, label, TRUE)
  BY <1>1 DEF Begins, Idle
<1>4. Become(p, [Idle EXCEPT !.pc = label, !.t = t, !.st = st]) => Begins(p, t, label, FALSE)
  BY <1>1 DEF Begins, Idle
<1>5. Become(p, [Idle EXCEPT !.pc = label, !.t = t, !.quit = quit]) => Begins(p, t, label, FALSE)
  BY <1>1 DEF Begins, Idle
<1> QED BY <1>2, <1>3, <1>4, <1>5

LEMMA StartEffects ==
  ASSUME IndInv, NEW p \in Procs, NEW t \in Tasks,
         WorkerStart(p, t) \/ SweepStart(p, t) \/ ClientStart(p, t) \/ ProbeStart(p, t)
  PROVE  StartEffect(p, t)
<1> DEFINE r == row[t]
<1>0. RowsOK /\ CallsOK /\ RestOK /\ r \in Rows
  BY DEF IndInv, Good, RowsOK
<1> USE DEF WorkerStart, SweepStart, ClientStart
<1>1. call[p] = Idle \/ UNCHANGED call
  BY DEF MemberStart, TimerStart, SubmitStart, RescueStart, RescueUnclaim, AcceptStart,
         CancelStart, ProbeStart, ReadMeta, Start
<1>2. UNCHANGED <<conc, session, dlq, orders, strays, lost>>
  BY DEF MemberStart, TimerStart, SubmitStart, RescueStart, RescueUnclaim, AcceptStart,
         CancelStart, ProbeStart, redis, queues, history
<1>3. Local(p, t)
  <2>1. UNCHANGED call \/ \E c : Become(p, c)
    BY DEF MemberStart, TimerStart, SubmitStart, RescueStart, RescueUnclaim, AcceptStart,
           CancelStart, ProbeStart, ReadMeta, Start
  <2>2. UNCHANGED row \/ \E s : SetRow(t, s)
    BY DEF MemberStart, TimerStart, SubmitStart, RescueStart, RescueUnclaim, AcceptStart,
           CancelStart, ProbeStart
  <2> QED BY <1>0, <2>1, <2>2 DEF Local, SetRow, Become, RowsOK, CallsOK
<1>4. UNCHANGED row => Keeps(t)
  BY DEF Keeps
<1>5. ASSUME MemberStart(p, t) \/ TimerStart(p, t) PROVE ReleaseBegins(p, t)
  <2>1. UNCHANGED <<row, submits>> /\ ReadMeta(p, t)
    BY <1>5 DEF MemberStart, TimerStart
  <2>2. Start(p, "claim", t) => Begins(p, t, "claim", FALSE)
    BY <1>0, BeginFields DEF Start
  <2> QED BY <1>4, <2>1, <2>2 DEF ReadMeta, ReleaseBegins
<1>6. ASSUME SubmitStart(p, t) PROVE SubmissionBegins(p, t)
  <2>1. submits[t] \in Nat /\ submits \in [Tasks -> Nat]
    BY <1>0 DEF RestOK
  <2>2. /\ call[p] = Idle /\ UNCHANGED row /\ submits[t] > 0 /\ submits'[t] = submits[t] - 1
        /\ \A o \in Tasks \ {t} : submits'[o] = submits[o]
    BY <1>6, <2>1 DEF SubmitStart
  <2>3. Become(p, [Idle EXCEPT !.pc = "post", !.t = t, !.job = TRUE]) => Begins(p, t, "post", TRUE)
    BY <1>0, <2>2, BeginFields
  <2> QED BY <1>4, <1>6, <2>2, <2>3 DEF SubmitStart, SubmissionBegins
<1>7. ASSUME RescueStart(p, t) PROVE ReleaseBegins(p, t)
  <2>1. UNCHANGED <<row, submits>> /\ Start(p, "claim", t) /\ RescuableWaiting(r)
    BY <1>7 DEF RescueStart, queues
  <2>2. Start(p, "claim", t) => Begins(p, t, "claim", FALSE)
    BY <1>0, BeginFields DEF Start
  <2>3. Releasable(r)
    BY <2>1 DEF RescuableWaiting, Releasable, ACTIVE
  <2> QED BY <1>4, <2>1, <2>2, <2>3 DEF ReleaseBegins
<1>8. ASSUME RescueUnclaim(p, t) PROVE RescueBegins(p, t)
  <2>1. /\ UNCHANGED submits /\ Start(p, "meta", t) /\ ~ReleaseRunning(t)
        /\ SetRow(t, Unclaimed(r)) /\ RescuableReleasing(r)
    BY <1>8 DEF RescueUnclaim, queues
  <2>2. Start(p, "meta", t) => Begins(p, t, "meta", FALSE)
    BY <1>0, BeginFields DEF Start
  <2>3. RowIs(t, r.status, "waiting", r.slot, r.up, r.due)
    BY <1>0, <2>1 DEF RescuableReleasing, SetRow, Unclaimed, RowIs, Rows, RowsOK
  <2> QED BY <2>1, <2>2, <2>3 DEF RescueBegins, RescuableReleasing
<1>9. ASSUME AcceptStart(p, t) PROVE RequestBegins(p, t)
  <2>1. /\ UNCHANGED <<row, submits>> /\ r.status = "NONE" /\ \A q \in Procs : call[q].t # t
        /\ Start(p, IF t \in Batched THEN "insert" ELSE "conc", t)
    BY <1>9 DEF AcceptStart, queues
  <2>2. /\ Start(p, "insert", t) => Begins(p, t, "insert", FALSE)
        /\ Start(p, "conc", t) => Begins(p, t, "conc", FALSE)
    BY <1>0, BeginFields DEF Start
  <2> QED BY <1>4, <2>1, <2>2 DEF RequestBegins
<1>10. ASSUME ProbeStart(p, t) PROVE ProbeBegins(p, t)
  <2>1. /\ UNCHANGED <<row, submits>> /\ r.status \in ACTIVE /\ r.up # 0 /\ call[p] = Idle
        /\ Become(p, [Idle EXCEPT !.pc = "probe", !.t = t, !.st = r.status])
    BY <1>10 DEF ProbeStart, queues
  <2>2. Begins(p, t, "probe", FALSE)
    BY <1>0, <2>1, BeginFields
  <2> QED BY <1>4, <2>1, <2>2 DEF ProbeBegins
<1>11. ASSUME CancelStart(p, t) PROVE CancelBegins(p, t)
  <2>1. /\ UNCHANGED <<row, submits>> /\ r.status \in ACTIVE /\ call[p] = Idle
        /\ Become(p, [Idle EXCEPT !.pc = "cancel", !.t = t,
                                  !.quit = r.batch \in BATCH_WAITING_STATES])
    BY <1>11 DEF CancelStart, queues
  <2>2. Begins(p, t, "cancel", FALSE)
    BY <1>0, <2>1 DEF CallsOK, Become, Begins, Idle
  <2> QED BY <1>4, <2>1, <2>2 DEF CancelBegins
<1> QED BY <1>2, <1>3, <1>5, <1>6, <1>7, <1>8, <1>9, <1>10, <1>11 DEF StartEffect

LEMMA CrashEffects ==
  ASSUME IndInv, NEW p \in Procs, Crash(p)
  PROVE  CrashEffect(p) /\ call[p].pc # "idle"
<1>1. CallsOK /\ call[p].pc # "idle"
  BY DEF Crash, IndInv, Good, CallsOK
<1>2. Dies(p) /\ \A q \in Procs \ {p} : call'[q] = call[q]
  BY <1>1, GotoFields DEF Crash
<1> QED BY <1>1, <1>2 DEF Crash, CrashEffect, Local, Keeps, redis, queues

LEMMA EscapeEffects ==
  ASSUME IndInv, NEW p \in Procs, Escape(p)
  PROVE  EscapeEffect(p)
<1>1. /\ CallsOK /\ RestOK /\ call[p].pc # "idle" /\ call[p].t \in Tasks
      /\ call[p].pc \in Uncaught /\ call[p].pc \in Failing
  BY DEF Escape, Fails, Uncaught, IndInv, Good, CallsOK, Idle
<1>2. Drops(p) /\ \A q \in Procs \ {p} : call'[q] = call[q]
  BY <1>1, RaiseFields DEF Escape
<1>3. UNCHANGED <<row, conc, session, orders, lost>>
  BY DEF Escape, redis
<1>4. IF Unrecorded(p) THEN StraysMore(call[p].t) ELSE UNCHANGED strays
  <2>1. strays \in [Tasks -> Nat]
    BY <1>1 DEF RestOK
  <2> QED BY <1>1, <2>1 DEF Escape, StraysMore
<1> QED BY <1>1, <1>2, <1>3, <1>4 DEF EscapeEffect, Local, Keeps

LEMMA OutsideEffects ==
  ASSUME IndInv,
         \/ UNCHANGED vars
         \/ \E k \in Triggers : FireTrigger(k)
         \/ \E t \in Tasks : OpsRequeue(t) \/ OpsReplay(t) \/ CrashBatch(t)
  PROVE  OutsideEffect
<1>1. RestOK
  BY DEF IndInv
<1>2. UNCHANGED <<row, call, conc, session, orders, strays>> /\ lost \subseteq lost'
  BY DEF FireTrigger, OpsRequeue, OpsReplay, CrashBatch, vars, redis, queues, history
<1>3. ASSUME NEW t \in Tasks, OpsRequeue(t) PROVE OutsideEffect
  <2>1. Sent(t) /\ "requeue" \in Operators /\ row[t].status # "NONE" /\ UNCHANGED dlq
    BY <1>1, <1>3, PublishFields DEF OpsRequeue
  <2> QED BY <1>2, <2>1 DEF OutsideEffect, OpsSends
<1>4. ASSUME NEW t \in Tasks, OpsReplay(t) PROVE OutsideEffect
  <2>1. /\ Sent(t) /\ t \in dlq
        /\ \/ "replay" \in Operators /\ dlq' = dlq \ {t}
           \/ "repeat" \in Operators /\ UNCHANGED dlq
    BY <1>1, <1>4, PublishFields DEF OpsReplay
  <2> QED BY <1>2, <2>1 DEF OutsideEffect, OpsSends
<1>5. CASE UNCHANGED vars \/ (\E k \in Triggers : FireTrigger(k)) \/ \E t \in Tasks : CrashBatch(t)
  BY <1>2, <1>5 DEF OutsideEffect, FireTrigger, CrashBatch, vars, queues
<1> QED BY <1>3, <1>4, <1>5

\* What a step of the system does.
CallEffect(p) ==
  \/ AcceptEffect(p) \/ ReleaseEffect(p) \/ FinishEffect(p) \/ UpstreamEffect(p)
  \/ EscapeEffect(p) \/ (CrashEffect(p) /\ call[p].pc # "idle")

Effect ==
  \/ \E p \in Procs : CallEffect(p)
  \/ \E p \in Procs, t \in Tasks : StartEffect(p, t)
  \/ OutsideEffect

LEMMA NextEffect == ASSUME IndInv, [Next]_vars PROVE Effect
<1>1. ASSUME NEW p \in Procs, Step(p) \/ Escape(p) \/ Crash(p) PROVE CallEffect(p)
  BY <1>1, AcceptEffects, ReleaseEffects, FinishEffects, UpstreamEffects, EscapeEffects, CrashEffects
  DEF Step, CallEffect
<1> QED BY <1>1, StartEffects, OutsideEffects DEF Next, Effect

\* A call that moves, and the task it moves with.
Mover(p, t) ==
  /\ Local(p, t) /\ call[p].t \in {t, NoTask} /\ call'[p].t \in {t, NoTask}
  /\ call'[p].t = NoTask => call'[p] = Idle
  /\ call[p].t = NoTask => call[p] = Idle

\* Every step that is not outside of the calls has a mover.
LEMMA CallMoves ==
  ASSUME IndInv, NEW p \in Procs, CallEffect(p)
  PROVE  call[p].t \in Tasks /\ Mover(p, call[p].t)
<1>1. call[p].pc # "idle"
  BY DEF CallEffect, AcceptEffect, ConcDoes, InsertDoes, JoinDoes, DueDoes, TriggerDoes, SubmitDoes,
         UndoDoes, ReleaseEffect, MetaDoes, ClaimDoes, AcquireDoes, UnclaimDoes, RequeueDoes,
         ScheduleDoes, MaskDoes, BackoutDoes, RecheckDoes, SendDoes, FailCasDoes, FinishEffect,
         FinalDoes, ClaimSlotDoes, GiveSlotDoes, NotifyDoes, ClearDoes, CancelDoes, LeaveDoes,
         UpstreamEffect, PostAcceptedDoes, PostFailedDoes, LandedDoes, ProbeDoes, AdvanceDoes, EscapeEffect,
         Uncaught, At
<1>2. call[p].t \in Tasks
  BY <1>1 DEF IndInv, Good, CallsOK, Idle
<1>3. Local(p, call[p].t)
  BY DEF CallEffect, AcceptEffect, ReleaseEffect, FinishEffect, UpstreamEffect, EscapeEffect,
         CrashEffect
<1>4. Dies(p) \/ call'[p].t = call[p].t
  BY DEF CallEffect, AcceptEffect, ConcDoes, InsertDoes, JoinDoes, DueDoes, TriggerDoes, SubmitDoes,
         UndoDoes, ReleaseEffect, MetaDoes, ClaimDoes, AcquireDoes, UnclaimDoes, RequeueDoes,
         ScheduleDoes, MaskDoes, BackoutDoes, RecheckDoes, SendDoes, FailCasDoes, FinishEffect,
         FinalDoes, ClaimSlotDoes, GiveSlotDoes, NotifyDoes, ClearDoes, CancelDoes, LeaveDoes,
         UpstreamEffect, PostAcceptedDoes, PostFailedDoes, LandedDoes, ProbeDoes, AdvanceDoes,
         EscapeEffect, CrashEffect, Drops, Returned, Goes, ToSlot, Learns, Luggage
<1> QED BY <1>2, <1>3, <1>4, TasksAssumption DEF Mover, Dies, Idle

\* The messages and dead letters a step of a call adds are its own.
LEMMA CallPublishes ==
  ASSUME NEW p \in Procs, CallEffect(p)
  PROVE  Drops(p) \/ UNCHANGED <<submits, dlq>> \/ (Sent(call[p].t) /\ UNCHANGED dlq)
  BY DEF CallEffect, AcceptEffect, ConcDoes, InsertDoes, JoinDoes, DueDoes, TriggerDoes,
         SubmitDoes, UndoDoes, ReleaseEffect, MetaDoes, ClaimDoes, AcquireDoes, UnclaimDoes,
         RequeueDoes, ScheduleDoes, MaskDoes, BackoutDoes, RecheckDoes, SendDoes, FailCasDoes,
         FinishEffect, FinalDoes, ClaimSlotDoes, GiveSlotDoes, NotifyDoes, ClearDoes, CancelDoes,
         LeaveDoes, UpstreamEffect, PostAcceptedDoes, PostFailedDoes, LandedDoes, ProbeDoes,
         AdvanceDoes, EscapeEffect, CrashEffect

-------------------------------------------------------------------------------
(* What a call knows                                                       *)

\* A call that only a finished task has.
Ending(c) ==
  c.pc \in {"leave", "notify", "clear"} \/ (c.pc \in SlotLabels /\ c.then # "failcas")

\* About itself.
KnowsSelf(c) ==
  /\ c.pc \in {"join", "due", "trigger"} => c.t \in Batched
  /\ c.pc \in {"conc", "submit"} => c.t \notin Batched
  /\ c.pc \in {"post", "landed"} => c.job
  /\ c.pc = "landed" => c.id # 0
  /\ c.pc = "final" => c.st \in TERMINAL
  /\ c.pc = "advance" => c.st \in ACTIVE

\* About the row of its task.
KnowsRow(c, r) ==
  /\ c.pc \notin FreshLabels \cup {"idle", "undo"} => r.status # "NONE"
  /\ Ending(c) => r.status \in TERMINAL
  /\ c.pc \in {"probe", "advance"} \/ (c.pc = "final" /\ ~c.job) => r.up # 0

Knows == \A p \in Procs : KnowsSelf(call[p]) /\ KnowsRow(call[p], row[call[p].t])

\* What a step may do to a row that another call knows.
Grows(t) ==
  row[t].status # "NONE" =>
    /\ row'[t].status # "NONE"
    /\ row[t].status \in TERMINAL => row'[t].status = row[t].status
    /\ row[t].up # 0 => row'[t].up # 0

LEMMA StatusKinds == Statuses = {"NONE"} \cup ACTIVE \cup TERMINAL
  BY DEF Statuses

LEMMA CallKnows ==
  ASSUME IndInv, Knows, NEW p \in Procs, CallEffect(p)
  PROVE  KnowsSelf(call'[p]) /\ KnowsRow(call'[p], row'[call[p].t]) /\ Grows(call[p].t)
<1> DEFINE t == call[p].t
           r == row[t]
<1>0. KnowsSelf(call[p]) /\ KnowsRow(call[p], r)
  BY DEF Knows
<1>1. call[p] \in Calls /\ RowsOK /\ FreshAlone /\ t \in Tasks
  BY CallMoves DEF IndInv, Good, CallsOK
<1>2. Dies(p) => KnowsSelf(call'[p]) /\ KnowsRow(call'[p], row'[t])
  BY DEF Dies, Idle, KnowsSelf, KnowsRow, Ending, SlotLabels
<1>3. Keeps(t) => Grows(t)
  BY DEF Keeps, Grows
<1> USE DEF At
<1>4. CASE AcceptEffect(p)
  <2>1. CASE ConcDoes(p) \/ JoinDoes(p) \/ TriggerDoes(p) \/ SubmitDoes(p) \/ UndoDoes(p)
    BY <1>0, <1>2, <1>3, <2>1
    DEF ConcDoes, JoinDoes, TriggerDoes, SubmitDoes, UndoDoes, Keeps, Goes, Luggage,
        KnowsSelf, KnowsRow, Ending, SlotLabels, FreshLabels
  <2>2. CASE InsertDoes(p)
    BY <1>0, <1>1, <2>2
    DEF InsertDoes, Keeps, RowIs, Goes, Luggage, KnowsSelf, KnowsRow, Ending, SlotLabels,
        FreshLabels, Grows, FreshAlone
  <2>3. CASE DueDoes(p)
    BY <1>0, <1>1, <2>3
    DEF DueDoes, Keeps, RowIs, Goes, Luggage, KnowsSelf, KnowsRow, Ending, SlotLabels,
        FreshLabels, Grows
  <2> QED BY <1>4, <2>1, <2>2, <2>3 DEF AcceptEffect
<1>5. CASE ReleaseEffect(p)
  <2>1. r.status # "NONE"
    BY <1>0, <1>5 DEF ReleaseEffect, MetaDoes, ClaimDoes, AcquireDoes, UnclaimDoes, RequeueDoes,
       ScheduleDoes, MaskDoes, BackoutDoes, RecheckDoes, SendDoes, FailCasDoes, KnowsRow, FreshLabels
  <2>2. CASE MetaDoes(p) \/ AcquireDoes(p) \/ ScheduleDoes(p) \/ BackoutDoes(p)
    BY <1>0, <1>2, <1>3, <2>1, <2>2
    DEF MetaDoes, AcquireDoes, ScheduleDoes, BackoutDoes, Keeps, Goes, Luggage,
        KnowsSelf, KnowsRow, Ending, SlotLabels
  <2>3. CASE ClaimDoes(p) \/ UnclaimDoes(p) \/ RequeueDoes(p) \/ MaskDoes(p)
    BY <1>0, <1>2, <1>3, <2>1, <2>3
    DEF ClaimDoes, UnclaimDoes, RequeueDoes, MaskDoes, Keeps, Goes, Luggage, RowIs, Grows,
        KnowsSelf, KnowsRow, Ending, SlotLabels
  <2>4. CASE RecheckDoes(p)
    <3>1. r.status \in ACTIVE \cup TERMINAL
      BY <1>1, <2>1, StatusKinds DEF RowsOK, Rows
    <3> QED BY <1>0, <1>3, <2>1, <2>4, <3>1
        DEF RecheckDoes, Keeps, Goes, ToSlot, Luggage, KnowsSelf, KnowsRow, Ending, SlotLabels
  <2>5. CASE SendDoes(p)
    BY <1>0, <1>2, <1>3, <2>1, <2>5
    DEF SendDoes, Keeps, ToSlot, Luggage, KnowsSelf, KnowsRow, Ending, SlotLabels
  <2>6. CASE FailCasDoes(p)
    BY <1>2, <1>3, <2>6 DEF FailCasDoes, RowIs, Grows, TERMINAL
  <2> QED BY <1>5, <2>2, <2>3, <2>4, <2>5, <2>6 DEF ReleaseEffect
<1>6. CASE FinishEffect(p)
  <2>1. r.status # "NONE"
    BY <1>0, <1>6 DEF FinishEffect, FinalDoes, ClaimSlotDoes, GiveSlotDoes, NotifyDoes, ClearDoes,
       CancelDoes, LeaveDoes, KnowsRow, FreshLabels
  <2>3. CASE FinalDoes(p)
    <3>1. call[p].st \in TERMINAL
      BY <1>0, <2>3 DEF FinalDoes, KnowsSelf
    <3> QED BY <1>0, <1>2, <1>3, <2>1, <2>3, <3>1, Disjoint
        DEF FinalDoes, NewUp, RowIs, ToSlot, Luggage, Grows, KnowsSelf, KnowsRow, Ending, SlotLabels
  <2>4. CASE ClaimSlotDoes(p)
    BY <1>0, <1>1, <1>2, <1>3, <2>1, <2>4
    DEF ClaimSlotDoes, Returned, RowIs, Goes, Luggage, Grows, KnowsSelf, KnowsRow, Ending,
        SlotLabels, Calls, Returns
  <2>5. CASE GiveSlotDoes(p)
    BY <1>0, <1>1, <1>2, <1>3, <2>1, <2>5
    DEF GiveSlotDoes, Keeps, Returned, Goes, Luggage, KnowsSelf, KnowsRow, Ending,
        SlotLabels, Calls, Returns
  <2>6. CASE NotifyDoes(p) \/ ClearDoes(p)
    BY <1>0, <1>2, <1>3, <2>1, <2>6
    DEF NotifyDoes, ClearDoes, Keeps, Goes, Luggage, KnowsSelf, KnowsRow, Ending, SlotLabels
  <2>7. CASE CancelDoes(p)
    BY <1>0, <1>2, <1>3, <2>1, <2>7, Disjoint
    DEF CancelDoes, RowIs, Goes, ToSlot, Luggage, Grows, KnowsSelf, KnowsRow, Ending, SlotLabels,
        TERMINAL
  <2>8. CASE LeaveDoes(p)
    BY <1>0, <1>3, <2>1, <2>8
    DEF LeaveDoes, Keeps, ToSlot, Luggage, KnowsSelf, KnowsRow, Ending, SlotLabels
  <2> QED BY <1>6, <2>3, <2>4, <2>5, <2>6, <2>7, <2>8 DEF FinishEffect
<1>7. CASE UpstreamEffect(p)
  <2>1. r.status # "NONE"
    BY <1>0, <1>7 DEF UpstreamEffect, PostAcceptedDoes, PostFailedDoes, LandedDoes, ProbeDoes,
       AdvanceDoes, KnowsRow, FreshLabels
  <2>2. Drops(p) => Dies(p)
    BY DEF Drops
  <2>3. CASE PostAcceptedDoes(p)
    <3>1. orders[t] \in Nat
      BY <2>3 DEF IndInv, RestOK, Good, CallsOK, Idle, PostAcceptedDoes
    <3> QED BY <1>0, <1>3, <2>1, <2>3, <3>1
        DEF PostAcceptedDoes, Keeps, Learns, KnowsSelf, KnowsRow, Ending, SlotLabels
  <2>4. CASE PostFailedDoes(p)
    BY <1>0, <1>2, <1>3, <2>1, <2>2, <2>4
    DEF PostFailedDoes, Keeps, Learns, KnowsSelf, KnowsRow, Ending, SlotLabels, TERMINAL
  <2>5. CASE LandedDoes(p)
    BY <1>2, <1>3, <2>1, <2>5, Disjoint DEF LandedDoes, NewUp, RowIs, Grows
  <2>6. CASE ProbeDoes(p)
    BY <1>0, <1>2, <1>3, <2>1, <2>6
    DEF ProbeDoes, Keeps, Learns, KnowsSelf, KnowsRow, Ending, SlotLabels
  <2>7. CASE AdvanceDoes(p)
    <3>1. call[p].st \in ACTIVE
      BY <1>0, <2>7 DEF AdvanceDoes, KnowsSelf
    <3> QED BY <1>2, <1>3, <2>1, <2>7, <3>1, Disjoint DEF AdvanceDoes, RowIs, Grows
  <2> QED BY <1>7, <2>3, <2>4, <2>5, <2>6, <2>7 DEF UpstreamEffect
<1>8. CASE CrashEffect(p)
  BY <1>2, <1>3, <1>8 DEF CrashEffect
<1>9. CASE EscapeEffect(p)
  BY <1>2, <1>3, <1>9 DEF EscapeEffect, Drops
<1> QED BY <1>4, <1>5, <1>6, <1>7, <1>8, <1>9 DEF CallEffect

LEMMA StartKnows ==
  ASSUME IndInv, Knows, NEW p \in Procs, NEW t \in Tasks, StartEffect(p, t)
  PROVE  /\ Grows(t)
         /\ \/ UNCHANGED call
            \/ /\ call'[p].t = t /\ call[p] = Idle
               /\ KnowsSelf(call'[p]) /\ KnowsRow(call'[p], row'[t])
<1> USE DEF KnowsSelf, KnowsRow, Ending, SlotLabels, FreshLabels, Begins, Keeps, Grows
<1>1. CASE RequestBegins(p, t)
  BY <1>1 DEF RequestBegins
<1>2. CASE ReleaseBegins(p, t)
  BY <1>2, Disjoint DEF ReleaseBegins, Releasable
<1>3. CASE RescueBegins(p, t)
  BY <1>3 DEF RescueBegins, RowIs
<1>4. CASE SubmissionBegins(p, t)
  BY <1>4, Disjoint DEF SubmissionBegins, Submittable
<1>5. CASE ProbeBegins(p, t) \/ CancelBegins(p, t)
  BY <1>5, Disjoint DEF ProbeBegins, CancelBegins
<1> QED BY <1>1, <1>2, <1>3, <1>4, <1>5 DEF StartEffect

LEMMA KnowsKept == ASSUME IndInv, Knows, Effect PROVE Knows'
<1>1. ASSUME NEW p \in Procs, CallEffect(p) PROVE Knows'
  <2> SUFFICES ASSUME NEW q \in Procs
               PROVE  KnowsSelf(call'[q]) /\ KnowsRow(call'[q], row'[call'[q].t])
    BY DEF Knows
  <2>1. /\ KnowsSelf(call'[p]) /\ KnowsRow(call'[p], row'[call[p].t]) /\ Grows(call[p].t)
        /\ Mover(p, call[p].t) /\ call[p].t \in Tasks
    BY <1>1, CallKnows, CallMoves
  <2>2. CASE q = p
    BY <2>1, <2>2 DEF Mover, Idle, KnowsSelf, KnowsRow, Ending, SlotLabels
  <2>3. CASE q # p
    <3>1. call'[q] = call[q] /\ KnowsSelf(call[q]) /\ KnowsRow(call[q], row[call[q].t])
      BY <2>1, <2>3 DEF Mover, Local, Knows
    <3>2. CASE call[q].t # call[p].t /\ call[q].t \in Tasks
      BY <2>1, <3>1, <3>2 DEF Mover, Local
    <3>3. CASE call[q].t \notin Tasks
      BY <3>1, <3>3 DEF IndInv, Good, CallsOK, Idle, KnowsRow, Ending, SlotLabels
    <3>4. CASE call[q].t = call[p].t
      BY <2>1, <3>1, <3>4, Disjoint DEF Grows, KnowsRow, Ending, SlotLabels, FreshLabels
    <3> QED BY <3>2, <3>3, <3>4
  <2> QED BY <2>2, <2>3
<1>2. ASSUME NEW p \in Procs, NEW t \in Tasks, StartEffect(p, t) PROVE Knows'
  <2> SUFFICES ASSUME NEW q \in Procs
               PROVE  KnowsSelf(call'[q]) /\ KnowsRow(call'[q], row'[call'[q].t])
    BY DEF Knows
  <2>1. /\ Grows(t) /\ Local(p, t)
        /\ \/ UNCHANGED call
           \/ /\ call'[p].t = t /\ call[p] = Idle
              /\ KnowsSelf(call'[p]) /\ KnowsRow(call'[p], row'[t])
    BY <1>2, StartKnows DEF StartEffect
  <2>2. CASE q = p /\ call'[q] # call[q]
    BY <2>1, <2>2
  <2>3. CASE call'[q] = call[q]
    <3>1. KnowsSelf(call[q]) /\ KnowsRow(call[q], row[call[q].t])
      BY DEF Knows
    <3>2. CASE call[q].t # t /\ call[q].t \in Tasks
      BY <2>1, <2>3, <3>1, <3>2 DEF Local
    <3>3. CASE call[q].t \notin Tasks
      BY <2>3, <3>1, <3>3 DEF IndInv, Good, CallsOK, Idle, KnowsRow, Ending, SlotLabels
    <3>4. CASE call[q].t = t
      BY <2>1, <2>3, <3>1, <3>4, Disjoint DEF Grows, KnowsRow, Ending, SlotLabels, FreshLabels
    <3> QED BY <3>2, <3>3, <3>4
  <2> QED BY <2>1, <2>2, <2>3 DEF Local
<1>3. CASE OutsideEffect
  BY <1>3 DEF OutsideEffect, Knows
<1> QED BY <1>1, <1>2, <1>3 DEF Effect

-------------------------------------------------------------------------------
(* Counting slots                                                          *)

\* A request that undoes its acceptance has not inserted its row: the last
\* await that can fail after the INSERT is the publication of the submission.
UndoFresh ==
  \A p \in Procs :
    call[p].pc = "undo" /\ call[p].t \notin Batched => row[call[p].t].status = "NONE"

LEMMA UndoComesFrom ==
  ASSUME "submit" \notin Failing, IndInv, NEW p \in Procs, CallEffect(p), call'[p].pc = "undo"
  PROVE  InsertDoes(p) \/ call[p].pc \in {"join", "due"}
<1>1. ~Dies(p) /\ ~Drops(p)
  BY DEF Dies, Drops, Idle
<1>2. CASE AcceptEffect(p)
  BY <1>1, <1>2 DEF AcceptEffect, ConcDoes, JoinDoes, DueDoes, TriggerDoes, SubmitDoes, UndoDoes,
                    Goes, At
<1>3. CASE ReleaseEffect(p)
  BY <1>1, <1>3
  DEF ReleaseEffect, MetaDoes, ClaimDoes, AcquireDoes, UnclaimDoes, RequeueDoes, ScheduleDoes,
      MaskDoes, BackoutDoes, RecheckDoes, SendDoes, FailCasDoes, Goes, ToSlot
<1>4. CASE FinishEffect(p)
  <2>1. ~Returned(p)
    BY <1>1 DEF Returned, Goes, IndInv, Good, CallsOK, Calls, Returns
  <2> QED BY <1>1, <1>4, <2>1
      DEF FinishEffect, FinalDoes, ClaimSlotDoes, GiveSlotDoes, NotifyDoes, ClearDoes, CancelDoes,
          LeaveDoes, Goes, ToSlot
<1>5. CASE UpstreamEffect(p)
  BY <1>1, <1>5 DEF UpstreamEffect, PostAcceptedDoes, PostFailedDoes, LandedDoes, ProbeDoes,
                    AdvanceDoes, Learns
<1>6. CASE CrashEffect(p)
  BY <1>1, <1>6 DEF CrashEffect
<1>7. CASE EscapeEffect(p)
  BY <1>1, <1>7 DEF EscapeEffect
<1> QED BY <1>2, <1>3, <1>4, <1>5, <1>6, <1>7 DEF CallEffect

LEMMA UndoFreshKept ==
  ASSUME "submit" \notin Failing, IndInv, Knows, UndoFresh, Effect
  PROVE  UndoFresh'
<1> SUFFICES ASSUME NEW q \in Procs, call'[q].pc = "undo", call'[q].t \notin Batched
             PROVE  row'[call'[q].t].status = "NONE"
  BY DEF UndoFresh
<1>1. ASSUME NEW p \in Procs, CallEffect(p) PROVE row'[call'[q].t].status = "NONE"
  <2> DEFINE t == call[p].t
  <2>1. t \in Tasks /\ Mover(p, t) /\ KnowsSelf(call[p]) /\ KnowsRow(call[p], row[t])
    BY <1>1, CallMoves DEF Knows
  <2>2. CASE q = p
    <3>1. CASE InsertDoes(p)
      BY <1>1, <2>1, <2>2, <3>1
      DEF InsertDoes, At, Keeps, Goes, Luggage, IndInv, Good, FreshAlone, FreshLabels
    <3>2. CASE ~InsertDoes(p)
      <4>1. call[p].pc \in {"join", "due"}
        BY <1>1, <2>2, <3>2, UndoComesFrom
      <4> QED BY <2>1, <2>2, <4>1 DEF KnowsSelf, Mover, Idle
    <3> QED BY <3>1, <3>2
  <2>3. CASE q # p
    <3>1. call[q] = call'[q] /\ row[call[q].t].status = "NONE" /\ call[q].t \in Tasks
      BY <2>1, <2>3 DEF Mover, Local, UndoFresh, IndInv, Good, CallsOK, Idle
    <3>2. CASE call[q].t # t
      BY <2>1, <3>1, <3>2 DEF Mover, Local
    <3>3. CASE call[q].t = t
      <4>1. call[p].pc \in {"undo", "idle"}
        BY <2>1, <2>3, <3>1, <3>3
        DEF KnowsRow, FreshLabels, IndInv, Good, FreshAlone
      <4>2. Keeps(t)
        BY <1>1, <4>1
        DEF CallEffect, AcceptEffect, ConcDoes, InsertDoes, JoinDoes, DueDoes, TriggerDoes,
            SubmitDoes, UndoDoes, ReleaseEffect, MetaDoes, ClaimDoes, AcquireDoes, UnclaimDoes,
            RequeueDoes, ScheduleDoes, MaskDoes, BackoutDoes, RecheckDoes, SendDoes, FailCasDoes,
            FinishEffect, FinalDoes, ClaimSlotDoes, GiveSlotDoes, NotifyDoes, ClearDoes,
            CancelDoes, LeaveDoes, UpstreamEffect, PostAcceptedDoes, PostFailedDoes, LandedDoes,
            ProbeDoes, AdvanceDoes, EscapeEffect, CrashEffect, At
      <4> QED BY <3>1, <3>3, <4>2 DEF Keeps
    <3> QED BY <3>2, <3>3
  <2> QED BY <2>2, <2>3
<1>2. ASSUME NEW p \in Procs, NEW t \in Tasks, StartEffect(p, t)
      PROVE  row'[call'[q].t].status = "NONE"
  <2>1. call'[q] = call[q] /\ Local(p, t)
    BY <1>2 DEF StartEffect, Local, RequestBegins, ReleaseBegins, RescueBegins, SubmissionBegins,
                ProbeBegins, CancelBegins, Begins
  <2>2. row[call[q].t].status = "NONE" /\ call[q].t \in Tasks
    BY <2>1 DEF UndoFresh, IndInv, Good, CallsOK, Idle
  <2>3. CASE call[q].t # t
    BY <2>1, <2>2, <2>3 DEF Local
  <2>4. CASE call[q].t = t
    <3>1. Keeps(t)
      BY <1>2, <2>2, <2>4 DEF StartEffect, RequestBegins, ReleaseBegins, RescueBegins,
         SubmissionBegins, ProbeBegins, CancelBegins
    <3> QED BY <2>1, <2>2, <2>4, <3>1 DEF Keeps
  <2> QED BY <2>3, <2>4
<1>3. CASE OutsideEffect
  BY <1>3 DEF OutsideEffect, UndoFresh
<1> QED BY <1>1, <1>2, <1>3 DEF Effect

\* A call that has a slot no mask shows.
Carries(c) == c.pc \in {"mask", "backout", "decr"} \/ (c.pc \in {"insert", "undo"} /\ c.t \notin Batched)

LEMMA CarriersAre == UndoFresh => Carriers = {p \in Procs : Carries(call[p])}
  BY DEF UndoFresh, Carriers, Carries

\* What a step does to the slots of its call and of its task.
Idles(p, t) ==
  /\ HoldsSlot(row'[t]) => HoldsSlot(row[t])
  /\ Carries(call'[p]) => Carries(call[p])
  /\ conc' = conc

Takes(p, t) ==
  /\ HoldsSlot(row'[t]) => HoldsSlot(row[t])
  /\ ~Carries(call[p])
  /\ conc < Limit /\ conc' = conc + 1

Passes(p, t) ==
  /\ \/ Carries(call[p]) /\ ~Carries(call'[p])
     \/ HoldsSlot(row[t]) /\ ~HoldsSlot(row'[t])
  /\ conc' = conc

Gives(p, t) ==
  /\ HoldsSlot(row'[t]) => HoldsSlot(row[t])
  /\ Carries(call[p]) /\ ~Carries(call'[p])
  /\ conc' = Decr(conc)

SlotStep(p, t) == Idles(p, t) \/ Takes(p, t) \/ Passes(p, t) \/ Gives(p, t)

LEMMA CallSlots ==
  ASSUME "submit" \notin Failing, IndInv, Knows, NEW p \in Procs, CallEffect(p)
  PROVE  SlotStep(p, call[p].t)
<1> DEFINE t == call[p].t
           r == row[t]
<1>0. KnowsSelf(call[p])
  BY DEF Knows
<1>1. call[p] \in Calls
  BY DEF IndInv, Good, CallsOK
<1>2. Dies(p) => ~Carries(call'[p])
  BY DEF Dies, Idle, Carries
<1>3. Keeps(t) => HoldsSlot(row'[t]) = HoldsSlot(r)
  BY DEF Keeps
<1>4. Drops(p) => Dies(p)
  BY DEF Drops
<1> USE DEF At, SlotStep
<1>5. CASE AcceptEffect(p)
  <2>1. CASE ConcDoes(p)
    BY <1>0, <1>2, <1>3, <2>1 DEF ConcDoes, Takes, Idles, KnowsSelf, Carries, Goes
  <2>2. CASE InsertDoes(p)
    BY <1>3, <2>2 DEF InsertDoes, Idles, Passes, Carries, Goes, Luggage, RowIs, HoldsSlot
  <2>3. CASE JoinDoes(p) \/ TriggerDoes(p) \/ SubmitDoes(p)
    BY <1>0, <1>2, <1>3, <2>3
    DEF JoinDoes, TriggerDoes, SubmitDoes, Idles, Carries, Goes, Luggage, KnowsSelf
  <2>4. CASE DueDoes(p)
    BY <1>0, <1>3, <2>4 DEF DueDoes, Idles, Carries, Goes, Luggage, KnowsSelf, RowIs, HoldsSlot
  <2>5. CASE UndoDoes(p)
    BY <1>2, <1>3, <2>5 DEF UndoDoes, Idles, Passes, Gives, Carries
  <2> QED BY <1>5, <2>1, <2>2, <2>3, <2>4, <2>5 DEF AcceptEffect
<1>6. CASE ReleaseEffect(p)
  <2>1. CASE MetaDoes(p) \/ ScheduleDoes(p) \/ RecheckDoes(p) \/ SendDoes(p)
    BY <1>2, <1>3, <2>1
    DEF MetaDoes, ScheduleDoes, RecheckDoes, SendDoes, Idles, Carries, Goes, ToSlot
  <2>2. CASE ClaimDoes(p) \/ UnclaimDoes(p) \/ RequeueDoes(p) \/ FailCasDoes(p)
    BY <1>2, <1>3, <2>2
    DEF ClaimDoes, UnclaimDoes, RequeueDoes, FailCasDoes, Idles, Carries, Goes, RowIs, HoldsSlot
  <2>3. CASE AcquireDoes(p)
    BY <1>3, <2>3 DEF AcquireDoes, Takes, Idles, Carries, Goes
  <2>4. CASE MaskDoes(p)
    BY <1>3, <2>4 DEF MaskDoes, Passes, Idles, Carries, Goes
  <2>5. CASE BackoutDoes(p)
    BY <1>3, <2>5 DEF BackoutDoes, Passes, Gives, Carries, Goes
  <2> QED BY <1>6, <2>1, <2>2, <2>3, <2>4, <2>5 DEF ReleaseEffect
<1>7. CASE FinishEffect(p)
  <2>1. Returned(p) => ~Carries(call'[p])
    BY <1>1, <1>2 DEF Returned, Goes, Carries, Calls, Returns
  <2>2. CASE ClaimSlotDoes(p)
    BY <2>1, <2>2 DEF ClaimSlotDoes, Carries, Goes, Passes, Idles, RowIs, HoldsSlot
  <2>3. CASE GiveSlotDoes(p)
    BY <1>3, <2>1, <2>3 DEF GiveSlotDoes, Passes, Gives, Carries
  <2>4. CASE FinalDoes(p) \/ CancelDoes(p)
    BY <1>2, <1>3, <2>4
    DEF FinalDoes, CancelDoes, Idles, Carries, Goes, ToSlot, RowIs, HoldsSlot
  <2>5. CASE NotifyDoes(p) \/ ClearDoes(p) \/ LeaveDoes(p)
    BY <1>2, <1>3, <2>5 DEF NotifyDoes, ClearDoes, LeaveDoes, Idles, Carries, Goes, ToSlot
  <2> QED BY <1>7, <2>2, <2>3, <2>4, <2>5 DEF FinishEffect
<1>8. CASE UpstreamEffect(p)
  <2>1. CASE PostAcceptedDoes(p) \/ PostFailedDoes(p) \/ ProbeDoes(p)
    BY <1>2, <1>3, <1>4, <1>8, <2>1
    DEF UpstreamEffect, PostAcceptedDoes, PostFailedDoes, ProbeDoes, Idles, Carries, Learns
  <2>2. CASE LandedDoes(p) \/ AdvanceDoes(p)
    BY <1>2, <1>3, <1>8, <2>2
    DEF UpstreamEffect, LandedDoes, AdvanceDoes, Idles, RowIs, HoldsSlot
  <2> QED BY <1>8, <2>1, <2>2 DEF UpstreamEffect
<1>9. CASE CrashEffect(p)
  BY <1>2, <1>3, <1>9 DEF CrashEffect, Idles
<1>10. CASE EscapeEffect(p)
  BY <1>2, <1>3, <1>4, <1>10 DEF EscapeEffect, Idles
<1> QED BY <1>5, <1>6, <1>7, <1>8, <1>9, <1>10 DEF CallEffect

LEMMA StartSlots ==
  ASSUME NEW p \in Procs, NEW t \in Tasks, StartEffect(p, t)
  PROVE  Idles(p, t)
  BY DEF StartEffect, RequestBegins, ReleaseBegins, RescueBegins, SubmissionBegins, ProbeBegins,
         CancelBegins, Begins, Idles, Carries, Keeps, RowIs, HoldsSlot

\* Sets that lose an element, gain one at most, or only shrink.
LEMMA Shrinks ==
  ASSUME NEW S, IsFiniteSet(S), NEW T, T \subseteq S
  PROVE  IsFiniteSet(T) /\ Cardinality(T) \in Nat /\ Cardinality(S) \in Nat
         /\ Cardinality(T) <= Cardinality(S)
  BY FS_Subset, FS_CardinalityType

LEMMA GainsOne ==
  ASSUME NEW S, IsFiniteSet(S), NEW x, NEW T, T \subseteq S \cup {x}
  PROVE  Cardinality(T) \in Nat /\ Cardinality(S) \in Nat
         /\ Cardinality(T) <= Cardinality(S) + 1
<1>1. Cardinality(S) \in Nat
  BY FS_CardinalityType
<1>2. IsFiniteSet(S \cup {x})
  BY FS_AddElement
<1>3. Cardinality(S \cup {x}) = IF x \in S THEN Cardinality(S) ELSE Cardinality(S) + 1
  BY FS_AddElement
<1>4. IsFiniteSet(T) /\ Cardinality(T) <= Cardinality(S \cup {x})
  BY <1>2, FS_Subset
<1>5. Cardinality(T) \in Nat
  BY <1>4, FS_CardinalityType
<1> QED BY <1>1, <1>3, <1>4, <1>5

LEMMA LosesOne ==
  ASSUME NEW S, IsFiniteSet(S), NEW x \in S, NEW T, T \subseteq S \ {x}
  PROVE  Cardinality(T) \in Nat /\ Cardinality(S) \in Nat
         /\ Cardinality(T) + 1 <= Cardinality(S)
<1>1. IsFiniteSet(S \ {x}) /\ Cardinality(S \ {x}) = Cardinality(S) - 1
  BY FS_RemoveElement
<1> QED BY <1>1, FS_Subset, FS_CardinalityType

\* The counter covers what is accounted for and stays below the limit.
Accounted ==
  /\ UndoFresh
  /\ conc <= Limit
  /\ NoStolenSlot

LEMMA SlotStepCounts ==
  ASSUME IndInv, UndoFresh', Accounted, NEW p \in Procs, NEW t \in Tasks, Local(p, t), SlotStep(p, t)
  PROVE  Accounted'
<1> DEFINE H == Holders
           C == Carriers
<1>1. /\ IsFiniteSet(H) /\ IsFiniteSet(C)
      /\ Cardinality(H) \in Nat /\ Cardinality(C) \in Nat
  BY TasksAssumption, ProcsAssumption, FS_Subset, FS_CardinalityType DEF Holders, Carriers
<1>2. conc \in Nat /\ conc <= Limit /\ Limit \in Nat /\ conc >= Cardinality(H) + Cardinality(C)
  BY BoundsAssumption DEF Accounted, IndInv, RestOK, NoStolenSlot
<1>3. C = {q \in Procs : Carries(call[q])} /\ C' = {q \in Procs : Carries(call'[q])}
  BY CarriersAre DEF Accounted, UndoFresh, Carriers, Carries
<1>4. H = {o \in Tasks : HoldsSlot(row[o])} /\ H' = {o \in Tasks : HoldsSlot(row'[o])}
  BY DEF Holders
<1>5. /\ (Carries(call'[p]) => Carries(call[p])) => C' \subseteq C
      /\ C' \subseteq C \cup {p}
      /\ Carries(call[p]) /\ ~Carries(call'[p]) => p \in C /\ C' \subseteq C \ {p}
  BY <1>3 DEF Local
<1>6. /\ (HoldsSlot(row'[t]) => HoldsSlot(row[t])) => H' \subseteq H
      /\ H' \subseteq H \cup {t}
      /\ HoldsSlot(row[t]) /\ ~HoldsSlot(row'[t]) => t \in H /\ H' \subseteq H \ {t}
  BY <1>4 DEF Local
<1> HIDE DEF H, C
<1>7. Cardinality(H') \in Nat /\ Cardinality(C') \in Nat
  BY <1>1, <1>5, <1>6, GainsOne
<1>8. CASE Idles(p, t)
  <2>1. Cardinality(H') <= Cardinality(H) /\ Cardinality(C') <= Cardinality(C)
    BY <1>1, <1>5, <1>6, <1>8, Shrinks DEF Idles
  <2>2. conc' = conc
    BY <1>8 DEF Idles
  <2> QED BY <1>1, <1>2, <1>7, <2>1, <2>2 DEF Accounted, NoStolenSlot, H, C
<1>9. CASE Takes(p, t)
  <2>1. Cardinality(H') <= Cardinality(H) /\ Cardinality(C') <= Cardinality(C) + 1
    BY <1>1, <1>5, <1>6, <1>9, Shrinks, GainsOne DEF Takes
  <2>2. conc' = conc + 1 /\ conc < Limit
    BY <1>9 DEF Takes
  <2> QED BY <1>1, <1>2, <1>7, <2>1, <2>2 DEF Accounted, NoStolenSlot, H, C
<1>10. CASE Passes(p, t)
  <2>1. Cardinality(H') + Cardinality(C') <= Cardinality(H) + Cardinality(C)
    <3>1. CASE Carries(call[p]) /\ ~Carries(call'[p])
      <4>1. Cardinality(H') <= Cardinality(H) + 1 /\ Cardinality(C') + 1 <= Cardinality(C)
        BY <1>1, <1>5, <1>6, <3>1, GainsOne, LosesOne
      <4> QED BY <1>1, <1>7, <4>1
    <3>2. CASE HoldsSlot(row[t]) /\ ~HoldsSlot(row'[t])
      <4>1. Cardinality(H') + 1 <= Cardinality(H) /\ Cardinality(C') <= Cardinality(C) + 1
        BY <1>1, <1>5, <1>6, <3>2, GainsOne, LosesOne
      <4> QED BY <1>1, <1>7, <4>1
    <3> QED BY <1>10, <3>1, <3>2 DEF Passes
  <2>2. conc' = conc
    BY <1>10 DEF Passes
  <2> QED BY <1>1, <1>2, <1>7, <2>1, <2>2 DEF Accounted, NoStolenSlot, H, C
<1>11. CASE Gives(p, t)
  <2>1. Cardinality(H') <= Cardinality(H) /\ Cardinality(C') + 1 <= Cardinality(C)
    BY <1>1, <1>5, <1>6, <1>11, Shrinks, LosesOne DEF Gives
  <2>2. conc' = conc - 1
    BY <1>1, <1>2, <1>7, <1>11, <2>1 DEF Gives, Decr
  <2> QED BY <1>1, <1>2, <1>7, <2>1, <2>2 DEF Accounted, NoStolenSlot, H, C
<1> QED BY <1>8, <1>9, <1>10, <1>11 DEF SlotStep

LEMMA AccountedKept ==
  ASSUME "submit" \notin Failing, IndInv, Knows, Accounted, Effect
  PROVE  Accounted'
<1>1. UndoFresh'
  BY UndoFreshKept DEF Accounted
<1>2. ASSUME NEW p \in Procs, CallEffect(p) PROVE Accounted'
  <2>1. call[p].t \in Tasks /\ Local(p, call[p].t) /\ SlotStep(p, call[p].t)
    BY <1>2, CallMoves, CallSlots DEF Mover
  <2> QED BY <1>1, <2>1, SlotStepCounts
<1>3. ASSUME NEW p \in Procs, NEW t \in Tasks, StartEffect(p, t) PROVE Accounted'
  <2>1. Local(p, t) /\ SlotStep(p, t)
    BY <1>3, StartSlots DEF StartEffect, SlotStep
  <2> QED BY <1>1, <2>1, SlotStepCounts
<1>4. CASE OutsideEffect
  BY <1>4 DEF OutsideEffect, Accounted, UndoFresh, NoStolenSlot, Holders, Carriers
<1> QED BY <1>2, <1>3, <1>4 DEF Effect

LEMMA KnowsInit == Init => Knows /\ Accounted
<1> SUFFICES ASSUME Init PROVE Knows /\ Accounted
  OBVIOUS
<1>1. Knows
  BY DEF Init, Idle, Knows, KnowsSelf, KnowsRow, Ending, SlotLabels
<1>2. UndoFresh /\ conc = 0
  BY DEF Init, Idle, UndoFresh
<1>3. Holders = {} /\ Carriers = {}
  BY DEF Init, Idle, Holders, Carriers, HoldsSlot, NoRow
<1> QED BY <1>1, <1>2, <1>3, FS_EmptySet, BoundsAssumption DEF Accounted, NoStolenSlot

LEMMA BaseNext == IndInv /\ Knows /\ [Next]_vars => IndInv' /\ Knows'
  BY NextKeeps, NextEffect, KnowsKept

LEMMA AccountedHolds ==
  ASSUME "submit" \notin Failing
  PROVE  Spec => [](IndInv /\ Knows /\ Accounted)
<1>1. Init => IndInv /\ Knows /\ Accounted
  BY InitGood, KnowsInit
<1>2. IndInv /\ Knows /\ Accounted /\ [Next]_vars => (IndInv /\ Knows /\ Accounted)'
  BY BaseNext, NextEffect, AccountedKept
<1> QED BY <1>1, <1>2, PTL DEF Spec

\* No caller of _release_slot, of _finalize_queue, of a cancellation or of an
\* undone request gives back a slot of another task, for any number of tasks
\* and calls, with crashes, operators and every failure except that of
\* publishing the submission, after which create_queue_task gives back a slot
\* that the row it leaves behind still claims (run double_return).
THEOREM NoSlotStolen ==
  ASSUME "submit" \notin Failing
  PROVE  Spec => []NoStolenSlot
<1>1. IndInv /\ Knows /\ Accounted => NoStolenSlot
  BY DEF Accounted
<1> QED BY <1>1, AccountedHolds, PTL

\* No more tasks of a token have their mask set than max_concurrent_tasks,
\* whatever interleaves, fails, crashes or is requeued, under the same
\* condition.  That the upstream works on no task without a mask is
\* UpstreamWorkCounted, and needs more.
THEOREM GateHolds ==
  ASSUME "submit" \notin Failing
  PROVE  Spec => []ConcurrencyGate
<1>1. IndInv /\ Knows /\ Accounted => ConcurrencyGate
  <2> SUFFICES ASSUME IndInv, Accounted PROVE ConcurrencyGate
    OBVIOUS
  <2>1. Cardinality(Holders) \in Nat /\ Cardinality(Carriers) \in Nat
    BY TasksAssumption, ProcsAssumption, FS_Subset, FS_CardinalityType DEF Holders, Carriers
  <2>2. conc \in Nat /\ Limit \in Nat /\ conc <= Limit
        /\ conc >= Cardinality(Holders) + Cardinality(Carriers)
    BY BoundsAssumption DEF Accounted, IndInv, RestOK, NoStolenSlot
  <2> QED BY <2>1, <2>2 DEF ConcurrencyGate
<1> QED BY <1>1, AccountedHolds, PTL

-------------------------------------------------------------------------------
(* Who returns the slot of a finished task                                 *)

\* The labels of a call that is about to look at the mask of its task.
Owing == {"recheck", "slot", "leave"}

Masked(r) == r.status \in TERMINAL /\ HoldsSlot(r)

\* After a step of p the task has no mask to return, or p returns it, or a
\* crash took p, or the mask was there and it is not p that owes it.
LEMMA CallOwes ==
  ASSUME {"slot", "recheck"} \cap Failing = {}, IndInv, Knows, NEW p \in Procs, CallEffect(p)
  PROVE  LET t == call[p].t IN
         \/ ~Masked(row'[t])
         \/ call'[p].t = t /\ call'[p].pc \in Owing
         \/ t \in lost'
         \/ Masked(row[t]) /\ call[p].pc \notin Owing
<1> DEFINE t == call[p].t
           r == row[t]
<1>0. KnowsSelf(call[p])
  BY DEF Knows
<1> USE DEF At, Masked, Owing
<1>1. Keeps(t) => Masked(row'[t]) = Masked(r)
  BY DEF Keeps
<1>2. CASE AcceptEffect(p)
  BY <1>1, <1>2, Disjoint
  DEF AcceptEffect, ConcDoes, InsertDoes, JoinDoes, DueDoes, TriggerDoes, SubmitDoes, UndoDoes,
      RowIs, HoldsSlot, TERMINAL
<1>3. CASE ReleaseEffect(p)
  <2>1. CASE MetaDoes(p) \/ AcquireDoes(p) \/ ScheduleDoes(p) \/ BackoutDoes(p) \/ SendDoes(p)
    BY <1>1, <2>1 DEF MetaDoes, AcquireDoes, ScheduleDoes, BackoutDoes, SendDoes
  <2>2. CASE ClaimDoes(p) \/ UnclaimDoes(p) \/ RequeueDoes(p) \/ FailCasDoes(p)
    BY <1>1, <2>2 DEF ClaimDoes, UnclaimDoes, RequeueDoes, FailCasDoes, RowIs, HoldsSlot
  <2>3. CASE MaskDoes(p)
    BY <1>1, <2>3 DEF MaskDoes, Goes, Luggage
  <2>4. CASE RecheckDoes(p)
    BY <1>1, <2>4, Disjoint DEF RecheckDoes, ToSlot, Luggage, Keeps
  <2> QED BY <1>3, <2>1, <2>2, <2>3, <2>4 DEF ReleaseEffect
<1>4. CASE FinishEffect(p)
  <2>1. CASE FinalDoes(p)
    BY <1>1, <2>1 DEF FinalDoes, ToSlot, Luggage
  <2>2. CASE ClaimSlotDoes(p)
    BY <2>2 DEF ClaimSlotDoes, RowIs, HoldsSlot
  <2>3. CASE GiveSlotDoes(p) \/ NotifyDoes(p) \/ ClearDoes(p)
    BY <1>1, <2>3 DEF GiveSlotDoes, NotifyDoes, ClearDoes
  <2>4. CASE CancelDoes(p) \/ LeaveDoes(p)
    BY <1>1, <2>4 DEF CancelDoes, LeaveDoes, Goes, ToSlot, Luggage
  <2> QED BY <1>4, <2>1, <2>2, <2>3, <2>4 DEF FinishEffect
<1>5. CASE UpstreamEffect(p)
  <2>1. CASE PostAcceptedDoes(p) \/ PostFailedDoes(p) \/ ProbeDoes(p)
    BY <1>1, <2>1 DEF PostAcceptedDoes, PostFailedDoes, ProbeDoes
  <2>2. CASE LandedDoes(p)
    BY <1>1, <2>2 DEF LandedDoes, RowIs, HoldsSlot, TERMINAL
  <2>3. CASE AdvanceDoes(p)
    BY <1>0, <1>1, <2>3, Disjoint DEF AdvanceDoes, RowIs, KnowsSelf
  <2> QED BY <1>5, <2>1, <2>2, <2>3 DEF UpstreamEffect
<1>6. CASE CrashEffect(p)
  BY <1>6 DEF CrashEffect
<1>7. CASE EscapeEffect(p)
  BY <1>1, <1>7 DEF EscapeEffect, Uncaught
<1> QED BY <1>2, <1>3, <1>4, <1>5, <1>6, <1>7 DEF CallEffect

LEMMA SlotOwedKept ==
  ASSUME {"slot", "recheck"} \cap Failing = {}, IndInv, Knows, SlotOwed, Effect
  PROVE  SlotOwed'
<1> SUFFICES ASSUME NEW o \in Tasks, Masked(row'[o]), o \notin lost'
             PROVE  \E q \in Procs : call'[q].t = o /\ call'[q].pc \in Owing
  BY DEF SlotOwed, Masked, Owing
<1>0. Masked(row[o]) /\ o \notin lost => \E q \in Procs : call[q].t = o /\ call[q].pc \in Owing
  BY DEF SlotOwed, Masked, Owing
<1>1. ASSUME NEW p \in Procs, CallEffect(p)
      PROVE  \E q \in Procs : call'[q].t = o /\ call'[q].pc \in Owing
  <2>1. call[p].t \in Tasks /\ Local(p, call[p].t)
    BY <1>1, CallMoves DEF Mover
  <2>2. lost \subseteq lost'
    BY <1>1 DEF CallEffect, AcceptEffect, ReleaseEffect, FinishEffect, UpstreamEffect, EscapeEffect,
                CrashEffect
  <2>3. CASE o # call[p].t
    BY <1>0, <2>1, <2>2, <2>3 DEF Local
  <2>4. CASE o = call[p].t
    BY <1>0, <1>1, <2>1, <2>2, <2>4, CallOwes DEF Local
  <2> QED BY <2>3, <2>4
<1>2. ASSUME NEW p \in Procs, NEW t \in Tasks, StartEffect(p, t)
      PROVE  \E q \in Procs : call'[q].t = o /\ call'[q].pc \in Owing
  <2>1. Masked(row[o]) /\ lost' = lost
    <3>1. CASE o = t
      BY <1>2, <3>1
      DEF StartEffect, RequestBegins, ReleaseBegins, RescueBegins, SubmissionBegins, ProbeBegins,
          CancelBegins, Keeps, RowIs, Masked, HoldsSlot
    <3> QED BY <1>2, <3>1 DEF StartEffect, Local
  <2>2. PICK q \in Procs : call[q].t = o /\ call[q].pc \in Owing
    BY <1>0, <2>1
  <2>3. call[q] # Idle
    BY <2>2 DEF Idle, Owing
  <2>4. call'[q] = call[q]
    BY <1>2, <2>3
    DEF StartEffect, Local, RequestBegins, ReleaseBegins, RescueBegins, SubmissionBegins,
        ProbeBegins, CancelBegins, Begins
  <2> QED BY <2>2, <2>4
<1>3. CASE OutsideEffect
  BY <1>0, <1>3 DEF OutsideEffect
<1> QED BY <1>1, <1>2, <1>3 DEF Effect

\* A finished task whose mask is still set has a call that is about to return
\* the slot, or a crash took it, for any number of tasks and calls: a release
\* that masks the row of a task canceled a moment ago finds out and gives the
\* slot back.  Every await may fail but two, after which nobody returns the
\* slot: the second look of the release (run stranded) and
\* claim_slot_release itself.
THEOREM SlotReturned ==
  ASSUME {"slot", "recheck"} \cap Failing = {}
  PROVE  Spec => []SlotOwed
<1>1. Init => IndInv /\ Knows /\ SlotOwed
  BY InitGood, KnowsInit, Disjoint DEF Init, SlotOwed, NoRow, HoldsSlot
<1>2. IndInv /\ Knows /\ SlotOwed /\ [Next]_vars => (IndInv /\ Knows /\ SlotOwed)'
  BY BaseNext, NextEffect, SlotOwedKept
<1>3. IndInv /\ Knows /\ SlotOwed => SlotOwed
  OBVIOUS
<1> QED BY <1>1, <1>2, <1>3, PTL DEF Spec

-------------------------------------------------------------------------------
(* What is on its way to the upstream                                      *)

\* A call that will submit, or has submitted, its task.
Flies(c) == c.pc \in {"submit", "recheck", "send"} \/ c.job

InFlight(t) ==
  \/ row[t].up # 0 \/ submits[t] > 0 \/ t \in dlq
  \/ \E p \in Procs : call[p].t = t /\ Flies(call[p])

Counted(r) == r.status \in TERMINAL \/ (r.status \in ACTIVE /\ HoldsSlot(r))

FliesCounted == \A t \in Tasks : InFlight(t) => Counted(row[t])

\* While no enqueue fails, no call is on the way to declare a release failed.
NoFailedSend == \A p \in Procs : call[p].pc # "failcas" /\ call[p].then # "failcas"

LEMMA NoFailedSendKept ==
  ASSUME "send" \notin Failing, IndInv, NoFailedSend, Effect
  PROVE  NoFailedSend'
<1>0. \A q \in Procs : call'[q] = call[q] => call'[q].pc # "failcas" /\ call'[q].then # "failcas"
  BY DEF NoFailedSend
<1>1. ASSUME NEW p \in Procs, CallEffect(p) PROVE NoFailedSend'
  <2>1. call[p].pc # "failcas" /\ call[p].then # "failcas"
    BY DEF NoFailedSend
  <2>2. Dies(p) \/ Drops(p) => call'[p].pc # "failcas" /\ call'[p].then # "failcas"
    BY DEF Dies, Drops, Idle
  <2>3. call'[p].pc # "failcas" /\ call'[p].then # "failcas"
    <3>1. CASE AcceptEffect(p)
      BY <2>1, <2>2, <3>1 DEF AcceptEffect, ConcDoes, InsertDoes, JoinDoes, DueDoes, TriggerDoes,
         SubmitDoes, UndoDoes, Goes
    <3>2. CASE ReleaseEffect(p)
      BY <2>1, <2>2, <3>2
      DEF ReleaseEffect, MetaDoes, ClaimDoes, AcquireDoes, UnclaimDoes, RequeueDoes, ScheduleDoes,
          MaskDoes, BackoutDoes, RecheckDoes, SendDoes, FailCasDoes, Goes, ToSlot, At
    <3>3. CASE FinishEffect(p)
      BY <2>1, <2>2, <3>3
      DEF FinishEffect, FinalDoes, ClaimSlotDoes, GiveSlotDoes, NotifyDoes, ClearDoes, CancelDoes,
          LeaveDoes, Returned, Goes, ToSlot, At
    <3>4. CASE UpstreamEffect(p)
      BY <2>1, <2>2, <3>4 DEF UpstreamEffect, PostAcceptedDoes, PostFailedDoes, LandedDoes,
         ProbeDoes, AdvanceDoes, Learns
    <3> QED BY <1>1, <2>2, <3>1, <3>2, <3>3, <3>4 DEF CallEffect, EscapeEffect, CrashEffect
  <2> QED BY <1>0, <1>1, <2>3, CallMoves DEF NoFailedSend, Mover, Local
<1>2. ASSUME NEW p \in Procs, NEW t \in Tasks, StartEffect(p, t) PROVE NoFailedSend'
  <2>1. call'[p] = call[p] \/ (call'[p].pc # "failcas" /\ call'[p].then # "failcas")
    BY <1>2
    DEF StartEffect, RequestBegins, ReleaseBegins, RescueBegins, SubmissionBegins,
        ProbeBegins, CancelBegins, Begins
  <2> QED BY <1>0, <1>2, <2>1 DEF NoFailedSend, StartEffect, Local
<1>3. CASE OutsideEffect
  BY <1>3 DEF OutsideEffect, NoFailedSend
<1> QED BY <1>1, <1>2, <1>3 DEF Effect

\* A step of p puts nothing on its way that was not there before.
AddsNothing(p, t) ==
  /\ Flies(call'[p]) => Flies(call[p])
  /\ row'[t].up # 0 => row[t].up # 0 \/ Flies(call[p])
  /\ submits'[t] > 0 => submits[t] > 0 \/ Flies(call[p])
  /\ t \in dlq' => t \in dlq \/ Flies(call[p])

LEMMA CallFlies ==
  ASSUME IndInv, Knows, NoFailedSend, NEW p \in Procs, CallEffect(p)
  PROVE  LET t == call[p].t IN
         \/ Counted(row'[t])
         \/ AddsNothing(p, t) /\ (Counted(row[t]) => Counted(row'[t]))
<1> DEFINE t == call[p].t
           r == row[t]
<1>0. KnowsSelf(call[p]) /\ KnowsRow(call[p], r) /\ t \in Tasks
  BY CallMoves DEF Knows
<1>1. r \in Rows /\ (r.status # "NONE" => r.status \in ACTIVE \cup TERMINAL)
  BY <1>0, StatusKinds DEF IndInv, Good, RowsOK, Rows
<1>2. Dies(p) => ~Flies(call'[p])
  BY DEF Dies, Idle, Flies
<1>3. Drops(p) => ~Flies(call'[p]) /\ (Flies(call[p]) \/ UNCHANGED <<submits, dlq>>)
  BY DEF Drops, Dies, Idle, Flies
<1>4. Keeps(t) => (Counted(r) => Counted(row'[t])) /\ (row'[t].up # 0 => r.up # 0)
  BY DEF Keeps
<1> USE DEF At, AddsNothing
<1>5. CASE AcceptEffect(p)
  <2>1. CASE InsertDoes(p)
    <3>1. ~Counted(r)
      BY <2>1, Disjoint DEF InsertDoes, IndInv, Good, FreshAlone, FreshLabels, Counted
    <3>2. RowIs(t, "SUBMITTED", "waiting", 0, 0, FALSE) => row'[t].up = 0
      BY DEF RowIs
    <3>3. RowIs(t, "SUBMITTED", "none", 1, 0, FALSE) => Counted(row'[t])
      BY DEF RowIs, Counted, HoldsSlot, ACTIVE
    <3> QED BY <1>4, <1>5, <2>1, <3>1, <3>2, <3>3 DEF InsertDoes, AcceptEffect, Goes, Luggage, Flies
  <2>2. CASE DueDoes(p)
    BY <1>4, <1>5, <2>2
    DEF DueDoes, AcceptEffect, Goes, Luggage, Flies, RowIs, Counted, HoldsSlot
  <2>3. CASE ConcDoes(p) \/ JoinDoes(p) \/ TriggerDoes(p) \/ SubmitDoes(p) \/ UndoDoes(p)
    BY <1>2, <1>4, <1>5, <2>3
    DEF ConcDoes, JoinDoes, TriggerDoes, SubmitDoes, UndoDoes, AcceptEffect, Goes, Luggage, Flies
  <2> QED BY <1>5, <2>1, <2>2, <2>3 DEF AcceptEffect
<1>6. CASE ReleaseEffect(p)
  <2>1. CASE MetaDoes(p) \/ AcquireDoes(p) \/ ScheduleDoes(p) \/ BackoutDoes(p)
    BY <1>2, <1>4, <1>6, <2>1
    DEF MetaDoes, AcquireDoes, ScheduleDoes, BackoutDoes, ReleaseEffect, Goes, Luggage, Flies
  <2>2. CASE ClaimDoes(p) \/ UnclaimDoes(p) \/ RequeueDoes(p)
    BY <1>2, <1>4, <1>6, <2>2
    DEF ClaimDoes, UnclaimDoes, RequeueDoes, ReleaseEffect, Goes, Luggage, Flies, RowIs,
        Counted, HoldsSlot
  <2>3. CASE MaskDoes(p)
    <3>1. RowIs(t, r.status, "released", 1, r.up, r.due) => Counted(row'[t])
      BY <1>0, <1>1, <2>3 DEF MaskDoes, KnowsRow, FreshLabels, RowIs, Counted, HoldsSlot
    <3> QED BY <1>4, <1>6, <2>3, <3>1 DEF MaskDoes, ReleaseEffect, Goes, Luggage, Flies
  <2>4. CASE RecheckDoes(p) \/ SendDoes(p)
    BY <1>2, <1>4, <1>6, <2>4
    DEF RecheckDoes, SendDoes, ReleaseEffect, Goes, ToSlot, Luggage, Flies
  <2>5. CASE FailCasDoes(p)
    BY <2>5 DEF FailCasDoes, NoFailedSend
  <2> QED BY <1>6, <2>1, <2>2, <2>3, <2>4, <2>5 DEF ReleaseEffect
<1>7. CASE FinishEffect(p)
  <2>1. CASE FinalDoes(p)
    <3>1. RowIs(t, call[p].st, r.batch, r.slot, NewUp(p), r.due) => Counted(row'[t])
      BY <1>0, <2>1 DEF FinalDoes, KnowsSelf, RowIs, Counted
    <3> QED BY <1>2, <1>4, <1>7, <2>1, <3>1 DEF FinalDoes, FinishEffect
  <2>2. CASE ClaimSlotDoes(p)
    <3>1. r.status \in TERMINAL
      BY <1>0, <2>2 DEF ClaimSlotDoes, KnowsRow, Ending, SlotLabels, NoFailedSend
    <3>2. RowIs(t, r.status, r.batch, 0, r.up, r.due) => Counted(row'[t])
      BY <3>1 DEF RowIs, Counted
    <3> QED BY <2>2, <3>2 DEF ClaimSlotDoes
  <2>3. CASE GiveSlotDoes(p) \/ ClearDoes(p) \/ LeaveDoes(p) \/ NotifyDoes(p)
    <3>1. r.status \in TERMINAL
      BY <1>0, <2>3 DEF GiveSlotDoes, ClearDoes, LeaveDoes, NotifyDoes, KnowsRow, Ending, SlotLabels,
                        NoFailedSend
    <3> QED BY <2>3, <3>1 DEF GiveSlotDoes, ClearDoes, LeaveDoes, NotifyDoes, Keeps, Counted
  <2>4. CASE CancelDoes(p)
    <3>1. RowIs(t, "CANCELED", r.batch, r.slot, r.up, r.due) => Counted(row'[t])
      BY DEF RowIs, Counted, TERMINAL
    <3> QED BY <1>2, <1>4, <1>7, <2>4, <3>1 DEF CancelDoes, FinishEffect
  <2> QED BY <1>7, <2>1, <2>2, <2>3, <2>4 DEF FinishEffect
<1>8. CASE UpstreamEffect(p)
  <2>1. CASE PostAcceptedDoes(p) \/ PostFailedDoes(p)
    BY <1>0, <1>4, <2>1 DEF PostAcceptedDoes, PostFailedDoes, KnowsSelf, Flies
  <2>2. CASE LandedDoes(p)
    <3>1. Flies(call[p])
      BY <1>0, <2>2 DEF LandedDoes, KnowsSelf, Flies
    <3>2. Counted(r) => Counted(row'[t])
      <4>1. CASE r.status \in ACTIVE
        BY <1>4, <2>2, <4>1, Disjoint DEF LandedDoes, RowIs, Counted, HoldsSlot, ACTIVE
      <4>2. CASE r.status \notin ACTIVE
        BY <1>4, <2>2, <4>2 DEF LandedDoes, RowIs, Counted
      <4> QED BY <4>1, <4>2
    <3> QED BY <3>1, <3>2
  <2>3. CASE ProbeDoes(p)
    BY <1>2, <1>4, <2>3 DEF ProbeDoes, Learns, Flies
  <2>4. CASE AdvanceDoes(p)
    <3>1. call[p].st \in ACTIVE
      BY <1>0, <2>4 DEF AdvanceDoes, KnowsSelf
    <3> QED BY <1>2, <1>4, <2>4, <3>1, Disjoint DEF AdvanceDoes, RowIs, Counted, HoldsSlot
  <2> QED BY <1>8, <2>1, <2>2, <2>3, <2>4 DEF UpstreamEffect
<1>9. CASE CrashEffect(p)
  BY <1>2, <1>4, <1>9 DEF CrashEffect
<1>10. CASE EscapeEffect(p)
  BY <1>3, <1>4, <1>10 DEF EscapeEffect
<1> QED BY <1>5, <1>6, <1>7, <1>8, <1>9, <1>10 DEF CallEffect

\* Tasks other than that of the call are on their way as they were.
LEMMA OthersFly ==
  ASSUME NEW p \in Procs, NEW t \in Tasks, Local(p, t), NEW o \in Tasks \ {t},
         call[p].t # o, call'[p].t # o,
         submits'[o] = submits[o], o \in dlq' => o \in dlq
  PROVE  InFlight(o)' => InFlight(o)
  BY DEF InFlight, Local

LEMMA FliesCountedKept ==
  ASSUME "requeue" \notin Operators, IndInv, Knows, NoFailedSend, FliesCounted, Effect
  PROVE  FliesCounted'
<1> SUFFICES ASSUME NEW o \in Tasks, InFlight(o)' PROVE Counted(row'[o])
  BY DEF FliesCounted
<1>0. InFlight(o) => Counted(row[o])
  BY DEF FliesCounted
<1>1. ASSUME NEW p \in Procs, CallEffect(p) PROVE Counted(row'[o])
  <2> DEFINE t == call[p].t
  <2>1. t \in Tasks /\ Mover(p, t) /\ Local(p, t)
    BY <1>1, CallMoves DEF Mover
  <2>2. CASE o # t
    <3>1. submits'[o] = submits[o] /\ (o \in dlq' => o \in dlq)
      <4>1. Drops(p) \/ UNCHANGED <<submits, dlq>> \/ (Sent(t) /\ UNCHANGED dlq)
        BY <1>1, CallPublishes
      <4> QED BY <2>2, <4>1 DEF Drops, Sent
    <3>2. call[p].t # o /\ call'[p].t # o
      BY <2>1, <2>2, TasksAssumption DEF Mover
    <3>3. InFlight(o)
      BY <2>1, <2>2, <3>1, <3>2, OthersFly
    <3> QED BY <1>0, <2>1, <2>2, <3>3 DEF Local
  <2>3. CASE o = t
    <3>1. CASE AddsNothing(p, t) /\ (Counted(row[t]) => Counted(row'[t]))
      <4>1. InFlight(t)
        <5>1. Flies(call[p]) => InFlight(t)
          BY DEF InFlight
        <5>2. \A q \in Procs \ {p} : call'[q].t = t /\ Flies(call'[q]) => InFlight(t)
          BY <2>1 DEF Local, InFlight
        <5>3. /\ row[t].up # 0 => InFlight(t)
              /\ submits[t] > 0 => InFlight(t)
              /\ t \in dlq => InFlight(t)
          BY DEF InFlight
        <5>4. \/ row'[t].up # 0 \/ submits'[t] > 0 \/ t \in dlq'
              \/ \E q \in Procs : call'[q].t = t /\ Flies(call'[q])
          BY <2>3 DEF InFlight, Flies
        <5> QED BY <3>1, <5>1, <5>2, <5>3, <5>4 DEF AddsNothing
      <4> QED BY <1>0, <2>3, <3>1, <4>1
    <3> QED BY <1>1, <2>3, <3>1, CallFlies
  <2> QED BY <2>2, <2>3
<1>2. ASSUME NEW p \in Procs, NEW t \in Tasks, StartEffect(p, t) PROVE Counted(row'[o])
  <2>0. Local(p, t) /\ UNCHANGED dlq /\ (call'[p].t = t \/ UNCHANGED call)
    BY <1>2 DEF StartEffect, RequestBegins, ReleaseBegins, RescueBegins, SubmissionBegins,
                ProbeBegins, CancelBegins, Begins
  <2>1. submits' = submits \/ (submits[t] > 0 /\ \A x \in Tasks \ {t} : submits'[x] = submits[x])
    BY <1>2 DEF StartEffect, RequestBegins, ReleaseBegins, RescueBegins, SubmissionBegins,
                ProbeBegins, CancelBegins
  <2>2. InFlight(o)
    <3>1. CASE o # t
      BY <2>0, <2>1, <3>1 DEF InFlight, Local, Flies
    <3>2. CASE o = t
      <4>1. row'[t].up # 0 => row[t].up # 0
        BY <1>2 DEF StartEffect, RequestBegins, ReleaseBegins, RescueBegins, SubmissionBegins,
                    ProbeBegins, CancelBegins, Keeps, RowIs
      <4>2. Flies(call'[p]) => call'[p] = call[p] \/ submits[t] > 0
        BY <1>2 DEF StartEffect, RequestBegins, ReleaseBegins, RescueBegins, SubmissionBegins,
                    ProbeBegins, CancelBegins, Begins, Flies
      <4> QED BY <2>0, <2>1, <3>2, <4>1, <4>2 DEF InFlight, Local, Flies
    <3> QED BY <3>1, <3>2
  <2>3. CASE o # t
    BY <1>0, <2>0, <2>2, <2>3 DEF Local
  <2>4. CASE o = t
    BY <1>0, <1>2, <2>2, <2>4
    DEF StartEffect, RequestBegins, ReleaseBegins, RescueBegins, SubmissionBegins,
        ProbeBegins, CancelBegins, Keeps, RowIs, Counted, HoldsSlot
  <2> QED BY <2>3, <2>4
<1>3. CASE OutsideEffect
  <2>1. ~InFlight(o) => submits'[o] = submits[o]
    BY <1>3 DEF OutsideEffect, OpsSends, Sent, InFlight
  <2>2. dlq' \subseteq dlq
    BY <1>3 DEF OutsideEffect, OpsSends
  <2>3. InFlight(o)
    BY <1>3, <2>1, <2>2 DEF OutsideEffect, InFlight, Flies
  <2> QED BY <1>0, <1>3, <2>3 DEF OutsideEffect
<1> QED BY <1>1, <1>2, <1>3 DEF Effect

\* Nothing gets to the upstream around the slot: a task whose upstream id is
\* known has its mask set for as long as it is active, for any number of
\* tasks, calls, crashes and replays of dead letters, while no operator
\* requeues a task and every enqueue of a release succeeds.  A requeue may
\* post a task that waits in releasing (run releasing_gate); after a failed
\* enqueue the slot of a task that another release has sent is given back.
THEOREM UpstreamWorkCounted ==
  ASSUME "requeue" \notin Operators, "send" \notin Failing
  PROVE  Spec => []InFlightHoldsSlot
<1> DEFINE I == IndInv /\ Knows /\ NoFailedSend /\ FliesCounted
<1>1. Init => I
  <2>1. Init => NoFailedSend
    BY DEF Init, NoFailedSend, Idle
  <2>2. Init => FliesCounted
    BY DEF Init, FliesCounted, InFlight, Idle, Flies, NoRow
  <2> QED BY <2>1, <2>2, InitGood, KnowsInit
<1>2. I /\ [Next]_vars => I'
  BY BaseNext, NextEffect, NoFailedSendKept, FliesCountedKept
<1>3. I => InFlightHoldsSlot
  BY Disjoint DEF FliesCounted, InFlight, Counted, InFlightHoldsSlot
<1> QED BY <1>1, <1>2, <1>3, PTL DEF Spec

\* The tasks the gateway knows the upstream to be working on.
Working == {t \in Tasks : row[t].status \in ACTIVE /\ row[t].up # 0}

\* The upstream is known to work on no more tasks of a token at a time than
\* max_concurrent_tasks: each of them holds a slot, and there are only so many
\* slots.  The conditions are those of the two theorems it combines.
THEOREM WorkWithinLimit ==
  ASSUME "requeue" \notin Operators, {"submit", "send"} \cap Failing = {}
  PROVE  Spec => [](Cardinality(Working) <= Limit)
<1>1. Spec => []InFlightHoldsSlot
  BY UpstreamWorkCounted
<1>2. Spec => []ConcurrencyGate
  BY GateHolds
<1>3. InFlightHoldsSlot /\ ConcurrencyGate => Cardinality(Working) <= Limit
  <2> SUFFICES ASSUME InFlightHoldsSlot, ConcurrencyGate PROVE Cardinality(Working) <= Limit
    OBVIOUS
  <2>1. Working \subseteq Holders
    BY DEF InFlightHoldsSlot, Working, Holders
  <2>2. IsFiniteSet(Holders)
    BY TasksAssumption, FS_Subset DEF Holders
  <2>3. /\ Cardinality(Working) \in Nat /\ Cardinality(Holders) \in Nat
        /\ Cardinality(Working) <= Cardinality(Holders)
    BY <2>1, <2>2, Shrinks
  <2>4. Cardinality(Holders) <= Limit /\ Limit \in Nat
    BY BoundsAssumption DEF ConcurrencyGate
  <2> QED BY <2>3, <2>4
<1> QED BY <1>1, <1>2, <1>3, PTL
===============================================================================
