---------------------------- MODULE ReleaseProofs ----------------------------
(***************************************************************************)
(* Releases: no accepted task is stranded, one call at a time has the      *)
(* right to release a task, the upstream creates one task for it besides   *)
(* those nobody wrote down, and the counter of slots is exact.             *)
(*                                                                         *)
(* Pushed says what drives a task that is released and not yet known to    *)
(* the upstream: a message, a dead letter or a call; before that it is the *)
(* sweep. ClaimOK and OneClaim say who may release a task, and TokenOK     *)
(* passes the right to submit it from there on: one message, one call or   *)
(* one dead letter at a time has it, until the answer is in the row.       *)
(***************************************************************************)
EXTENDS SlotProofs

-------------------------------------------------------------------------------
(* What drives an accepted task                                            *)

\* A task the upstream does not know yet.
Wanting(r) == r.status \in ACTIVE /\ r.up = 0

\* Its release has not been written: the sweep is in charge of it, and after
\* that a submit message.
Held(r) == r.batch \in BATCH_WAITING_STATES \cup {"releasing"}

Wants(r) == Wanting(r) /\ ~Held(r)

Moved(t) == submits[t] > 0 \/ t \in dlq

\* The calls that will see to it.
Pushes(c) ==
  \/ c.pc \in {"submit", "recheck", "send", "failcas"}
  \/ c.pc \in SlotLabels /\ c.then = "failcas"
  \/ c.job /\ c.pc \in {"post", "landed", "final"}

Pushed ==
  \A t \in Tasks :
    Wants(row[t]) /\ t \notin lost =>
      Moved(t) \/ \E p \in Procs : call[p].t = t /\ Pushes(call[p])

\* Only a task the upstream knows leaves SUBMITTED for another active status,
\* a requeued task has its batch_due_at, an active one its session.
RowShape ==
  \A t \in Tasks :
    /\ Wanting(row[t]) => row[t].status = "SUBMITTED"
    /\ row[t].batch = "requeued" => row[t].due
    /\ row[t].status \in ACTIVE => t \in session

ShapeOK(t) ==
  /\ Wanting(row[t]) => row[t].status = "SUBMITTED"
  /\ row[t].batch = "requeued" => row[t].due
  /\ row[t].status \in ACTIVE => t \in session

LEMMA CallShape ==
  ASSUME IndInv, Knows, RowShape, NEW p \in Procs, CallEffect(p), NEW t \in Tasks, t = call[p].t
  PROVE  ShapeOK(t)'
<1> DEFINE r == row[t]
<1>0. KnowsSelf(call[p]) /\ KnowsRow(call[p], r) /\ t \in Tasks
  BY CallMoves DEF Knows
<1>1. ShapeOK(t)
  BY <1>0 DEF RowShape, ShapeOK
<1>2. Keeps(t) /\ session \subseteq session' => ShapeOK(t)'
  BY <1>1 DEF Keeps, ShapeOK, Wanting
<1> USE DEF At
<1>3. CASE AcceptEffect(p)
  <2>1. CASE ConcDoes(p) \/ JoinDoes(p) \/ TriggerDoes(p) \/ SubmitDoes(p) \/ UndoDoes(p)
    BY <1>2, <2>1 DEF ConcDoes, JoinDoes, TriggerDoes, SubmitDoes, UndoDoes
  <2>2. CASE InsertDoes(p)
    BY <1>2, <2>2 DEF InsertDoes, RowIs, ShapeOK, Wanting
  <2>3. CASE DueDoes(p)
    BY <1>1, <1>2, <2>3 DEF DueDoes, RowIs, ShapeOK, Wanting
  <2> QED BY <1>3, <2>1, <2>2, <2>3 DEF AcceptEffect
<1>4. CASE ReleaseEffect(p)
  <2>1. CASE MetaDoes(p) \/ AcquireDoes(p) \/ ScheduleDoes(p) \/ BackoutDoes(p) \/ RecheckDoes(p)
             \/ SendDoes(p)
    BY <1>2, <1>4, <2>1
    DEF MetaDoes, AcquireDoes, ScheduleDoes, BackoutDoes, RecheckDoes, SendDoes, ReleaseEffect
  <2>2. CASE ClaimDoes(p) \/ UnclaimDoes(p) \/ RequeueDoes(p) \/ MaskDoes(p)
    BY <1>1, <1>2, <1>4, <2>2
    DEF ClaimDoes, UnclaimDoes, RequeueDoes, MaskDoes, ReleaseEffect, RowIs, ShapeOK, Wanting
  <2>3. CASE FailCasDoes(p)
    BY <1>2, <1>4, <2>3 DEF FailCasDoes, ReleaseEffect, RowIs, ShapeOK, Wanting, ACTIVE
  <2> QED BY <1>4, <2>1, <2>2, <2>3 DEF ReleaseEffect
<1>5. CASE FinishEffect(p)
  <2>1. CASE FinalDoes(p)
    <3>1. call[p].st \notin ACTIVE
      BY <1>0, <2>1, Disjoint DEF FinalDoes, KnowsSelf
    <3> QED BY <1>1, <1>2, <2>1, <3>1 DEF FinalDoes, RowIs, ShapeOK, Wanting
  <2>2. CASE ClaimSlotDoes(p)
    BY <1>1, <1>2, <2>2 DEF ClaimSlotDoes, RowIs, ShapeOK, Wanting
  <2>3. CASE GiveSlotDoes(p) \/ NotifyDoes(p) \/ LeaveDoes(p)
    BY <1>2, <2>3 DEF GiveSlotDoes, NotifyDoes, LeaveDoes
  <2>4. CASE ClearDoes(p)
    BY <1>0, <1>1, <2>4, Disjoint DEF ClearDoes, KnowsRow, Ending, Keeps, ShapeOK, Wanting
  <2>5. CASE CancelDoes(p)
    BY <1>1, <1>2, <2>5 DEF CancelDoes, RowIs, ShapeOK, Wanting, ACTIVE
  <2> QED BY <1>5, <2>1, <2>2, <2>3, <2>4, <2>5 DEF FinishEffect
<1>6. CASE UpstreamEffect(p)
  <2>1. CASE PostAcceptedDoes(p) \/ PostFailedDoes(p) \/ ProbeDoes(p)
    BY <1>2, <1>6, <2>1 DEF PostAcceptedDoes, PostFailedDoes, ProbeDoes, UpstreamEffect
  <2>2. CASE LandedDoes(p)
    <3>1. NewUp(p) # 0
      BY <1>0, <2>2 DEF LandedDoes, KnowsSelf, NewUp
    <3> QED BY <1>1, <1>2, <1>6, <2>2, <3>1 DEF LandedDoes, UpstreamEffect, RowIs, ShapeOK, Wanting
  <2>3. CASE AdvanceDoes(p)
    <3>1. r.up # 0
      BY <1>0, <2>3 DEF AdvanceDoes, KnowsRow
    <3> QED BY <1>1, <1>2, <1>6, <2>3, <3>1 DEF AdvanceDoes, UpstreamEffect, RowIs, ShapeOK, Wanting
  <2> QED BY <1>6, <2>1, <2>2, <2>3 DEF UpstreamEffect
<1>7. CASE EscapeEffect(p) \/ CrashEffect(p)
  BY <1>2, <1>7 DEF EscapeEffect, CrashEffect
<1> QED BY <1>3, <1>4, <1>5, <1>6, <1>7 DEF CallEffect

LEMMA ShapeKept == ASSUME IndInv, Knows, RowShape, Effect PROVE RowShape'
<1> SUFFICES ASSUME NEW o \in Tasks PROVE ShapeOK(o)'
  BY DEF RowShape, ShapeOK
<1>0. ShapeOK(o)
  BY DEF RowShape, ShapeOK
<1>1. ASSUME NEW p \in Procs, CallEffect(p) PROVE ShapeOK(o)'
  <2>1. call[p].t \in Tasks /\ Local(p, call[p].t)
    BY <1>1, CallMoves DEF Mover
  <2>2. session' \in {session, session \cup {call[p].t}, session \ {call[p].t}}
    BY <1>1
    DEF CallEffect, AcceptEffect, ConcDoes, InsertDoes, JoinDoes, DueDoes, TriggerDoes, SubmitDoes,
        UndoDoes, ReleaseEffect, FinishEffect, FinalDoes, ClaimSlotDoes, GiveSlotDoes, NotifyDoes,
        ClearDoes, CancelDoes, LeaveDoes, UpstreamEffect, EscapeEffect, CrashEffect
  <2>3. CASE o # call[p].t
    BY <1>0, <2>1, <2>2, <2>3 DEF Local, ShapeOK, Wanting
  <2>4. CASE o = call[p].t
    BY <1>1, <2>4, CallShape
  <2> QED BY <2>3, <2>4
<1>2. ASSUME NEW p \in Procs, NEW t \in Tasks, StartEffect(p, t) PROVE ShapeOK(o)'
  <2>1. CASE o # t
    BY <1>0, <1>2, <2>1 DEF StartEffect, Local, ShapeOK, Wanting
  <2>2. CASE o = t
    BY <1>0, <1>2, <2>2
    DEF StartEffect, RequestBegins, ReleaseBegins, RescueBegins, SubmissionBegins, ProbeBegins,
        CancelBegins, Keeps, RowIs, ShapeOK, Wanting
  <2> QED BY <2>1, <2>2
<1>3. CASE OutsideEffect
  BY <1>0, <1>3 DEF OutsideEffect, ShapeOK, Wanting
<1> QED BY <1>1, <1>2, <1>3 DEF Effect

\* A step of p leaves its task settled, struck by a crash or driven, by data
\* or by p; or nothing drove it but another call, which the step does not
\* touch.
LEMMA CallDrives ==
  ASSUME {"submit", "recheck"} \cap Failing = {},
         {"slot", "failcas"} \cap Failing = {} \/ NoFailedSend,
         IndInv, Knows, RowShape, NEW p \in Procs, CallEffect(p), NEW t \in Tasks, t = call[p].t
  PROVE  \/ ~Wants(row'[t]) \/ t \in lost' \/ Moved(t)'
         \/ call'[p].t = t /\ Pushes(call'[p])
         \/ Wants(row[t]) /\ ~Moved(t) /\ ~Pushes(call[p])
<1> DEFINE r == row[t]
           Cared == \/ ~Wants(row'[t]) \/ t \in lost' \/ Moved(t)'
                    \/ call'[p].t = t /\ Pushes(call'[p])
           Still == Wants(r) /\ ~Moved(t) /\ ~Pushes(call[p])
<1> SUFFICES Cared \/ Still
  OBVIOUS
<1>0. KnowsSelf(call[p]) /\ KnowsRow(call[p], r) /\ t \in Tasks
  BY CallMoves DEF Knows
<1>1. ShapeOK(t) /\ submits[t] \in Nat
  BY <1>0 DEF RowShape, ShapeOK, IndInv, RestOK
<1>2. Keeps(t) => (Wants(row'[t]) <=> Wants(r))
  BY DEF Keeps
<1>3. Drops(p) /\ call[p].job => Moved(t)'
  BY <1>0 DEF Drops, Sent, Moved, IndInv, RestOK
<1>4. UNCHANGED <<submits, dlq>> => (Moved(t)' <=> Moved(t))
  BY DEF Moved
<1>40. Keeps(t) /\ UNCHANGED <<submits, dlq>> /\ ~Pushes(call[p]) => Cared \/ Still
  BY <1>2, <1>4
<1> USE DEF At
<1>5. CASE AcceptEffect(p)
  <2>1. CASE ConcDoes(p) \/ JoinDoes(p) \/ TriggerDoes(p) \/ UndoDoes(p)
    BY <1>40, <1>5, <2>1
    DEF ConcDoes, JoinDoes, TriggerDoes, UndoDoes, AcceptEffect, Pushes, SlotLabels
  <2>2. CASE InsertDoes(p)
    BY <1>40, <1>5, <2>2
    DEF InsertDoes, AcceptEffect, RowIs, Goes, Luggage, Pushes, SlotLabels, Wants, Held,
        BATCH_WAITING_STATES
  <2>3. CASE DueDoes(p)
    <3>1. Wants(row'[t]) <=> Wants(r)
      BY <1>2, <2>3 DEF DueDoes, RowIs, Wants, Wanting, Held
    <3> QED BY <1>4, <1>5, <2>3, <3>1 DEF DueDoes, AcceptEffect, Pushes, SlotLabels
  <2>4. CASE SubmitDoes(p)
    BY <2>4 DEF SubmitDoes, Sent, Moved
  <2> QED BY <1>5, <2>1, <2>2, <2>3, <2>4 DEF AcceptEffect
<1>6. CASE ReleaseEffect(p)
  <2>1. CASE MetaDoes(p) \/ AcquireDoes(p) \/ ScheduleDoes(p) \/ BackoutDoes(p)
    BY <1>40, <1>6, <2>1
    DEF MetaDoes, AcquireDoes, ScheduleDoes, BackoutDoes, ReleaseEffect, Pushes, SlotLabels
  <2>2. CASE ClaimDoes(p) \/ UnclaimDoes(p) \/ RequeueDoes(p)
    <3>1. Keeps(t) \/ ~Wants(row'[t])
      BY <2>2 DEF ClaimDoes, UnclaimDoes, RequeueDoes, RowIs, Wants, Held, BATCH_WAITING_STATES
    <3> QED BY <1>40, <1>6, <2>2, <3>1
        DEF ClaimDoes, UnclaimDoes, RequeueDoes, ReleaseEffect, Pushes, SlotLabels
  <2>3. CASE MaskDoes(p)
    BY <1>40, <1>6, <2>3
    DEF MaskDoes, ReleaseEffect, Goes, Luggage, Pushes, SlotLabels
  <2>4. CASE RecheckDoes(p)
    BY <1>2, <2>4 DEF RecheckDoes, Goes, Luggage, Pushes, Wants, Wanting
  <2>5. CASE SendDoes(p)
    BY <2>5 DEF SendDoes, Sent, ToSlot, Luggage, Moved, Pushes, SlotLabels
  <2>6. CASE FailCasDoes(p)
    BY <1>1, <1>2, <2>6 DEF FailCasDoes, RowIs, Wants, Wanting, ShapeOK, ACTIVE
  <2> QED BY <1>6, <2>1, <2>2, <2>3, <2>4, <2>5, <2>6 DEF ReleaseEffect
<1>7. CASE FinishEffect(p)
  <2>1. Ending(call[p]) => ~Wants(r)
    BY <1>0, Disjoint DEF KnowsRow, Wants, Wanting
  <2>2. CASE FinalDoes(p)
    <3>1. RowIs(t, call[p].st, r.batch, r.slot, NewUp(p), r.due) => ~Wants(row'[t])
      BY <1>0, <2>2, Disjoint DEF FinalDoes, KnowsSelf, RowIs, Wants, Wanting
    <3>2. r.status \notin ACTIVE /\ Keeps(t) => ~Wants(row'[t])
      BY DEF Keeps, Wants, Wanting
    <3> QED BY <2>2, <3>1, <3>2 DEF FinalDoes
  <2>3. CASE ClaimSlotDoes(p) \/ GiveSlotDoes(p)
    <3>1. Wants(row'[t]) <=> Wants(r)
      BY <1>2, <2>3 DEF ClaimSlotDoes, GiveSlotDoes, RowIs, Wants, Wanting, Held
    <3>2. CASE call[p].then # "failcas"
      BY <2>1, <2>3, <3>1, <3>2 DEF ClaimSlotDoes, GiveSlotDoes, Ending, SlotLabels
    <3>3. CASE call[p].then = "failcas"
      BY <2>3, <3>3 DEF ClaimSlotDoes, GiveSlotDoes, Returned, Goes, Luggage, Pushes, SlotLabels
    <3> QED BY <3>2, <3>3
  <2>4. CASE NotifyDoes(p) \/ ClearDoes(p) \/ LeaveDoes(p)
    BY <1>2, <2>1, <2>4 DEF NotifyDoes, ClearDoes, LeaveDoes, Ending
  <2>5. CASE CancelDoes(p)
    BY <1>2, <2>5 DEF CancelDoes, RowIs, Wants, Wanting, ACTIVE
  <2> QED BY <1>7, <2>2, <2>3, <2>4, <2>5 DEF FinishEffect
<1>8. CASE UpstreamEffect(p)
  <2>1. CASE PostAcceptedDoes(p)
    BY <1>0, <2>1 DEF PostAcceptedDoes, KnowsSelf, Learns, Pushes
  <2>2. CASE PostFailedDoes(p)
    BY <1>0, <1>3, <2>2 DEF PostFailedDoes, KnowsSelf, Learns, Pushes
  <2>3. CASE LandedDoes(p)
    <3>1. NewUp(p) # 0
      BY <1>0, <2>3 DEF LandedDoes, KnowsSelf, NewUp
    <3> QED BY <2>3, <3>1 DEF LandedDoes, RowIs, Wants, Wanting
  <2>4. CASE ProbeDoes(p) \/ AdvanceDoes(p)
    <3>1. r.up # 0
      BY <1>0, <2>4 DEF ProbeDoes, AdvanceDoes, KnowsRow
    <3> QED BY <1>2, <2>4, <3>1 DEF ProbeDoes, AdvanceDoes, RowIs, Wants, Wanting
  <2> QED BY <1>8, <2>1, <2>2, <2>3, <2>4 DEF UpstreamEffect
<1>9. CASE EscapeEffect(p)
  <2>1. CASE call[p].job
    BY <1>3, <1>9, <2>1 DEF EscapeEffect
  <2>2. CASE ~call[p].job
    <3>1. ~Pushes(call[p])
      BY <1>9, <2>2 DEF EscapeEffect, Uncaught, Pushes, SlotLabels, NoFailedSend
    <3>2. Keeps(t) /\ UNCHANGED <<submits, dlq>>
      BY <1>9, <2>2 DEF EscapeEffect, Drops
    <3> QED BY <1>40, <3>1, <3>2
  <2> QED BY <2>1, <2>2
<1>10. CASE CrashEffect(p)
  BY <1>10 DEF CrashEffect
<1> QED BY <1>5, <1>6, <1>7, <1>8, <1>9, <1>10 DEF CallEffect

LEMMA PushedKept ==
  ASSUME {"submit", "recheck"} \cap Failing = {},
         {"slot", "failcas"} \cap Failing = {} \/ NoFailedSend,
         IndInv, Knows, RowShape, Pushed, Effect
  PROVE  Pushed'
<1> DEFINE Fine(o) == Moved(o) \/ \E q \in Procs : call[q].t = o /\ Pushes(call[q])
<1> SUFFICES ASSUME NEW o \in Tasks, Wants(row'[o]), o \notin lost'
             PROVE  Fine(o)'
  BY DEF Pushed
<1>0. Wants(row[o]) /\ o \notin lost => Fine(o)
  BY DEF Pushed
<1>1. ASSUME NEW p \in Procs, CallEffect(p) PROVE Fine(o)'
  <2> DEFINE t == call[p].t
  <2>1. t \in Tasks /\ Local(p, t)
    BY <1>1, CallMoves DEF Mover
  <2>2. lost \subseteq lost'
    BY <1>1 DEF CallEffect, AcceptEffect, ReleaseEffect, FinishEffect, UpstreamEffect, EscapeEffect,
       CrashEffect
  <2>3. CASE o # t
    <3>1. submits'[o] = submits[o] /\ (o \in dlq' <=> o \in dlq)
      <4>1. Drops(p) \/ UNCHANGED <<submits, dlq>> \/ (Sent(t) /\ UNCHANGED dlq)
        BY <1>1, CallPublishes
      <4> QED BY <2>3, <4>1 DEF Drops, Sent
    <3>2. row'[o] = row[o] /\ \A q \in Procs \ {p} : call'[q] = call[q]
      BY <2>1, <2>3 DEF Local
    <3> QED BY <1>0, <2>2, <2>3, <3>1, <3>2 DEF Moved
  <2>4. CASE o = t
    <3>1. \/ Moved(o)'
          \/ call'[p].t = o /\ Pushes(call'[p])
          \/ Wants(row[o]) /\ ~Moved(o) /\ ~Pushes(call[p])
      BY <1>1, <2>4, CallDrives
    <3>2. ASSUME Wants(row[o]), ~Moved(o), ~Pushes(call[p])
          PROVE  \E q \in Procs : call'[q].t = o /\ Pushes(call'[q])
      <4>1. PICK q \in Procs : call[q].t = o /\ Pushes(call[q])
        BY <1>0, <2>2, <3>2
      <4>2. q # p /\ call'[q] = call[q]
        BY <2>1, <3>2, <4>1 DEF Local
      <4> QED BY <4>1, <4>2
    <3> QED BY <3>1, <3>2
  <2> QED BY <2>3, <2>4
<1>2. ASSUME NEW p \in Procs, NEW t \in Tasks, StartEffect(p, t) PROVE Fine(o)'
  <2>1. Local(p, t) /\ UNCHANGED <<session, dlq, lost>>
    BY <1>2 DEF StartEffect
  <2>2. UNCHANGED call \/ call[p] = Idle
    BY <1>2 DEF StartEffect, RequestBegins, ReleaseBegins, RescueBegins, SubmissionBegins,
                ProbeBegins, CancelBegins, Begins
  <2>3. \A q \in Procs : Pushes(call[q]) => call'[q] = call[q]
    BY <2>1, <2>2 DEF Pushes, Local, Idle, SlotLabels
  <2>4. CASE o # t
    <3>1. row'[o] = row[o] /\ submits'[o] = submits[o]
      BY <1>2, <2>1, <2>4 DEF Local, StartEffect, RequestBegins, ReleaseBegins, RescueBegins,
         SubmissionBegins, ProbeBegins, CancelBegins
    <3> QED BY <1>0, <2>1, <2>3, <3>1 DEF Moved
  <2>5. CASE o = t /\ RescueBegins(p, t)
    BY <2>5 DEF RescueBegins, RowIs, Wants, Held, BATCH_WAITING_STATES
  <2>6. CASE o = t /\ SubmissionBegins(p, t)
    <3>1. row'[o] = row[o] /\ Wants(row[o]) /\ o \in session
      BY <2>6 DEF SubmissionBegins, Keeps, Wants, Wanting, RowShape
    <3>2. Submittable(o)
      BY <3>1 DEF Submittable, Wants, Wanting, Held
    <3>3. Begins(p, o, "post", TRUE)
      BY <2>6, <3>2 DEF SubmissionBegins
    <3> QED BY <3>3 DEF Begins, Pushes
  <2>7. CASE o = t /\ ~RescueBegins(p, t) /\ ~SubmissionBegins(p, t)
    <3>1. row'[o] = row[o] /\ UNCHANGED submits
      BY <1>2, <2>7 DEF StartEffect, RequestBegins, ReleaseBegins, ProbeBegins, CancelBegins, Keeps
    <3> QED BY <1>0, <2>1, <2>3, <3>1 DEF Moved
  <2> QED BY <2>4, <2>5, <2>6, <2>7
<1>3. CASE OutsideEffect
  <2>1. UNCHANGED <<row, call>> /\ lost \subseteq lost' /\ (Moved(o) => Moved(o)')
    <3>1. ASSUME NEW t \in Tasks, OpsSends(t) PROVE Moved(o) => Moved(o)'
      BY <3>1 DEF OpsSends, Sent, Moved
    <3> QED BY <1>3, <3>1 DEF OutsideEffect, Moved
  <2> QED BY <1>0, <2>1
<1> QED BY <1>1, <1>2, <1>3 DEF Effect

\* No accepted task hangs silently, for any number of tasks, batches, calls,
\* failures and crashes, and whatever operators send: before the upstream
\* knows it, it has its token session, and a call, a message that will not be
\* dropped, a dead letter or the sweep will move it, unless a crash took one
\* of its calls.  Three awaits must not raise, and each of them does strand a
\* task when it does: the publication of an unbatched submission; the second
\* look of a release (run stranded); and, once the enqueue of a release has
\* failed, the return of its slot or the cas that judges it.
THEOREM NobodyStranded ==
  ASSUME {"submit", "recheck"} \cap Failing = {},
         "send" \notin Failing \/ {"slot", "failcas"} \cap Failing = {}
  PROVE  Spec => []NotStranded
<1> DEFINE S == {"slot", "failcas"} \cap Failing = {} \/ NoFailedSend
           I == IndInv /\ Knows /\ S /\ RowShape /\ Pushed
<1>1. Init => I
  <2>1. Init => NoFailedSend
    BY DEF Init, NoFailedSend, Idle
  <2>2. Init => RowShape /\ Pushed
    BY Disjoint DEF Init, RowShape, Pushed, Wants, Wanting, NoRow
  <2> QED BY <2>1, <2>2, InitGood, KnowsInit
<1>2. I /\ [Next]_vars => I'
  <2> SUFFICES ASSUME I, [Next]_vars PROVE I'
    OBVIOUS
  <2>1. IndInv' /\ Knows' /\ Effect
    BY BaseNext, NextEffect
  <2>2. S'
    BY <2>1, NoFailedSendKept
  <2> QED BY <2>1, <2>2, ShapeKept, PushedKept
<1>3. I => NotStranded
  <2> SUFFICES ASSUME I, NEW t \in Tasks, row[t].status \in ACTIVE, row[t].up = 0,
                      ~Orphan(row[t]), t \notin lost
               PROVE  t \in session /\ Driven(t)
    BY DEF NotStranded
  <2>1. row[t].status = "SUBMITTED" /\ t \in session /\ (row[t].batch = "requeued" => row[t].due)
    BY DEF RowShape, Wanting
  <2>2. CASE Held(row[t])
    BY <2>1, <2>2
    DEF Held, BATCH_WAITING_STATES, Orphan, Driven, RescuableWaiting, RescuableReleasing
  <2>3. CASE ~Held(row[t])
    <3>1. Moved(t) \/ \E p \in Procs : call[p].t = t
      BY <2>3 DEF Pushed, Wants, Wanting
    <3> QED BY <2>1, <2>3, <3>1 DEF Moved, Held, Driven
  <2> QED BY <2>2, <2>3
<1> QED BY <1>1, <1>2, <1>3, PTL DEF Spec

-------------------------------------------------------------------------------
(* The right to release, while no release is refused                       *)

\* A call that holds the claim of its task, and one that has released it.
Claims(c) == c.pc \in {"acquire", "mask"}

Sends(c) ==
  c.pc \in {"recheck", "send", "failcas"} \/ (c.pc \in SlotLabels /\ c.then = "failcas")

\* The labels a release reaches only when a slot is refused or the mask fails.
Refused(c) == c.pc \in {"unclaim", "requeue", "backout", "schedule"}

ClaimOK ==
  \A p \in Procs :
    /\ ~Refused(call[p])
    /\ Claims(call[p]) => row[call[p].t].batch = "releasing"
    /\ Sends(call[p]) => row[call[p].t].batch = "released"

OneClaim ==
  \A p, q \in Procs : Claims(call[p]) /\ Claims(call[q]) /\ call[p].t = call[q].t => p = q

\* A step of p leaves batch_state alone, or takes the claim of a waiting task,
\* or uses the claim it has.
LEMMA CallClaims ==
  ASSUME "mask" \notin Failing, IndInv, Knows, ClaimOK, NEW p \in Procs, CallEffect(p),
         call'[p].pc # "unclaim"
  PROVE  LET t == call[p].t IN
         /\ ~Refused(call'[p])
         /\ \/ /\ Claims(call'[p]) => Claims(call[p])
               /\ Sends(call'[p]) => Sends(call[p])
               /\ row'[t].batch = row[t].batch \/ row[t].status = "NONE"
            \/ /\ row[t].batch \in BATCH_WAITING_STATES /\ row'[t].batch = "releasing"
               /\ ~Sends(call'[p])
            \/ Claims(call[p]) /\ ~Claims(call'[p]) /\ row'[t].batch = "released"
<1> DEFINE t == call[p].t
           r == row[t]
<1>0. KnowsSelf(call[p]) /\ KnowsRow(call[p], r) /\ call[p] \in Calls
  BY DEF Knows, IndInv, Good, CallsOK
<1>1. ~Refused(call[p]) /\ (Sends(call[p]) => r.batch = "released")
  BY DEF ClaimOK
<1>2. Dies(p) \/ Drops(p) => ~Refused(call'[p]) /\ ~Claims(call'[p]) /\ ~Sends(call'[p])
  BY DEF Dies, Drops, Idle, Refused, Claims, Sends, SlotLabels
<1>3. Keeps(t) => row'[t].batch = r.batch
  BY DEF Keeps
<1> USE DEF At, Refused, Claims, Sends, SlotLabels
<1>4. CASE AcceptEffect(p)
  <2>1. CASE InsertDoes(p)
    <3>1. r.status = "NONE"
      BY <2>1 DEF InsertDoes, IndInv, Good, FreshAlone, FreshLabels
    <3> QED BY <2>1, <3>1 DEF InsertDoes, Goes
  <2>2. CASE ConcDoes(p) \/ JoinDoes(p) \/ TriggerDoes(p) \/ SubmitDoes(p) \/ UndoDoes(p)
             \/ DueDoes(p)
    BY <1>2, <1>3, <2>2
    DEF ConcDoes, JoinDoes, DueDoes, TriggerDoes, SubmitDoes, UndoDoes, Goes, RowIs
  <2> QED BY <1>4, <2>1, <2>2 DEF AcceptEffect
<1>5. CASE ReleaseEffect(p)
  <2>1. CASE MetaDoes(p) \/ AcquireDoes(p)
    BY <1>2, <1>3, <2>1 DEF MetaDoes, AcquireDoes, Goes
  <2>2. CASE ClaimDoes(p)
    BY <1>2, <1>3, <2>2 DEF ClaimDoes, CanClaim, Goes, RowIs
  <2>3. CASE UnclaimDoes(p) \/ RequeueDoes(p) \/ ScheduleDoes(p) \/ BackoutDoes(p)
    BY <1>1, <2>3 DEF UnclaimDoes, RequeueDoes, ScheduleDoes, BackoutDoes
  <2>4. CASE MaskDoes(p)
    BY <2>4 DEF MaskDoes, Goes, RowIs
  <2>5. CASE RecheckDoes(p) \/ SendDoes(p)
    BY <1>2, <1>3, <2>5 DEF RecheckDoes, SendDoes, Goes, ToSlot
  <2>6. CASE FailCasDoes(p)
    BY <1>1, <1>2, <1>3, <2>6 DEF FailCasDoes, RowIs
  <2> QED BY <1>5, <2>1, <2>2, <2>3, <2>4, <2>5, <2>6 DEF ReleaseEffect
<1>6. CASE FinishEffect(p)
  <2>1. CASE ClaimSlotDoes(p) \/ GiveSlotDoes(p)
    <3>1. Returned(p) => ~Refused(call'[p]) /\ ~Claims(call'[p])
                         /\ (Sends(call'[p]) => call[p].then = "failcas")
      BY <1>0, <1>2 DEF Returned, Goes, Calls, Returns
    <3>2. Goes(p, "decr") => ~Refused(call'[p]) /\ ~Claims(call'[p])
                             /\ (Sends(call'[p]) => call[p].then = "failcas")
      BY DEF Goes
    <3> QED BY <1>2, <1>3, <2>1, <3>1, <3>2 DEF ClaimSlotDoes, GiveSlotDoes, RowIs
  <2>2. CASE FinalDoes(p) \/ CancelDoes(p)
    BY <1>2, <1>3, <2>2 DEF FinalDoes, CancelDoes, Goes, ToSlot, RowIs
  <2>3. CASE NotifyDoes(p) \/ ClearDoes(p) \/ LeaveDoes(p)
    BY <1>2, <1>3, <2>3 DEF NotifyDoes, ClearDoes, LeaveDoes, Goes, ToSlot
  <2> QED BY <1>6, <2>1, <2>2, <2>3 DEF FinishEffect
<1>7. CASE UpstreamEffect(p)
  BY <1>2, <1>3, <1>7
  DEF UpstreamEffect, PostAcceptedDoes, PostFailedDoes, LandedDoes, ProbeDoes, AdvanceDoes, Learns,
      RowIs
<1>8. CASE EscapeEffect(p) \/ CrashEffect(p)
  BY <1>2, <1>3, <1>8 DEF EscapeEffect, CrashEffect
<1> QED BY <1>4, <1>5, <1>6, <1>7, <1>8 DEF CallEffect

\* What a start does to claims: it takes none, and touches none.
LEMMA StartClaims ==
  ASSUME IndInv, NEW p \in Procs, NEW t \in Tasks, StartEffect(p, t)
  PROVE  /\ call'[p] = call[p] \/ (~Claims(call'[p]) /\ ~Sends(call'[p]) /\ ~Refused(call'[p]))
         /\ \/ row'[t].batch = row[t].batch
            \/ row[t].batch = "releasing" /\ \A q \in Procs : call[q].t = t => ~Claims(call[q])
<1> USE DEF Claims, Sends, Refused, SlotLabels
<1>1. CASE RescueBegins(p, t)
  BY <1>1 DEF RescueBegins, Begins, ReleaseRunning, ReleaseLabels
<1>2. CASE ~RescueBegins(p, t)
  BY <1>2 DEF StartEffect, RequestBegins, ReleaseBegins, SubmissionBegins, ProbeBegins,
              CancelBegins, Begins, Keeps
<1> QED BY <1>1, <1>2

\* No release is refused a slot.
NoRefusal == \A p \in Procs : call[p].pc # "unclaim"

LEMMA ClaimKept ==
  ASSUME "mask" \notin Failing, IndInv, Knows, ClaimOK, OneClaim, Effect, NoRefusal'
  PROVE  ClaimOK' /\ OneClaim'
<1>0. \A q \in Procs : call'[q].pc # "unclaim"
  BY DEF NoRefusal
<1>1. ASSUME NEW p \in Procs, CallEffect(p) PROVE ClaimOK' /\ OneClaim'
  <2> DEFINE t == call[p].t
  <2>1. /\ t \in Tasks /\ Mover(p, t)
        /\ \A q \in Procs \ {p} : call'[q] = call[q]
        /\ \A o \in Tasks \ {t} : row'[o] = row[o]
    BY <1>1, CallMoves DEF Mover, Local
  <2>2. /\ ~Refused(call'[p])
        /\ \/ /\ Claims(call'[p]) => Claims(call[p])
              /\ Sends(call'[p]) => Sends(call[p])
              /\ row'[t].batch = row[t].batch \/ row[t].status = "NONE"
           \/ /\ row[t].batch \in BATCH_WAITING_STATES /\ row'[t].batch = "releasing"
              /\ ~Sends(call'[p])
           \/ Claims(call[p]) /\ ~Claims(call'[p]) /\ row'[t].batch = "released"
    BY <1>0, <1>1, CallClaims
  <2>3. \A q \in Procs : Claims(call[q]) \/ Sends(call[q]) =>
                           call[q].t \in Tasks /\ row[call[q].t].status # "NONE"
    BY DEF Knows, KnowsRow, Claims, Sends, SlotLabels, FreshLabels, IndInv, Good, CallsOK, Idle
  <2>4. call'[p].t = t \/ (~Claims(call'[p]) /\ ~Sends(call'[p]))
    BY <2>1 DEF Mover, Idle, Claims, Sends, SlotLabels
  <2>5. \A q \in Procs : /\ ~Refused(call[q])
                         /\ Claims(call[q]) => row[call[q].t].batch = "releasing"
                         /\ Sends(call[q]) => row[call[q].t].batch = "released"
    BY DEF ClaimOK
  <2>6. \A q \in Procs \ {p} : Claims(call[p]) /\ Claims(call[q]) => call[q].t # t
    BY DEF OneClaim
  <2>7. "releasing" \notin BATCH_WAITING_STATES /\ "released" \notin BATCH_WAITING_STATES
    BY DEF BATCH_WAITING_STATES
  <2>8. ClaimOK'
    <3> SUFFICES ASSUME NEW q \in Procs
                 PROVE  /\ ~Refused(call'[q])
                        /\ Claims(call'[q]) => row'[call'[q].t].batch = "releasing"
                        /\ Sends(call'[q]) => row'[call'[q].t].batch = "released"
      BY DEF ClaimOK
    <3>1. CASE q = p
      BY <2>2, <2>3, <2>4, <2>5, <2>7, <3>1
    <3>2. CASE q # p
      <4>1. call'[q] = call[q]
        BY <2>1, <3>2
      <4>2. CASE call[q].t = t
        BY <2>2, <2>3, <2>5, <2>6, <2>7, <3>2, <4>1, <4>2
      <4>3. CASE call[q].t # t
        BY <2>1, <2>3, <2>5, <4>1, <4>3
      <4> QED BY <4>2, <4>3
    <3> QED BY <3>1, <3>2
  <2>9. OneClaim'
    <3> SUFFICES ASSUME NEW q \in Procs, q # p, Claims(call'[p]), Claims(call'[q]),
                        call'[p].t = call'[q].t
                 PROVE  FALSE
      BY <2>1 DEF OneClaim
    <3>1. call'[q] = call[q] /\ call[q].t = t
      BY <2>1, <2>4
    <3> QED BY <2>2, <2>5, <2>6, <2>7, <3>1
  <2> QED BY <2>8, <2>9
<1>2. ASSUME NEW p \in Procs, NEW t \in Tasks, StartEffect(p, t) PROVE ClaimOK' /\ OneClaim'
  <2>1. /\ \A q \in Procs \ {p} : call'[q] = call[q]
        /\ \A o \in Tasks \ {t} : row'[o] = row[o]
    BY <1>2 DEF StartEffect, Local
  <2>2. /\ call'[p] = call[p] \/ (~Claims(call'[p]) /\ ~Sends(call'[p]) /\ ~Refused(call'[p]))
        /\ \/ row'[t].batch = row[t].batch
           \/ row[t].batch = "releasing" /\ \A q \in Procs : call[q].t = t => ~Claims(call[q])
    BY <1>2, StartClaims
  <2>3. \A q \in Procs : Claims(call[q]) \/ Sends(call[q]) => call[q].t \in Tasks
    BY DEF Claims, Sends, SlotLabels, IndInv, Good, CallsOK, Idle
  <2>4. ClaimOK'
    <3> SUFFICES ASSUME NEW q \in Procs
                 PROVE  /\ ~Refused(call'[q])
                        /\ Claims(call'[q]) => row'[call'[q].t].batch = "releasing"
                        /\ Sends(call'[q]) => row'[call'[q].t].batch = "released"
      BY DEF ClaimOK
    <3>1. CASE call'[q] = call[q]
      <4>1. /\ ~Refused(call[q])
            /\ Claims(call[q]) => row[call[q].t].batch = "releasing"
            /\ Sends(call[q]) => row[call[q].t].batch = "released"
        BY DEF ClaimOK
      <4>2. CASE call[q].t = t
        BY <2>2, <3>1, <4>1, <4>2
      <4>3. CASE call[q].t # t
        BY <2>1, <2>3, <3>1, <4>1, <4>3
      <4> QED BY <4>2, <4>3
    <3>2. CASE call'[q] # call[q]
      BY <2>1, <2>2, <3>2
    <3> QED BY <3>1, <3>2
  <2>5. OneClaim'
    BY <2>1, <2>2 DEF OneClaim
  <2> QED BY <2>4, <2>5
<1>3. CASE OutsideEffect
  BY <1>3 DEF OutsideEffect, ClaimOK, OneClaim
<1> QED BY <1>1, <1>2, <1>3 DEF Effect

LEMMA ClaimInit == Init => ClaimOK /\ OneClaim
  BY DEF Init, Idle, ClaimOK, OneClaim, Refused, Claims, Sends, SlotLabels

LEMMA ClaimHolds ==
  ASSUME "mask" \notin Failing
  PROVE  Spec /\ []NoRefusal => [](IndInv /\ Knows /\ ClaimOK /\ OneClaim)
<1> DEFINE I == IndInv /\ Knows /\ ClaimOK /\ OneClaim
<1>1. Init => I
  BY InitGood, KnowsInit, ClaimInit
<1>2. I /\ NoRefusal' /\ [Next]_vars => I'
  BY BaseNext, NextEffect, ClaimKept
<1> QED BY <1>1, <1>2, PTL DEF Spec

\* The right to release a task is held by one call at a time, for any number
\* of tasks, calls, sweeps and late triggers, with crashes, operators and
\* every failure but that of the mask, as long as no release is refused a
\* slot: one that is puts the task back without looking whether it still
\* holds the claim (run claim_race), and so does one whose mask could not be
\* written.
THEOREM OneReleaser ==
  ASSUME "mask" \notin Failing
  PROVE  Spec /\ []NoRefusal => []SingleReleaser
<1>1. IndInv /\ Knows /\ ClaimOK /\ OneClaim => SingleReleaser
  BY DEF ClaimOK, OneClaim, Refused, Claims, SingleReleaser, HoldsClaim
<1> QED BY <1>1, ClaimHolds, PTL

-------------------------------------------------------------------------------
(* The right to submit                                                     *)

\* A call run by queue_submit_task submits, records the answer or finishes the
\* task; what other calls raise is not retried.
JobKnows(c) ==
  c.job => \/ c.pc \in {"post", "landed", "final", "notify", "clear"}
           \/ c.pc \in SlotLabels /\ c.then # "failcas"

JobOK == \A p \in Procs : JobKnows(call[p])

LEMMA JobKept == ASSUME IndInv, JobOK, Effect PROVE JobOK'
<1> USE DEF JobKnows, SlotLabels, At
<1>1. ASSUME NEW p \in Procs, CallEffect(p) PROVE JobOK'
  <2>1. \A q \in Procs \ {p} : call'[q] = call[q]
    BY <1>1, CallMoves DEF Mover, Local
  <2>2. Dies(p) \/ Drops(p) => JobKnows(call'[p])
    BY DEF Dies, Drops, Idle
  <2>3. JobKnows(call[p]) /\ call[p] \in Calls
    BY DEF JobOK, IndInv, Good, CallsOK
  <2>4. JobKnows(call'[p])
    <3>1. CASE AcceptEffect(p)
      BY <2>2, <2>3, <3>1 DEF AcceptEffect, ConcDoes, InsertDoes, JoinDoes, DueDoes, TriggerDoes,
         SubmitDoes, UndoDoes, Goes, Luggage
    <3>2. CASE ReleaseEffect(p)
      BY <2>2, <2>3, <3>2 DEF ReleaseEffect, MetaDoes, ClaimDoes, AcquireDoes, UnclaimDoes,
         RequeueDoes, ScheduleDoes, MaskDoes, BackoutDoes, RecheckDoes, SendDoes, FailCasDoes, Goes,
         ToSlot, Luggage
    <3>3. CASE FinishEffect(p)
      <4>1. CASE FinalDoes(p) \/ NotifyDoes(p) \/ ClearDoes(p) \/ CancelDoes(p) \/ LeaveDoes(p)
        BY <2>2, <2>3, <4>1 DEF FinalDoes, NotifyDoes, ClearDoes, CancelDoes, LeaveDoes, Goes, ToSlot,
           Luggage
      <4>2. CASE ClaimSlotDoes(p) \/ GiveSlotDoes(p)
        BY <2>2, <2>3, <4>2 DEF ClaimSlotDoes, GiveSlotDoes, Returned, Goes, Luggage, Calls, Returns
      <4> QED BY <3>3, <4>1, <4>2 DEF FinishEffect
    <3>4. CASE UpstreamEffect(p)
      BY <2>2, <2>3, <3>4 DEF UpstreamEffect, PostAcceptedDoes, PostFailedDoes, LandedDoes, ProbeDoes,
         AdvanceDoes, Learns
    <3>5. CASE EscapeEffect(p) \/ CrashEffect(p)
      BY <2>2, <3>5 DEF EscapeEffect, CrashEffect
    <3> QED BY <1>1, <3>1, <3>2, <3>3, <3>4, <3>5 DEF CallEffect
  <2> QED BY <2>1, <2>4 DEF JobOK
<1>2. ASSUME NEW p \in Procs, NEW t \in Tasks, StartEffect(p, t) PROVE JobOK'
  BY <1>2 DEF StartEffect, Local, RequestBegins, ReleaseBegins, RescueBegins, SubmissionBegins,
     ProbeBegins, CancelBegins, Begins, JobOK
<1>3. CASE OutsideEffect
  BY <1>3 DEF OutsideEffect, JobOK
<1> QED BY <1>1, <1>2, <1>3 DEF Effect

\* Nobody may submit the task yet; a call may; a message or a dead letter may.
Unreleased(r) == r.status = "NONE" \/ Held(r)

\* It keeps the right until it has written down what the upstream answered.
Submits(c) ==
  c.pc \in {"submit", "recheck", "send", "post"} \/ (c.job /\ c.pc \in {"landed", "final"})

Queued(t) == row[t].status \notin TERMINAL /\ (submits[t] > 0 \/ t \in dlq)

Submitting(p, t) == call[p].t = t /\ Submits(call[p])

\* The upstream has no task that the gateway might still write down.
Settled(t) == orders[t] <= strays[t]

OneRight(t) ==
  /\ orders[t] <= strays[t] + 1
  /\ Unreleased(row[t]) => Settled(t) /\ ~Queued(t)
  /\ Queued(t) => Settled(t) /\ submits[t] <= 1 /\ (submits[t] = 0 \/ t \notin dlq)
  /\ \A p \in Procs :
       Submitting(p, t) => /\ ~Unreleased(row[t]) /\ ~Queued(t)
                           /\ Settled(t) \/ Unrecorded(p)
                           /\ \A q \in Procs : Submitting(q, t) => q = p

TokenOK == \A t \in Tasks : OneRight(t)

\* What a step does to the right: it leaves it or lets it go, creates it, uses
\* it on the upstream, or hands it from the call to a message or a dead letter.
KeepsQueues(t) == submits'[t] = submits[t] /\ (t \in dlq' <=> t \in dlq)

StaysPut(p, t) ==
  /\ Submits(call'[p]) => Submits(call[p]) /\ ~Unrecorded(p)
  /\ orders'[t] = orders[t] /\ strays'[t] \in {strays[t], strays[t] + 1}
  /\ Unreleased(row'[t]) => Unreleased(row[t])
  /\ row[t].status \in TERMINAL => row'[t].status \in TERMINAL
  /\ row'[t].status \in TERMINAL \/ KeepsQueues(t)

IsCreated(p, t) ==
  /\ Unreleased(row[t]) /\ ~Unreleased(row'[t])
  /\ orders'[t] = orders[t] /\ strays'[t] = strays[t]
  /\ row[t].status \in TERMINAL => row'[t].status \in TERMINAL
  /\ KeepsQueues(t)

IsUsed(p, t) ==
  /\ Submits(call[p]) /\ ~Unrecorded(p) /\ Unrecorded(p)'
  /\ orders'[t] = orders[t] + 1 /\ strays'[t] = strays[t]
  /\ Keeps(t) /\ KeepsQueues(t)

\* One more stray makes up for an order nobody will write down.
IsSent(p, t) ==
  /\ Submits(call[p]) /\ ~Submits(call'[p]) /\ Keeps(t)
  /\ \/ ~Unrecorded(p) /\ orders'[t] = orders[t] /\ strays'[t] = strays[t]
     \/ ~Unrecorded(p) /\ orders'[t] = orders[t] + 1 /\ strays'[t] = strays[t] + 1
     \/ orders'[t] = orders[t] /\ strays'[t] = strays[t] + 1
  /\ \/ submits'[t] \in {submits[t], submits[t] + 1} /\ (t \in dlq' <=> t \in dlq)
     \/ submits'[t] = submits[t]

LEMMA CallToken ==
  ASSUME "mask" \notin Failing, IndInv, Knows, ClaimOK, JobOK,
         NEW p \in Procs, CallEffect(p), NEW t \in Tasks, t = call[p].t
  PROVE  StaysPut(p, t) \/ IsCreated(p, t) \/ IsUsed(p, t) \/ IsSent(p, t)
<1> DEFINE r == row[t]
           Still == orders'[t] = orders[t] /\ strays'[t] = strays[t] /\ KeepsQueues(t)
<1>0. KnowsSelf(call[p]) /\ KnowsRow(call[p], r) /\ orders[t] \in Nat /\ strays[t] \in Nat
  BY DEF Knows, IndInv, RestOK
<1>1. Dies(p) \/ Drops(p) => ~Submits(call'[p])
  BY DEF Dies, Drops, Idle, Submits
<1>2. UNCHANGED <<submits, dlq, orders, strays>> => Still
  BY DEF KeepsQueues
<1>3. /\ ~Refused(call[p])
      /\ Claims(call[p]) => r.batch = "releasing"
      /\ Sends(call[p]) => r.batch = "released"
  BY DEF ClaimOK
<1>4. Keeps(t) => row'[t] = r
  BY DEF Keeps
<1>40. Keeps(t) /\ Still /\ (~Submits(call'[p]) \/ (Submits(call[p]) /\ ~Unrecorded(p)))
         => StaysPut(p, t)
  BY <1>0, <1>4 DEF StaysPut
<1> USE DEF At, Submits
<1>5. CASE AcceptEffect(p)
  <2>1. CASE InsertDoes(p)
    <3>1. r.status = "NONE"
      BY <2>1 DEF InsertDoes, IndInv, Good, FreshAlone, FreshLabels
    <3>2. Still
      BY <1>2, <1>5, <2>1 DEF InsertDoes, AcceptEffect
    <3>3. CASE Keeps(t) /\ Goes(p, "undo")
      BY <1>40, <3>2, <3>3 DEF Goes
    <3>4. CASE t \in Batched /\ RowIs(t, "SUBMITTED", "waiting", 0, 0, FALSE) /\ Goes(p, "join")
      BY <1>0, <3>1, <3>2, <3>4 DEF RowIs, Goes, StaysPut, Unreleased, TERMINAL
    <3>5. CASE t \notin Batched /\ RowIs(t, "SUBMITTED", "none", 1, 0, FALSE) /\ Goes(p, "submit")
      BY <3>1, <3>2, <3>5
      DEF RowIs, Goes, IsCreated, Unreleased, Held, BATCH_WAITING_STATES, TERMINAL
    <3> QED BY <2>1, <3>3, <3>4, <3>5 DEF InsertDoes
  <2>2. CASE ConcDoes(p) \/ JoinDoes(p) \/ TriggerDoes(p) \/ UndoDoes(p)
    BY <1>1, <1>2, <1>40, <1>5, <2>2
    DEF ConcDoes, JoinDoes, TriggerDoes, UndoDoes, Goes, AcceptEffect
  <2>3. CASE DueDoes(p)
    BY <1>0, <1>2, <1>4, <1>5, <2>3
    DEF DueDoes, Goes, RowIs, AcceptEffect, StaysPut, Unreleased, Held
  <2>4. CASE SubmitDoes(p)
    <3>1. Submits(call[p]) /\ ~Unrecorded(p) /\ Keeps(t)
      BY <2>4 DEF SubmitDoes, Unrecorded
    <3> QED BY <1>1, <1>2, <1>40, <1>5, <2>4, <3>1 DEF SubmitDoes, AcceptEffect, Goes, Sent, IsSent
  <2> QED BY <1>5, <2>1, <2>2, <2>3, <2>4 DEF AcceptEffect
<1>6. CASE ReleaseEffect(p)
  <2>1. CASE MetaDoes(p) \/ AcquireDoes(p)
    BY <1>1, <1>2, <1>40, <1>6, <2>1 DEF MetaDoes, AcquireDoes, ReleaseEffect, Goes
  <2>2. CASE ClaimDoes(p)
    BY <1>0, <1>1, <1>2, <1>4, <1>6, <2>2
    DEF ClaimDoes, CanClaim, ReleaseEffect, Goes, RowIs, StaysPut, Unreleased, Held
  <2>3. CASE UnclaimDoes(p) \/ RequeueDoes(p) \/ ScheduleDoes(p) \/ BackoutDoes(p)
    BY <1>3, <2>3 DEF UnclaimDoes, RequeueDoes, ScheduleDoes, BackoutDoes, Refused
  <2>4. CASE MaskDoes(p)
    <3>1. r.batch = "releasing" /\ r.status # "NONE"
      BY <1>0, <1>3, <2>4 DEF MaskDoes, Claims, KnowsRow, FreshLabels
    <3> QED BY <1>2, <1>6, <2>4, <3>1
            DEF MaskDoes, ReleaseEffect, RowIs, IsCreated, Unreleased, Held, BATCH_WAITING_STATES
  <2>5. CASE RecheckDoes(p)
    <3>1. Submits(call[p]) /\ ~Unrecorded(p)
      BY <2>5 DEF RecheckDoes, Unrecorded
    <3> QED BY <1>2, <1>40, <1>6, <2>5, <3>1 DEF RecheckDoes, ReleaseEffect
  <2>6. CASE SendDoes(p)
    <3>1. Submits(call[p]) /\ ~Unrecorded(p) /\ Keeps(t)
      BY <2>6 DEF SendDoes, Unrecorded
    <3> QED BY <1>1, <1>2, <1>40, <1>6, <2>6, <3>1
            DEF SendDoes, ReleaseEffect, ToSlot, Sent, IsSent
  <2>7. CASE FailCasDoes(p)
    <3>1. "FAILURE" \in TERMINAL
      BY DEF TERMINAL
    <3> QED BY <1>0, <1>1, <1>2, <1>40, <1>6, <2>7, <3>1
        DEF FailCasDoes, ReleaseEffect, RowIs, StaysPut, Unreleased, Held, BATCH_WAITING_STATES
  <2> QED BY <1>6, <2>1, <2>2, <2>3, <2>4, <2>5, <2>6, <2>7 DEF ReleaseEffect
<1>7. CASE FinishEffect(p)
  <2>0. Still
    BY <1>2, <1>7 DEF FinishEffect
  <2>1. CASE FinalDoes(p)
    <3>1. call[p].st \in TERMINAL
      BY <1>0, <2>1 DEF FinalDoes, KnowsSelf
    <3>2. r.status # "NONE"
      BY <1>0, <2>1 DEF FinalDoes, KnowsRow, FreshLabels
    <3> QED BY <1>0, <1>1, <1>40, <2>0, <2>1, <3>1, <3>2, Disjoint
        DEF FinalDoes, RowIs, ToSlot, StaysPut, Unreleased, Held
  <2>2. CASE ClaimSlotDoes(p) \/ GiveSlotDoes(p)
    <3>1. Returned(p) => ~Submits(call'[p])
      BY <1>1 DEF Returned, Goes, IndInv, Good, CallsOK, Calls, Returns
    <3> QED BY <1>0, <1>40, <2>0, <2>2, <3>1
        DEF ClaimSlotDoes, GiveSlotDoes, RowIs, Goes, StaysPut, Unreleased, Held
  <2>3. CASE NotifyDoes(p) \/ ClearDoes(p) \/ LeaveDoes(p)
    BY <1>1, <1>40, <2>0, <2>3 DEF NotifyDoes, ClearDoes, LeaveDoes, Goes, ToSlot
  <2>4. CASE CancelDoes(p)
    <3>1. "CANCELED" \in TERMINAL /\ r.status # "NONE"
      BY <1>0, <2>4 DEF TERMINAL, CancelDoes, KnowsRow, FreshLabels
    <3> QED BY <1>0, <1>1, <1>40, <2>0, <2>4, <3>1
        DEF CancelDoes, RowIs, Goes, ToSlot, StaysPut, Unreleased, Held
  <2> QED BY <1>7, <2>1, <2>2, <2>3, <2>4 DEF FinishEffect
<1>8. CASE UpstreamEffect(p)
  <2>1. CASE PostAcceptedDoes(p) \/ PostFailedDoes(p)
    <3>1. Submits(call[p]) /\ ~Unrecorded(p) /\ Keeps(t) /\ call[p].job
      BY <1>0, <2>1 DEF PostAcceptedDoes, PostFailedDoes, KnowsSelf, Unrecorded
    <3>2. CASE PostAcceptedDoes(p)
      <4>1. /\ orders'[t] = orders[t] + 1 /\ strays'[t] = strays[t] /\ KeepsQueues(t)
            /\ Unrecorded(p)'
        BY <1>0, <3>2 DEF PostAcceptedDoes, OrdersMore, Learns, Unrecorded, KeepsQueues
      <4> QED BY <3>1, <4>1 DEF IsUsed
    <3>3. CASE PostFailedDoes(p) /\ Drops(p)
      <4>1. \/ orders'[t] = orders[t] /\ strays'[t] = strays[t]
            \/ orders'[t] = orders[t] + 1 /\ strays'[t] = strays[t] + 1
        BY <3>3 DEF PostFailedDoes, OrdersMore, StraysMore
      <4>2. \/ submits'[t] \in {submits[t], submits[t] + 1} /\ (t \in dlq' <=> t \in dlq)
            \/ submits'[t] = submits[t]
        BY <3>3 DEF Drops, Sent
      <4> QED BY <1>1, <3>1, <3>3, <4>1, <4>2 DEF IsSent
    <3>4. CASE PostFailedDoes(p) /\ ~Drops(p)
      BY <1>2, <1>40, <3>1, <3>4 DEF PostFailedDoes
    <3> QED BY <2>1, <3>2, <3>3, <3>4
  <2>2. CASE LandedDoes(p)
    <3>1. r.status # "NONE"
      BY <1>0, <2>2 DEF LandedDoes, KnowsRow, FreshLabels
    <3>2. r.status \in ACTIVE => r.status \notin TERMINAL
      BY Disjoint
    <3> QED BY <1>0, <1>1, <1>2, <2>2, <3>1, <3>2 DEF LandedDoes, RowIs, StaysPut, Unreleased, Held
  <2>3. CASE ProbeDoes(p)
    <3>1. ~call[p].job
      BY <2>3 DEF ProbeDoes, JobOK, JobKnows, SlotLabels
    <3>2. ~Submits(call'[p])
      BY <1>1, <2>3, <3>1 DEF ProbeDoes, Learns
    <3> QED BY <1>2, <1>40, <2>3, <3>2 DEF ProbeDoes
  <2>4. CASE AdvanceDoes(p)
    <3>1. call[p].st \in ACTIVE /\ "NONE" \notin ACTIVE
      BY <1>0, <2>4 DEF AdvanceDoes, KnowsSelf, ACTIVE
    <3> QED BY <1>0, <1>1, <1>2, <1>40, <2>4, <3>1, Disjoint
        DEF AdvanceDoes, RowIs, StaysPut, Unreleased, Held
  <2> QED BY <1>8, <2>1, <2>2, <2>3, <2>4 DEF UpstreamEffect
<1>9. CASE EscapeEffect(p)
  <2>1. /\ Keeps(t) /\ ~Submits(call'[p]) /\ orders'[t] = orders[t]
        /\ strays'[t] = IF Unrecorded(p) THEN strays[t] + 1 ELSE strays[t]
    BY <1>1, <1>9 DEF EscapeEffect, StraysMore
  <2>2. CASE call[p].job /\ Submits(call[p])
    <3>1. \/ submits'[t] \in {submits[t], submits[t] + 1} /\ (t \in dlq' <=> t \in dlq)
          \/ submits'[t] = submits[t]
      BY <1>9 DEF EscapeEffect, Drops, Sent
    <3> QED BY <2>1, <2>2, <3>1 DEF IsSent
  <2>3. CASE call[p].job /\ ~Submits(call[p])
    <3>1. Ending(call[p])
      BY <2>3 DEF JobOK, JobKnows, Ending
    <3>2. r.status \in TERMINAL
      BY <1>0, <3>1 DEF KnowsRow
    <3> QED BY <1>0, <1>4, <2>1, <3>2 DEF StaysPut
  <2>4. CASE ~call[p].job
    <3>1. KeepsQueues(t)
      BY <1>9, <2>4 DEF EscapeEffect, Drops, KeepsQueues
    <3> QED BY <1>0, <1>4, <2>1, <3>1 DEF StaysPut
  <2> QED BY <2>2, <2>3, <2>4
<1>10. CASE CrashEffect(p)
  BY <1>1, <1>2, <1>40, <1>10 DEF CrashEffect
<1> QED BY <1>5, <1>6, <1>7, <1>8, <1>9, <1>10 DEF CallEffect

LEMMA CallRight ==
  ASSUME "mask" \notin Failing, IndInv, Knows, ClaimOK, JobOK, TokenOK,
         NEW p \in Procs, CallEffect(p), NEW t \in Tasks, t = call[p].t
  PROVE  OneRight(t)'
<1>0. submits[t] \in Nat /\ orders[t] \in Nat /\ strays[t] \in Nat /\ OneRight(t)
  BY DEF IndInv, RestOK, TokenOK
<1>1. \A q \in Procs \ {p} :
        /\ Submitting(q, t)' <=> Submitting(q, t)
        /\ Unrecorded(q)' <=> Unrecorded(q)
  BY CallMoves DEF Mover, Local, Submitting, Unrecorded
<1>2. Submitting(p, t)' => Submits(call'[p])
  BY DEF Submitting
<1>3. Submitting(p, t) <=> Submits(call[p])
  BY DEF Submitting
<1>4. StaysPut(p, t) \/ IsCreated(p, t) \/ IsUsed(p, t) \/ IsSent(p, t)
  BY CallToken
<1>5. CASE StaysPut(p, t)
  <2>1. Queued(t)' => Queued(t) /\ submits'[t] = submits[t] /\ (t \in dlq' <=> t \in dlq)
    BY <1>5 DEF StaysPut, Queued, KeepsQueues
  <2>2. \A q \in Procs : Submitting(q, t)' => Submitting(q, t)
    BY <1>1, <1>2, <1>3, <1>5 DEF StaysPut
  <2>3. strays'[t] \in Nat /\ (Settled(t) => Settled(t)') /\ orders'[t] <= strays'[t] + 1
    BY <1>0, <1>5 DEF StaysPut, Settled, OneRight
  <2>4. \A q \in Procs : Submitting(q, t)' => Settled(t)' \/ Unrecorded(q)'
    <3>1. Submitting(p, t)' => Settled(t)'
      BY <1>0, <1>2, <1>3, <1>5, <2>3 DEF StaysPut, OneRight
    <3> QED BY <1>0, <1>1, <2>3, <3>1 DEF OneRight
  <2>5. Unreleased(row'[t]) => Unreleased(row[t])
    BY <1>5 DEF StaysPut
  <2> QED BY <1>0, <2>1, <2>2, <2>3, <2>4, <2>5 DEF OneRight
<1>6. CASE IsCreated(p, t)
  <2>1. Settled(t)' /\ ~Queued(t)' /\ ~Unreleased(row'[t]) /\ \A q \in Procs : ~Submitting(q, t)
    BY <1>0, <1>6 DEF IsCreated, Queued, Settled, OneRight, KeepsQueues
  <2>2. \A q \in Procs : Submitting(q, t)' => q = p
    BY <1>1, <2>1
  <2>3. orders'[t] <= strays'[t] + 1
    BY <1>0, <1>6 DEF IsCreated, OneRight
  <2> QED BY <2>1, <2>2, <2>3 DEF OneRight
<1>7. CASE IsUsed(p, t)
  <2>1. /\ Settled(t) /\ ~Queued(t) /\ ~Unreleased(row[t]) /\ row'[t] = row[t]
        /\ \A q \in Procs : Submitting(q, t)' => q = p
    BY <1>0, <1>1, <1>3, <1>7 DEF IsUsed, Keeps, OneRight
  <2>2. orders'[t] <= strays'[t] + 1 /\ ~Queued(t)' /\ Unrecorded(p)'
    BY <1>0, <1>7, <2>1 DEF IsUsed, Settled, Queued, KeepsQueues
  <2> QED BY <2>1, <2>2 DEF OneRight
<1>8. CASE IsSent(p, t)
  <2>1. /\ Settled(t) \/ Unrecorded(p)
        /\ ~Queued(t) /\ ~Unreleased(row[t]) /\ row'[t] = row[t]
        /\ \A q \in Procs : ~Submitting(q, t)'
    BY <1>0, <1>1, <1>2, <1>3, <1>8 DEF IsSent, Keeps, OneRight
  <2>2. Settled(t)' /\ orders'[t] <= strays'[t] + 1
    BY <1>0, <1>8, <2>1 DEF IsSent, Settled, OneRight
  <2>3. Queued(t)' => submits'[t] <= 1 /\ (submits'[t] = 0 \/ t \notin dlq')
    BY <1>0, <1>8, <2>1 DEF IsSent, Queued
  <2> QED BY <2>1, <2>2, <2>3 DEF OneRight
<1> QED BY <1>4, <1>5, <1>6, <1>7, <1>8

LEMMA StartRight ==
  ASSUME IndInv, TokenOK, NEW p \in Procs, NEW t \in Tasks, StartEffect(p, t)
  PROVE  OneRight(t)'
<1>0. submits[t] \in Nat /\ OneRight(t)
  BY DEF IndInv, RestOK, TokenOK
<1>1. \A q \in Procs \ {p} :
        /\ Submitting(q, t)' <=> Submitting(q, t)
        /\ Unrecorded(q)' <=> Unrecorded(q)
  BY DEF StartEffect, Local, Submitting, Unrecorded
<1>2. UNCHANGED <<dlq, orders, strays>> /\ (Settled(t)' <=> Settled(t))
  BY DEF StartEffect, Settled
<1>3. CASE SubmissionBegins(p, t)
  <2>1. row'[t] = row[t] /\ submits[t] > 0 /\ submits'[t] = submits[t] - 1
    BY <1>3 DEF SubmissionBegins, Keeps
  <2>2. Queued(t)' => Queued(t)
    BY <1>2, <2>1 DEF Queued
  <2>3. CASE Submittable(t)
    <3>1. Queued(t)
      BY <2>1, <2>3, Disjoint DEF Submittable, Queued
    <3>2. /\ Settled(t) /\ submits'[t] = 0 /\ t \notin dlq /\ ~Unreleased(row[t])
          /\ \A q \in Procs : ~Submitting(q, t)
      BY <1>0, <2>1, <3>1 DEF OneRight
    <3>3. ~Queued(t)' /\ \A q \in Procs : Submitting(q, t)' => q = p
      BY <1>1, <1>2, <3>2 DEF Queued
    <3> QED BY <1>0, <1>2, <2>1, <3>2, <3>3 DEF OneRight
  <2>4. CASE ~Submittable(t)
    <3>1. \A q \in Procs : /\ Submitting(q, t)' <=> Submitting(q, t)
                           /\ Unrecorded(q)' <=> Unrecorded(q)
      BY <1>3, <2>4 DEF SubmissionBegins, Submitting, Unrecorded
    <3>2. Queued(t)' => submits'[t] <= 1 /\ (submits'[t] = 0 \/ t \notin dlq')
      BY <1>0, <1>2, <2>1, <2>2 DEF OneRight
    <3> QED BY <1>0, <1>2, <2>1, <2>2, <3>1, <3>2 DEF OneRight
  <2> QED BY <2>3, <2>4
<1>4. CASE ~SubmissionBegins(p, t)
  <2>1. /\ row'[t].status = row[t].status /\ (Held(row'[t]) <=> Held(row[t])) /\ UNCHANGED submits
        /\ call'[p] = call[p] \/ ~Submits(call'[p])
    BY <1>4 DEF StartEffect, RequestBegins, ReleaseBegins, RescueBegins, ProbeBegins, CancelBegins,
       Begins, Submits, Keeps, RowIs, Held, BATCH_WAITING_STATES
  <2>2. (Queued(t)' <=> Queued(t)) /\ (Unreleased(row'[t]) <=> Unreleased(row[t]))
    BY <1>2, <2>1 DEF Queued, Unreleased
  <2>3. \A q \in Procs : Submitting(q, t)' => Submitting(q, t) /\ (Unrecorded(q)' <=> Unrecorded(q))
    BY <1>1, <2>1 DEF Submitting, Unrecorded
  <2> QED BY <1>0, <1>2, <2>1, <2>2, <2>3 DEF OneRight
<1> QED BY <1>3, <1>4

LEMMA TokenKept ==
  ASSUME "mask" \notin Failing, Operators \subseteq {"replay"},
         IndInv, Knows, ClaimOK, JobOK, TokenOK, Effect
  PROVE  TokenOK'
<1> SUFFICES ASSUME NEW o \in Tasks PROVE OneRight(o)'
  BY DEF TokenOK
<1>0. OneRight(o) /\ submits[o] \in Nat
  BY DEF TokenOK, IndInv, RestOK
<1>1. ASSUME /\ row'[o] = row[o] /\ KeepsQueues(o)
             /\ orders'[o] = orders[o] /\ strays'[o] = strays[o]
             /\ \A q \in Procs :
                  Submitting(q, o)' => Submitting(q, o) /\ (Unrecorded(q)' <=> Unrecorded(q))
      PROVE  OneRight(o)'
  <2>1. (Queued(o)' <=> Queued(o)) /\ (Settled(o)' <=> Settled(o))
    BY <1>1 DEF Queued, Settled, KeepsQueues
  <2> QED BY <1>0, <1>1, <2>1 DEF OneRight, KeepsQueues
<1>2. ASSUME NEW p \in Procs, CallEffect(p) PROVE OneRight(o)'
  <2>1. call[p].t \in Tasks /\ Mover(p, call[p].t)
    BY <1>2, CallMoves
  <2>2. CASE o = call[p].t
    BY <1>2, <2>2, CallRight
  <2>3. CASE o # call[p].t
    <3>1. KeepsQueues(o)
      <4>1. Drops(p) \/ UNCHANGED <<submits, dlq>> \/ (Sent(call[p].t) /\ UNCHANGED dlq)
        BY <1>2, CallPublishes
      <4> QED BY <2>3, <4>1 DEF Drops, Sent, KeepsQueues
    <3>2. UNCHANGED orders \/ OrdersMore(call[p].t)
      BY <1>2 DEF CallEffect, AcceptEffect, ReleaseEffect, FinishEffect, UpstreamEffect, EscapeEffect,
         CrashEffect, PostAcceptedDoes, PostFailedDoes, LandedDoes, ProbeDoes, AdvanceDoes
    <3>3. UNCHANGED strays \/ StraysMore(call[p].t)
      BY <1>2 DEF CallEffect, AcceptEffect, ReleaseEffect, FinishEffect, UpstreamEffect, EscapeEffect,
         CrashEffect, PostAcceptedDoes, PostFailedDoes, LandedDoes, ProbeDoes, AdvanceDoes
    <3>4. ~Submitting(p, o)'
      BY <2>1, <2>3 DEF Mover, Submitting, Submits, Idle
    <3>5. /\ row'[o] = row[o]
          /\ \A q \in Procs :
               Submitting(q, o)' => Submitting(q, o) /\ (Unrecorded(q)' <=> Unrecorded(q))
      BY <2>1, <2>3, <3>4 DEF Mover, Local, Submitting, Unrecorded
    <3>6. orders'[o] = orders[o] /\ strays'[o] = strays[o]
      BY <2>3, <3>2, <3>3 DEF OrdersMore, StraysMore
    <3> QED BY <1>1, <3>1, <3>5, <3>6
  <2> QED BY <2>2, <2>3
<1>3. ASSUME NEW p \in Procs, NEW t \in Tasks, StartEffect(p, t) PROVE OneRight(o)'
  <2>1. CASE o = t
    BY <1>3, <2>1, StartRight
  <2>2. CASE o # t
    <3>1. KeepsQueues(o) /\ orders'[o] = orders[o] /\ strays'[o] = strays[o]
      BY <1>3, <2>2 DEF StartEffect, RequestBegins, ReleaseBegins, RescueBegins, SubmissionBegins,
         ProbeBegins, CancelBegins, KeepsQueues
    <3>2. call'[p] = call[p] \/ call'[p].t = t
      BY <1>3 DEF StartEffect, RequestBegins, ReleaseBegins, RescueBegins, SubmissionBegins,
         ProbeBegins, CancelBegins, Begins
    <3>3. /\ row'[o] = row[o]
          /\ \A q \in Procs :
               Submitting(q, o)' => Submitting(q, o) /\ (Unrecorded(q)' <=> Unrecorded(q))
      BY <1>3, <2>2, <3>2 DEF StartEffect, Local, Submitting, Unrecorded
    <3> QED BY <1>1, <3>1, <3>3
  <2> QED BY <2>1, <2>2
<1>4. CASE OutsideEffect
  <2>1. UNCHANGED <<row, call, orders, strays>>
    BY <1>4 DEF OutsideEffect
  <2>2. \A q \in Procs : (Submitting(q, o)' <=> Submitting(q, o)) /\ (Unrecorded(q)' <=> Unrecorded(q))
    BY <2>1 DEF Submitting, Unrecorded
  <2>3. CASE KeepsQueues(o)
    BY <1>1, <2>1, <2>2, <2>3
  <2>4. CASE Sent(o) /\ o \in dlq /\ o \notin dlq'
    <3>1. (Queued(o)' <=> Queued(o)) /\ (Settled(o)' <=> Settled(o))
      BY <2>1, <2>4 DEF Queued, Settled, Sent
    <3>2. Queued(o) => submits'[o] <= 1
      BY <1>0, <2>4 DEF OneRight, Sent
    <3> QED BY <1>0, <2>1, <2>2, <2>4, <3>1, <3>2 DEF OneRight
  <2>5. KeepsQueues(o) \/ (Sent(o) /\ o \in dlq /\ o \notin dlq')
    BY <1>4 DEF OutsideEffect, OpsSends, Sent, KeepsQueues
  <2> QED BY <2>3, <2>4, <2>5
<1> QED BY <1>2, <1>3, <1>4 DEF Effect

\* The upstream creates one task for a task, and one more for each the gateway
\* never learned of or could not write down, for any number of tasks, calls,
\* sweeps and retries, with crashes, dead letters replayed by operators and
\* every failure but that of the mask: at any time one message, one dead
\* letter or one call has the right to submit it, and gives the right up when
\* the upstream id is in the row.  This holds as long as no release is refused
\* a slot (run claim_race shows what such a release does) and no operator
\* sends a message twice, as /ops/requeue does and a replay that leaves its
\* entry behind: two copies both find no upstream id and submit.
THEOREM OneSubmission ==
  ASSUME "mask" \notin Failing, Operators \subseteq {"replay"}
  PROVE  Spec /\ []NoRefusal => []OrdersExplained
<1> DEFINE I == IndInv /\ Knows /\ ClaimOK /\ OneClaim /\ JobOK /\ TokenOK
<1>1. Init => I
  <2>1. Init => JobOK /\ TokenOK
    BY DEF Init, Idle, NoRow, JobOK, JobKnows, TokenOK, OneRight, Queued, Settled, Submitting, Submits
  <2> QED BY <2>1, InitGood, KnowsInit, ClaimInit
<1>2. I /\ NoRefusal' /\ [Next]_vars => I'
  <2> SUFFICES ASSUME I, NoRefusal', [Next]_vars PROVE I'
    OBVIOUS
  <2>1. IndInv' /\ Knows' /\ Effect
    BY BaseNext, NextEffect
  <2>2. ClaimOK' /\ OneClaim'
    BY <2>1, ClaimKept
  <2> QED BY <2>1, <2>2, JobKept, TokenKept
<1>3. I => OrdersExplained
  BY DEF TokenOK, OneRight, OrdersExplained
<1> QED BY <1>1, <1>2, <1>3, PTL DEF Spec
-------------------------------------------------------------------------------
(* Every slot is accounted for                                             *)

\* A call whose task the failure branch is about to judge, its slot returned.
Judges(c) == c.pc = "failcas" \/ (c.pc = "decr" /\ c.then = "failcas")

Bare ==
  /\ \A t \in Tasks : Unreleased(row[t]) => ~HoldsSlot(row[t])
  /\ \A p \in Procs : Judges(call[p]) => ~HoldsSlot(row[call[p].t])

\* What a step does to the counter, the mask of its task and its call, to the
\* letter.
Leaves(p, t) ==
  /\ (HoldsSlot(row'[t]) <=> HoldsSlot(row[t])) /\ (Carries(call'[p]) <=> Carries(call[p]))
  /\ conc' = conc

TakesOne(p, t) ==
  /\ (HoldsSlot(row'[t]) <=> HoldsSlot(row[t])) /\ ~Carries(call[p]) /\ Carries(call'[p])
  /\ conc' = conc + 1

MasksOne(p, t) ==
  /\ Unreleased(row[t]) /\ HoldsSlot(row'[t]) /\ Carries(call[p]) /\ ~Carries(call'[p])
  /\ conc' = conc

UnmasksOne(p, t) ==
  /\ HoldsSlot(row[t]) /\ ~HoldsSlot(row'[t]) /\ ~Carries(call[p]) /\ Carries(call'[p])
  /\ conc' = conc

ReturnsOne(p, t) ==
  /\ (HoldsSlot(row'[t]) <=> HoldsSlot(row[t])) /\ Carries(call[p]) /\ ~Carries(call'[p])
  /\ conc' = Decr(conc)

Exact(p, t) ==
  Leaves(p, t) \/ TakesOne(p, t) \/ MasksOne(p, t) \/ UnmasksOne(p, t) \/ ReturnsOne(p, t)

\* What it does to the row and the label that Bare speaks of.
StaysBare(p, t) ==
  /\ Unreleased(row'[t]) /\ HoldsSlot(row'[t]) => Unreleased(row[t]) /\ HoldsSlot(row[t])
  /\ Judges(call'[p]) => ~HoldsSlot(row'[t])

LEMMA CallExact ==
  ASSUME {"submit", "mask", "decr"} \cap Failing = {}, IndInv, Knows, ClaimOK, Bare,
         NEW p \in Procs, CallEffect(p), ~CrashEffect(p), NEW t \in Tasks, t = call[p].t
  PROVE  Exact(p, t) /\ StaysBare(p, t)
<1> DEFINE r == row[t]
<1>0. /\ KnowsSelf(call[p]) /\ KnowsRow(call[p], r) /\ call[p] \in Calls
      /\ Unreleased(r) => ~HoldsSlot(r)
      /\ Judges(call[p]) => ~HoldsSlot(r)
  BY DEF Knows, Bare, IndInv, Good, CallsOK
<1>1. Dies(p) \/ Drops(p) => ~Carries(call'[p]) /\ ~Judges(call'[p])
  BY DEF Dies, Drops, Idle, Carries, Judges
<1>2. Keeps(t) => row'[t] = r
  BY DEF Keeps
<1>3. /\ ~Refused(call[p])
      /\ Claims(call[p]) => r.batch = "releasing"
      /\ Sends(call[p]) => r.batch = "released"
  BY DEF ClaimOK
<1> USE DEF At, Exact, StaysBare
<1>5. CASE AcceptEffect(p)
  <2>1. CASE ConcDoes(p)
    BY <1>0, <1>1, <1>2, <2>1
    DEF ConcDoes, Goes, Luggage, KnowsSelf, Carries, Judges, TakesOne, Leaves
  <2>2. CASE InsertDoes(p)
    <3>1. Unreleased(r)
      BY <2>2 DEF InsertDoes, IndInv, Good, FreshAlone, FreshLabels, Unreleased
    <3> QED BY <1>0, <1>2, <2>2, <3>1
        DEF InsertDoes, Goes, Luggage, RowIs, HoldsSlot, Carries, Judges, MasksOne, Leaves,
            Unreleased, Held, BATCH_WAITING_STATES
  <2>3. CASE JoinDoes(p) \/ TriggerDoes(p) \/ SubmitDoes(p)
    BY <1>0, <1>1, <1>2, <2>3
    DEF JoinDoes, TriggerDoes, SubmitDoes, Goes, Luggage, KnowsSelf, Carries, Judges, Leaves,
        AcceptEffect
  <2>4. CASE DueDoes(p)
    BY <1>0, <1>2, <2>4
    DEF DueDoes, Goes, Luggage, KnowsSelf, RowIs, HoldsSlot, Carries, Judges, Leaves, Unreleased, Held
  <2>5. CASE UndoDoes(p)
    BY <1>0, <1>1, <1>2, <2>5 DEF UndoDoes, Carries, Leaves, ReturnsOne
  <2> QED BY <1>5, <2>1, <2>2, <2>3, <2>4, <2>5 DEF AcceptEffect
<1>6. CASE ReleaseEffect(p)
  <2>1. CASE MetaDoes(p) \/ RecheckDoes(p) \/ SendDoes(p)
    BY <1>1, <1>2, <2>1
    DEF MetaDoes, RecheckDoes, SendDoes, Goes, ToSlot, Carries, Judges, Leaves
  <2>2. CASE ClaimDoes(p)
    BY <1>1, <1>2, <2>2
    DEF ClaimDoes, CanClaim, Goes, RowIs, HoldsSlot, Carries, Judges, Leaves, Unreleased, Held
  <2>3. CASE AcquireDoes(p)
    BY <1>2, <2>3 DEF AcquireDoes, Goes, Carries, Judges, TakesOne, Leaves
  <2>4. CASE UnclaimDoes(p) \/ RequeueDoes(p) \/ ScheduleDoes(p) \/ BackoutDoes(p)
    BY <1>3, <2>4 DEF UnclaimDoes, RequeueDoes, ScheduleDoes, BackoutDoes, Refused
  <2>5. CASE MaskDoes(p)
    <3>1. r.batch = "releasing" /\ r.status # "NONE"
      BY <1>0, <1>3, <2>5 DEF MaskDoes, Claims, KnowsRow, FreshLabels
    <3> QED BY <2>5, <3>1
        DEF MaskDoes, Goes, RowIs, HoldsSlot, Carries, Judges, MasksOne, Unreleased, Held,
            BATCH_WAITING_STATES
  <2>6. CASE FailCasDoes(p)
    BY <1>0, <1>1, <1>2, <2>6
    DEF FailCasDoes, RowIs, HoldsSlot, Carries, Judges, Leaves, Unreleased, Held
  <2> QED BY <1>6, <2>1, <2>2, <2>3, <2>4, <2>5, <2>6 DEF ReleaseEffect
<1>7. CASE FinishEffect(p)
  <2>1. Returned(p) => /\ ~Carries(call'[p])
                       /\ Judges(call'[p]) => call[p].then = "failcas"
    BY <1>0, <1>1 DEF Returned, Goes, Carries, Judges, Calls, Returns
  <2>2. CASE ClaimSlotDoes(p)
    <3>1. Unreleased(row'[t]) => Unreleased(r)
      BY <1>2, <2>2 DEF ClaimSlotDoes, RowIs, Unreleased, Held
    <3> QED BY <1>1, <1>2, <2>1, <2>2, <3>1
        DEF ClaimSlotDoes, Goes, Luggage, RowIs, HoldsSlot, Carries, Judges, UnmasksOne, Leaves
  <2>3. CASE GiveSlotDoes(p)
    BY <1>0, <1>2, <2>1, <2>3 DEF GiveSlotDoes, Carries, Judges, ReturnsOne
  <2>4. CASE FinalDoes(p) \/ CancelDoes(p)
    <3>1. r.status # "NONE" /\ (FinalDoes(p) => call[p].st # "NONE")
      BY <1>0, <2>4 DEF FinalDoes, CancelDoes, KnowsRow, KnowsSelf, FreshLabels, TERMINAL
    <3> QED BY <1>1, <1>2, <2>4, <3>1
        DEF FinalDoes, CancelDoes, Goes, ToSlot, RowIs, HoldsSlot, Carries, Judges, Leaves,
            Unreleased, Held
  <2>5. CASE NotifyDoes(p) \/ ClearDoes(p) \/ LeaveDoes(p)
    BY <1>1, <1>2, <2>5
    DEF NotifyDoes, ClearDoes, LeaveDoes, Goes, ToSlot, Carries, Judges, Leaves
  <2> QED BY <1>7, <2>2, <2>3, <2>4, <2>5 DEF FinishEffect
<1>8. CASE UpstreamEffect(p)
  <2>1. CASE PostAcceptedDoes(p) \/ PostFailedDoes(p) \/ ProbeDoes(p)
    BY <1>1, <1>2, <1>8, <2>1
    DEF UpstreamEffect, PostAcceptedDoes, PostFailedDoes, ProbeDoes, Learns, Carries, Judges, Leaves
  <2>2. CASE LandedDoes(p) \/ AdvanceDoes(p)
    <3>1. r.status # "NONE" /\ (AdvanceDoes(p) => call[p].st # "NONE")
      BY <1>0, <2>2 DEF LandedDoes, AdvanceDoes, KnowsRow, KnowsSelf, FreshLabels, ACTIVE
    <3>2. ~Carries(call[p])
      BY <2>2 DEF LandedDoes, AdvanceDoes, Carries
    <3> QED BY <1>1, <1>2, <1>8, <2>2, <3>1, <3>2
        DEF UpstreamEffect, LandedDoes, AdvanceDoes, RowIs, HoldsSlot, Leaves, Unreleased, Held
  <2> QED BY <1>8, <2>1, <2>2 DEF UpstreamEffect
<1>9. CASE EscapeEffect(p)
  <2>1. Keeps(t) /\ UNCHANGED conc /\ ~Carries(call'[p]) /\ ~Judges(call'[p])
    BY <1>1, <1>9 DEF EscapeEffect
  <2>2. ~Carries(call[p])
    BY <1>9 DEF EscapeEffect, Uncaught, Carries
  <2> QED BY <1>2, <2>1, <2>2 DEF Leaves
<1> QED BY <1>5, <1>6, <1>7, <1>8, <1>9 DEF CallEffect

LEMMA StartExact ==
  ASSUME NEW p \in Procs, NEW t \in Tasks, StartEffect(p, t)
  PROVE  /\ Leaves(p, t)
         /\ Unreleased(row'[t]) <=> Unreleased(row[t])
         /\ call'[p] = call[p] \/ ~Judges(call'[p])
<1> USE DEF StartEffect, Leaves, Carries, Judges
<1>1. CASE RescueBegins(p, t)
  BY <1>1 DEF RescueBegins, Begins, RowIs, HoldsSlot, Unreleased, Held, Idle, BATCH_WAITING_STATES
<1>2. CASE ~RescueBegins(p, t)
  BY <1>2 DEF RequestBegins, ReleaseBegins, SubmissionBegins, ProbeBegins, CancelBegins, Begins, Keeps,
     Idle
<1> QED BY <1>1, <1>2

\* A finite set that gains, or loses, exactly one element.
LEMMA OneMore ==
  ASSUME NEW S, IsFiniteSet(S), NEW x, x \notin S, NEW T, T = S \cup {x}
  PROVE  Cardinality(S) \in Nat /\ Cardinality(T) = Cardinality(S) + 1
  BY FS_AddElement, FS_CardinalityType

LEMMA OneLess ==
  ASSUME NEW S, IsFiniteSet(S), NEW x \in S, NEW T, T = S \ {x}
  PROVE  /\ Cardinality(S) \in Nat /\ Cardinality(T) \in Nat
         /\ Cardinality(S) = Cardinality(T) + 1
<1>1. IsFiniteSet(T) /\ Cardinality(T) = Cardinality(S) - 1
  BY FS_RemoveElement
<1> QED BY <1>1, FS_CardinalityType

LEMMA ExactCounts ==
  ASSUME IndInv, UndoFresh, UndoFresh', Bare, SlotsConserved,
         NEW p \in Procs, NEW t \in Tasks, Local(p, t), Exact(p, t)
  PROVE  SlotsConserved'
<1> DEFINE H == Holders
           C == Carriers
<1>1. IsFiniteSet(H) /\ IsFiniteSet(C) /\ Cardinality(H) \in Nat /\ Cardinality(C) \in Nat
  BY TasksAssumption, ProcsAssumption, FS_Subset, FS_CardinalityType DEF Holders, Carriers
<1>2. conc \in Nat /\ conc = Cardinality(H) + Cardinality(C)
  BY DEF IndInv, RestOK, SlotsConserved
<1>3. C = {q \in Procs : Carries(call[q])} /\ C' = {q \in Procs : Carries(call'[q])}
  BY CarriersAre DEF UndoFresh, Carriers, Carries
<1>4. H = {o \in Tasks : HoldsSlot(row[o])} /\ H' = {o \in Tasks : HoldsSlot(row'[o])}
  BY DEF Holders
<1>5. /\ (Carries(call'[p]) <=> Carries(call[p])) => C' = C
      /\ ~Carries(call[p]) /\ Carries(call'[p]) => p \notin C /\ C' = C \cup {p}
      /\ Carries(call[p]) /\ ~Carries(call'[p]) => p \in C /\ C' = C \ {p}
  BY <1>3 DEF Local
<1>6. /\ (HoldsSlot(row'[t]) <=> HoldsSlot(row[t])) => H' = H
      /\ ~HoldsSlot(row[t]) /\ HoldsSlot(row'[t]) => t \notin H /\ H' = H \cup {t}
      /\ HoldsSlot(row[t]) /\ ~HoldsSlot(row'[t]) => t \in H /\ H' = H \ {t}
  BY <1>4 DEF Local
<1> HIDE DEF H, C
<1>7. SlotsConserved' <=> conc' = Cardinality(H') + Cardinality(C')
  BY DEF SlotsConserved, H, C
<1>8. CASE Leaves(p, t)
  BY <1>2, <1>5, <1>6, <1>7, <1>8 DEF Leaves
<1>9. CASE TakesOne(p, t)
  <2>1. H' = H /\ Cardinality(C') = Cardinality(C) + 1
    BY <1>1, <1>5, <1>6, <1>9, OneMore DEF TakesOne
  <2> QED BY <1>1, <1>2, <1>7, <1>9, <2>1 DEF TakesOne
<1>10. CASE MasksOne(p, t)
  <2>1. ~HoldsSlot(row[t])
    BY <1>10 DEF MasksOne, Bare
  <2>2. /\ Cardinality(H') = Cardinality(H) + 1
        /\ Cardinality(C') \in Nat /\ Cardinality(C) = Cardinality(C') + 1
    BY <1>1, <1>5, <1>6, <1>10, <2>1, OneMore, OneLess DEF MasksOne
  <2> QED BY <1>1, <1>2, <1>7, <1>10, <2>2 DEF MasksOne
<1>11. CASE UnmasksOne(p, t)
  <2>1. /\ Cardinality(C') = Cardinality(C) + 1
        /\ Cardinality(H') \in Nat /\ Cardinality(H) = Cardinality(H') + 1
    BY <1>1, <1>5, <1>6, <1>11, OneMore, OneLess DEF UnmasksOne
  <2> QED BY <1>1, <1>2, <1>7, <1>11, <2>1 DEF UnmasksOne
<1>12. CASE ReturnsOne(p, t)
  <2>1. H' = H /\ Cardinality(C') \in Nat /\ Cardinality(C) = Cardinality(C') + 1
    BY <1>1, <1>5, <1>6, <1>12, OneLess DEF ReturnsOne
  <2> QED BY <1>1, <1>2, <1>7, <1>12, <2>1 DEF ReturnsOne, Decr
<1> QED BY <1>8, <1>9, <1>10, <1>11, <1>12 DEF Exact


LEMMA BareKept ==
  ASSUME {"submit", "mask", "decr"} \cap Failing = {}, lost' = {},
         IndInv, Knows, ClaimOK, Bare, Effect
  PROVE  Bare'
<1>1. \A q \in Procs :
        Judges(call[q]) => /\ call[q].t \in Tasks /\ ~HoldsSlot(row[call[q].t])
                           /\ ~Unreleased(row[call[q].t])
  BY DEF Bare, Judges, ClaimOK, Sends, SlotLabels, Unreleased, Held, BATCH_WAITING_STATES, Knows,
         KnowsRow, FreshLabels, IndInv, Good, CallsOK, Idle
<1>2. \A o \in Tasks : Unreleased(row[o]) => ~HoldsSlot(row[o])
  BY DEF Bare
<1>3. ASSUME NEW p \in Procs, CallEffect(p) PROVE Bare'
  <2> DEFINE t == call[p].t
  <2>1. t \in Tasks /\ Mover(p, t) /\ ~CrashEffect(p)
    BY <1>3, CallMoves DEF CrashEffect
  <2>2. Exact(p, t) /\ StaysBare(p, t)
    BY <1>3, <2>1, CallExact
  <2>3. ASSUME NEW o \in Tasks, Unreleased(row'[o]) PROVE ~HoldsSlot(row'[o])
    <3>1. CASE o = t
      BY <1>2, <2>2, <2>3, <3>1 DEF StaysBare
    <3>2. CASE o # t
      BY <1>2, <2>1, <2>3, <3>2 DEF Mover, Local
    <3> QED BY <3>1, <3>2
  <2>4. ASSUME NEW q \in Procs, Judges(call'[q]) PROVE ~HoldsSlot(row'[call'[q].t])
    <3>1. CASE q = p
      BY <2>1, <2>2, <2>4, <3>1 DEF StaysBare, Mover, Judges, Idle
    <3>2. CASE q # p /\ call[q].t # t
      BY <1>1, <2>1, <2>4, <3>2 DEF Mover, Local
    <3>3. CASE q # p /\ call[q].t = t
      <4>1. call'[q] = call[q] /\ ~HoldsSlot(row[t]) /\ ~Unreleased(row[t])
        BY <1>1, <2>1, <2>4, <3>3 DEF Mover, Local
      <4>2. ~HoldsSlot(row'[t])
        BY <2>2, <4>1 DEF Exact, Leaves, TakesOne, MasksOne, UnmasksOne, ReturnsOne
      <4> QED BY <3>3, <4>1, <4>2
    <3> QED BY <3>1, <3>2, <3>3
  <2> QED BY <2>3, <2>4 DEF Bare
<1>4. ASSUME NEW p \in Procs, NEW t \in Tasks, StartEffect(p, t) PROVE Bare'
  <2>1. /\ Local(p, t) /\ Leaves(p, t)
        /\ Unreleased(row'[t]) <=> Unreleased(row[t])
        /\ call'[p] = call[p] \/ ~Judges(call'[p])
    BY <1>4, StartExact DEF StartEffect
  <2>2. ASSUME NEW o \in Tasks
        PROVE  /\ HoldsSlot(row'[o]) <=> HoldsSlot(row[o])
               /\ Unreleased(row'[o]) <=> Unreleased(row[o])
    BY <2>1 DEF Local, Leaves
  <2>3. \A q \in Procs : Judges(call'[q]) => call'[q] = call[q]
    BY <2>1 DEF Local
  <2> QED BY <1>1, <1>2, <2>2, <2>3 DEF Bare
<1>5. CASE OutsideEffect
  BY <1>5 DEF OutsideEffect, Bare
<1> QED BY <1>3, <1>4, <1>5 DEF Effect

LEMMA ConservedKept ==
  ASSUME {"submit", "mask", "decr"} \cap Failing = {}, lost' = {},
         IndInv, Knows, UndoFresh, UndoFresh', ClaimOK, Bare, SlotsConserved, Effect
  PROVE  SlotsConserved'
<1>1. ASSUME NEW p \in Procs, CallEffect(p) PROVE SlotsConserved'
  <2>1. call[p].t \in Tasks /\ Local(p, call[p].t) /\ ~CrashEffect(p)
    BY <1>1, CallMoves DEF Mover, CrashEffect
  <2>2. Exact(p, call[p].t)
    BY <1>1, <2>1, CallExact
  <2> QED BY <2>1, <2>2, ExactCounts
<1>2. ASSUME NEW p \in Procs, NEW t \in Tasks, StartEffect(p, t) PROVE SlotsConserved'
  <2>1. Local(p, t) /\ Exact(p, t)
    BY <1>2, StartExact DEF StartEffect, Exact
  <2> QED BY <2>1, ExactCounts
<1>3. CASE OutsideEffect
  BY <1>3 DEF OutsideEffect, UndoFresh, SlotsConserved, Holders, Carriers
<1> QED BY <1>1, <1>2, <1>3 DEF Effect

LEMMA NothingLostKept ==
  ASSUME MaxCrashes = 0, IndInv, lost = {}, [Next]_vars
  PROVE  lost' = {}
<1>1. crashes \in Nat /\ ~(crashes < 0)
  <2>1. RestOK
    BY DEF IndInv
  <2> QED BY <2>1 DEF RestOK
<1> USE DEF history, vars
<1>2. ASSUME NEW p \in Procs, Step(p) \/ Escape(p) \/ Crash(p) PROVE lost' = {}
  BY <1>1, <1>2
  DEF Step, Escape, Crash, AcceptStep, AcceptConc, AcceptInsert, AcceptJoin, AcceptDue, AcceptTrigger,
      AcceptSubmit, AcceptUndo, ReleaseStep, RescueMeta, Claim, Acquire, Unclaim, Requeue, Schedule,
      Mask, Backout, Recheck, Send, FailCas, FinishStep, Final, ClaimSlot, GiveSlot, Notify, Clear,
      CancelCas, CancelLeave, UpstreamStep, PostAccepted, PostRejected, PostAmbiguous, Landed,
      ProbeTerminal, ProbeActive, ProbeNothing, Advance
<1>3. ASSUME NEW p \in Procs, NEW t \in Tasks,
             WorkerStart(p, t) \/ SweepStart(p, t) \/ ClientStart(p, t) \/ ProbeStart(p, t)
      PROVE  lost' = {}
  BY <1>3, StartEffects DEF StartEffect
<1>4. CASE \/ UNCHANGED vars
           \/ \E k \in Triggers : FireTrigger(k)
           \/ \E t \in Tasks : OpsRequeue(t) \/ OpsReplay(t) \/ CrashBatch(t)
  BY <1>1, <1>4 DEF FireTrigger, OpsRequeue, OpsReplay, CrashBatch
<1> QED BY <1>2, <1>3, <1>4 DEF Next

\* No slot leaks: the counter is the number of masks and of calls on their
\* way with a slot, for any number of tasks and calls, with operators and
\* every failure but three, as long as no call dies and no release is refused
\* a slot.  A slot whose return fails stays taken until the counter expires,
\* as does that of a call that dies; a request whose enqueue fails gives back
\* one that its row still claims (run double_return); and a release refused a
\* slot may end in a second one for the same task (run claim_race).
THEOREM NoSlotLeaks ==
  ASSUME {"submit", "mask", "decr"} \cap Failing = {}, MaxCrashes = 0
  PROVE  Spec /\ []NoRefusal => []SlotsConserved
<1> DEFINE I == /\ IndInv /\ Knows /\ ClaimOK /\ OneClaim /\ Accounted /\ Bare
                /\ lost = {} /\ SlotsConserved
<1>1. Init => I
  <2> SUFFICES ASSUME Init PROVE Bare /\ lost = {} /\ SlotsConserved
    BY InitGood, KnowsInit, ClaimInit
  <2>1. Bare /\ lost = {} /\ conc = 0
    BY DEF Init, Idle, NoRow, Bare, Judges, HoldsSlot
  <2>2. Holders = {} /\ Carriers = {}
    BY DEF Init, Idle, Holders, Carriers, HoldsSlot, NoRow
  <2> QED BY <2>1, <2>2, FS_EmptySet DEF SlotsConserved
<1>2. I /\ NoRefusal' /\ [Next]_vars => I'
  <2> SUFFICES ASSUME I, NoRefusal', [Next]_vars PROVE I'
    OBVIOUS
  <2>1. IndInv' /\ Knows' /\ Effect /\ lost' = {}
    BY BaseNext, NextEffect, NothingLostKept
  <2>2. ClaimOK' /\ OneClaim' /\ Accounted'
    BY <2>1, ClaimKept, AccountedKept
  <2>3. Bare'
    BY <2>1, BareKept
  <2>4. SlotsConserved'
    BY <2>1, <2>2, ConservedKept DEF Accounted
  <2> QED BY <2>1, <2>2, <2>3, <2>4
<1> QED BY <1>1, <1>2, PTL DEF Spec

===============================================================================
