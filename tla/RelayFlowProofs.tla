--------------------------- MODULE RelayFlowProofs ---------------------------
(***************************************************************************)
(* Theorems about RelayFlow for every set of tasks and coroutines and      *)
(* every value of the limits and bounds: type correctness, and that no     *)
(* step of any call leaves a terminal status.                              *)
(*                                                                         *)
(* TypeOK is not inductive alone.  A running call must know a task that    *)
(* exists in the model (CallsOK), and the call about to insert a row must  *)
(* be the only one that knows its task and must find no row (FreshAlone):  *)
(* otherwise the INSERT could overwrite a terminal row.                    *)
(***************************************************************************)
EXTENDS RelayFlow, TLAPS

RowsOK == row \in [Tasks -> Rows]

CallsOK ==
  /\ call \in [Procs -> Calls]
  /\ \A p \in Procs : call[p] = Idle \/ (call[p].pc # "idle" /\ call[p].t \in Tasks)

RestOK ==
  /\ conc \in Nat
  /\ index \subseteq Tasks /\ woken \subseteq Tasks /\ timers \subseteq Tasks
  /\ dlq \subseteq Tasks /\ session \subseteq Tasks /\ lost \subseteq Tasks
  /\ trig \subseteq Triggers
  /\ submits \in [Tasks -> Nat] /\ notified \in [Tasks -> Nat] /\ orders \in [Tasks -> Nat]
  /\ strays \in [Tasks -> Nat]
  /\ faults \in Nat /\ crashes \in Nat

\* The labels of a call whose task has no row yet.
FreshLabels == {"conc", "insert"}

FreshAlone ==
  \A p \in Procs :
    call[p].pc \in FreshLabels =>
      /\ row[call[p].t].status = "NONE"
      /\ \A q \in Procs \ {p} : call[q].t # call[p].t

Good == RowsOK /\ CallsOK /\ FreshAlone

IndInv == Good /\ RestOK

\* What TerminalIsFinal says of one step.
Kept == \A t \in Tasks : row[t].status \in TERMINAL => row'[t].status = row[t].status

-------------------------------------------------------------------------------
(* The operators of TaskStore                                              *)

\* Every operation of the task table maps a row to a row.
LEMMA RowOps ==
  ASSUME NEW r \in Rows, NEW id \in Nat, NEW s \in Statuses
  PROVE  /\ NoRow \in Rows
         /\ MergeUp(r, id) \in Rows
         /\ CasTo(r, s, id) \in Rows
         /\ Claimed(r) \in Rows
         /\ Unclaimed(r) \in Rows
         /\ SlotCleared(r) \in Rows
         /\ Released(r) \in Rows
         /\ Requeued(r) \in Rows
         /\ [r EXCEPT !.due = TRUE] \in Rows
         /\ [CasTo(r, s, id) EXCEPT !.slot = 0, !.batch = "released"] \in Rows
<1>1. NoRow \in Rows
  BY DEF Rows, NoRow, Statuses, BatchStates
<1>2. MergeUp(r, id) \in Rows
  BY DEF Rows, MergeUp
<1>3. CasTo(r, s, id) \in Rows
  BY <1>2 DEF Rows, CasTo
<1>4. [CasTo(r, s, id) EXCEPT !.slot = 0, !.batch = "released"] \in Rows
  BY <1>3 DEF Rows, BatchStates
<1>5. Claimed(r) \in Rows /\ Released(r) \in Rows
  BY DEF Rows, Claimed, Released, BatchStates
<1>6. Unclaimed(r) \in Rows /\ Requeued(r) \in Rows
  BY DEF Rows, Unclaimed, Requeued, BatchStates, BATCH_WAITING_STATES
<1>7. SlotCleared(r) \in Rows /\ [r EXCEPT !.due = TRUE] \in Rows
  BY DEF Rows, SlotCleared
<1> QED BY <1>1, <1>2, <1>3, <1>4, <1>5, <1>6, <1>7

\* The operations that are not transitions leave the status column alone.
LEMMA StatusAlone ==
  ASSUME NEW r \in Rows, NEW id \in Nat
  PROVE  /\ MergeUp(r, id).status = r.status
         /\ Claimed(r).status = r.status
         /\ Unclaimed(r).status = r.status
         /\ SlotCleared(r).status = r.status
         /\ Released(r).status = r.status
         /\ Requeued(r).status = r.status
         /\ [r EXCEPT !.due = TRUE].status = r.status
  BY DEF Rows, MergeUp, Claimed, Unclaimed, SlotCleared, Released, Requeued

\* No status is both active and terminal, and "no row" is neither.
LEMMA Disjoint ==
  ACTIVE \cap TERMINAL = {} /\ "NONE" \notin ACTIVE \cup TERMINAL
  BY DEF ACTIVE, TERMINAL

-------------------------------------------------------------------------------
(* One write to the table, one move of a call                              *)

\* A row write keeps the table well-typed and, if it does not move a terminal
\* status, keeps every terminal status.
LEMMA SetRowKeeps ==
  ASSUME RowsOK, NEW t \in Tasks, NEW r \in Rows, SetRow(t, r)
  PROVE  /\ RowsOK'
         /\ (row[t].status \in TERMINAL => r.status = row[t].status) => Kept
  BY DEF RowsOK, SetRow, Kept

LEMMA SameRow == ASSUME RowsOK, UNCHANGED row PROVE RowsOK' /\ Kept
  BY DEF RowsOK, Kept

LEMMA BecomeKeeps ==
  ASSUME CallsOK, NEW p \in Procs, NEW c \in Calls, Become(p, c),
         c = Idle \/ (c.pc # "idle" /\ c.t \in Tasks)
  PROVE  CallsOK'
  BY DEF CallsOK, Become

LEMMA IdleCall == Idle \in Calls
  BY DEF Idle, Calls, Labels, Statuses, Returns

\* A call that goes on, at any label.
LEMMA GotoKeeps ==
  ASSUME CallsOK, NEW p \in Procs, NEW label \in Labels, call[p].pc # "idle",
         Goto(p, label)
  PROVE  CallsOK'
<1>1. call[p] \in Calls /\ call[p].t \in Tasks
  BY DEF CallsOK, Idle
<1>2. CASE label = "idle"
  BY <1>2, IdleCall, BecomeKeeps DEF Goto
<1>3. CASE label # "idle"
  <2> DEFINE c == [call[p] EXCEPT !.pc = label]
  <2>1. c \in Calls /\ c.pc # "idle" /\ c.t \in Tasks
    BY <1>1, <1>3 DEF Calls
  <2>2. Become(p, c)
    BY <1>3 DEF Goto
  <2> QED BY <2>1, <2>2, BecomeKeeps
<1> QED BY <1>2, <1>3

LEMMA ReleaseSlotThenKeeps ==
  ASSUME CallsOK, NEW p \in Procs, NEW label \in Returns, call[p].pc # "idle",
         ReleaseSlotThen(p, label)
  PROVE  CallsOK'
<1> DEFINE c == [call[p] EXCEPT !.pc = "slot", !.then = label]
<1>1. call[p] \in Calls /\ call[p].t \in Tasks
  BY DEF CallsOK, Idle
<1>2. c \in Calls /\ c.pc # "idle" /\ c.t \in Tasks
  BY <1>1 DEF Calls, Labels, SlotLabels
<1> QED BY <1>2, BecomeKeeps DEF ReleaseSlotThen

LEMMA StartKeeps ==
  ASSUME CallsOK, NEW p \in Procs, NEW t \in Tasks, NEW label \in Labels \ {"idle"},
         Start(p, label, t)
  PROVE  CallsOK'
<1> DEFINE c == [Idle EXCEPT !.pc = label, !.t = t]
<1>1. c \in Calls /\ c.pc # "idle" /\ c.t \in Tasks
  BY DEF Calls, Idle, Statuses, Returns
<1> QED BY <1>1, BecomeKeeps DEF Start

(***************************************************************************)
(* A call touches only its own task and itself.                            *)
(***************************************************************************)
Touches(t) == UNCHANGED row \/ \E r : SetRow(t, r)

\* A call past its INSERT, whatever it does to its own row, disturbs no call
\* that is still before it.
LEMMA OwnTaskKeepsFresh ==
  ASSUME Good, NEW p \in Procs, call[p].pc # "idle",
         NEW c \in Calls, Become(p, c), c.pc \notin FreshLabels,
         c.t \in {call[p].t, NoTask},
         Touches(call[p].t)
  PROVE  FreshAlone'
<1> SUFFICES ASSUME NEW q \in Procs, call'[q].pc \in FreshLabels
             PROVE  /\ row'[call'[q].t].status = "NONE"
                    /\ \A o \in Procs \ {q} : call'[o].t # call'[q].t
  BY DEF FreshAlone
<1>1. q # p /\ call'[q] = call[q] /\ call'[p] = c
  BY DEF Become, Good, CallsOK
<1>2. \A o \in Procs \ {p} : call'[o] = call[o]
  BY DEF Become, Good, CallsOK
<1>3. /\ call[q].t \in Tasks /\ row[call[q].t].status = "NONE"
      /\ \A o \in Procs \ {q} : call[o].t # call[q].t
  BY <1>1 DEF Good, CallsOK, FreshAlone, FreshLabels, Idle
<1>4. row'[call[q].t] = row[call[q].t]
  BY <1>1, <1>3 DEF Touches, SetRow, Good, RowsOK
<1>5. c.t # call[q].t
  BY <1>1, <1>3, TasksAssumption
<1> QED BY <1>1, <1>2, <1>3, <1>4, <1>5

\* Nor does a call that begins on a task that has a row.
LEMMA KnownTaskKeepsFresh ==
  ASSUME Good, NEW p \in Procs, NEW t \in Tasks, row[t].status # "NONE",
         NEW c \in Calls, Become(p, c), c.pc \notin FreshLabels, c.t = t,
         Touches(t)
  PROVE  FreshAlone'
<1> SUFFICES ASSUME NEW q \in Procs, call'[q].pc \in FreshLabels
             PROVE  /\ row'[call'[q].t].status = "NONE"
                    /\ \A o \in Procs \ {q} : call'[o].t # call'[q].t
  BY DEF FreshAlone
<1>1. q # p /\ call'[q] = call[q] /\ call'[p] = c
  BY DEF Become, Good, CallsOK
<1>2. \A o \in Procs \ {p} : call'[o] = call[o]
  BY DEF Become, Good, CallsOK
<1>3. /\ call[q].t \in Tasks /\ row[call[q].t].status = "NONE"
      /\ \A o \in Procs \ {q} : call[o].t # call[q].t
  BY <1>1 DEF Good, CallsOK, FreshAlone, FreshLabels, Idle
<1>4. row'[call[q].t] = row[call[q].t]
  BY <1>1, <1>3 DEF Touches, SetRow, Good, RowsOK
<1> QED BY <1>1, <1>2, <1>3, <1>4

\* A call that goes on: with or without a write to the row of its task, at a
\* label or through _release_slot.
LEMMA GoOn ==
  ASSUME Good, NEW p \in Procs, call[p].pc # "idle",
         \/ \E label \in Labels \ FreshLabels : Goto(p, label)
         \/ \E label \in Returns : ReleaseSlotThen(p, label),
         \/ UNCHANGED row
         \/ \E r \in Rows :
              /\ SetRow(call[p].t, r)
              /\ row[call[p].t].status \in TERMINAL => r.status = row[call[p].t].status
  PROVE  Good' /\ Kept
<1>1. call[p] \in Calls /\ call[p].t \in Tasks
  BY DEF Good, CallsOK, Idle
<1>2. RowsOK' /\ Kept
  BY <1>1, SetRowKeeps, SameRow DEF Good
<1>3. CallsOK'
  BY GotoKeeps, ReleaseSlotThenKeeps DEF Good
<1>4. Touches(call[p].t)
  BY DEF Touches
<1>5. CASE \E label \in Labels \ FreshLabels : Goto(p, label)
  <2>1. PICK label \in Labels \ FreshLabels : Goto(p, label)
    BY <1>5
  <2> DEFINE c == IF label = "idle" THEN Idle ELSE [call[p] EXCEPT !.pc = label]
  <2>2. c \in Calls /\ c.pc \notin FreshLabels /\ c.t \in {call[p].t, NoTask}
    BY <1>1, IdleCall DEF Calls, FreshLabels, Idle
  <2>3. Become(p, c)
    BY <2>1 DEF Goto
  <2> QED BY <1>2, <1>3, <1>4, <2>2, <2>3, OwnTaskKeepsFresh DEF Good
<1>6. CASE \E label \in Returns : ReleaseSlotThen(p, label)
  <2>1. PICK label \in Returns : ReleaseSlotThen(p, label)
    BY <1>6
  <2> DEFINE c == [call[p] EXCEPT !.pc = "slot", !.then = label]
  <2>2. c \in Calls /\ c.pc \notin FreshLabels /\ c.t = call[p].t
    BY <1>1 DEF Calls, FreshLabels, Labels, SlotLabels
  <2>3. Become(p, c)
    BY <2>1 DEF ReleaseSlotThen
  <2> QED BY <1>2, <1>3, <1>4, <2>2, <2>3, OwnTaskKeepsFresh DEF Good
<1> QED BY <1>5, <1>6

\* A call that carries on with other contents.
LEMMA CarryOn ==
  ASSUME Good, NEW p \in Procs, call[p].pc # "idle", UNCHANGED row,
         NEW c \in Calls, Become(p, c), c.pc \notin FreshLabels \cup {"idle"},
         c.t = call[p].t
  PROVE  Good' /\ Kept
<1>1. call[p].t \in Tasks
  BY DEF Good, CallsOK, Idle
<1>2. CallsOK'
  BY <1>1, BecomeKeeps DEF Good
<1>3. FreshAlone'
  BY OwnTaskKeepsFresh DEF Touches
<1> QED BY <1>2, <1>3, SameRow DEF Good

\* A call that begins on a task that has a row.
LEMMA Begin ==
  ASSUME Good, NEW p \in Procs, NEW t \in Tasks, row[t].status # "NONE",
         NEW c \in Calls, Become(p, c), c.pc \notin FreshLabels \cup {"idle"}, c.t = t,
         \/ UNCHANGED row
         \/ \E r \in Rows :
              /\ SetRow(t, r)
              /\ row[t].status \in TERMINAL => r.status = row[t].status
  PROVE  Good' /\ Kept
<1>1. RowsOK' /\ Kept
  BY SetRowKeeps, SameRow DEF Good
<1>2. CallsOK'
  BY BecomeKeeps DEF Good
<1>3. FreshAlone'
  BY KnownTaskKeepsFresh DEF Touches
<1> QED BY <1>1, <1>2, <1>3 DEF Good

LEMMA StandStill == ASSUME Good, UNCHANGED <<row, call>> PROVE Good' /\ Kept
  BY DEF Good, RowsOK, CallsOK, FreshAlone, Kept

-------------------------------------------------------------------------------
(* create_queue_task                                                       *)

\* A request begins on a task nobody knows.
LEMMA AcceptStartKeeps ==
  ASSUME IndInv, NEW p \in Procs, NEW t \in Tasks, AcceptStart(p, t)
  PROVE  IndInv' /\ Kept
<1> DEFINE label == IF t \in Batched THEN "insert" ELSE "conc"
           c == [Idle EXCEPT !.pc = label, !.t = t]
<1>1. /\ row[t].status = "NONE" /\ call[p] = Idle /\ Start(p, label, t)
      /\ \A q \in Procs : call[q].t # t
      /\ UNCHANGED row
  BY DEF AcceptStart, Start
<1>2. RestOK'
  BY DEF AcceptStart, RestOK, IndInv, redis, queues, history, budget
<1>3. RowsOK' /\ Kept
  BY <1>1, SameRow DEF IndInv, Good
<1>4. CallsOK'
  BY <1>1, StartKeeps DEF IndInv, Good, Labels, AcceptLabels
<1>5. FreshAlone'
  <2>1. call' = [call EXCEPT ![p] = c]
    BY <1>1 DEF Start, Become
  <2>2. c.t = t /\ c.pc = label
    BY DEF Idle
  <2> QED BY <1>1, <2>1, <2>2 DEF IndInv, Good, CallsOK, FreshAlone, Idle, FreshLabels
<1> QED BY <1>2, <1>3, <1>4, <1>5 DEF IndInv, Good

\* The steps of a request keep the invariant and every terminal status: the
\* INSERT because it finds no row, the others because they set no status.
LEMMA AcceptKeeps ==
  ASSUME IndInv, NEW p \in Procs, AcceptStep(p)
  PROVE  IndInv' /\ Kept
<1> DEFINE t == call[p].t
<1>0. Good /\ RestOK /\ RowsOK /\ CallsOK /\ FreshAlone
  BY DEF IndInv, Good
<1>1. call[p].pc # "idle" /\ t \in Tasks /\ row[t] \in Rows /\ call[p] \in Calls
  BY <1>0 DEF AcceptStep, AcceptConc, AcceptInsert, AcceptJoin, AcceptDue, AcceptTrigger,
              AcceptSubmit, AcceptUndo, At, CallsOK, RowsOK, Idle
<1>2. CASE AcceptConc(p)
  <2>1. RestOK'
    BY <1>0, <1>2 DEF AcceptConc, RestOK, queues, history, budget
  <2>2. CASE Goto(p, "insert")
    <3> DEFINE c == [call[p] EXCEPT !.pc = "insert"]
    <3>1. call' = [call EXCEPT ![p] = c] /\ UNCHANGED row
      BY <1>2, <2>2 DEF AcceptConc, Goto, Become
    <3>2. c.t = t /\ c.pc = "insert" /\ call[p].pc = "conc"
      BY <1>1, <1>2 DEF AcceptConc, At, Calls
    <3>3. CallsOK'
      BY <1>0, <1>1, <2>2, GotoKeeps DEF Labels, AcceptLabels
    <3>4. FreshAlone'
      BY <1>0, <3>1, <3>2 DEF CallsOK, FreshAlone, FreshLabels
    <3> QED BY <1>0, <2>1, <3>1, <3>3, <3>4, SameRow DEF IndInv, Good
  <2>3. CASE Goto(p, "idle")
    BY <1>0, <1>1, <1>2, <2>1, <2>3, GoOn DEF AcceptConc, IndInv, Labels, FreshLabels
  <2> QED BY <1>2, <2>2, <2>3 DEF AcceptConc
<1>3. CASE AcceptInsert(p)
  <2>1. RestOK'
    BY <1>0, <1>1, <1>3 DEF AcceptInsert, RestOK, queues, history, budget, Fails
  <2>2. \E label \in Labels \ FreshLabels : Goto(p, label)
    BY <1>3 DEF AcceptInsert, Labels, AcceptLabels, FreshLabels
  <2>3. row[t].status = "NONE"
    BY <1>0, <1>3 DEF AcceptInsert, At, FreshAlone, FreshLabels
  <2>4. NewRow(t \in Batched) \in Rows
    BY DEF Rows, NewRow, NoRow, Statuses, ACTIVE, BatchStates, BATCH_WAITING_STATES
  <2>5. UNCHANGED row \/ SetRow(t, NewRow(t \in Batched))
    BY <1>3 DEF AcceptInsert
  <2>6. Good' /\ Kept
    BY <1>0, <1>1, <2>2, <2>3, <2>4, <2>5, GoOn, Disjoint
  <2> QED BY <2>1, <2>6 DEF IndInv
<1>4. CASE AcceptJoin(p)
  <2> DEFINE wanted == (IF index = {} THEN {"due"} ELSE {})
                        \cup (IF Cardinality(index \cup {t}) >= BatchSize THEN {"size"} ELSE {})
             c == [call[p] EXCEPT !.pc = "due", !.want = wanted]
  <2>1. RestOK' /\ UNCHANGED row
    BY <1>0, <1>1, <1>4 DEF AcceptJoin, RestOK, queues, history, budget, Fails
  <2>2. CASE Become(p, c)
    <3>1. c \in Calls /\ c.pc \notin FreshLabels \cup {"idle"} /\ c.t = t
      BY <1>1 DEF Calls, Labels, AcceptLabels, FreshLabels, Triggers
    <3> QED BY <1>0, <1>1, <2>1, <2>2, <3>1, CarryOn DEF IndInv
  <2>3. CASE Goto(p, "undo")
    BY <1>0, <1>1, <2>1, <2>3, GoOn DEF IndInv, Labels, AcceptLabels, FreshLabels
  <2> QED BY <1>4, <2>2, <2>3 DEF AcceptJoin
<1>5. CASE AcceptDue(p)
  <2>1. RestOK'
    BY <1>0, <1>5 DEF AcceptDue, RestOK, redis, queues, history, budget, Fails
  <2>2. \E label \in Labels \ FreshLabels : Goto(p, label)
    BY <1>5 DEF AcceptDue, Labels, AcceptLabels, FreshLabels
  <2>3. UNCHANGED row \/ SetRow(t, [row[t] EXCEPT !.due = TRUE])
    BY <1>5 DEF AcceptDue
  <2>4. [row[t] EXCEPT !.due = TRUE] \in Rows
        /\ [row[t] EXCEPT !.due = TRUE].status = row[t].status
    BY <1>1 DEF Rows
  <2> QED BY <1>0, <1>1, <2>1, <2>2, <2>3, <2>4, GoOn DEF IndInv
<1>6. CASE AcceptTrigger(p)
  <2>1. RestOK' /\ UNCHANGED row /\ Goto(p, "idle")
    BY <1>0, <1>1, <1>6 DEF AcceptTrigger, RestOK, redis, history, budget, Fails, Calls
  <2> QED BY <1>0, <1>1, <2>1, GoOn DEF IndInv, Labels, FreshLabels
<1>7. CASE AcceptSubmit(p)
  <2>1. RestOK' /\ UNCHANGED row
    BY <1>0, <1>1, <1>7 DEF AcceptSubmit, RestOK, redis, history, budget, Fails, Publish
  <2>2. \E label \in Labels \ FreshLabels : Goto(p, label)
    BY <1>7 DEF AcceptSubmit, Labels, AcceptLabels, FreshLabels
  <2> QED BY <1>0, <1>1, <2>1, <2>2, GoOn DEF IndInv
<1>8. CASE AcceptUndo(p)
  <2>1. RestOK' /\ UNCHANGED row /\ Goto(p, "idle")
    BY <1>0, <1>8 DEF AcceptUndo, RestOK, queues, history, budget, Decr, Fails
  <2> QED BY <1>0, <1>1, <2>1, GoOn DEF IndInv, Labels, FreshLabels
<1> QED BY <1>2, <1>3, <1>4, <1>5, <1>6, <1>7, <1>8 DEF AcceptStep

-------------------------------------------------------------------------------
(* release_batched_task                                                    *)

LEMMA ReleaseKeeps ==
  ASSUME IndInv, NEW p \in Procs, ReleaseStep(p)
  PROVE  IndInv' /\ Kept
<1> DEFINE t == call[p].t
<1>0. Good /\ RestOK /\ RowsOK /\ CallsOK
  BY DEF IndInv, Good
<1>1. call[p].pc # "idle" /\ t \in Tasks /\ row[t] \in Rows
  BY <1>0 DEF ReleaseStep, RescueMeta, Claim, Acquire, Unclaim, Requeue, Schedule, Mask,
              Backout, Recheck, Send, FailCas, At, CallsOK, RowsOK, Idle
<1> DEFINE Onward == \/ \E label \in Labels \ FreshLabels : Goto(p, label)
                     \/ \E label \in Returns : ReleaseSlotThen(p, label)
           Written == \/ UNCHANGED row
                      \/ \E r \in Rows :
                           /\ SetRow(t, r)
                           /\ row[t].status \in TERMINAL => r.status = row[t].status
<1>2. SUFFICES RestOK' /\ Onward /\ Written
  BY <1>0, <1>1, GoOn DEF IndInv
<1>3. CASE RescueMeta(p)
  <2>1. RestOK' /\ UNCHANGED row
    BY <1>0, <1>3 DEF RescueMeta, RestOK, redis, queues, history, budget
  <2>2. Onward
    BY <1>3 DEF RescueMeta, Labels, ReleaseLabels, FreshLabels
  <2> QED BY <2>1, <2>2
<1>4. CASE Claim(p)
  <2>1. RestOK'
    BY <1>0, <1>4 DEF Claim, RestOK, redis, queues, history, budget
  <2>2. Onward
    BY <1>4 DEF Claim, Labels, ReleaseLabels, FreshLabels
  <2>3. Written
    BY <1>1, <1>4, RowOps, StatusAlone, 0 \in Nat, "NONE" \in Statuses DEF Claim, Statuses
  <2> QED BY <2>1, <2>2, <2>3
<1>5. CASE Acquire(p)
  <2>1. RestOK' /\ UNCHANGED row
    BY <1>0, <1>5 DEF Acquire, RestOK, queues, history, budget
  <2>2. Onward
    BY <1>5 DEF Acquire, Labels, ReleaseLabels, FreshLabels
  <2> QED BY <2>1, <2>2
<1>6. CASE Unclaim(p)
  <2>1. RestOK'
    BY <1>0, <1>6 DEF Unclaim, RestOK, redis, queues, history, budget, Fails
  <2>2. Onward
    BY <1>6 DEF Unclaim, Labels, ReleaseLabels, FreshLabels
  <2>3. Written
    BY <1>1, <1>6, RowOps, StatusAlone, 0 \in Nat, "NONE" \in Statuses DEF Unclaim, Statuses
  <2> QED BY <2>1, <2>2, <2>3
<1>7. CASE Requeue(p)
  <2>1. RestOK'
    BY <1>0, <1>7 DEF Requeue, RestOK, redis, queues, history, budget, Fails
  <2>2. Onward
    BY <1>7 DEF Requeue, Labels, ReleaseLabels, FreshLabels
  <2>3. Written
    BY <1>1, <1>7, RowOps, StatusAlone, 0 \in Nat, "NONE" \in Statuses DEF Requeue, Statuses
  <2> QED BY <2>1, <2>2, <2>3
<1>8. CASE Schedule(p)
  <2>1. RestOK' /\ UNCHANGED row
    BY <1>0, <1>1, <1>8 DEF Schedule, RestOK, redis, history, budget, Fails
  <2>2. Onward
    BY <1>8 DEF Schedule, Labels, FreshLabels
  <2> QED BY <2>1, <2>2
<1>9. CASE Mask(p)
  <2>1. RestOK'
    BY <1>0, <1>9 DEF Mask, RestOK, redis, queues, history, budget, Fails
  <2>2. Onward
    BY <1>9 DEF Mask, Labels, ReleaseLabels, FreshLabels
  <2>3. Written
    BY <1>1, <1>9, RowOps, StatusAlone, 0 \in Nat, "NONE" \in Statuses DEF Mask, Statuses
  <2> QED BY <2>1, <2>2, <2>3
<1>10. CASE Backout(p)
  <2>1. RestOK' /\ UNCHANGED row
    BY <1>0, <1>10 DEF Backout, RestOK, queues, history, budget, Decr, Fails
  <2>2. Onward
    BY <1>10 DEF Backout, Labels, ReleaseLabels, FreshLabels
  <2> QED BY <2>1, <2>2
<1>11. CASE Recheck(p)
  <2>1. RestOK' /\ UNCHANGED row
    BY <1>0, <1>11 DEF Recheck, RestOK, redis, queues, history, budget
  <2>2. Onward
    BY <1>11 DEF Recheck, Labels, ReleaseLabels, FreshLabels, Returns
  <2> QED BY <2>1, <2>2
<1>12. CASE Send(p)
  <2>1. RestOK' /\ UNCHANGED row
    BY <1>0, <1>12 DEF Send, RestOK, redis, history, budget, Fails, Publish
  <2>2. Onward
    BY <1>12 DEF Send, Labels, FreshLabels, Returns
  <2> QED BY <2>1, <2>2
<1>13. CASE FailCas(p)
  <2> DEFINE failed == [CasTo(row[t], "FAILURE", 0) EXCEPT !.slot = 0, !.batch = "released"]
  <2>1. RestOK'
    BY <1>0, <1>13 DEF FailCas, RestOK, redis, queues, history, budget
  <2>2. Onward
    BY <1>13 DEF FailCas, Labels, FreshLabels
  <2>3. failed \in Rows
    BY <1>1, RowOps, 0 \in Nat, "FAILURE" \in Statuses DEF Statuses, TERMINAL
  <2>4. CASE CasHits(row[t], {"SUBMITTED"})
    <3>1. row[t].status \notin TERMINAL
      BY <2>4 DEF CasHits, TERMINAL
    <3>2. SetRow(t, failed)
      BY <1>13, <2>4 DEF FailCas
    <3> QED BY <2>1, <2>2, <2>3, <3>1, <3>2
  <2>5. CASE ~CasHits(row[t], {"SUBMITTED"})
    BY <1>1, <1>13, <2>1, <2>2, <2>5 DEF FailCas
  <2> QED BY <2>4, <2>5
<1> QED BY <1>3, <1>4, <1>5, <1>6, <1>7, <1>8, <1>9, <1>10, <1>11, <1>12, <1>13
        DEF ReleaseStep

-------------------------------------------------------------------------------
(* _release_slot, _finalize_queue, cancel_queue_task                       *)

\* An exception ends the call and may leave a message or a dead letter.
LEMMA RaiseEnds ==
  ASSUME RestOK, NEW p \in Procs, call[p].t \in Tasks, Raise(p)
  PROVE  /\ submits' \in [Tasks -> Nat] /\ dlq' \subseteq Tasks
         /\ Goto(p, "idle")
  BY DEF RestOK, Raise, Retry, Publish

\* A won CAS starts from an active status, so it moves no terminal one.
LEMMA CasWrites ==
  ASSUME NEW t \in Tasks, row[t] \in Rows, NEW s \in Statuses, NEW id \in Nat,
         NEW froms \in SUBSET ACTIVE, CasHits(row[t], froms), SetRow(t, CasTo(row[t], s, id))
  PROVE  \E r \in Rows :
           /\ SetRow(t, r)
           /\ row[t].status \in TERMINAL => r.status = row[t].status
<1>1. row[t].status \notin TERMINAL
  BY Disjoint DEF CasHits
<1>2. CasTo(row[t], s, id) \in Rows
  BY RowOps
<1> QED BY <1>1, <1>2

LEMMA FinishKeeps ==
  ASSUME IndInv, NEW p \in Procs, FinishStep(p)
  PROVE  IndInv' /\ Kept
<1> DEFINE t == call[p].t
<1>0. Good /\ RestOK /\ RowsOK /\ CallsOK
  BY DEF IndInv, Good
<1>1. call[p].pc # "idle" /\ t \in Tasks /\ row[t] \in Rows /\ call[p] \in Calls
  BY <1>0 DEF FinishStep, Final, ClaimSlot, GiveSlot, Notify, Clear, CancelCas, CancelLeave,
              At, CallsOK, RowsOK, Idle
<1>2. call[p].st \in Statuses /\ call[p].id \in Nat /\ call[p].then \in Returns
  BY <1>1 DEF Calls
<1> DEFINE Onward == \/ \E label \in Labels \ FreshLabels : Goto(p, label)
                     \/ \E label \in Returns : ReleaseSlotThen(p, label)
           Written == \/ UNCHANGED row
                      \/ \E r \in Rows :
                           /\ SetRow(t, r)
                           /\ row[t].status \in TERMINAL => r.status = row[t].status
<1>3. SUFFICES RestOK' /\ Onward /\ Written
  BY <1>0, <1>1, GoOn DEF IndInv
<1>4. CASE Final(p)
  <2>1. RestOK'
    BY <1>0, <1>4 DEF Final, RestOK, redis, queues, history, budget
  <2>2. Onward
    BY <1>4 DEF Final, Labels, FreshLabels, Returns
  <2>3. Written
    BY <1>1, <1>2, <1>4, CasWrites DEF Final
  <2> QED BY <2>1, <2>2, <2>3
<1>5. CASE ClaimSlot(p)
  <2>1. RestOK'
    BY <1>0, <1>5 DEF ClaimSlot, RestOK, redis, queues, history, budget
  <2>2. Onward
    BY <1>2, <1>5
    DEF ClaimSlot, Labels, SlotLabels, FreshLabels, Returns, ReleaseLabels, FinishLabels
  <2>3. Written
    BY <1>1, <1>5, RowOps, StatusAlone, 0 \in Nat, "NONE" \in Statuses
    DEF ClaimSlot, Statuses
  <2> QED BY <2>1, <2>2, <2>3
<1>6. CASE GiveSlot(p)
  <2>1. RestOK' /\ UNCHANGED row
    BY <1>0, <1>6 DEF GiveSlot, RestOK, queues, history, budget, Fails, Decr
  <2>2. Onward
    BY <1>2, <1>6
    DEF GiveSlot, Labels, SlotLabels, FreshLabels, Returns, ReleaseLabels, FinishLabels
  <2> QED BY <2>1, <2>2
<1>7. CASE Notify(p)
  <2>1. RestOK' /\ UNCHANGED row
    <3>1. notified' = [notified EXCEPT ![t] = notified[t] + 1]
      BY <1>7 DEF Notify
    <3>2. notified' \in [Tasks -> Nat]
      BY <1>0, <1>1, <3>1 DEF RestOK
    <3> QED BY <1>0, <1>7, <3>2 DEF Notify, RestOK, redis, queues, budget
  <2>2. Onward
    BY <1>7 DEF Notify, Labels, FreshLabels, FinishLabels
  <2> QED BY <2>1, <2>2
<1>8. CASE Clear(p)
  <2>1. RestOK' /\ UNCHANGED row
    BY <1>0, <1>8 DEF Clear, RestOK, queues, history, budget
  <2>2. Onward
    BY <1>8 DEF Clear, Labels, FreshLabels
  <2> QED BY <2>1, <2>2
<1>9. CASE CancelCas(p)
  <2>1. RestOK'
    BY <1>0, <1>9 DEF CancelCas, RestOK, redis, queues, history, budget
  <2>2. Onward
    BY <1>9 DEF CancelCas, Labels, FreshLabels, FinishLabels, Returns
  <2>3. Written
    BY <1>1, <1>9, CasWrites, 0 \in Nat, "CANCELED" \in Statuses
    DEF CancelCas, Statuses, TERMINAL
  <2> QED BY <2>1, <2>2, <2>3
<1>10. CASE CancelLeave(p)
  <2>1. RestOK' /\ UNCHANGED row
    BY <1>0, <1>10 DEF CancelLeave, RestOK, queues, history, budget, Fails
  <2>2. Onward
    BY <1>10 DEF CancelLeave, Returns
  <2> QED BY <2>1, <2>2
<1> QED BY <1>4, <1>5, <1>6, <1>7, <1>8, <1>9, <1>10 DEF FinishStep

-------------------------------------------------------------------------------
(* submit_queue_task and the probes                                        *)

LEMMA UpstreamKeeps ==
  ASSUME IndInv, NEW p \in Procs, UpstreamStep(p)
  PROVE  IndInv' /\ Kept
<1> DEFINE t == call[p].t
<1>0. Good /\ RestOK /\ RowsOK /\ CallsOK
  BY DEF IndInv, Good
<1>1. call[p].pc # "idle" /\ t \in Tasks /\ row[t] \in Rows /\ call[p] \in Calls
  <2>1. \E label \in UpstreamLabels : At(p, label)
    BY DEF UpstreamStep, PostAccepted, PostRejected, PostAmbiguous, Landed, ProbeTerminal,
           ProbeActive, ProbeNothing, Advance, UpstreamLabels
  <2> QED BY <1>0, <2>1 DEF At, UpstreamLabels, CallsOK, RowsOK, Idle
<1>2. call[p].st \in Statuses /\ call[p].id \in Nat /\ orders[t] \in Nat
  BY <1>0, <1>1 DEF Calls, RestOK
<1> DEFINE Onward == \/ \E label \in Labels \ FreshLabels : Goto(p, label)
                     \/ \E label \in Returns : ReleaseSlotThen(p, label)
           Written == \/ UNCHANGED row
                      \/ \E r \in Rows :
                           /\ SetRow(t, r)
                           /\ row[t].status \in TERMINAL => r.status = row[t].status
<1> DEFINE Changed == \E c \in Calls :
                        /\ Become(p, c)
                        /\ c.pc \notin FreshLabels \cup {"idle"} /\ c.t = t
<1>3. SUFFICES RestOK' /\ ((Onward /\ Written) \/ (Changed /\ UNCHANGED row))
  BY <1>0, <1>1, GoOn, CarryOn DEF IndInv
<1>4. CASE PostAccepted(p)
  <2>0. orders[t] + 1 \in Nat
    BY <1>2
  <2>1. RestOK' /\ UNCHANGED row
    <3>1. orders' = [orders EXCEPT ![t] = orders[t] + 1]
      BY <1>4 DEF PostAccepted
    <3>2. orders' \in [Tasks -> Nat]
      BY <1>0, <2>0, <3>1 DEF RestOK
    <3> QED BY <1>0, <1>4, <3>2 DEF PostAccepted, RestOK, redis, queues, history, budget
  <2>2. Changed
    <3>1. [call[p] EXCEPT !.pc = "landed", !.id = orders[t] + 1] \in Calls
      BY <1>1, <2>0 DEF Calls, Labels, UpstreamLabels
    <3>2. \A s \in TERMINAL :
            [call[p] EXCEPT !.pc = "final", !.id = orders[t] + 1, !.st = s] \in Calls
      BY <1>1, <2>0 DEF Calls, Labels, FinishLabels, Statuses
    <3> QED BY <1>1, <1>4, <3>1, <3>2 DEF PostAccepted, Calls, FreshLabels
  <2> QED BY <2>1, <2>2
<1>5. CASE PostRejected(p)
  <2>1. RestOK' /\ UNCHANGED row
    BY <1>0, <1>5 DEF PostRejected, RestOK, redis, queues, history, budget
  <2>2. Changed
    <3>1. [call[p] EXCEPT !.pc = "final", !.st = "FAILURE"] \in Calls
      BY <1>1 DEF Calls, Labels, FinishLabels, Statuses, TERMINAL
    <3> QED BY <1>1, <1>5, <3>1 DEF PostRejected, Calls, FreshLabels
  <2> QED BY <2>1, <2>2
<1>6. CASE PostAmbiguous(p)
  <2>1. RestOK' /\ UNCHANGED row
    <3>1. submits' \in [Tasks -> Nat] /\ dlq' \subseteq Tasks
      BY <1>0, <1>1, <1>6, RaiseEnds DEF PostAmbiguous
    <3>2. orders' \in [Tasks -> Nat] /\ strays' \in [Tasks -> Nat]
      <4>1. \/ UNCHANGED <<orders, strays>>
            \/ /\ orders' = [orders EXCEPT ![t] = orders[t] + 1]
               /\ strays' = [strays EXCEPT ![t] = strays[t] + 1]
        BY <1>6 DEF PostAmbiguous
      <4>2. orders[t] + 1 \in Nat /\ strays[t] + 1 \in Nat
        BY <1>0, <1>1 DEF RestOK
      <4> QED BY <1>0, <4>1, <4>2 DEF RestOK
    <3> QED BY <1>0, <1>6, <3>1, <3>2 DEF PostAmbiguous, RestOK, redis, budget
  <2>2. Onward
    BY <1>0, <1>1, <1>6, RaiseEnds DEF PostAmbiguous, Labels, FreshLabels
  <2> QED BY <2>1, <2>2
<1>7. CASE Landed(p)
  <2>1. RestOK'
    BY <1>0, <1>7 DEF Landed, RestOK, redis, queues, history, budget
  <2>2. Onward
    BY <1>7 DEF Landed, Labels, FreshLabels
  <2>3. Written
    <3>1. MergeUp(row[t], call[p].id) \in Rows
          /\ MergeUp(row[t], call[p].id).status = row[t].status
      BY <1>1, <1>2, RowOps, StatusAlone
    <3> QED BY <1>1, <1>2, <1>7, <3>1, CasWrites, "QUEUED" \in Statuses
            DEF Landed, Statuses, ACTIVE
  <2> QED BY <2>1, <2>2, <2>3
<1>8. CASE ProbeTerminal(p)
  <2>1. RestOK' /\ UNCHANGED row
    BY <1>0, <1>8 DEF ProbeTerminal, RestOK, redis, queues, history, budget
  <2>2. Changed
    <3>1. \A s \in TERMINAL : [call[p] EXCEPT !.pc = "final", !.st = s] \in Calls
      BY <1>1 DEF Calls, Labels, FinishLabels, Statuses
    <3> QED BY <1>1, <1>8, <3>1 DEF ProbeTerminal, Calls, FreshLabels
  <2> QED BY <2>1, <2>2
<1>9. CASE ProbeActive(p)
  <2>1. RestOK' /\ UNCHANGED row
    BY <1>0, <1>9 DEF ProbeActive, RestOK, redis, queues, history, budget
  <2>2. Changed
    <3>1. \A s \in {"QUEUED", "IN_PROGRESS"} :
            [call[p] EXCEPT !.pc = "advance", !.st = s] \in Calls
      BY <1>1 DEF Calls, Labels, UpstreamLabels, Statuses, ACTIVE
    <3> QED BY <1>1, <1>9, <3>1 DEF ProbeActive, Calls, FreshLabels
  <2> QED BY <2>1, <2>2
<1>10. CASE ProbeNothing(p)
  <2>1. RestOK' /\ UNCHANGED row
    BY <1>0, <1>10 DEF ProbeNothing, RestOK, redis, queues, history, budget
  <2>2. Onward
    BY <1>10 DEF ProbeNothing, Labels, FreshLabels
  <2> QED BY <2>1, <2>2
<1>11. CASE Advance(p)
  <2>1. RestOK'
    BY <1>0, <1>11 DEF Advance, RestOK, redis, queues, history, budget
  <2>2. Onward
    BY <1>11 DEF Advance, Labels, FreshLabels
  <2>3. Written
    BY <1>1, <1>2, <1>11, CasWrites, 0 \in Nat DEF Advance
  <2> QED BY <2>1, <2>2, <2>3
<1> QED BY <1>4, <1>5, <1>6, <1>7, <1>8, <1>9, <1>10, <1>11 DEF UpstreamStep

-------------------------------------------------------------------------------
(* What starts a call                                                      *)

\* A call that begins on a task that has a row: Start at some label.
LEMMA StartBegins ==
  ASSUME Good, NEW p \in Procs, NEW t \in Tasks, row[t].status # "NONE",
         NEW label \in Labels \ (FreshLabels \cup {"idle"}), Start(p, label, t),
         \/ UNCHANGED row
         \/ \E r \in Rows :
              /\ SetRow(t, r)
              /\ row[t].status \in TERMINAL => r.status = row[t].status
  PROVE  Good' /\ Kept
<1> DEFINE c == [Idle EXCEPT !.pc = label, !.t = t]
<1>1. c \in Calls /\ c.pc = label /\ c.t = t
  BY IdleCall DEF Calls, Idle
<1>2. Become(p, c)
  BY DEF Start
<1> QED BY <1>1, <1>2, Begin

\* A message about a task that is no longer waiting is dropped.
LEMMA ReadMetaKeeps ==
  ASSUME Good, NEW p \in Procs, NEW t \in Tasks, ReadMeta(p, t), UNCHANGED row
  PROVE  Good' /\ Kept
<1>1. CASE Releasable(row[t])
  BY <1>1, StartBegins, Disjoint
  DEF ReadMeta, Releasable, Labels, ReleaseLabels, FreshLabels
<1>2. CASE ~Releasable(row[t])
  BY <1>2, StandStill DEF ReadMeta
<1> QED BY <1>1, <1>2

LEMMA WorkerStartKeeps ==
  ASSUME IndInv, NEW p \in Procs, NEW t \in Tasks, WorkerStart(p, t)
  PROVE  IndInv' /\ Kept
<1>0. Good /\ RestOK
  BY DEF IndInv
<1>1. CASE MemberStart(p, t)
  <2>1. RestOK' /\ UNCHANGED row /\ ReadMeta(p, t)
    BY <1>0, <1>1 DEF MemberStart, RestOK, redis, history, budget
  <2> QED BY <1>0, <2>1, ReadMetaKeeps DEF IndInv
<1>2. CASE TimerStart(p, t)
  <2>1. RestOK' /\ UNCHANGED row /\ ReadMeta(p, t)
    BY <1>0, <1>2 DEF TimerStart, RestOK, redis, history, budget
  <2> QED BY <1>0, <2>1, ReadMetaKeeps DEF IndInv
<1>3. CASE SubmitStart(p, t)
  <2> DEFINE c == [Idle EXCEPT !.pc = "post", !.t = t, !.job = TRUE]
  <2>1. submits' = [submits EXCEPT ![t] = submits[t] - 1] /\ submits[t] - 1 \in Nat
    BY <1>0, <1>3 DEF SubmitStart, RestOK
  <2>2. submits' \in [Tasks -> Nat]
    BY <1>0, <2>1 DEF RestOK
  <2>3. RestOK' /\ UNCHANGED row
    BY <1>0, <1>3, <2>2 DEF SubmitStart, RestOK, redis, history, budget
  <2>4. CASE Submittable(t)
    <3>1. c \in Calls /\ c.pc = "post" /\ c.t = t
      BY IdleCall DEF Calls, Idle, Labels, UpstreamLabels
    <3>2. Become(p, c) /\ row[t].status # "NONE"
      BY <1>3, <2>4, Disjoint DEF SubmitStart, Submittable
    <3> QED BY <1>0, <2>3, <3>1, <3>2, Begin DEF IndInv, FreshLabels
  <2>5. CASE ~Submittable(t)
    BY <1>0, <1>3, <2>3, <2>5, StandStill DEF SubmitStart, IndInv
  <2> QED BY <2>4, <2>5
<1> QED BY <1>1, <1>2, <1>3 DEF WorkerStart

LEMMA SweepStartKeeps ==
  ASSUME IndInv, NEW p \in Procs, NEW t \in Tasks, SweepStart(p, t)
  PROVE  IndInv' /\ Kept
<1>0. Good /\ RestOK /\ row[t] \in Rows
  BY DEF IndInv, Good, RowsOK
<1>1. CASE RescueStart(p, t)
  <2>1. RestOK' /\ UNCHANGED row /\ Start(p, "claim", t) /\ row[t].status # "NONE"
    BY <1>0, <1>1
    DEF RescueStart, RescuableWaiting, RestOK, redis, queues, history, budget
  <2> QED BY <1>0, <2>1, StartBegins DEF IndInv, Labels, ReleaseLabels, FreshLabels
<1>2. CASE RescueUnclaim(p, t)
  <2>1. RestOK' /\ Start(p, "meta", t) /\ row[t].status = "SUBMITTED"
    BY <1>0, <1>2
    DEF RescueUnclaim, RescuableReleasing, RestOK, redis, queues, history, budget
  <2>2. SetRow(t, Unclaimed(row[t])) /\ Unclaimed(row[t]) \in Rows
        /\ Unclaimed(row[t]).status = row[t].status
    BY <1>0, <1>2, RowOps, StatusAlone, 0 \in Nat, "NONE" \in Statuses
    DEF RescueUnclaim, Statuses
  <2> QED BY <1>0, <2>1, <2>2, StartBegins DEF IndInv, Labels, ReleaseLabels, FreshLabels
<1> QED BY <1>1, <1>2 DEF SweepStart

LEMMA ProbeAndCancelKeep ==
  ASSUME IndInv, NEW p \in Procs, NEW t \in Tasks, ProbeStart(p, t) \/ CancelStart(p, t)
  PROVE  IndInv' /\ Kept
<1>0. Good /\ RestOK /\ row[t] \in Rows
  BY DEF IndInv, Good, RowsOK
<1>1. RestOK' /\ UNCHANGED row /\ row[t].status # "NONE"
  BY <1>0, Disjoint DEF ProbeStart, CancelStart, RestOK, redis, queues, history, budget
<1>2. CASE ProbeStart(p, t)
  <2> DEFINE c == [Idle EXCEPT !.pc = "probe", !.t = t, !.st = row[t].status]
  <2>1. c \in Calls /\ c.pc = "probe" /\ c.t = t
    BY <1>0, IdleCall DEF Calls, Idle, Labels, UpstreamLabels, Rows
  <2> QED BY <1>0, <1>1, <1>2, <2>1, Begin DEF ProbeStart, IndInv, FreshLabels
<1>3. CASE CancelStart(p, t)
  <2> DEFINE c == [Idle EXCEPT !.pc = "cancel", !.t = t,
                               !.quit = row[t].batch \in BATCH_WAITING_STATES]
  <2>1. c \in Calls /\ c.pc = "cancel" /\ c.t = t
    <3>1. \A b \in BOOLEAN :
            LET d == [Idle EXCEPT !.pc = "cancel", !.t = t, !.quit = b]
            IN  d \in Calls /\ d.pc = "cancel" /\ d.t = t
      BY DEF Calls, Idle, Labels, FinishLabels, Statuses, Returns
    <3>2. (row[t].batch \in BATCH_WAITING_STATES) \in BOOLEAN
      <4>1. CASE row[t].batch \in BATCH_WAITING_STATES
        <5>1. (row[t].batch \in BATCH_WAITING_STATES) = TRUE
          BY <4>1
        <5> QED BY <5>1
      <4>2. CASE row[t].batch \notin BATCH_WAITING_STATES
        <5>1. (row[t].batch \in BATCH_WAITING_STATES) = FALSE
          BY <4>2
        <5> QED BY <5>1
      <4> QED BY <4>1, <4>2
    <3> QED BY <3>1, <3>2
  <2> QED BY <1>0, <1>1, <1>3, <2>1, Begin DEF CancelStart, IndInv, FreshLabels
<1> QED BY <1>2, <1>3

-------------------------------------------------------------------------------
(* Triggers, operators, exceptions and crashes                             *)

LEMMA CrashKeeps ==
  ASSUME IndInv, NEW p \in Procs, Crash(p)
  PROVE  IndInv' /\ Kept
<1>1. Good /\ call[p].t \in Tasks /\ call[p].pc # "idle"
  BY DEF Crash, IndInv, Good, CallsOK
<1>2. RestOK' /\ UNCHANGED row /\ Goto(p, "idle")
  BY <1>1 DEF Crash, IndInv, RestOK, redis, queues
<1> QED BY <1>1, <1>2, GoOn DEF IndInv, Labels, FreshLabels

LEMMA EscapeKeeps ==
  ASSUME IndInv, NEW p \in Procs, Escape(p)
  PROVE  IndInv' /\ Kept
<1> DEFINE t == call[p].t
<1>1. Good /\ RestOK /\ t \in Tasks /\ call[p].pc # "idle"
  BY DEF Escape, Uncaught, IndInv, Good, CallsOK, Idle
<1>2. submits' \in [Tasks -> Nat] /\ dlq' \subseteq Tasks /\ Goto(p, "idle")
  BY <1>1, RaiseEnds DEF Escape
<1>3. strays' \in [Tasks -> Nat]
  <2>1. UNCHANGED strays \/ strays' = [strays EXCEPT ![t] = strays[t] + 1]
    BY DEF Escape
  <2>2. strays[t] + 1 \in Nat
    BY <1>1 DEF RestOK
  <2> QED BY <1>1, <2>1, <2>2 DEF RestOK
<1>4. RestOK' /\ UNCHANGED row
  BY <1>1, <1>2, <1>3 DEF Escape, RestOK, redis, Fails
<1> QED BY <1>1, <1>2, <1>4, GoOn DEF IndInv, Labels, FreshLabels

LEMMA OutsideKeeps ==
  ASSUME IndInv,
         \/ \E k \in Triggers : FireTrigger(k)
         \/ \E t \in Tasks : OpsRequeue(t) \/ OpsReplay(t) \/ CrashBatch(t)
  PROVE  IndInv' /\ Kept
<1>1. Good /\ RestOK
  BY DEF IndInv
<1>2. UNCHANGED <<row, call>>
  BY DEF FireTrigger, OpsRequeue, OpsReplay, CrashBatch
<1>3. CASE \E k \in Triggers : FireTrigger(k)
  <2>1. RestOK'
    BY <1>1, <1>3 DEF FireTrigger, RestOK, history, budget
  <2> QED BY <1>1, <1>2, <2>1, StandStill DEF IndInv
<1>4. CASE \E t \in Tasks : OpsRequeue(t) \/ OpsReplay(t)
  <2>1. RestOK'
    BY <1>1, <1>4 DEF OpsRequeue, OpsReplay, RestOK, Publish, redis, history, budget
  <2> QED BY <1>1, <1>2, <2>1, StandStill DEF IndInv
<1>5. CASE \E t \in Tasks : CrashBatch(t)
  <2>1. RestOK'
    BY <1>1, <1>5 DEF CrashBatch, RestOK, redis
  <2> QED BY <1>1, <1>2, <2>1, StandStill DEF IndInv
<1> QED BY <1>3, <1>4, <1>5

-------------------------------------------------------------------------------
(* The theorems                                                            *)

\* At the start no task has a row and no call is running.
LEMMA InitGood == Init => IndInv
<1> SUFFICES ASSUME Init PROVE IndInv
  OBVIOUS
<1>1. RowsOK
  BY RowOps, 0 \in Nat, "NONE" \in Statuses, NoRow \in Rows
  DEF Init, RowsOK, Rows, NoRow, Statuses, BatchStates
<1>2. CallsOK
  BY IdleCall DEF Init, CallsOK
<1>3. FreshAlone
  BY DEF Init, FreshAlone, FreshLabels, Idle
<1>4. RestOK
  BY DEF Init, RestOK
<1> QED BY <1>1, <1>2, <1>3, <1>4 DEF IndInv, Good

\* The invariant is inductive, and every step keeps every terminal status.
LEMMA NextKeeps == IndInv /\ [Next]_vars => IndInv' /\ [Kept]_vars
<1> SUFFICES ASSUME IndInv, [Next]_vars PROVE IndInv' /\ Kept
  OBVIOUS
<1>1. CASE UNCHANGED vars
  <2>1. UNCHANGED <<row, call>> /\ RestOK'
    BY <1>1 DEF vars, redis, queues, history, budget, IndInv, RestOK
  <2> QED BY <2>1, StandStill DEF IndInv
<1>2. CASE \E p \in Procs : Step(p) \/ Escape(p) \/ Crash(p)
  BY <1>2, AcceptKeeps, ReleaseKeeps, FinishKeeps, UpstreamKeeps, EscapeKeeps, CrashKeeps
  DEF Step
<1>3. CASE \E p \in Procs, t \in Tasks :
             WorkerStart(p, t) \/ SweepStart(p, t) \/ ClientStart(p, t) \/ ProbeStart(p, t)
  BY <1>3, WorkerStartKeeps, SweepStartKeeps, AcceptStartKeeps, ProbeAndCancelKeep
  DEF ClientStart
<1>4. CASE \/ \E k \in Triggers : FireTrigger(k)
           \/ \E t \in Tasks : OpsRequeue(t) \/ OpsReplay(t) \/ CrashBatch(t)
  BY <1>4, OutsideKeeps
<1> QED BY <1>1, <1>2, <1>3, <1>4 DEF Next

LEMMA IndInvHolds == Spec => []IndInv
  BY InitGood, NextKeeps, PTL DEF Spec

\* Every variable stays in its range, for any number of tasks and coroutines:
\* the rows hold only values the schema knows, and no counter of messages, of
\* slots or of callbacks leaves the naturals.
THEOREM TypeCorrect == Spec => []TypeOK
<1>1. IndInv => TypeOK
  BY DEF IndInv, Good, RowsOK, CallsOK, RestOK, TypeOK
<1> QED BY <1>1, IndInvHolds, PTL

\* A terminal status is final, for any number of tasks, calls, faults, crashes
\* and operator interventions: whatever cas, write-back, probe, release or
\* cancellation writes to the row.
THEOREM TerminalStays == Spec => TerminalIsFinal
<1>1. [Kept]_vars => [\A t \in Tasks : row[t].status \in TERMINAL =>
                                        row'[t].status = row[t].status]_vars
  BY DEF Kept
<1> QED BY <1>1, InitGood, NextKeeps, PTL DEF Spec, TerminalIsFinal
===============================================================================
