--------------------------- MODULE DeliveryProofs ---------------------------
(***************************************************************************)
(* How far the circuit breaker can be overrun, and that no submission and  *)
(* no callback is lost on its way, for any number of tasks, workers,       *)
(* probers, replays and attempts and any threshold.                        *)
(*                                                                         *)
(* The counter is read before a request and written after it, so what      *)
(* BoundedOvershoot says is not inductive: a caller that has overrun the   *)
(* breaker could do so again with an old reading. Barred says that it has  *)
(* none, since it read the counter after it had failed.                    *)
(*                                                                         *)
(* Nor is NothingLost: a replay deletes a dead letter that it has queued   *)
(* again some steps before, and meanwhile the message it queued may have   *)
(* been taken, retried and buried, and another replay may be about to      *)
(* delete that dead letter too. Safe says that a job that is owed never    *)
(* depends on an entry a replay is about to delete, but on a message or    *)
(* on a later entry (JobsKept).                                            *)
(***************************************************************************)
EXTENDS Delivery, FiniteSetTheorems, SequenceTheorems, TLAPS

IsCall(r) == r = [pc |-> r.pc, msg |-> r.msg, seen |-> r.seen]

CallsOK ==
  /\ call = [c \in Callers |-> call[c]]
  /\ \A c \in Callers : IsCall(call[c]) /\ call[c].seen \in Nat

Passing == {"compare", "out"}

\* The caller will send a request, or has sent it.
MayFail(c) ==
  \/ call[c].pc = "out"
  \/ call[c].pc = "compare" /\ ~Open(call[c].seen)

Barred == \A c \in overrun : ~MayFail(c)

CounterOK ==
  /\ failures \in Nat /\ overrun \subseteq Callers
  /\ IF Open(failures) THEN failures = Threshold - 1 + Cardinality(overrun) ELSE overrun = {}

IndInv == CallsOK /\ CounterOK /\ Barred

-------------------------------------------------------------------------------
(* How a call moves                                                        *)

LEMMA GotoMoves ==
  ASSUME CallsOK, NEW c \in Callers, NEW pc, Goto(c, pc)
  PROVE  /\ CallsOK'
         /\ call'[c].pc = pc /\ call'[c].seen = call[c].seen
         /\ \A d \in Callers \ {c} : call'[d] = call[d]
  BY DEF CallsOK, IsCall, Goto

LEMMA DoneMoves ==
  ASSUME CallsOK, NEW c \in Callers, Done(c)
  PROVE  /\ CallsOK'
         /\ call'[c].pc = "idle"
         /\ \A d \in Callers \ {c} : call'[d] = call[d]
  BY DEF CallsOK, IsCall, Done, NoCall

\* A step that leaves the breaker alone and after which no caller may fail
\* that could not before keeps the invariant.
LEMMA QuietKeeps ==
  ASSUME IndInv, CallsOK', UNCHANGED <<failures, overrun>>,
         \A c \in overrun : MayFail(c)' => MayFail(c)
  PROVE  IndInv'
  BY DEF IndInv, CounterOK, Barred, Open

\* Likewise for a call that goes on to an await other than those.
LEMMA GoOn ==
  ASSUME IndInv, NEW c \in Callers, NEW pc, pc \notin Passing,
         Goto(c, pc), UNCHANGED <<failures, overrun>>
  PROVE  IndInv'
<1>1. CallsOK' /\ \A d \in Callers : MayFail(d)' => MayFail(d)
  BY GotoMoves DEF IndInv, MayFail, Passing
<1> QED BY <1>1, QuietKeeps DEF IndInv, CounterOK

LEMMA Stop ==
  ASSUME IndInv, NEW c \in Callers, Done(c), UNCHANGED <<failures, overrun>>
  PROVE  IndInv'
<1>1. CallsOK' /\ \A d \in Callers : MayFail(d)' => MayFail(d)
  BY DoneMoves DEF IndInv, MayFail
<1> QED BY <1>1, QuietKeeps DEF IndInv, CounterOK

LEMMA StandStill ==
  ASSUME IndInv, UNCHANGED <<call, failures, overrun>>
  PROVE  IndInv'
  BY DEF IndInv, CallsOK, IsCall, CounterOK, Barred, MayFail, Open

-------------------------------------------------------------------------------
(* The steps                                                               *)

\* Raising leads to a retry, or ends the probe.
LEMMA FailsKeeps ==
  ASSUME IndInv, NEW c \in Callers, Fails(c), UNCHANGED <<failures, overrun>>
  PROVE  IndInv'
  BY GoOn, Stop DEF Fails, Passing

\* A worker takes a message, or a probe begins.
LEMMA BeginKeeps ==
  ASSUME IndInv, NEW c \in Callers, NEW m, NEW pc, pc \notin Passing,
         call' = [call EXCEPT ![c] = [NoCall EXCEPT !.msg = m, !.pc = pc]],
         UNCHANGED <<failures, overrun>>
  PROVE  IndInv'
<1>1. CallsOK' /\ \A d \in Callers : MayFail(d)' => MayFail(d)
  BY DEF IndInv, CallsOK, IsCall, NoCall, MayFail, Passing
<1> QED BY <1>1, QuietKeeps DEF IndInv, CounterOK

\* Whoever has overrun the breaker finds it open when it reads the counter.
LEMMA GuardReadKeeps ==
  ASSUME IndInv, NEW c \in Callers, GuardRead(c)
  PROVE  IndInv'
<1>1. call' = [call EXCEPT ![c] = [pc |-> "compare", msg |-> call[c].msg, seen |-> failures]]
  BY DEF GuardRead
<1>2. CallsOK /\ failures \in Nat /\ UNCHANGED <<failures, overrun>>
  BY DEF GuardRead, breaker, IndInv, CounterOK
<1>3. CallsOK'
  BY <1>1, <1>2 DEF CallsOK, IsCall
<1>4. \A d \in Callers \ {c} : call'[d] = call[d]
  BY <1>1, <1>2 DEF CallsOK
<1>5. call'[c].pc = "compare" /\ call'[c].seen = failures
  BY <1>1, <1>2 DEF CallsOK, IsCall
<1>6. c \in overrun => Open(failures)
  BY DEF IndInv, CounterOK
<1>7. \A d \in overrun : MayFail(d)' => MayFail(d)
  BY <1>4, <1>5, <1>6 DEF MayFail, Open, IndInv, CounterOK
<1> QED BY <1>2, <1>3, <1>7, QuietKeeps

\* Whoever passes the guard could fail before.
LEMMA GuardKeeps ==
  ASSUME IndInv, NEW c \in Callers, Guard(c)
  PROVE  IndInv'
<1>1. UNCHANGED <<failures, overrun>>
  BY DEF Guard, breaker
<1>2. CASE Open(call[c].seen)
  BY <1>1, <1>2, FailsKeeps DEF Guard
<1>3. CASE ~Open(call[c].seen)
  <2>1. Goto(c, "out") /\ MayFail(c)
    BY <1>3 DEF Guard, MayFail
  <2>2. CallsOK' /\ \A d \in Callers : MayFail(d)' => MayFail(d)
    BY <2>1, GotoMoves DEF IndInv, MayFail
  <2> QED BY <1>1, <2>2, QuietKeeps DEF IndInv, CounterOK
<1> QED BY <1>2, <1>3

\* A failure that is reported by a caller that may fail is its first since the
\* breaker opened, or opens it.
LEMMA ReportFailureKeeps ==
  ASSUME IndInv, NEW c \in Callers, AnswerAmbiguous(c)
  PROVE  IndInv'
<1>1. MayFail(c) /\ c \notin overrun
  BY DEF AnswerAmbiguous, MayFail, IndInv, Barred
<1>2. CallsOK' /\ ~MayFail(c)' /\ \A d \in Callers \ {c} : call'[d] = call[d]
  BY GotoMoves, DoneMoves DEF AnswerAmbiguous, Fails, IndInv, MayFail
<1>3. /\ failures' = failures + 1
      /\ overrun' = IF Open(failures + 1) THEN overrun \cup {c} ELSE overrun
  BY DEF AnswerAmbiguous, ReportFailure, Open
<1>4. IsFiniteSet(overrun) /\ Cardinality(overrun) \in Nat
  BY FS_Subset, FS_CardinalityType, DeliveryAssumption DEF IndInv, CounterOK
<1>5. Cardinality(overrun \cup {c}) = Cardinality(overrun) + 1
  BY <1>1, <1>4, FS_AddElement
<1>6. Threshold \in Nat \ {0}
  BY DeliveryAssumption
<1>7. CounterOK'
  <2>1. CASE Open(failures)
    BY <2>1, <1>3, <1>5, <1>4, <1>6 DEF IndInv, CounterOK, Open
  <2>2. CASE ~Open(failures) /\ Open(failures + 1)
    <3>1. overrun = {} /\ Cardinality(overrun) = 0
      BY <2>2, FS_EmptySet DEF IndInv, CounterOK
    <3>2. failures + 1 = Threshold
      BY <2>2, <1>6 DEF IndInv, CounterOK, Open
    <3> QED BY <2>2, <3>1, <3>2, <1>3, <1>5, <1>6 DEF IndInv, CounterOK, Open
  <2>3. CASE ~Open(failures + 1)
    BY <2>3, <1>3, <1>6 DEF IndInv, CounterOK, Open
  <2> QED BY <2>1, <2>2, <2>3
<1>8. Barred'
  BY <1>2, <1>3 DEF IndInv, Barred, CounterOK, MayFail
<1> QED BY <1>2, <1>7, <1>8 DEF IndInv

\* A counter that starts again has not been overrun by anybody.
LEMMA ClosedKeeps ==
  ASSUME CallsOK', failures' = 0, overrun' = {}
  PROVE  IndInv'
  BY DeliveryAssumption DEF IndInv, CounterOK, Barred, Open

LEMMA ReportSuccessKeeps ==
  ASSUME IndInv, NEW c \in Callers, AnswerClear(c)
  PROVE  IndInv'
<1>1. CallsOK'
  BY GotoMoves, DoneMoves DEF AnswerClear, IndInv
<1> QED BY <1>1, ClosedKeeps DEF AnswerClear, ReportSuccess

LEMMA UpstreamKeeps ==
  ASSUME IndInv, NEW c \in Callers, Upstream(c)
  PROVE  IndInv'
<1>1. CASE ReportFails(c)
  BY <1>1, FailsKeeps DEF ReportFails, breaker
<1>2. CASE Final(c)
  BY <1>2, GoOn, Stop DEF Final, breaker, Passing
<1>3. CASE Announce(c)
  BY <1>3, Stop DEF Announce, breaker
<1> QED BY <1>1, <1>2, <1>3, GuardReadKeeps, GuardKeeps, ReportFailureKeeps, ReportSuccessKeeps
        DEF Upstream

LEMMA WorkerKeeps ==
  ASSUME IndInv, NEW w \in Workers, Take(w) \/ WorkerStep(w)
  PROVE  IndInv'
<1> w \in Callers
  BY DEF Callers
<1>1. CASE Take(w)
  <2> DEFINE pc == IF Head(list).job.kind = "NOTIFY" THEN "push" ELSE "read"
  <2>1. pc \notin Passing
    BY DEF Passing
  <2> QED BY <1>1, <2>1, BeginKeeps DEF Take, breaker
<1>2. CASE ReadRow(w)
  BY <1>2, GoOn, Stop DEF ReadRow, breaker, Passing
<1>3. CASE Landed(w) \/ PushTaken(w) \/ RetryOrDlq(w) \/ RetryFails(w)
  <2>1. Done(w) /\ UNCHANGED <<failures, overrun>>
    BY <1>3 DEF Landed, PushTaken, RetryOrDlq, RetryFails, breaker
  <2> QED BY <2>1, Stop
<1>4. CASE PushRefused(w)
  BY <1>4, GoOn DEF PushRefused, breaker, Passing
<1> QED BY <1>1, <1>2, <1>3, <1>4, UpstreamKeeps DEF WorkerStep

LEMMA ProberKeeps ==
  ASSUME IndInv, NEW p \in Probers, Upstream(p) \/ \E t \in Tasks : ProbeStart(p, t)
  PROVE  IndInv'
<1> p \in Callers
  BY DEF Callers
<1>1. CASE \E t \in Tasks : ProbeStart(p, t)
  <2> PICK t \in Tasks : ProbeStart(p, t)
    BY <1>1
  <2>1. call' = [call EXCEPT ![p] = [NoCall EXCEPT !.msg = First(Submission(t)), !.pc = "guard"]]
    BY DEF ProbeStart
  <2>2. UNCHANGED <<failures, overrun>>
    BY DEF ProbeStart, breaker
  <2> QED BY <2>1, <2>2, BeginKeeps DEF Passing
<1> QED BY <1>1, UpstreamKeeps

\* The steps that move no call.
LEMMA ElsewhereKeeps ==
  ASSUME IndInv,
         \/ \E t \in Tasks : Accept(t) \/ OpsRequeue(t) \/ SessionExpires(t)
         \/ \E o \in Replayers : Replay(o)
         \/ Deliver \/ WindowPasses
  PROVE  IndInv'
<1>1. UNCHANGED <<call, failures, overrun>>
  BY DEF Accept, OpsRequeue, SessionExpires, Replay, ReplayStart, ReplaySend, ReplayDelete,
         ReplayStops, Deliver, Due, WindowPasses, breaker
<1> QED BY <1>1, StandStill

LEMMA NextKeeps == IndInv /\ [Next]_vars => IndInv'
<1> SUFFICES ASSUME IndInv, [Next]_vars PROVE IndInv'
  OBVIOUS
<1>1. CASE UNCHANGED vars
  BY <1>1, StandStill DEF vars, breaker
<1>2. CASE WindowEnds
  <2>1. CallsOK'
    BY <1>2 DEF WindowEnds, IndInv, CallsOK, IsCall
  <2> QED BY <1>2, <2>1, ClosedKeeps DEF WindowEnds
<1>3. CASE \E c \in Callers : Crash(c)
  BY <1>3, Stop DEF Crash, breaker
<1> QED BY <1>1, <1>2, <1>3, WorkerKeeps, ProberKeeps, ElsewhereKeeps DEF Next

LEMMA InitInv == Init => IndInv
<1> SUFFICES ASSUME Init PROVE IndInv
  OBVIOUS
<1>1. CallsOK
  BY DEF Init, CallsOK, IsCall, NoCall
<1> QED BY <1>1, DeliveryAssumption DEF Init, IndInv, CounterOK, Barred, Open

\* However many workers and probers share a host, each of them adds at most one
\* failure to a breaker that is open: what the counter has beyond the
\* threshold are distinct callers that had passed breaker_guard before.
THEOREM OvershootBounded == Spec => []BoundedOvershoot
<1>1. IndInv => BoundedOvershoot
  BY DEF IndInv, CounterOK, BoundedOvershoot, Open
<1> QED BY <1>1, InitInv, NextKeeps, PTL DEF Spec

-------------------------------------------------------------------------------
(* Where a job is                                                          *)

\* What a caller has in hand fits the await it has reached: callbacks are only
\* pushed, and probers neither retry nor land a submission.
CallFits(c) ==
  /\ call[c].pc = "idle" => call[c] = NoCall
  /\ call[c].pc # "idle" =>
       /\ call[c].msg \in Messages
       /\ \/ call[c].pc = "push" /\ call[c].msg.job.kind = "NOTIFY"
          \/ call[c].pc = "raise"
          \/ /\ call[c].pc \in {"read", "guard", "compare", "out", "landed", "final", "announce"}
             /\ call[c].msg.job.kind = "QUEUE_SUBMIT"
       /\ c \in Probers => call[c].pc \in {"guard", "compare", "out", "final", "announce"}
  /\ call[c].pc = "announce" => phase[TaskOf(c)] = "ENDED"

RowsOK ==
  /\ phase \in [Tasks -> {"NONE", "SUBMITTED", "QUEUED", "ENDED"}]
  /\ session \subseteq Tasks /\ told \subseteq Tasks /\ lost \subseteq Jobs
  /\ \A t \in Tasks \ session : phase[t] = "SUBMITTED" => Submission(t) \in lost

Entries == [id : 1..ids, job : Jobs]

\* The dead letters and what replays have read of them.
Recorded ==
  {dlq[i] : i \in DOMAIN dlq} \cup
  UNION {{replay[o].entries[i] : i \in DOMAIN replay[o].entries} : o \in Replayers}

QueuesOK ==
  /\ list \in Seq(Messages)
  /\ IsABag(delayed) /\ DOMAIN delayed \subseteq Messages
  /\ ids \in Nat /\ dlq \in Seq(Entries)
  /\ \A d, e \in Recorded : d.id = e.id => d.job = e.job

ReplaysOK ==
  /\ replay = [o \in Replayers |-> replay[o]]
  /\ \A o \in Replayers :
       /\ replay[o] = [entries |-> replay[o].entries, sent |-> replay[o].sent]
       /\ replay[o].entries \in Seq(Entries) /\ replay[o].sent \in BOOLEAN
       /\ replay[o].sent => replay[o].entries # <<>>

Announcing(t) == \E c \in Callers : call[c].pc = "announce" /\ TaskOf(c) = t

\* Somebody must still see to the job.
Owed(job) ==
  LET t == job.task
  IN  IF job.kind = "QUEUE_SUBMIT" THEN phase[t] = "SUBMITTED"
      ELSE phase[t] = "ENDED" /\ t \in Callbacks \ told /\ ~Announcing(t)

Alive(job) == Running(job) \/ Queued(job) \/ job \in lost

\* A job that is owed does not depend on the dead letters up to n.
Safe(job, n) ==
  Owed(job) => Alive(job) \/ \E i \in DOMAIN dlq : dlq[i].job = job /\ dlq[i].id > n

\* What a replay is about to delete has been queued again after it.
JobsKept ==
  /\ \A job \in Jobs : Safe(job, 0)
  /\ \A o \in Replayers :
       replay[o].sent => Safe(Head(replay[o].entries).job, Head(replay[o].entries).id)

FitsOK == \A c \in Callers : CallFits(c)

JobsInv == RowsOK /\ QueuesOK /\ ReplaysOK /\ FitsOK /\ JobsKept

DeliveryInv == IndInv /\ JobsInv

-------------------------------------------------------------------------------
(* The queues                                                              *)

LEMMA MessageOf ==
  ASSUME NEW job \in Jobs
  PROVE  First(job) \in Messages /\ First(job).job = job
  BY DeliveryAssumption DEF First, Messages

LEMMA JobsOf ==
  ASSUME NEW t \in Tasks
  PROVE  /\ Submission(t) \in Jobs /\ Submission(t).kind = "QUEUE_SUBMIT" /\ Submission(t).task = t
         /\ Callback(t) \in Jobs /\ Callback(t).kind = "NOTIFY" /\ Callback(t).task = t
  BY DEF Submission, Callback, Jobs, Kinds

LEMMA JobIs ==
  ASSUME NEW job \in Jobs
  PROVE  /\ job.task \in Tasks /\ job.kind \in {"QUEUE_SUBMIT", "NOTIFY"}
         /\ job.kind = "QUEUE_SUBMIT" => job = Submission(job.task)
         /\ job.kind # "QUEUE_SUBMIT" => job = Callback(job.task)
  BY DEF Submission, Callback, Jobs, Kinds

LEMMA Appended ==
  ASSUME list \in Seq(Messages), NEW m \in Messages, list' = Append(list, m)
  PROVE  /\ list' \in Seq(Messages)
         /\ \A i \in DOMAIN list : i \in DOMAIN list' /\ list'[i] = list[i]
         /\ \E i \in DOMAIN list' : list'[i] = m
<1>1. Len(list) \in Nat /\ DOMAIN list = 1..Len(list)
  OBVIOUS
<1>2. list' \in Seq(Messages) /\ Len(list') = Len(list) + 1 /\ list'[Len(list) + 1] = m
  OBVIOUS
<1>3. \A i \in 1..Len(list) : list'[i] = list[i]
  OBVIOUS
<1>4. DOMAIN list' = 1..(Len(list) + 1)
  BY <1>2
<1> QED BY <1>1, <1>2, <1>3, <1>4

LEMMA PublishQueues ==
  ASSUME QueuesOK, NEW job \in Jobs, Publish(job), delayed' = delayed
  PROVE  /\ list' \in Seq(Messages) /\ Queued(job)'
         /\ \A j \in Jobs : Queued(j) => Queued(j)'
<1>1. First(job) \in Messages /\ First(job).job = job
  BY MessageOf
<1>2. /\ list' \in Seq(Messages)
      /\ \A i \in DOMAIN list : i \in DOMAIN list' /\ list'[i] = list[i]
      /\ \E i \in DOMAIN list' : list'[i] = First(job)
  BY <1>1, Appended DEF Publish, QueuesOK
<1>3. Queued(job)'
  BY <1>1, <1>2 DEF Queued
<1>4. \A j \in Jobs : Queued(j) => Queued(j)'
  BY <1>2 DEF Queued
<1> QED BY <1>2, <1>3, <1>4

LEMMA TakeQueues ==
  ASSUME QueuesOK, list # <<>>, list' = Tail(list), delayed' = delayed
  PROVE  /\ list' \in Seq(Messages) /\ Head(list) \in Messages
         /\ \A j \in Jobs : Queued(j) => Queued(j)' \/ Head(list).job = j
<1>1. list \in Seq(Messages) /\ Len(list) \in Nat /\ DOMAIN list = 1..Len(list)
  BY DEF QueuesOK
<1>2. /\ Head(list) = list[1] /\ list' \in Seq(Messages) /\ Len(list') = Len(list) - 1
      /\ Head(list) \in Messages
      /\ \A i \in 1..Len(list') : list'[i] = list[i + 1]
  BY <1>1, HeadTailProperties
<1>3. DOMAIN list' = 1..(Len(list) - 1)
  BY <1>2
<1>4. ASSUME NEW i \in DOMAIN list
      PROVE  list[i] = Head(list) \/ \E k \in DOMAIN list' : list'[k] = list[i]
  <2>1. CASE i = 1
    BY <2>1, <1>2
  <2>2. CASE i # 1
    <3>1. i - 1 \in DOMAIN list' /\ list'[i - 1] = list[i]
      BY <2>2, <1>1, <1>2, <1>3
    <3> QED BY <3>1
  <2> QED BY <2>1, <2>2
<1> QED BY <1>2, <1>4 DEF Queued

LEMMA DelayQueues ==
  ASSUME QueuesOK, NEW m \in Messages, delayed' = delayed (+) SetToBag({m}), list' = list
  PROVE  /\ IsABag(delayed') /\ DOMAIN delayed' \subseteq Messages /\ Queued(m.job)'
         /\ \A j \in Jobs : Queued(j) => Queued(j)'
<1>1. IsABag(delayed) /\ DOMAIN delayed \subseteq Messages
  BY DEF QueuesOK
<1>2. DOMAIN delayed' = DOMAIN delayed \cup {m}
  BY DEF (+), SetToBag
<1>3. IsABag(delayed')
  BY <1>1 DEF (+), SetToBag, IsABag
<1> QED BY <1>1, <1>2, <1>3 DEF Queued, BagToSet

LEMMA DueQueues ==
  ASSUME QueuesOK, NEW m, Due(m)
  PROVE  /\ list' \in Seq(Messages) /\ IsABag(delayed') /\ DOMAIN delayed' \subseteq Messages
         /\ \A j \in Jobs : Queued(j) => Queued(j)'
<1>1. IsABag(delayed) /\ DOMAIN delayed \subseteq Messages /\ list \in Seq(Messages)
  BY DEF QueuesOK
<1>2. m \in Messages /\ list' = Append(list, m) /\ delayed' = delayed (-) SetToBag({m})
  BY <1>1 DEF Due, BagIn, BagToSet
<1>3. IsABag(delayed') /\ DOMAIN delayed' \subseteq DOMAIN delayed
  BY <1>1, <1>2 DEF (-), SetToBag, IsABag
<1>4. \A n \in DOMAIN delayed : n # m => n \in DOMAIN delayed'
  BY <1>1, <1>2 DEF (-), SetToBag, IsABag
<1>5. /\ list' \in Seq(Messages)
      /\ \A i \in DOMAIN list : i \in DOMAIN list' /\ list'[i] = list[i]
      /\ \E i \in DOMAIN list' : list'[i] = m
  BY <1>1, <1>2, Appended
<1>6. ASSUME NEW j \in Jobs, Queued(j) PROVE Queued(j)'
  <2>1. CASE \E i \in DOMAIN list : list[i].job = j
    BY <2>1, <1>5 DEF Queued
  <2>2. CASE \E n \in DOMAIN delayed : n.job = j
    BY <2>2, <1>4, <1>5 DEF Queued, BagToSet
  <2> QED BY <1>6, <2>1, <2>2 DEF Queued, BagToSet
<1> QED BY <1>1, <1>3, <1>5, <1>6

\* XADD: a new id, after all the others.
LEMMA Buried ==
  ASSUME dlq \in Seq(Entries), ids \in Nat, NEW job \in Jobs,
         ids' = ids + 1, dlq' = Append(dlq, [id |-> ids', job |-> job])
  PROVE  /\ ids' \in Nat /\ dlq' \in Seq(Entries')
         /\ \A i \in DOMAIN dlq : i \in DOMAIN dlq' /\ dlq'[i] = dlq[i]
         /\ \A i \in DOMAIN dlq' : dlq'[i] = [id |-> ids + 1, job |-> job] \/ i \in DOMAIN dlq
         /\ \E i \in DOMAIN dlq' : dlq'[i] = [id |-> ids + 1, job |-> job]
<1> DEFINE e == [id |-> ids + 1, job |-> job]
<1>1. e \in Entries' /\ Entries \subseteq Entries'
  BY DEF Entries
<1>2. dlq \in Seq(Entries')
  BY <1>1, SeqMonotonic
<1> HIDE DEF e
<1>3. dlq' = Append(dlq, e)
  BY DEF e
<1>4. /\ dlq' \in Seq(Entries') /\ Len(dlq') = Len(dlq) + 1 /\ dlq'[Len(dlq) + 1] = e
      /\ \A i \in 1..Len(dlq) : dlq'[i] = dlq[i]
  BY <1>1, <1>2, <1>3
<1>5. Len(dlq) \in Nat /\ DOMAIN dlq = 1..Len(dlq) /\ DOMAIN dlq' = 1..(Len(dlq) + 1)
  BY <1>4
<1> QED BY <1>4, <1>5 DEF e

LEMMA Shift ==
  ASSUME NEW n \in Nat, NEW i \in 1..n, NEW k \in 1..(n - 1), ~(k <= i - 1)
  PROVE  k - (i - 1) \in 1..(n - i) /\ i + (k - (i - 1)) = k + 1 /\ k + 1 \in 1..n
<1>1. k \in Int /\ i \in Int /\ n \in Int /\ k <= n - 1 /\ i <= k
  OBVIOUS
<1>2. k - (i - 1) = k - i + 1
  BY <1>1
<1>3. k - i + 1 \in 1..(n - i)
  BY <1>1
<1>4. i + (k - i + 1) = k + 1 /\ k + 1 \in 1..n
  BY <1>1
<1> QED BY <1>2, <1>3, <1>4

\* XDEL: what is not of that id stays.
LEMMA Removed ==
  ASSUME dlq \in Seq(Entries), NEW i \in DOMAIN dlq,
         dlq' = SubSeq(dlq, 1, i - 1) \o SubSeq(dlq, i + 1, Len(dlq))
  PROVE  /\ dlq' \in Seq(Entries)
         /\ \A k \in DOMAIN dlq' : \E l \in DOMAIN dlq : dlq'[k] = dlq[l]
         /\ \A k \in DOMAIN dlq \ {i} : \E l \in DOMAIN dlq' : dlq'[l] = dlq[k]
<1> DEFINE n == Len(dlq)
           s == SubSeq(dlq, 1, i - 1)
           u == SubSeq(dlq, i + 1, n)
<1>1. n \in Nat /\ DOMAIN dlq = 1..n /\ i \in 1..n
  OBVIOUS
<1>2. \A k \in 1..n : dlq[k] \in Entries
  BY <1>1
<1>3. s \in Seq(Entries) /\ Len(s) = i - 1 /\ \A k \in 1..(i - 1) : s[k] = dlq[k]
  BY <1>1, <1>2, SubSeqProperties
<1>4. u \in Seq(Entries) /\ Len(u) = n - i /\ \A k \in 1..(n - i) : u[k] = dlq[i + k]
  <2>1. i + 1 \in Int /\ n \in Int /\ \A k \in (i + 1)..n : dlq[k] \in Entries
    BY <1>1, <1>2
  <2>2. /\ u \in Seq(Entries)
        /\ Len(u) = IF i + 1 <= n THEN n - (i + 1) + 1 ELSE 0
        /\ \A k \in 1..(n - (i + 1) + 1) : u[k] = dlq[(i + 1) + k - 1]
    BY <2>1, SubSeqProperties
  <2> HIDE DEF n, u
  <2>3. n - (i + 1) + 1 = n - i /\ \A k \in 1..(n - i) : (i + 1) + k - 1 = i + k
    BY <1>1
  <2>4. Len(u) = n - i
    BY <1>1, <2>2
  <2> QED BY <2>2, <2>3, <2>4
<1> HIDE DEF s, u
<1>5. /\ dlq' \in Seq(Entries) /\ Len(dlq') = n - 1
      /\ \A k \in 1..(n - 1) : dlq'[k] = IF k <= i - 1 THEN s[k] ELSE u[k - (i - 1)]
  <2>1. dlq' = s \o u
    BY DEF s, u
  <2>2. /\ s \o u \in Seq(Entries) /\ Len(s \o u) = Len(s) + Len(u)
        /\ \A k \in 1..(Len(s) + Len(u)) :
             (s \o u)[k] = IF k <= Len(s) THEN s[k] ELSE u[k - Len(s)]
    BY <1>3, <1>4, ConcatProperties
  <2> HIDE DEF n
  <2>3. Len(s) + Len(u) = n - 1
    BY <1>1, <1>3, <1>4
  <2> QED BY <1>3, <2>1, <2>2, <2>3
<1>6. DOMAIN dlq' = 1..(n - 1)
  BY <1>5
<1>7. ASSUME NEW k \in DOMAIN dlq' PROVE \E l \in DOMAIN dlq : dlq'[k] = dlq[l]
  <2>1. CASE k <= i - 1
    BY <2>1, <1>1, <1>3, <1>5, <1>6
  <2>2. CASE ~(k <= i - 1)
    <3>1. k - (i - 1) \in 1..(n - i) /\ i + (k - (i - 1)) = k + 1 /\ k + 1 \in 1..n
      <4> HIDE DEF n
      <4>1. k \in 1..(n - 1)
        BY <1>6
      <4>2. n \in Nat /\ i \in 1..n
        BY <1>1
      <4> QED BY <2>2, <4>1, <4>2, Shift
    <3>2. dlq'[k] = dlq[k + 1]
      BY <2>2, <3>1, <1>4, <1>5, <1>6
    <3> QED BY <1>1, <3>1, <3>2
  <2> QED BY <2>1, <2>2
<1>8. ASSUME NEW k \in DOMAIN dlq \ {i} PROVE \E l \in DOMAIN dlq' : dlq'[l] = dlq[k]
  <2>1. CASE k <= i - 1
    <3>1. k \in 1..(n - 1) /\ k \in 1..(i - 1)
      BY <2>1, <1>1
    <3> QED BY <2>1, <3>1, <1>3, <1>5, <1>6
  <2>2. CASE ~(k <= i - 1)
    <3>1. k - 1 \in 1..(n - 1) /\ k - i \in 1..(n - i) /\ ~(k - 1 <= i - 1)
      BY <2>2, <1>1
    <3>2. (k - 1) - (i - 1) = k - i /\ i + (k - i) = k
      BY <1>1
    <3>3. dlq'[k - 1] = dlq[k]
      BY <3>1, <3>2, <1>4, <1>5
    <3> QED BY <3>1, <3>3, <1>6
  <2> QED BY <2>1, <2>2
<1> QED BY <1>5, <1>7, <1>8

-------------------------------------------------------------------------------
(* The calls                                                               *)

LEMMA GotoCall ==
  ASSUME CallsOK, NEW c \in Callers, NEW pc, Goto(c, pc)
  PROVE  /\ call'[c].pc = pc /\ call'[c].msg = call[c].msg
         /\ \A d \in Callers \ {c} : call'[d] = call[d]
  BY DEF CallsOK, IsCall, Goto

LEMMA DoneCall ==
  ASSUME CallsOK, NEW c \in Callers, Done(c)
  PROVE  call'[c] = NoCall /\ \A d \in Callers \ {c} : call'[d] = call[d]
  BY DEF CallsOK, Done

LEMMA TaskOfCall ==
  ASSUME FitsOK, NEW c \in Callers, call[c].pc # "idle"
  PROVE  TaskOf(c) \in Tasks /\ call[c].msg.job \in Jobs /\ call[c].msg \in Messages
  BY DEF FitsOK, CallFits, TaskOf, Messages, Jobs

EndsLast == \A t \in Tasks : phase[t] = "ENDED" => phase'[t] = "ENDED"

\* The awaits a call may reach next with the message it has.
GoesWell(c, pc) ==
  /\ call[c].pc \notin {"idle", "announce"}
  /\ \/ pc = "raise" /\ c \in Workers
     \/ pc \in {"guard", "compare", "out", "final"} /\ call[c].pc \in {"read", "guard", "compare", "out"}
     \/ pc = "landed" /\ c \in Workers /\ call[c].pc = "out"
     \/ pc = "announce" /\ call[c].pc = "final" /\ phase'[TaskOf(c)] = "ENDED"

LEMMA OthersFit ==
  ASSUME FitsOK, EndsLast, NEW c \in Callers, \A d \in Callers \ {c} : call'[d] = call[d],
         CallFits(c)'
  PROVE  FitsOK'
<1>1. ASSUME NEW d \in Callers, d # c PROVE CallFits(d)'
  <2>1. call'[d] = call[d] /\ CallFits(d)
    BY <1>1 DEF FitsOK
  <2>2. call[d].pc = "announce" => phase'[TaskOf(d)] = "ENDED"
    BY <2>1, <1>1, TaskOfCall DEF CallFits, EndsLast
  <2> QED BY <2>1, <2>2 DEF CallFits, TaskOf
<1> QED BY <1>1 DEF FitsOK

LEMMA GoingFits ==
  ASSUME FitsOK, EndsLast, NEW c \in Callers, NEW pc, GoesWell(c, pc),
         call'[c].pc = pc, call'[c].msg = call[c].msg,
         \A d \in Callers \ {c} : call'[d] = call[d]
  PROVE  FitsOK'
<1>1. CallFits(c)
  BY DEF FitsOK
<1>2. Workers \cap Probers = {}
  BY DeliveryAssumption
<1>3. pc # "idle" /\ call[c].msg \in Messages
  BY <1>1 DEF GoesWell, CallFits
<1>4. \/ pc = "push" /\ call[c].msg.job.kind = "NOTIFY"
      \/ pc = "raise"
      \/ /\ pc \in {"read", "guard", "compare", "out", "landed", "final", "announce"}
         /\ call[c].msg.job.kind = "QUEUE_SUBMIT"
  BY <1>1 DEF GoesWell, CallFits
<1>5. c \in Probers => pc \in {"guard", "compare", "out", "final", "announce"}
  BY <1>2 DEF GoesWell
<1>6. pc = "announce" => phase'[TaskOf(c)'] = "ENDED"
  BY DEF GoesWell, TaskOf
<1>7. CallFits(c)'
  BY <1>3, <1>4, <1>5, <1>6 DEF CallFits
<1> QED BY <1>7, OthersFit

LEMMA StoppingFits ==
  ASSUME FitsOK, EndsLast, NEW c \in Callers, call'[c] = NoCall,
         \A d \in Callers \ {c} : call'[d] = call[d]
  PROVE  FitsOK'
<1>1. CallFits(c)'
  BY DEF CallFits, NoCall
<1> QED BY <1>1, OthersFit

-------------------------------------------------------------------------------
(* What is kept                                                            *)

\* The job is in the hands of somebody, or is the latest dead letter.
Handed(job) == Alive(job)' \/ \E i \in DOMAIN dlq' : dlq'[i].job = job /\ dlq'[i].id = ids + 1

LEMMA HeadOf ==
  ASSUME ReplaysOK, NEW o \in Replayers, replay[o].sent
  PROVE  Head(replay[o].entries) \in Entries
<1>1. replay[o].entries \in Seq(Entries) /\ replay[o].entries # <<>>
  BY DEF ReplaysOK
<1>2. PICK s : s = replay[o].entries
  OBVIOUS
<1>3. Head(s) \in Entries
  BY <1>1, <1>2, HeadTailProperties
<1> QED BY <1>2, <1>3

LEMMA KeptBy ==
  ASSUME JobsKept, QueuesOK, ReplaysOK,
         \A j \in Jobs : Owed(j)' => Owed(j) \/ Alive(j)',
         \A j \in Jobs : Owed(j)' /\ Alive(j) => Handed(j),
         \A i \in DOMAIN dlq : \E k \in DOMAIN dlq' : dlq'[k] = dlq[i],
         \A o \in Replayers : replay'[o].sent =>
           \/ replay[o].sent /\ Head(replay'[o].entries) = Head(replay[o].entries)
           \/ Alive(Head(replay[o].entries).job)'
  PROVE  JobsKept'
<1>1. ASSUME NEW j \in Jobs, NEW n \in Nat, n <= ids, Safe(j, n) PROVE Safe(j, n)'
  <2>1. SUFFICES ASSUME Owed(j)', ~Alive(j)'
                 PROVE  \E i \in DOMAIN dlq' : dlq'[i].job = j /\ dlq'[i].id > n
    BY DEF Safe
  <2>2. Alive(j) \/ \E i \in DOMAIN dlq : dlq[i].job = j /\ dlq[i].id > n
    BY <1>1, <2>1 DEF Safe
  <2>3. CASE Alive(j)
    <3>1. PICK i \in DOMAIN dlq' : dlq'[i].job = j /\ dlq'[i].id = ids + 1
      BY <2>1, <2>3 DEF Handed
    <3>2. ids \in Nat /\ dlq'[i].id > n
      <4>1. ids \in Nat
        BY DEF QueuesOK
      <4> QED BY <3>1, <4>1, <1>1
    <3> QED BY <3>1, <3>2
  <2>4. CASE \E i \in DOMAIN dlq : dlq[i].job = j /\ dlq[i].id > n
    BY <2>4
  <2> QED BY <2>2, <2>3, <2>4
<1>2. ids \in Nat /\ 0 \in Nat /\ 0 <= ids
  BY DEF QueuesOK
<1>3. ASSUME NEW j \in Jobs PROVE Safe(j, 0)'
  BY <1>1, <1>2 DEF JobsKept
<1>4. ASSUME NEW o \in Replayers, replay'[o].sent
      PROVE  Safe(Head(replay[o].entries).job, Head(replay[o].entries).id)'
  <2>1. PICK e : e = Head(replay'[o].entries)
    OBVIOUS
  <2>2. CASE replay[o].sent /\ Head(replay'[o].entries) = Head(replay[o].entries)
    <3>1. e \in Entries /\ Safe(e.job, e.id)
      BY <2>1, <2>2, HeadOf DEF JobsKept
    <3>2. e.job \in Jobs /\ e.id \in Nat /\ e.id <= ids
      BY <3>1, <1>2 DEF Entries
    <3>3. Safe(e.job, e.id)'
      BY <3>1, <3>2, <1>1
    <3> QED BY <2>1, <3>3
  <2>3. CASE Alive(Head(replay[o].entries).job)'
    BY <2>3 DEF Safe
  <2> QED BY <1>4, <2>2, <2>3
<1> QED BY <1>3, <1>4 DEF JobsKept

\* The step of a caller drops nothing but what it has in hand itself.
Grows ==
  /\ \A j \in Jobs : Queued(j) => Queued(j)'
  /\ \A i \in DOMAIN dlq : i \in DOMAIN dlq' /\ dlq'[i] = dlq[i]
  /\ lost \subseteq lost' /\ told \subseteq told' /\ replay' = replay

LEMMA CallerKeepsJobs ==
  ASSUME JobsKept, QueuesOK, ReplaysOK, Grows, NEW c \in Callers,
         \A d \in Callers \ {c} : call'[d] = call[d],
         \A t \in Tasks : phase'[t] = "SUBMITTED" => phase[t] = "SUBMITTED",
         \A t \in Tasks : phase'[t] = "ENDED" => phase[t] = "ENDED" \/ Announcing(t)',
         \A t \in Tasks : call[c].pc = "announce" /\ TaskOf(c) = t =>
           t \notin Callbacks \/ Alive(Callback(t))',
         \A j \in Jobs : c \in Workers /\ call[c].pc # "idle" /\ call[c].msg.job = j =>
           \/ call'[c].pc # "idle" /\ call'[c].msg = call[c].msg
           \/ ~Owed(j)'
           \/ Handed(j),
         call[c].pc = "idle" => call[c] = NoCall
  PROVE  JobsKept'
<1>1. ASSUME NEW j \in Jobs, Owed(j)' PROVE Owed(j) \/ Alive(j)'
  <2>1. CASE j.kind = "QUEUE_SUBMIT"
    BY <1>1, <2>1, JobIs DEF Owed
  <2>2. CASE j.kind # "QUEUE_SUBMIT"
    <3> DEFINE t == j.task
    <3>1. t \in Tasks /\ j = Callback(t)
      BY <2>2, JobIs
    <3>2. phase'[t] = "ENDED" /\ t \in Callbacks /\ t \notin told' /\ ~Announcing(t)'
      BY <1>1, <2>2 DEF Owed
    <3>3. phase[t] = "ENDED" /\ t \notin told
      BY <3>1, <3>2 DEF Grows
    <3>4. CASE ~Announcing(t)
      BY <3>2, <3>3, <3>4, <2>2 DEF Owed
    <3>5. CASE Announcing(t)
      <4>1. PICK d \in Callers : call[d].pc = "announce" /\ TaskOf(d) = t
        BY <3>5 DEF Announcing
      <4>2. d = c
        BY <3>2, <4>1 DEF Announcing, TaskOf
      <4> QED BY <3>1, <3>2, <4>1, <4>2
    <3> QED BY <3>4, <3>5
  <2> QED BY <2>1, <2>2
<1>2. ASSUME NEW j \in Jobs, Owed(j)', Alive(j) PROVE Handed(j)
  <2>1. CASE Queued(j) \/ j \in lost
    BY <2>1 DEF Grows, Handed, Alive
  <2>2. CASE Running(j)
    <3>1. PICK w \in Workers : call[w] # NoCall /\ call[w].msg.job = j
      BY <2>2 DEF Running
    <3>2. CASE w # c
      <4>1. call'[w] = call[w]
        BY <3>2 DEF Callers
      <4> QED BY <3>1, <4>1 DEF Handed, Alive, Running
    <3>3. CASE w = c
      <4>1. c \in Workers /\ call[c].pc # "idle"
        BY <3>1, <3>3
      <4>2. call'[c].pc # "idle" => call'[c] # NoCall
        BY DEF NoCall
      <4> QED BY <1>2, <3>1, <3>3, <4>1, <4>2 DEF Handed, Alive, Running
    <3> QED BY <3>2, <3>3
  <2> QED BY <1>2, <2>1, <2>2 DEF Alive
<1>3. \A i \in DOMAIN dlq : \E k \in DOMAIN dlq' : dlq'[k] = dlq[i]
  BY DEF Grows
<1>4. \A o \in Replayers : replay'[o].sent =>
        replay[o].sent /\ Head(replay'[o].entries) = Head(replay[o].entries)
  BY DEF Grows
<1> QED BY <1>1, <1>2, <1>3, <1>4, KeptBy

-------------------------------------------------------------------------------
(* The steps of a call that leave the stores alone                         *)

LEMMA RowsStand ==
  ASSUME RowsOK, UNCHANGED <<rows, told, lost>>
  PROVE  RowsOK' /\ EndsLast
  BY DEF RowsOK, rows, EndsLast

LEMMA QueuesStand ==
  ASSUME QueuesOK, ReplaysOK, UNCHANGED <<dlq, ids, replay>>,
         list' \in Seq(Messages), IsABag(delayed'), DOMAIN delayed' \subseteq Messages
  PROVE  QueuesOK' /\ ReplaysOK'
<1>1. Recorded' = Recorded /\ Entries' = Entries
  BY DEF Recorded, Entries
<1>2. QueuesOK'
  BY <1>1 DEF QueuesOK
<1>3. ReplaysOK'
  BY <1>1 DEF ReplaysOK
<1> QED BY <1>2, <1>3

LEMMA StoresStand ==
  ASSUME QueuesOK, ReplaysOK, UNCHANGED <<queues, replay>>
  PROVE  QueuesOK' /\ ReplaysOK'
  BY QueuesStand DEF queues, QueuesOK

LEMMA NothingGrows ==
  ASSUME UNCHANGED <<queues, replay>>, lost \subseteq lost', told \subseteq told'
  PROVE  Grows
  BY DEF Grows, queues, Queued

LEMMA GoingKeeps ==
  ASSUME JobsInv, NEW c \in Callers, NEW pc, GoesWell(c, pc),
         call'[c].pc = pc, call'[c].msg = call[c].msg,
         \A d \in Callers \ {c} : call'[d] = call[d],
         UNCHANGED <<rows, queues, replay, history>>
  PROVE  JobsInv'
<1>1. RowsOK' /\ EndsLast /\ QueuesOK' /\ ReplaysOK'
  BY RowsStand, StoresStand DEF JobsInv, history
<1>2. FitsOK'
  BY <1>1, GoingFits DEF JobsInv
<1>3. Grows
  BY NothingGrows DEF history
<1>4. call[c].pc # "announce" /\ call[c].pc # "idle" /\ pc # "idle"
  BY DEF GoesWell
<1>5. phase' = phase
  BY DEF rows
<1>6. JobsKept'
  BY <1>3, <1>4, <1>5, CallerKeepsJobs DEF JobsInv
<1> QED BY <1>1, <1>2, <1>6 DEF JobsInv

LEMMA StoppingKeeps ==
  ASSUME JobsInv, NEW c \in Callers, call'[c] = NoCall,
         \A d \in Callers \ {c} : call'[d] = call[d],
         call[c].pc \notin {"idle", "announce"},
         \A j \in Jobs : c \in Workers /\ call[c].msg.job = j => ~Owed(j)' \/ j \in lost,
         UNCHANGED <<rows, queues, replay, history>>
  PROVE  JobsInv'
<1>1. RowsOK' /\ EndsLast /\ QueuesOK' /\ ReplaysOK'
  BY RowsStand, StoresStand DEF JobsInv, history
<1>2. FitsOK'
  BY <1>1, StoppingFits DEF JobsInv
<1>3. Grows
  BY NothingGrows DEF history
<1>4. phase' = phase
  BY DEF rows
<1>5. \A j \in Jobs : c \in Workers /\ call[c].msg.job = j => ~Owed(j)' \/ Handed(j)
  BY DEF Handed, Alive, history
<1>6. JobsKept'
  BY <1>3, <1>4, <1>5, CallerKeepsJobs DEF JobsInv
<1> QED BY <1>1, <1>2, <1>6 DEF JobsInv

\* A worker will raise, a probe is over.
LEMMA FailingKeeps ==
  ASSUME JobsInv, CallsOK, NEW c \in Callers, Fails(c), call[c].pc \notin {"idle", "announce"},
         UNCHANGED <<rows, queues, replay, history>>
  PROVE  JobsInv'
<1>1. CASE c \in Workers
  <2>1. Goto(c, "raise") /\ GoesWell(c, "raise")
    BY <1>1 DEF Fails, GoesWell
  <2>2. /\ call'[c].pc = "raise" /\ call'[c].msg = call[c].msg
        /\ \A d \in Callers \ {c} : call'[d] = call[d]
    BY <2>1, GotoCall
  <2> QED BY <2>1, <2>2, GoingKeeps
<1>2. CASE c \notin Workers
  <2>1. Done(c)
    BY <1>2 DEF Fails
  <2>2. call'[c] = NoCall /\ \A d \in Callers \ {c} : call'[d] = call[d]
    BY <2>1, DoneCall
  <2> QED BY <1>2, <2>2, StoppingKeeps
<1> QED BY <1>1, <1>2

LEMMA AdvancingKeeps ==
  ASSUME JobsInv, CallsOK, NEW c \in Callers, NEW pc, Goto(c, pc), GoesWell(c, pc),
         UNCHANGED <<rows, queues, replay, history>>
  PROVE  JobsInv'
<1>1. /\ call'[c].pc = pc /\ call'[c].msg = call[c].msg
      /\ \A d \in Callers \ {c} : call'[d] = call[d]
  BY GotoCall
<1> QED BY <1>1, GoingKeeps

LEMMA AskingKeepsJobs ==
  ASSUME JobsInv, CallsOK, NEW c \in Callers,
         \/ GuardRead(c) \/ Guard(c) \/ AnswerAmbiguous(c) \/ AnswerClear(c) \/ ReportFails(c)
  PROVE  JobsInv'
<1>1. UNCHANGED <<rows, queues, replay, history>>
  BY DEF GuardRead, Guard, AnswerAmbiguous, AnswerClear, ReportFails
<1>2. CASE GuardRead(c)
  <2>1. call'[c] = [pc |-> "compare", msg |-> call[c].msg, seen |-> failures]
        /\ \A d \in Callers \ {c} : call'[d] = call[d]
    BY <1>2 DEF GuardRead, CallsOK
  <2>2. GoesWell(c, "compare")
    BY <1>2 DEF GuardRead, GoesWell
  <2>3. call'[c].pc = "compare" /\ call'[c].msg = call[c].msg
    BY <2>1
  <2> QED BY <1>1, <2>1, <2>2, <2>3, GoingKeeps
<1>3. CASE Guard(c)
  <2>1. CASE Open(call[c].seen)
    BY <1>1, <1>3, <2>1, FailingKeeps DEF Guard
  <2>2. CASE ~Open(call[c].seen)
    <3>1. Goto(c, "out") /\ GoesWell(c, "out")
      BY <1>3, <2>2 DEF Guard, GoesWell
    <3> QED BY <1>1, <3>1, AdvancingKeeps
  <2> QED BY <2>1, <2>2
<1>4. CASE AnswerAmbiguous(c) \/ ReportFails(c)
  BY <1>1, <1>4, FailingKeeps DEF AnswerAmbiguous, ReportFails
<1>5. CASE AnswerClear(c)
  <2>1. call[c].pc = "out"
    BY <1>5 DEF AnswerClear
  <2>2. CASE Goto(c, "final")
    <3>1. GoesWell(c, "final")
      BY <2>1 DEF GoesWell
    <3> QED BY <1>1, <2>2, <3>1, AdvancingKeeps
  <2>3. CASE c \in Workers /\ Goto(c, "landed")
    <3>1. GoesWell(c, "landed")
      BY <2>1, <2>3 DEF GoesWell
    <3> QED BY <1>1, <2>3, <3>1, AdvancingKeeps
  <2>4. CASE c \notin Workers /\ Done(c)
    <3>1. call'[c] = NoCall /\ \A d \in Callers \ {c} : call'[d] = call[d]
      BY <2>4, DoneCall
    <3> QED BY <1>1, <2>1, <2>4, <3>1, StoppingKeeps
  <2> QED BY <1>5, <2>2, <2>3, <2>4 DEF AnswerClear
<1> QED BY <1>2, <1>3, <1>4, <1>5

\* A submission that is dropped is not owed, or its session has expired.
LEMMA ReadRowKeepsJobs ==
  ASSUME JobsInv, CallsOK, NEW w \in Workers, ReadRow(w)
  PROVE  JobsInv'
<1> w \in Callers
  BY DEF Callers
<1>1. UNCHANGED <<rows, queues, replay, history>> /\ call[w].pc = "read"
  BY DEF ReadRow
<1>2. CASE phase[TaskOf(w)] = "SUBMITTED" /\ TaskOf(w) \in session
  <2>1. Goto(w, "guard") /\ GoesWell(w, "guard")
    BY <1>2 DEF ReadRow, GoesWell
  <2> QED BY <1>1, <2>1, AdvancingKeeps
<1>3. CASE ~(phase[TaskOf(w)] = "SUBMITTED" /\ TaskOf(w) \in session)
  <2>1. Done(w)
    BY <1>3 DEF ReadRow
  <2>2. call'[w] = NoCall /\ \A d \in Callers \ {w} : call'[d] = call[d]
    BY <2>1, DoneCall
  <2>3. TaskOf(w) \in Tasks /\ call[w].msg.job \in Jobs /\ call[w].msg.job.kind = "QUEUE_SUBMIT"
    BY <1>1, TaskOfCall DEF JobsInv, FitsOK, CallFits
  <2>4. call[w].msg.job = Submission(TaskOf(w))
    BY <2>3, JobIs DEF TaskOf
  <2>5. ASSUME NEW j \in Jobs, call[w].msg.job = j PROVE ~Owed(j)' \/ j \in lost
    <3>1. j.kind = "QUEUE_SUBMIT" /\ j.task = TaskOf(w) /\ phase' = phase
      BY <1>1, <2>3, <2>5 DEF TaskOf, rows
    <3>2. Owed(j)' => phase[TaskOf(w)] = "SUBMITTED"
      BY <3>1 DEF Owed
    <3> QED BY <1>3, <2>3, <2>4, <2>5, <3>2 DEF JobsInv, RowsOK
  <2> QED BY <1>1, <2>2, <2>5, StoppingKeeps
<1> QED BY <1>2, <1>3

LEMMA PushRefusedKeepsJobs ==
  ASSUME JobsInv, CallsOK, NEW w \in Workers, PushRefused(w)
  PROVE  JobsInv'
<1> w \in Callers
  BY DEF Callers
<1>1. Goto(w, "raise") /\ GoesWell(w, "raise")
  BY DEF PushRefused, GoesWell
<1> QED BY <1>1, AdvancingKeeps DEF PushRefused

-------------------------------------------------------------------------------
(* The steps of a call that move a row, a message or the history           *)

\* The rows of tasks other than t are as they were.
LEMMA RowMoves ==
  ASSUME RowsOK, NEW t \in Tasks, NEW v \in {"QUEUED", "ENDED"},
         phase' = [phase EXCEPT ![t] = v], phase[t] = "ENDED" => v = "ENDED",
         UNCHANGED <<session, told, lost>>
  PROVE  /\ RowsOK' /\ EndsLast /\ phase'[t] = v
         /\ \A u \in Tasks : u # t => phase'[u] = phase[u]
  BY DEF RowsOK, EndsLast

\* A submission that has reached its row is not owed any more.
LEMMA LandedKeepsJobs ==
  ASSUME JobsInv, CallsOK, NEW w \in Workers, Landed(w)
  PROVE  JobsInv'
<1> w \in Callers
  BY DEF Callers
<1> PICK t : t = TaskOf(w)
  OBVIOUS
<1>1. /\ call'[w] = NoCall /\ \A d \in Callers \ {w} : call'[d] = call[d]
      /\ call[w].pc = "landed" /\ UNCHANGED <<session, told, lost, queues, replay>>
  BY DoneCall DEF Landed, history
<1>2. t \in Tasks /\ call[w].msg.job.kind = "QUEUE_SUBMIT" /\ call[w].msg.job.task = t
  BY <1>1, TaskOfCall DEF JobsInv, FitsOK, CallFits, TaskOf
<1>3. PICK v \in {"QUEUED", "ENDED"} :
        phase' = [phase EXCEPT ![t] = v] /\ (v = "ENDED" <=> phase[t] = "ENDED")
  BY DEF Landed, Terminal
<1>4. /\ RowsOK' /\ EndsLast /\ phase'[t] = v
      /\ \A u \in Tasks : u # t => phase'[u] = phase[u]
  BY <1>1, <1>2, <1>3, RowMoves DEF JobsInv
<1>5. FitsOK'
  BY <1>1, <1>4, StoppingFits DEF JobsInv
<1>6. QueuesOK' /\ ReplaysOK' /\ Grows
  BY <1>1, StoresStand, NothingGrows DEF JobsInv
<1>7. \A j \in Jobs : call[w].msg.job = j => ~Owed(j)'
  BY <1>2, <1>4 DEF Owed
<1>8. /\ \A u \in Tasks : phase'[u] = "SUBMITTED" => phase[u] = "SUBMITTED"
      /\ \A u \in Tasks : phase'[u] = "ENDED" => phase[u] = "ENDED"
  BY <1>3, <1>4
<1>9. JobsKept'
  BY <1>1, <1>6, <1>7, <1>8, CallerKeepsJobs DEF JobsInv
<1> QED BY <1>4, <1>5, <1>6, <1>9 DEF JobsInv

\* Whoever ends a task is the one to announce it.
LEMMA FinalKeepsJobs ==
  ASSUME JobsInv, CallsOK, NEW c \in Callers, Final(c)
  PROVE  JobsInv'
<1> PICK t : t = TaskOf(c)
  OBVIOUS
<1>1. call[c].pc = "final" /\ UNCHANGED <<session, told, lost, queues, replay>>
  BY DEF Final, history
<1>2. t \in Tasks /\ call[c].msg.job.kind = "QUEUE_SUBMIT" /\ call[c].msg.job.task = t
  BY <1>1, TaskOfCall DEF JobsInv, FitsOK, CallFits, TaskOf
<1>3. phase' = [phase EXCEPT ![t] = "ENDED"]
  BY DEF Final
<1>4. /\ RowsOK' /\ EndsLast /\ phase'[t] = "ENDED"
      /\ \A u \in Tasks : u # t => phase'[u] = phase[u]
  BY <1>1, <1>2, <1>3, RowMoves DEF JobsInv
<1>5. QueuesOK' /\ ReplaysOK' /\ Grows
  BY <1>1, StoresStand, NothingGrows DEF JobsInv
<1>6. \A j \in Jobs : call[c].msg.job = j => ~Owed(j)'
  BY <1>2, <1>4 DEF Owed
<1>7. \A u \in Tasks : phase'[u] = "SUBMITTED" => phase[u] = "SUBMITTED"
  BY <1>4
<1>8. CASE phase[t] = "ENDED"
  <2>1. Done(c)
    BY <1>8 DEF Final, Terminal
  <2>2. call'[c] = NoCall /\ \A d \in Callers \ {c} : call'[d] = call[d]
    BY <2>1, DoneCall
  <2>3. FitsOK'
    BY <1>4, <2>2, StoppingFits DEF JobsInv
  <2>4. \A u \in Tasks : phase'[u] = "ENDED" => phase[u] = "ENDED"
    BY <1>4, <1>8
  <2>5. JobsKept'
    BY <1>1, <1>5, <1>6, <1>7, <2>2, <2>4, CallerKeepsJobs DEF JobsInv
  <2> QED BY <1>4, <1>5, <2>3, <2>5 DEF JobsInv
<1>9. CASE phase[t] # "ENDED"
  <2>1. Goto(c, "announce")
    BY <1>9 DEF Final, Terminal
  <2>2. /\ call'[c].pc = "announce" /\ call'[c].msg = call[c].msg
        /\ \A d \in Callers \ {c} : call'[d] = call[d]
    BY <2>1, GotoCall
  <2>3. GoesWell(c, "announce")
    BY <1>1, <1>4 DEF GoesWell
  <2>4. FitsOK'
    BY <1>4, <2>2, <2>3, GoingFits DEF JobsInv
  <2>5. Announcing(t)'
    BY <1>2, <2>2 DEF Announcing, TaskOf
  <2>6. \A u \in Tasks : phase'[u] = "ENDED" => phase[u] = "ENDED" \/ Announcing(u)'
    BY <1>4, <2>5
  <2>7. JobsKept'
    BY <1>1, <1>5, <1>6, <1>7, <2>2, <2>6, CallerKeepsJobs DEF JobsInv
  <2> QED BY <1>4, <1>5, <2>4, <2>7 DEF JobsInv
<1> QED BY <1>8, <1>9

\* The callback is queued before the session goes.
LEMMA AnnounceKeepsJobs ==
  ASSUME JobsInv, CallsOK, NEW c \in Callers, Announce(c)
  PROVE  JobsInv'
<1> PICK t : t = TaskOf(c)
  OBVIOUS
<1>1. /\ call'[c] = NoCall /\ \A d \in Callers \ {c} : call'[d] = call[d]
      /\ call[c].pc = "announce" /\ session' = session \ {t}
      /\ UNCHANGED <<phase, told, lost, delayed, dlq, ids, replay>>
  BY DoneCall DEF Announce, history
<1>2. /\ t \in Tasks /\ phase[t] = "ENDED"
      /\ call[c].msg.job.kind = "QUEUE_SUBMIT" /\ call[c].msg.job.task = t
  BY <1>1, TaskOfCall DEF JobsInv, FitsOK, CallFits, TaskOf
<1>3. RowsOK' /\ EndsLast
  BY <1>1, <1>2 DEF JobsInv, RowsOK, EndsLast
<1>4. FitsOK'
  BY <1>1, <1>3, StoppingFits DEF JobsInv
<1>5. /\ list' \in Seq(Messages) /\ \A j \in Jobs : Queued(j) => Queued(j)'
      /\ t \in Callbacks => Queued(Callback(t))'
  <2>1. CASE t \in Callbacks
    <3>1. Callback(t) \in Jobs /\ Publish(Callback(t))
      BY <1>2, <2>1, JobsOf DEF Announce
    <3> QED BY <1>1, <3>1, PublishQueues DEF JobsInv
  <2>2. CASE t \notin Callbacks
    <3>1. list' = list
      BY <2>2 DEF Announce
    <3> QED BY <1>1, <2>2, <3>1 DEF JobsInv, QueuesOK, Queued
  <2> QED BY <2>1, <2>2
<1>6. QueuesOK' /\ ReplaysOK'
  BY <1>1, <1>5, QueuesStand DEF JobsInv, QueuesOK
<1>7. Grows
  BY <1>1, <1>5 DEF Grows
<1>8. \A j \in Jobs : call[c].msg.job = j => ~Owed(j)'
  BY <1>1, <1>2 DEF Owed
<1>9. \A u \in Tasks : TaskOf(c) = u => u \notin Callbacks \/ Alive(Callback(u))'
  BY <1>5 DEF Alive
<1>10. JobsKept'
  BY <1>1, <1>7, <1>8, <1>9, CallerKeepsJobs DEF JobsInv
<1> QED BY <1>3, <1>4, <1>6, <1>10 DEF JobsInv

LEMMA PushTakenKeepsJobs ==
  ASSUME JobsInv, CallsOK, NEW w \in Workers, PushTaken(w)
  PROVE  JobsInv'
<1> w \in Callers
  BY DEF Callers
<1> PICK t : t = TaskOf(w)
  OBVIOUS
<1>1. /\ call'[w] = NoCall /\ \A d \in Callers \ {w} : call'[d] = call[d]
      /\ call[w].pc = "push" /\ told' = told \cup {t}
      /\ UNCHANGED <<phase, session, lost, queues, replay>>
  BY DoneCall DEF PushTaken, rows
<1>2. t \in Tasks /\ call[w].msg.job.kind = "NOTIFY" /\ call[w].msg.job.task = t
  BY <1>1, TaskOfCall DEF JobsInv, FitsOK, CallFits, TaskOf
<1>3. RowsOK' /\ EndsLast
  BY <1>1, <1>2 DEF JobsInv, RowsOK, EndsLast
<1>4. FitsOK'
  BY <1>1, <1>3, StoppingFits DEF JobsInv
<1>5. QueuesOK' /\ ReplaysOK' /\ Grows
  BY <1>1, StoresStand, NothingGrows DEF JobsInv
<1>6. \A j \in Jobs : call[w].msg.job = j => ~Owed(j)'
  BY <1>1, <1>2 DEF Owed
<1>7. JobsKept'
  BY <1>1, <1>5, <1>6, CallerKeepsJobs DEF JobsInv
<1> QED BY <1>3, <1>4, <1>5, <1>7 DEF JobsInv

LEMMA RetriedMessage ==
  ASSUME NEW m \in Messages, ~Exhausted(m)
  PROVE  Retried(m) \in Messages /\ Retried(m).job = m.job
<1>1. m.attempts \in Nat /\ m.attempts + 1 < EventMaxAttempts /\ m.job \in Jobs
  BY DeliveryAssumption DEF Exhausted, Messages
<1>2. Retried(m) = [job |-> m.job, attempts |-> m.attempts + 1]
  BY DEF Retried, Messages
<1> QED BY <1>1, <1>2, DeliveryAssumption DEF Messages

\* The job that raised is held back, or is a dead letter.
LEMMA RetryKeepsJobs ==
  ASSUME JobsInv, CallsOK, NEW w \in Workers, RetryOrDlq(w)
  PROVE  JobsInv'
<1> w \in Callers
  BY DEF Callers
<1> PICK m : m = call[w].msg
  OBVIOUS
<1>1. /\ call'[w] = NoCall /\ \A d \in Callers \ {w} : call'[d] = call[d]
      /\ call[w].pc = "raise" /\ UNCHANGED <<rows, list, replay, told, lost>>
  BY DoneCall DEF RetryOrDlq, history
<1>2. m \in Messages /\ m.job \in Jobs
  BY <1>1, TaskOfCall DEF JobsInv
<1>3. RowsOK' /\ EndsLast
  BY <1>1, RowsStand DEF JobsInv
<1>4. FitsOK'
  BY <1>1, <1>3, StoppingFits DEF JobsInv
<1>5. CASE Exhausted(m)
  <2>1. ids' = ids + 1 /\ dlq' = Append(dlq, [id |-> ids', job |-> m.job]) /\ UNCHANGED delayed
    BY <1>5 DEF RetryOrDlq
  <2>2. dlq \in Seq(Entries) /\ ids \in Nat
    BY DEF JobsInv, QueuesOK
  <2> DEFINE e == [id |-> ids + 1, job |-> m.job]
  <2>3. /\ ids' \in Nat /\ dlq' \in Seq(Entries')
        /\ \A i \in DOMAIN dlq : i \in DOMAIN dlq' /\ dlq'[i] = dlq[i]
        /\ \A i \in DOMAIN dlq' : dlq'[i] = e \/ i \in DOMAIN dlq
        /\ \E i \in DOMAIN dlq' : dlq'[i] = e
    BY <1>2, <2>1, <2>2, Buried
  <2>4. e.id = ids + 1 /\ e.job = m.job
    OBVIOUS
  <2> HIDE DEF e
  <2>5. Recorded' \subseteq Recorded \cup {e}
    BY <1>1, <2>3 DEF Recorded
  <2>6. \A d \in Recorded : d.id # e.id
    <3>1. \A i \in DOMAIN dlq : dlq[i] \in Entries
      BY <2>2
    <3>2. ASSUME NEW o \in Replayers, NEW i \in DOMAIN replay[o].entries
          PROVE  replay[o].entries[i] \in Entries
      <4>1. PICK s : s = replay[o].entries
        OBVIOUS
      <4>2. s \in Seq(Entries)
        BY <4>1 DEF JobsInv, ReplaysOK
      <4>3. s[i] \in Entries
        BY <4>1, <4>2
      <4> QED BY <4>1, <4>3
    <3>3. Recorded \subseteq Entries
      BY <3>1, <3>2 DEF Recorded
    <3> QED BY <2>2, <2>4, <3>3 DEF Entries
  <2>7. \A d, f \in Recorded' : d.id = f.id => d.job = f.job
    <3>1. \A d, f \in Recorded : d.id = f.id => d.job = f.job
      BY DEF JobsInv, QueuesOK
    <3> QED BY <2>5, <2>6, <3>1
  <2>8. QueuesOK'
    BY <1>1, <2>1, <2>3, <2>7 DEF JobsInv, QueuesOK
  <2>9. ReplaysOK'
    <3>1. Entries \subseteq Entries'
      BY <2>1, <2>2 DEF Entries
    <3>2. \A o \in Replayers : replay[o].entries \in Seq(Entries')
      BY <3>1, SeqMonotonic DEF JobsInv, ReplaysOK
    <3> QED BY <1>1, <3>2 DEF JobsInv, ReplaysOK
  <2>10. Grows
    BY <1>1, <2>1, <2>3 DEF Grows, Queued
  <2>11. Handed(m.job)
    BY <2>3, <2>4 DEF Handed
  <2>12. JobsKept'
    BY <1>1, <2>10, <2>11, CallerKeepsJobs DEF JobsInv, rows
  <2> QED BY <1>3, <1>4, <2>8, <2>9, <2>12 DEF JobsInv
<1>6. CASE ~Exhausted(m)
  <2>1. delayed' = delayed (+) SetToBag({Retried(m)}) /\ UNCHANGED <<dlq, ids>>
    BY <1>6 DEF RetryOrDlq
  <2>2. Retried(m) \in Messages /\ Retried(m).job = m.job
    BY <1>2, <1>6, RetriedMessage
  <2>3. /\ IsABag(delayed') /\ DOMAIN delayed' \subseteq Messages /\ Queued(m.job)'
        /\ \A j \in Jobs : Queued(j) => Queued(j)'
    BY <1>1, <2>1, <2>2, DelayQueues DEF JobsInv
  <2>4. QueuesOK' /\ ReplaysOK'
    BY <1>1, <2>1, <2>3, QueuesStand DEF JobsInv, QueuesOK
  <2>5. Grows
    BY <1>1, <2>1, <2>3 DEF Grows
  <2>6. Handed(m.job)
    BY <2>3 DEF Handed, Alive
  <2>7. JobsKept'
    BY <1>1, <2>5, <2>6, CallerKeepsJobs DEF JobsInv, rows
  <2> QED BY <1>3, <1>4, <2>4, <2>7 DEF JobsInv
<1> QED BY <1>5, <1>6

\* What a mishap takes is lost, and recorded as such.
LEMMA MishapKeepsJobs ==
  ASSUME JobsInv, CallsOK, NEW c \in Callers, (RetryFails(c) /\ c \in Workers) \/ Crash(c)
  PROVE  JobsInv'
<1> PICK t : t = TaskOf(c)
  OBVIOUS
<1>1. /\ call'[c] = NoCall /\ \A d \in Callers \ {c} : call'[d] = call[d]
      /\ call[c].pc # "idle" /\ UNCHANGED <<rows, queues, replay, told>>
  BY DoneCall DEF RetryFails, Crash
<1>2. t \in Tasks /\ call[c].msg.job \in Jobs
  BY <1>1, TaskOfCall DEF JobsInv
<1>3. /\ lost \subseteq lost' /\ lost' \subseteq Jobs
      /\ call[c].pc = "announce" => Callback(t) \in lost'
      /\ call[c].pc # "announce" /\ c \in Workers => call[c].msg.job \in lost'
  <2>1. Callback(t) \in Jobs /\ lost \subseteq Jobs
    BY <1>2, JobsOf DEF JobsInv, RowsOK
  <2>2. CASE RetryFails(c)
    BY <1>2, <2>1, <2>2 DEF RetryFails
  <2>3. CASE Crash(c)
    BY <1>2, <2>1, <2>3 DEF Crash, Carried
  <2> QED BY <2>2, <2>3
<1>4. RowsOK' /\ EndsLast
  BY <1>1, <1>3 DEF JobsInv, RowsOK, rows, EndsLast
<1>5. FitsOK'
  BY <1>1, <1>4, StoppingFits DEF JobsInv
<1>6. QueuesOK' /\ ReplaysOK' /\ Grows
  BY <1>1, <1>3, StoresStand, NothingGrows DEF JobsInv
<1>7. phase' = phase
  BY <1>1 DEF rows
<1>8. ASSUME NEW j \in Jobs, c \in Workers, call[c].msg.job = j PROVE ~Owed(j)' \/ Handed(j)
  <2>1. CASE call[c].pc = "announce"
    <3>1. j.kind = "QUEUE_SUBMIT" /\ j.task = t /\ phase[t] = "ENDED"
      BY <1>8, <2>1 DEF JobsInv, FitsOK, CallFits, TaskOf
    <3> QED BY <1>7, <3>1 DEF Owed
  <2>2. CASE call[c].pc # "announce"
    BY <1>3, <1>8, <2>2 DEF Handed, Alive
  <2> QED BY <2>1, <2>2
<1>9. \A u \in Tasks : call[c].pc = "announce" /\ TaskOf(c) = u => Alive(Callback(u))'
  BY <1>3 DEF Alive
<1>10. JobsKept'
  BY <1>1, <1>6, <1>7, <1>8, <1>9, CallerKeepsJobs DEF JobsInv
<1> QED BY <1>4, <1>5, <1>6, <1>10 DEF JobsInv

\* A call begins with the message m.
LEMMA BeginningFits ==
  ASSUME FitsOK, EndsLast, NEW c \in Callers, NEW m \in Messages, NEW pc,
         call'[c].pc = pc, call'[c].msg = m, \A d \in Callers \ {c} : call'[d] = call[d],
         \/ c \in Workers /\ pc = "push" /\ m.job.kind = "NOTIFY"
         \/ c \in Workers /\ pc = "read" /\ m.job.kind = "QUEUE_SUBMIT"
         \/ c \in Probers /\ pc = "guard" /\ m.job.kind = "QUEUE_SUBMIT"
  PROVE  FitsOK'
<1>1. Workers \cap Probers = {}
  BY DeliveryAssumption
<1>2. CallFits(c)'
  BY <1>1 DEF CallFits
<1> QED BY <1>2, OthersFit

LEMMA BegunCall ==
  ASSUME CallsOK, NEW c \in Callers, NEW m, NEW pc,
         call' = [call EXCEPT ![c] = [NoCall EXCEPT !.msg = m, !.pc = pc]]
  PROVE  /\ call'[c].pc = pc /\ call'[c].msg = m
         /\ \A d \in Callers \ {c} : call'[d] = call[d]
<1>1. [NoCall EXCEPT !.msg = m, !.pc = pc] = [pc |-> pc, msg |-> m, seen |-> 0]
  <2> DEFINE a == [NoCall EXCEPT !.msg = m]
  <2>1. a = [pc |-> "idle", msg |-> m, seen |-> 0]
    BY DEF NoCall
  <2>2. [NoCall EXCEPT !.msg = m, !.pc = pc] = [a EXCEPT !.pc = pc]
    OBVIOUS
  <2> HIDE DEF a
  <2> QED BY <2>1, <2>2
<1>2. call'[c] = [pc |-> pc, msg |-> m, seen |-> 0] /\ \A d \in Callers \ {c} : call'[d] = call[d]
  BY <1>1 DEF CallsOK
<1> QED BY <1>2

LEMMA ProbeStartKeepsJobs ==
  ASSUME JobsInv, CallsOK, NEW p \in Probers, NEW t \in Tasks, ProbeStart(p, t)
  PROVE  JobsInv'
<1> p \in Callers
  BY DEF Callers
<1>1. call' = [call EXCEPT ![p] = [NoCall EXCEPT !.msg = First(Submission(t)), !.pc = "guard"]]
  BY DEF ProbeStart
<1>2. /\ call'[p].pc = "guard" /\ call'[p].msg = First(Submission(t))
      /\ \A d \in Callers \ {p} : call'[d] = call[d]
  BY <1>1, BegunCall
<1>3. /\ First(Submission(t)) \in Messages
      /\ First(Submission(t)).job.kind = "QUEUE_SUBMIT"
  BY JobsOf, MessageOf
<1>4. call[p].pc = "idle" /\ UNCHANGED <<rows, queues, replay, history>>
  BY DEF ProbeStart
<1>5. RowsOK' /\ EndsLast /\ QueuesOK' /\ ReplaysOK' /\ Grows
  BY <1>4, RowsStand, StoresStand, NothingGrows DEF JobsInv, history
<1>6. FitsOK'
  BY <1>2, <1>3, <1>5, BeginningFits DEF JobsInv
<1>7. call[p] = NoCall /\ phase' = phase
  BY <1>4 DEF JobsInv, FitsOK, CallFits, rows
<1>8. JobsKept'
  BY <1>2, <1>4, <1>5, <1>7, CallerKeepsJobs DEF JobsInv
<1> QED BY <1>5, <1>6, <1>8 DEF JobsInv

\* From the list into the hands of a worker.
LEMMA TakeKeepsJobs ==
  ASSUME JobsInv, CallsOK, NEW w \in Workers, Take(w)
  PROVE  JobsInv'
<1> w \in Callers
  BY DEF Callers
<1>m. PICK m : m = Head(list)
  OBVIOUS
<1>pc. PICK pc : pc = IF m.job.kind = "NOTIFY" THEN "push" ELSE "read"
  OBVIOUS
<1>1. call' = [call EXCEPT ![w] = [NoCall EXCEPT !.msg = m, !.pc = pc]]
  BY <1>m, <1>pc DEF Take
<1>2. /\ call[w].pc = "idle" /\ list # <<>> /\ list' = Tail(list)
      /\ UNCHANGED <<rows, delayed, dlq, ids, replay, history>>
  BY DEF Take
<1>3. /\ list' \in Seq(Messages) /\ m \in Messages
      /\ \A j \in Jobs : Queued(j) => Queued(j)' \/ m.job = j
  BY <1>2, <1>m, TakeQueues DEF JobsInv
<1>4. m.job.kind \in {"QUEUE_SUBMIT", "NOTIFY"}
  BY <1>3 DEF Messages, Jobs, Kinds
<1>5. pc \in {"push", "read"} /\ (pc = "push" <=> m.job.kind = "NOTIFY")
  BY <1>pc
<1>6. /\ call'[w].pc = pc /\ call'[w].msg = m
      /\ \A d \in Callers \ {w} : call'[d] = call[d]
  BY <1>1, BegunCall
<1>7. RowsOK' /\ EndsLast
  BY <1>2, RowsStand DEF JobsInv, history
<1>8. FitsOK'
  BY <1>3, <1>4, <1>5, <1>6, <1>7, BeginningFits DEF JobsInv
<1>9. QueuesOK' /\ ReplaysOK'
  BY <1>2, <1>3, QueuesStand DEF JobsInv, QueuesOK
<1>10. call[w] = NoCall /\ phase' = phase /\ UNCHANGED <<told, lost>>
  BY <1>2 DEF JobsInv, FitsOK, CallFits, rows, history
<1>11. call'[w] # NoCall
  BY <1>5, <1>6 DEF NoCall
<1>12. ASSUME NEW j \in Jobs, Alive(j) PROVE Handed(j)
  <2>1. Running(j) => Running(j)'
    BY <1>6, <1>10 DEF Running, Callers
  <2>2. m.job = j => Running(j)'
    BY <1>6, <1>11 DEF Running
  <2> QED BY <1>3, <1>10, <1>12, <2>1, <2>2 DEF Alive, Handed
<1>13. ASSUME NEW j \in Jobs, Owed(j)' PROVE Owed(j)
  <2>1. \A t \in Tasks : Announcing(t) => Announcing(t)'
    <3>1. call[w].pc # "announce"
      BY <1>2
    <3> QED BY <1>6, <3>1 DEF Announcing, TaskOf
  <2>2. j.task \in Tasks
    BY JobIs
  <2> QED BY <1>10, <1>13, <2>1, <2>2 DEF Owed
<1>14. JobsKept'
  BY <1>2, <1>12, <1>13, KeptBy DEF JobsInv
<1> QED BY <1>7, <1>8, <1>9, <1>14 DEF JobsInv

-------------------------------------------------------------------------------
(* The steps of others                                                     *)

\* Calls stand, nothing is dropped from the queues, a row may only appear.
LEMMA OutsideKeepsJobs ==
  ASSUME JobsInv, UNCHANGED <<call, dlq, replay, told>>, lost \subseteq lost',
         \A j \in Jobs : Queued(j) => Queued(j)',
         \A t \in Tasks : phase'[t] = "SUBMITTED" => phase[t] = "SUBMITTED" \/ Queued(Submission(t))',
         \A t \in Tasks : phase'[t] = "ENDED" => phase[t] = "ENDED"
  PROVE  JobsKept'
<1>1. \A t \in Tasks : Announcing(t)' <=> Announcing(t)
  BY DEF Announcing, TaskOf
<1>2. ASSUME NEW j \in Jobs, Owed(j)' PROVE Owed(j) \/ Alive(j)'
  <2>1. CASE j.kind = "QUEUE_SUBMIT"
    <3>1. j.task \in Tasks /\ j = Submission(j.task) /\ phase'[j.task] = "SUBMITTED"
      BY <1>2, <2>1, JobIs DEF Owed
    <3>2. PICK t \in Tasks : t = j.task
      BY <3>1
    <3>3. phase[t] = "SUBMITTED" \/ Queued(Submission(t))'
      BY <3>1, <3>2
    <3>4. phase[t] = "SUBMITTED" => Owed(j)
      BY <2>1, <3>2 DEF Owed
    <3>5. Submission(t)' = j
      BY <3>1, <3>2 DEF Submission
    <3>6. Queued(Submission(t))' => Alive(j)'
      BY <3>5 DEF Alive, Queued
    <3> QED BY <3>3, <3>4, <3>6
  <2>2. CASE j.kind # "QUEUE_SUBMIT"
    <3>1. j.task \in Tasks
      BY JobIs
    <3> QED BY <1>1, <1>2, <2>2, <3>1 DEF Owed
  <2> QED BY <2>1, <2>2
<1>3. \A j \in Jobs : Alive(j) => Handed(j)
  BY DEF Alive, Running, Handed
<1> QED BY <1>2, <1>3, KeptBy DEF JobsInv

LEMMA FitsStand ==
  ASSUME FitsOK, EndsLast, UNCHANGED call
  PROVE  FitsOK'
<1>1. ASSUME NEW c \in Callers PROVE CallFits(c)'
  <2>1. CallFits(c)
    BY DEF FitsOK
  <2>2. call[c].pc = "announce" => phase'[TaskOf(c)] = "ENDED"
    BY <2>1, TaskOfCall DEF CallFits, EndsLast
  <2> QED BY <2>1, <2>2 DEF CallFits, TaskOf
<1> QED BY <1>1 DEF FitsOK

LEMMA ClientKeepsJobs ==
  ASSUME JobsInv, NEW t \in Tasks, Accept(t) \/ OpsRequeue(t)
  PROVE  JobsInv'
<1>1. /\ Publish(Submission(t)) /\ Submission(t) \in Jobs
      /\ UNCHANGED <<call, delayed, dlq, ids, replay, told, lost>>
  BY JobsOf DEF Accept, OpsRequeue, history
<1>2. /\ list' \in Seq(Messages) /\ Queued(Submission(t))'
      /\ \A j \in Jobs : Queued(j) => Queued(j)'
  BY <1>1, PublishQueues DEF JobsInv
<1>3. /\ RowsOK' /\ EndsLast
      /\ \A u \in Tasks : u # t => phase'[u] = phase[u]
      /\ phase'[t] = "ENDED" => phase[t] = "ENDED"
  BY <1>1 DEF JobsInv, RowsOK, EndsLast, Accept, OpsRequeue, rows
<1>4. FitsOK'
  BY <1>1, <1>3, FitsStand DEF JobsInv
<1>5. QueuesOK' /\ ReplaysOK'
  BY <1>1, <1>2, QueuesStand DEF JobsInv, QueuesOK
<1>6. \A u \in Tasks : phase'[u] = "SUBMITTED" => phase[u] = "SUBMITTED" \/ Queued(Submission(u))'
  BY <1>2, <1>3
<1>7. \A u \in Tasks : phase'[u] = "ENDED" => phase[u] = "ENDED"
  BY <1>3
<1>8. JobsKept'
  BY <1>1, <1>2, <1>6, <1>7, OutsideKeepsJobs
<1> QED BY <1>3, <1>4, <1>5, <1>8 DEF JobsInv

LEMMA ExpiryKeepsJobs ==
  ASSUME JobsInv, NEW t \in Tasks, SessionExpires(t)
  PROVE  JobsInv'
<1>1. /\ session' = session \ {t} /\ lost' = lost \cup {Submission(t)}
      /\ UNCHANGED <<phase, call, queues, replay, told>>
  BY DEF SessionExpires
<1>2. RowsOK' /\ EndsLast
  BY <1>1, JobsOf DEF JobsInv, RowsOK, EndsLast
<1>3. FitsOK'
  BY <1>1, <1>2, FitsStand DEF JobsInv
<1>4. QueuesOK' /\ ReplaysOK'
  BY <1>1, StoresStand DEF JobsInv
<1>5. \A j \in Jobs : Queued(j) => Queued(j)'
  BY <1>1 DEF queues, Queued
<1>6. JobsKept'
  BY <1>1, <1>5, OutsideKeepsJobs DEF queues
<1> QED BY <1>2, <1>3, <1>4, <1>6 DEF JobsInv

LEMMA DeliverKeepsJobs ==
  ASSUME JobsInv, Deliver
  PROVE  JobsInv'
<1> PICK m : Due(m)
  BY DEF Deliver
<1>1. UNCHANGED <<rows, call, dlq, ids, replay, told, lost>>
  BY DEF Due, history
<1>2. /\ list' \in Seq(Messages) /\ IsABag(delayed') /\ DOMAIN delayed' \subseteq Messages
      /\ \A j \in Jobs : Queued(j) => Queued(j)'
  BY DueQueues DEF JobsInv
<1>3. RowsOK' /\ EndsLast
  BY <1>1, RowsStand DEF JobsInv
<1>4. FitsOK'
  BY <1>1, <1>3, FitsStand DEF JobsInv
<1>5. QueuesOK' /\ ReplaysOK'
  BY <1>1, <1>2, QueuesStand DEF JobsInv
<1>6. JobsKept'
  BY <1>1, <1>2, OutsideKeepsJobs DEF rows
<1> QED BY <1>3, <1>4, <1>5, <1>6 DEF JobsInv

LEMMA JobsStand ==
  ASSUME JobsInv, UNCHANGED <<rows, call, queues, replay, told, lost>>
  PROVE  JobsInv'
<1>1. RowsOK' /\ EndsLast
  BY RowsStand DEF JobsInv
<1>2. FitsOK'
  BY <1>1, FitsStand DEF JobsInv
<1>3. QueuesOK' /\ ReplaysOK'
  BY StoresStand DEF JobsInv
<1>4. \A j \in Jobs : Queued(j) => Queued(j)'
  BY DEF queues, Queued
<1>5. JobsKept'
  BY <1>4, OutsideKeepsJobs DEF rows, queues
<1> QED BY <1>1, <1>2, <1>3, <1>5 DEF JobsInv

-------------------------------------------------------------------------------
(* Replays                                                                 *)

\* A replay that has read entries the stream has or had leaves the queues in
\* shape, and so does a stream that has lost some.
LEMMA ReplayStores ==
  ASSUME QueuesOK, ReplaysOK, NEW o \in Replayers, NEW s \in Seq(Entries), NEW b \in BOOLEAN,
         replay'[o] = [entries |-> s, sent |-> b], b => s # <<>>,
         replay' = [replay EXCEPT ![o] = replay'[o]],
         list' \in Seq(Messages), dlq' \in Seq(Entries), UNCHANGED <<delayed, ids>>,
         \A k \in DOMAIN dlq' : \E l \in DOMAIN dlq : dlq'[k] = dlq[l],
         \A i \in DOMAIN s : s[i] \in Recorded
  PROVE  QueuesOK' /\ ReplaysOK'
<1>1. Entries' = Entries
  BY DEF Entries
<1>2. \A p \in Replayers \ {o} : replay'[p] = replay[p]
  BY DEF ReplaysOK
<1>3. replay'[o].entries = s /\ replay'[o].sent = b
  OBVIOUS
<1>4. ReplaysOK'
  <2>1. replay' = [p \in Replayers |-> replay'[p]]
    BY DEF ReplaysOK
  <2>2. ASSUME NEW p \in Replayers
        PROVE  /\ replay'[p] = [entries |-> replay'[p].entries, sent |-> replay'[p].sent]
               /\ replay'[p].entries \in Seq(Entries) /\ replay'[p].sent \in BOOLEAN
               /\ replay'[p].sent => replay'[p].entries # <<>>
    BY <1>2, <1>3 DEF ReplaysOK
  <2> QED BY <1>1, <2>1, <2>2 DEF ReplaysOK
<1>5. Recorded' \subseteq Recorded
  <2>1. ASSUME NEW k \in DOMAIN dlq' PROVE dlq'[k] \in Recorded
    BY DEF Recorded
  <2>2. ASSUME NEW p \in Replayers, NEW i \in DOMAIN replay'[p].entries
        PROVE  replay'[p].entries[i] \in Recorded
    <3>1. CASE p = o
      BY <1>3, <3>1
    <3>2. CASE p # o
      BY <1>2, <3>2 DEF Recorded
    <3> QED BY <3>1, <3>2
  <2>3. ASSUME NEW e \in Recorded' PROVE e \in Recorded
    <3>1. \/ \E k \in DOMAIN dlq' : e = dlq'[k]
          \/ \E p \in Replayers : \E i \in DOMAIN replay'[p].entries : e = replay'[p].entries[i]
      BY DEF Recorded
    <3> QED BY <2>1, <2>2, <3>1
  <2> QED BY <2>3
<1>6. QueuesOK'
  BY <1>1, <1>5 DEF QueuesOK
<1> QED BY <1>4, <1>6

LEMMA ReplaySteps ==
  ASSUME ReplaysOK, NEW o \in Replayers, NEW r, replay' = [replay EXCEPT ![o] = r]
  PROVE  /\ replay'[o] = r /\ replay' = [replay EXCEPT ![o] = replay'[o]]
         /\ \A p \in Replayers \ {o} : replay'[p] = replay[p]
  BY DEF ReplaysOK

LEMMA ReplayStartKeepsJobs ==
  ASSUME JobsInv, NEW o \in Replayers, ReplayStart(o)
  PROVE  JobsInv'
<1> DEFINE n == IF Len(dlq) < ReplayLimit THEN Len(dlq) ELSE ReplayLimit
<1>1. PICK s : s = SubSeq(dlq, 1, n)
  OBVIOUS
<1>2. /\ replay' = [replay EXCEPT ![o].entries = s] /\ replay[o] = NoReplay
      /\ UNCHANGED <<rows, call, queues, told, lost>>
  BY <1>1 DEF ReplayStart, history
<1>3. dlq \in Seq(Entries) /\ Len(dlq) \in Nat /\ DOMAIN dlq = 1..Len(dlq)
  BY DEF JobsInv, QueuesOK
<1>4. n \in 0..Len(dlq)
  BY <1>3, DeliveryAssumption
<1> HIDE DEF n
<1>5. s \in Seq(Entries) /\ \A i \in DOMAIN s : s[i] \in Recorded
  <2>1. \A i \in 1..n : dlq[i] \in Entries /\ i \in DOMAIN dlq
    BY <1>3, <1>4
  <2>2. /\ SubSeq(dlq, 1, n) \in Seq(Entries)
        /\ Len(SubSeq(dlq, 1, n)) = IF 1 <= n THEN n - 1 + 1 ELSE 0
        /\ \A i \in 1..(n - 1 + 1) : SubSeq(dlq, 1, n)[i] = dlq[1 + i - 1]
    BY <1>4, <2>1, SubSeqProperties
  <2>3. s \in Seq(Entries) /\ DOMAIN s = 1..n /\ \A i \in 1..n : s[i] = dlq[i]
    BY <1>1, <1>4, <2>2
  <2> QED BY <2>1, <2>3 DEF Recorded
<1>6. replay' = [replay EXCEPT ![o] = [entries |-> s, sent |-> FALSE]]
  <2>1. replay' = [replay EXCEPT ![o] = [replay[o] EXCEPT !.entries = s]]
    BY <1>2
  <2>2. replay[o] = [entries |-> <<>>, sent |-> FALSE]
    BY <1>2 DEF NoReplay
  <2>3. [replay[o] EXCEPT !.entries = s] = [entries |-> s, sent |-> FALSE]
    <3>1. PICK r, b : r = replay[o] /\ b = FALSE
      OBVIOUS
    <3>2. r = [entries |-> <<>>, sent |-> b]
      BY <2>2, <3>1
    <3>3. [r EXCEPT !.entries = s] = [entries |-> s, sent |-> b]
      BY <3>2
    <3> QED BY <3>1, <3>3
  <2> QED BY <2>1, <2>3
<1>7. /\ replay'[o] = [entries |-> s, sent |-> FALSE] /\ replay' = [replay EXCEPT ![o] = replay'[o]]
      /\ \A p \in Replayers \ {o} : replay'[p] = replay[p]
  BY <1>6, ReplaySteps DEF JobsInv
<1>8. RowsOK' /\ EndsLast
  BY <1>2, RowsStand DEF JobsInv
<1>9. FitsOK'
  BY <1>2, <1>8, FitsStand DEF JobsInv
<1>10. /\ list' \in Seq(Messages) /\ dlq' \in Seq(Entries)
       /\ \A k \in DOMAIN dlq' : \E l \in DOMAIN dlq : dlq'[k] = dlq[l]
  BY <1>2 DEF queues, JobsInv, QueuesOK
<1>11. QueuesOK' /\ ReplaysOK'
  BY <1>2, <1>5, <1>7, <1>10, ReplayStores DEF queues, JobsInv
<1>12. JobsKept'
  <2>1. \A j \in Jobs : Owed(j)' <=> Owed(j)
    BY <1>2 DEF Owed, Announcing, TaskOf, rows
  <2>2. \A j \in Jobs : Alive(j) => Handed(j)
    BY <1>2 DEF Alive, Running, Queued, queues, Handed
  <2>3. \A p \in Replayers : replay'[p].sent =>
          replay[p].sent /\ Head(replay'[p].entries) = Head(replay[p].entries)
    BY <1>7
  <2>4. dlq' = dlq
    BY <1>2 DEF queues
  <2> QED BY <2>1, <2>2, <2>3, <2>4, KeptBy DEF JobsInv
<1> QED BY <1>8, <1>9, <1>11, <1>12 DEF JobsInv

LEMMA ReplayStopsKeepsJobs ==
  ASSUME JobsInv, NEW o \in Replayers, ReplayStops(o)
  PROVE  JobsInv'
<1>1. /\ replay' = [replay EXCEPT ![o] = [entries |-> <<>>, sent |-> FALSE]]
      /\ UNCHANGED <<rows, call, queues, told, lost>>
  BY DEF ReplayStops, NoReplay, history
<1>2. /\ replay'[o] = [entries |-> <<>>, sent |-> FALSE]
      /\ replay' = [replay EXCEPT ![o] = replay'[o]]
      /\ \A p \in Replayers \ {o} : replay'[p] = replay[p]
  BY <1>1, ReplaySteps DEF JobsInv
<1>3. RowsOK' /\ EndsLast
  BY <1>1, RowsStand DEF JobsInv
<1>4. FitsOK'
  BY <1>1, <1>3, FitsStand DEF JobsInv
<1>5. /\ list' \in Seq(Messages) /\ dlq' \in Seq(Entries)
      /\ \A k \in DOMAIN dlq' : \E l \in DOMAIN dlq : dlq'[k] = dlq[l]
  BY <1>1 DEF queues, JobsInv, QueuesOK
<1>6. QueuesOK' /\ ReplaysOK'
  <2>1. PICK s : s = <<>>
    OBVIOUS
  <2>2. s \in Seq(Entries) /\ \A i \in DOMAIN s : s[i] \in Recorded
    BY <2>1
  <2>3. replay'[o] = [entries |-> s, sent |-> FALSE] /\ UNCHANGED <<delayed, ids>>
    BY <1>1, <1>2, <2>1 DEF queues
  <2> QED BY <1>2, <1>5, <2>2, <2>3, ReplayStores DEF JobsInv
<1>7. JobsKept'
  <2>1. \A j \in Jobs : Owed(j)' <=> Owed(j)
    BY <1>1 DEF Owed, Announcing, TaskOf, rows
  <2>2. \A j \in Jobs : Alive(j) => Handed(j)
    BY <1>1 DEF Alive, Running, Queued, queues, Handed
  <2>3. \A p \in Replayers : replay'[p].sent =>
          replay[p].sent /\ Head(replay'[p].entries) = Head(replay[p].entries)
    BY <1>2
  <2>4. dlq' = dlq
    BY <1>1 DEF queues
  <2> QED BY <2>1, <2>2, <2>3, <2>4, KeptBy DEF JobsInv
<1> QED BY <1>3, <1>4, <1>6, <1>7 DEF JobsInv

\* The entry is queued again before it is deleted.
LEMMA ReplaySendKeepsJobs ==
  ASSUME JobsInv, NEW o \in Replayers, ReplaySend(o)
  PROVE  JobsInv'
<1>1. PICK s : s = replay[o].entries
  OBVIOUS
<1>2. s \in Seq(Entries) /\ s # <<>>
  BY <1>1 DEF JobsInv, ReplaysOK, ReplaySend, NoReplay
<1>3. PICK d : d = Head(s)
  OBVIOUS
<1>4. d \in Entries /\ d.job \in Jobs
  <2>1. d \in Entries
    BY <1>2, <1>3, HeadTailProperties
  <2> QED BY <2>1 DEF Entries
<1>5. /\ Publish(d.job) /\ replay' = [replay EXCEPT ![o] = [entries |-> s, sent |-> TRUE]]
      /\ UNCHANGED <<rows, call, delayed, dlq, ids, told, lost>>
  <2>1. replay[o] = [entries |-> s, sent |-> replay[o].sent]
    BY <1>1 DEF JobsInv, ReplaysOK
  <2>2. replay' = [replay EXCEPT ![o].sent = TRUE]
    BY DEF ReplaySend
  <2>3. replay' = [replay EXCEPT ![o] = [entries |-> s, sent |-> TRUE]]
    <3>1. replay' = [replay EXCEPT ![o] = [replay[o] EXCEPT !.sent = TRUE]]
      BY <2>2
    <3>2. [replay[o] EXCEPT !.sent = TRUE] = [entries |-> s, sent |-> TRUE]
      <4>1. PICK r, b, v : r = replay[o] /\ b = replay[o].sent /\ v = TRUE
        OBVIOUS
      <4>2. r = [entries |-> s, sent |-> b]
        BY <2>1, <4>1
      <4>3. [r EXCEPT !.sent = v] = [entries |-> s, sent |-> v]
        BY <4>2
      <4> QED BY <4>1, <4>3
    <3> QED BY <3>1, <3>2
  <2> QED BY <1>1, <1>3, <2>3 DEF ReplaySend, history
<1>6. /\ replay'[o] = [entries |-> s, sent |-> TRUE] /\ replay' = [replay EXCEPT ![o] = replay'[o]]
      /\ \A p \in Replayers \ {o} : replay'[p] = replay[p]
  BY <1>5, ReplaySteps DEF JobsInv
<1>7. /\ list' \in Seq(Messages) /\ Queued(d.job)'
      /\ \A j \in Jobs : Queued(j) => Queued(j)'
  BY <1>4, <1>5, PublishQueues DEF JobsInv
<1>8. RowsOK' /\ EndsLast
  BY <1>5, RowsStand DEF JobsInv
<1>9. FitsOK'
  BY <1>5, <1>8, FitsStand DEF JobsInv
<1>10. QueuesOK' /\ ReplaysOK'
  <2>1. \A i \in DOMAIN s : s[i] \in Recorded
    BY <1>1 DEF Recorded
  <2>2. /\ dlq' \in Seq(Entries)
        /\ \A k \in DOMAIN dlq' : \E l \in DOMAIN dlq : dlq'[k] = dlq[l]
    BY <1>5 DEF JobsInv, QueuesOK
  <2> QED BY <1>2, <1>5, <1>6, <1>7, <2>1, <2>2, ReplayStores DEF JobsInv
<1>11. JobsKept'
  <2>1. \A j \in Jobs : Owed(j)' <=> Owed(j)
    BY <1>5 DEF Owed, Announcing, TaskOf, rows
  <2>2. \A j \in Jobs : Alive(j) => Handed(j)
    BY <1>5, <1>7 DEF Alive, Running, Handed
  <2>3. ASSUME NEW p \in Replayers, replay'[p].sent
        PROVE  \/ replay[p].sent /\ Head(replay'[p].entries) = Head(replay[p].entries)
               \/ Alive(Head(replay[p].entries).job)'
    <3>1. CASE p = o
      <4>1. replay'[o].entries = s
        BY <1>6
      <4>2. Alive(Head(replay[o].entries).job)'
        BY <1>3, <1>7, <4>1 DEF Alive, Queued
      <4> QED BY <3>1, <4>2
    <3>2. CASE p # o
      BY <1>6, <2>3, <3>2
    <3> QED BY <3>1, <3>2
  <2>4. \A i \in DOMAIN dlq : \E k \in DOMAIN dlq' : dlq'[k] = dlq[i]
    BY <1>5
  <2> QED BY <2>1, <2>2, <2>3, <2>4, KeptBy DEF JobsInv
<1> QED BY <1>8, <1>9, <1>10, <1>11 DEF JobsInv

\* What depends on the entry that is deleted depends on what its replay queued,
\* or on a later entry.
LEMMA ReplayDeleteKeepsJobs ==
  ASSUME JobsInv, NEW o \in Replayers, ReplayDelete(o)
  PROVE  JobsInv'
<1>1. PICK s : s = replay[o].entries
  OBVIOUS
<1>2. s \in Seq(Entries) /\ s # <<>>
  BY <1>1 DEF JobsInv, ReplaysOK, ReplayDelete
<1>3. PICK d : d = Head(s)
  OBVIOUS
<1>4. PICK u : u = Tail(s)
  OBVIOUS
<1>5. d \in Entries /\ u \in Seq(Entries) /\ d \in Recorded /\ \A i \in DOMAIN u : u[i] \in Recorded
  <2>1. \A i \in DOMAIN s : s[i] \in Recorded
    BY <1>1 DEF Recorded
  <2>2. /\ Head(s) \in Entries /\ Tail(s) \in Seq(Entries) /\ Len(Tail(s)) = Len(s) - 1
        /\ \A i \in 1..Len(Tail(s)) : Tail(s)[i] = s[i + 1]
    BY <1>2, HeadTailProperties
  <2>3. Len(s) \in Nat \ {0} /\ DOMAIN s = 1..Len(s) /\ Head(s) = s[1]
    BY <1>2
  <2>4. DOMAIN u = 1..(Len(s) - 1) /\ \A i \in 1..(Len(s) - 1) : u[i] = s[i + 1] /\ i + 1 \in 1..Len(s)
    BY <1>4, <2>2, <2>3
  <2> QED BY <1>3, <1>4, <2>1, <2>2, <2>3, <2>4
<1>6. /\ replay[o].sent /\ replay' = [replay EXCEPT ![o] = [entries |-> u, sent |-> FALSE]]
      /\ UNCHANGED <<rows, call, list, delayed, ids, told, lost>>
  BY <1>1, <1>4 DEF ReplayDelete, history
<1>7. /\ replay'[o] = [entries |-> u, sent |-> FALSE] /\ replay' = [replay EXCEPT ![o] = replay'[o]]
      /\ \A p \in Replayers \ {o} : replay'[p] = replay[p]
  BY <1>6, ReplaySteps DEF JobsInv
<1>8. dlq \in Seq(Entries) /\ \A i \in DOMAIN dlq : dlq[i] \in Entries /\ dlq[i] \in Recorded
  BY DEF JobsInv, QueuesOK, Recorded
<1>9. /\ dlq' \in Seq(Entries)
      /\ \A k \in DOMAIN dlq' : \E l \in DOMAIN dlq : dlq'[k] = dlq[l]
      /\ \A k \in DOMAIN dlq : dlq[k].id # d.id => \E l \in DOMAIN dlq' : dlq'[l] = dlq[k]
  <2>1. CASE UNCHANGED dlq
    BY <1>8, <2>1
  <2>2. ASSUME NEW i \in DOMAIN dlq, dlq[i].id = d.id,
               dlq' = SubSeq(dlq, 1, i - 1) \o SubSeq(dlq, i + 1, Len(dlq))
        PROVE  /\ dlq' \in Seq(Entries)
               /\ \A k \in DOMAIN dlq' : \E l \in DOMAIN dlq : dlq'[k] = dlq[l]
               /\ \A k \in DOMAIN dlq : dlq[k].id # d.id => \E l \in DOMAIN dlq' : dlq'[l] = dlq[k]
    BY <1>8, <2>2, Removed
  <2> QED BY <1>1, <1>3, <2>1, <2>2 DEF ReplayDelete
<1>10. RowsOK' /\ EndsLast
  BY <1>6, RowsStand DEF JobsInv
<1>11. FitsOK'
  BY <1>6, <1>10, FitsStand DEF JobsInv
<1>12. QueuesOK' /\ ReplaysOK'
  <2>1. list' \in Seq(Messages)
    BY <1>6 DEF JobsInv, QueuesOK
  <2> QED BY <1>5, <1>6, <1>7, <1>9, <2>1, ReplayStores DEF JobsInv
<1>13. \A j \in Jobs : (Owed(j)' <=> Owed(j)) /\ (Alive(j)' <=> Alive(j))
  BY <1>6 DEF Owed, Announcing, TaskOf, rows, Alive, Running, Queued
<1>14. d.job \in Jobs /\ d.id \in Nat /\ Safe(d.job, d.id)
  BY <1>1, <1>3, <1>5, <1>6 DEF Entries, JobsInv, JobsKept
<1>15. ASSUME NEW j \in Jobs, NEW n \in Nat, Safe(j, n) PROVE Safe(j, n)'
  <2>1. SUFFICES ASSUME Owed(j), ~Alive(j)
                 PROVE  \E l \in DOMAIN dlq' : dlq'[l].job = j /\ dlq'[l].id > n
    BY <1>13 DEF Safe
  <2>2. PICK i \in DOMAIN dlq : dlq[i].job = j /\ dlq[i].id > n
    BY <1>15, <2>1 DEF Safe
  <2>3. CASE dlq[i].id # d.id
    BY <1>9, <2>2, <2>3
  <2>4. CASE dlq[i].id = d.id
    <3>1. d.job = j
      BY <1>5, <1>8, <2>2, <2>4 DEF JobsInv, QueuesOK
    <3>2. PICK k \in DOMAIN dlq : dlq[k].job = j /\ dlq[k].id > d.id
      BY <1>14, <2>1, <3>1 DEF Safe
    <3>3. dlq[k].id \in Nat /\ dlq[k].id # d.id /\ dlq[k].id > n
      BY <1>8, <1>14, <2>2, <2>4, <3>2 DEF Entries
    <3> QED BY <1>9, <3>2, <3>3
  <2> QED BY <2>3, <2>4
<1>16. JobsKept'
  <2>1. ASSUME NEW j \in Jobs PROVE Safe(j, 0)'
    BY <1>15 DEF JobsInv, JobsKept
  <2>2. ASSUME NEW p \in Replayers, replay'[p].sent
        PROVE  Safe(Head(replay[p].entries).job, Head(replay[p].entries).id)'
    <3>1. p # o /\ replay'[p] = replay[p]
      BY <1>7, <2>2
    <3>2. PICK e : e = Head(replay[p].entries)
      OBVIOUS
    <3>3. e \in Entries /\ Safe(e.job, e.id)
      BY <2>2, <3>1, <3>2, HeadOf DEF JobsInv, JobsKept
    <3>4. Safe(e.job, e.id)'
      BY <1>15, <3>3 DEF Entries
    <3>5. e = Head(replay'[p].entries)
      BY <3>1, <3>2
    <3> QED BY <3>4, <3>5
  <2> QED BY <2>1, <2>2 DEF JobsKept
<1> QED BY <1>10, <1>11, <1>12, <1>16 DEF JobsInv

-------------------------------------------------------------------------------
(* All steps                                                               *)

LEMMA NextKeepsJobs == DeliveryInv /\ [Next]_vars => JobsInv'
<1> SUFFICES ASSUME DeliveryInv, [Next]_vars PROVE JobsInv'
  OBVIOUS
<1>1. JobsInv /\ CallsOK
  BY DEF DeliveryInv, IndInv
<1>2. CASE UNCHANGED vars
  BY <1>1, <1>2, JobsStand DEF vars, history
<1>3. CASE WindowPasses \/ WindowEnds
  BY <1>1, <1>3, JobsStand DEF WindowPasses, WindowEnds, history
<1>4. ASSUME NEW t \in Tasks, Accept(t) \/ OpsRequeue(t) \/ SessionExpires(t) PROVE JobsInv'
  BY <1>1, <1>4, ClientKeepsJobs, ExpiryKeepsJobs
<1>5. ASSUME NEW c \in Callers, Upstream(c) PROVE JobsInv'
  BY <1>1, <1>5, AskingKeepsJobs, FinalKeepsJobs, AnnounceKeepsJobs DEF Upstream
<1>6. ASSUME NEW w \in Workers, Take(w) \/ WorkerStep(w) PROVE JobsInv'
  <2>1. w \in Callers
    BY DEF Callers
  <2> QED BY <1>1, <1>5, <1>6, <2>1, TakeKeepsJobs, ReadRowKeepsJobs, LandedKeepsJobs,
             PushTakenKeepsJobs, PushRefusedKeepsJobs, RetryKeepsJobs, MishapKeepsJobs
          DEF WorkerStep
<1>7. ASSUME NEW p \in Probers, Upstream(p) \/ \E t \in Tasks : ProbeStart(p, t) PROVE JobsInv'
  <2>1. p \in Callers
    BY DEF Callers
  <2> QED BY <1>1, <1>5, <1>7, <2>1, ProbeStartKeepsJobs
<1>8. ASSUME NEW c \in Callers, Crash(c) PROVE JobsInv'
  BY <1>1, <1>8, MishapKeepsJobs
<1>9. ASSUME NEW o \in Replayers, Replay(o) PROVE JobsInv'
  BY <1>1, <1>9, ReplayStartKeepsJobs, ReplaySendKeepsJobs, ReplayDeleteKeepsJobs,
     ReplayStopsKeepsJobs DEF Replay
<1>10. CASE Deliver
  BY <1>1, <1>10, DeliverKeepsJobs
<1> QED BY <1>2, <1>3, <1>4, <1>6, <1>7, <1>8, <1>9, <1>10 DEF Next

LEMMA InitJobs == Init => JobsInv
<1> SUFFICES ASSUME Init PROVE JobsInv
  OBVIOUS
<1>1. /\ list = <<>> /\ dlq = <<>> /\ ids = 0 /\ delayed = EmptyBag /\ lost = {} /\ told = {}
      /\ phase = [t \in Tasks |-> "NONE"] /\ session = {}
      /\ call = [c \in Callers |-> NoCall] /\ replay = [o \in Replayers |-> NoReplay]
  BY DEF Init
<1>2. RowsOK
  BY <1>1 DEF RowsOK
<1>3. FitsOK
  BY <1>1 DEF FitsOK, CallFits, NoCall
<1>4. ReplaysOK
  <2>1. <<>> \in Seq(Entries)
    OBVIOUS
  <2>2. \A o \in Replayers : replay[o] = [entries |-> <<>>, sent |-> FALSE]
    BY <1>1 DEF NoReplay
  <2>3. replay = [o \in Replayers |-> replay[o]]
    BY <1>1
  <2>4. ASSUME NEW o \in Replayers
        PROVE  /\ replay[o] = [entries |-> replay[o].entries, sent |-> replay[o].sent]
               /\ replay[o].entries = <<>> /\ replay[o].sent = FALSE
    BY <2>2
  <2> QED BY <2>1, <2>3, <2>4 DEF ReplaysOK
<1>5. Recorded = {}
  BY <1>1 DEF Recorded, NoReplay
<1>6. IsABag(delayed) /\ DOMAIN delayed = {}
  BY <1>1 DEF EmptyBag, SetToBag, IsABag
<1>7. QueuesOK
  BY <1>1, <1>5, <1>6 DEF QueuesOK
<1>8. JobsKept
  <2>1. \A j \in Jobs : ~Owed(j)
    BY <1>1, JobIs DEF Owed
  <2>2. \A o \in Replayers : ~replay[o].sent
    BY <1>1 DEF NoReplay
  <2> QED BY <2>1, <2>2 DEF JobsKept, Safe
<1> QED BY <1>2, <1>3, <1>4, <1>7, <1>8 DEF JobsInv

LEMMA AlwaysDelivers == Spec => []DeliveryInv
<1>1. Init => DeliveryInv
  BY InitInv, InitJobs DEF DeliveryInv
<1>2. DeliveryInv /\ [Next]_vars => DeliveryInv'
  BY NextKeeps, NextKeepsJobs DEF DeliveryInv
<1> QED BY <1>1, <1>2, PTL DEF Spec

\* No interleaving of workers, retries, replays, operators and mishaps loses a
\* submission or a callback, but by the mishap that took it.
THEOREM NothingIsLost == Spec => []NothingLost
<1>1. ASSUME DeliveryInv, NEW t \in Tasks
      PROVE  /\ phase[t] = "SUBMITTED" => Kept(Submission(t))
             /\ phase[t] = "ENDED" /\ t \in Callbacks \ told =>
                  Kept(Callback(t)) \/ Announcing(t)
  <2>1. Safe(Submission(t), 0) /\ Safe(Callback(t), 0)
    BY <1>1, JobsOf DEF DeliveryInv, JobsInv, JobsKept
  <2>2. \A job : Safe(job, 0) /\ Owed(job) => Kept(job)
    BY DEF Safe, Alive, Kept, Dead
  <2>3. phase[t] = "SUBMITTED" => Owed(Submission(t))
    BY JobsOf DEF Owed
  <2>4. phase[t] = "ENDED" /\ t \in Callbacks \ told /\ ~Announcing(t) => Owed(Callback(t))
    BY JobsOf DEF Owed
  <2> QED BY <2>1, <2>2, <2>3, <2>4
<1>2. DeliveryInv => NothingLost
  BY <1>1 DEF NothingLost, Announcing
<1> QED BY <1>2, AlwaysDelivers, PTL

\* The ranges of the state; a message never carries more attempts than
\* event_max_attempts allows.
THEOREM DeliveryTypes == Spec => []TypeOK
<1>1. DeliveryInv /\ ttl \in {"none", "half", "full"} => TypeOK
  <2> SUFFICES ASSUME DeliveryInv, ttl \in {"none", "half", "full"} PROVE TypeOK
    OBVIOUS
  <2>1. /\ phase \in [Tasks -> {"NONE", "SUBMITTED", "QUEUED", "ENDED"}]
        /\ session \subseteq Tasks /\ told \subseteq Tasks /\ lost \subseteq Jobs
    BY DEF DeliveryInv, JobsInv, RowsOK
  <2>2. list \in Seq(Messages) /\ BagToSet(delayed) \subseteq Messages
    BY DEF DeliveryInv, JobsInv, QueuesOK, BagToSet
  <2>3. \A i \in DOMAIN dlq : dlq[i].id \in 1..ids /\ dlq[i].job \in Jobs
    <3>1. dlq \in Seq(Entries)
      BY DEF DeliveryInv, JobsInv, QueuesOK
    <3>2. \A i \in DOMAIN dlq : dlq[i] \in Entries
      BY <3>1
    <3> QED BY <3>2 DEF Entries
  <2>4. failures \in Nat /\ overrun \subseteq Callers
    BY DEF DeliveryInv, IndInv, CounterOK
  <2>5. \A c \in Callers : call[c] # NoCall => call[c].msg \in Messages
    BY DEF DeliveryInv, JobsInv, FitsOK, CallFits
  <2>6. DOMAIN replay = Replayers /\ \A o \in Replayers : replay[o].sent => replay[o].entries # <<>>
    BY DEF DeliveryInv, JobsInv, ReplaysOK
  <2> QED BY <2>1, <2>2, <2>3, <2>4, <2>5, <2>6 DEF TypeOK
<1>2. Init => ttl \in {"none", "half", "full"}
  BY DEF Init
<1>3. ttl \in {"none", "half", "full"} /\ [Next]_vars => (ttl \in {"none", "half", "full"})'
  <2> SUFFICES ASSUME ttl \in {"none", "half", "full"}, [Next]_vars
               PROVE  ttl' \in {"none", "half", "full"}
    OBVIOUS
  <2>1. UNCHANGED vars \/ WindowPasses \/ WindowEnds => ttl' \in {"none", "half", "full"}
    BY DEF vars, breaker, WindowPasses, WindowEnds
  <2>2. \A t \in Tasks : Accept(t) \/ OpsRequeue(t) \/ SessionExpires(t) => ttl' = ttl
    BY DEF Accept, OpsRequeue, SessionExpires, breaker
  <2>3. \A c \in Callers : Upstream(c) => ttl' \in {"none", "half", "full"}
    BY DEF Upstream, GuardRead, Guard, AnswerAmbiguous, ReportFailure, AnswerClear, ReportSuccess,
           ReportFails, Final, Announce, breaker
  <2>4. \A w \in Workers : Take(w) \/ WorkerStep(w) => Upstream(w) \/ ttl' = ttl
    BY DEF Take, WorkerStep, ReadRow, Landed, PushTaken, PushRefused, RetryOrDlq, RetryFails, breaker
  <2>5. \A p \in Probers, t \in Tasks : ProbeStart(p, t) => ttl' = ttl
    BY DEF ProbeStart, breaker
  <2>6. \A c \in Callers : Crash(c) => ttl' = ttl
    BY DEF Crash, breaker
  <2>7. \A o \in Replayers : Replay(o) => ttl' = ttl
    BY DEF Replay, ReplayStart, ReplaySend, ReplayDelete, ReplayStops, breaker
  <2>8. Deliver => ttl' = ttl
    BY DEF Deliver, Due, breaker
  <2> QED BY <2>1, <2>2, <2>3, <2>4, <2>5, <2>6, <2>7, <2>8 DEF Next, Callers
<1> QED BY <1>1, <1>2, <1>3, AlwaysDelivers, PTL DEF Spec
===============================================================================
