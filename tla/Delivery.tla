------------------------------ MODULE Delivery ------------------------------
(***************************************************************************)
(* How app/queue.py carries a submission to the upstream and a callback to *)
(* the client: a Redis list, delayed retries, dead letters and their       *)
(* replay, and the circuit breaker of app/services/upstream.py that every  *)
(* outgoing call of app/services/relay.py passes, those of probes too.     *)
(*                                                                         *)
(* The calls that touch the upstream run from one await to the next.  All  *)
(* tasks go to one host: breakers of different hosts share nothing.        *)
(***************************************************************************)
EXTENDS Integers, Sequences, FiniteSets, Bags

CONSTANTS
  Tasks,            \* the tasks clients create
  Callbacks,        \* those whose callback the gateway has taken over
  Workers,          \* coroutines of taskiq workers
  Probers,          \* coroutines that probe: client views and the sweep
  Replayers,        \* coroutines that serve /ops/dlq/replay
  EventMaxAttempts, \* event_max_attempts
  Threshold,        \* upstream_breaker_threshold
  ReplayLimit,      \* the count of XRANGE
  MaxReplays,       \* bound: replays operators ask for
  MaxRequeues,      \* bound: submissions operators requeue
  MaxMishaps        \* bound: killed processes, failed Redis writes, lost sessions

Callers == Workers \cup Probers

ASSUME DeliveryAssumption ==
  /\ Callbacks \subseteq Tasks /\ Workers \cap Probers = {}
  /\ IsFiniteSet(Tasks) /\ IsFiniteSet(Callers) /\ IsFiniteSet(Replayers)
  /\ {EventMaxAttempts, Threshold, ReplayLimit} \subseteq Nat \ {0}
  /\ {MaxReplays, MaxRequeues, MaxMishaps} \subseteq Nat

VARIABLES
  phase,    \* per task: the status column, terminal statuses as "ENDED"
  session,  \* tasks whose token session exists
  list,     \* atask:taskiq, the messages to run, oldest first
  delayed,  \* the bag of messages the scheduler holds back
  dlq,      \* the stream of dead letters
  failures, \* K_BREAKER of the host
  ttl,      \* what is left of the window of K_BREAKER, "none" without EXPIRE
  overrun,  \* callers that failed when or after the breaker opened (history)
  call,     \* per caller: the await it has reached
  replay,   \* per replayer: the entries XRANGE returned and whether the first
            \* of them has been queued again
  told,     \* tasks whose callback the client acknowledged
  lost,     \* jobs a mishap took away (history)
  ids,      \* stream ids handed out
  replays,  \* replays so far
  requeues, \* requeues so far
  mishaps   \* mishaps so far

queues == <<list, delayed, dlq, ids>>
breaker == <<failures, ttl, overrun>>
rows == <<phase, session>>
history == <<told, lost>>
budget == <<replays, requeues, mishaps>>
vars == <<rows, queues, breaker, call, replay, history, budget>>

Kinds == {"QUEUE_SUBMIT", "NOTIFY"}

\* A job is what a message asks for; attempts is the label of the message.
Jobs == [kind : Kinds, task : Tasks]

Messages == [job : Jobs, attempts : 0..EventMaxAttempts - 1]

Submission(t) == [kind |-> "QUEUE_SUBMIT", task |-> t]

Callback(t) == [kind |-> "NOTIFY", task |-> t]

First(job) == [job |-> job, attempts |-> 0]

\* A probe is no message; it borrows the shape of one.
NoCall == [pc |-> "idle", msg |-> <<>>, seen |-> 0]

NoReplay == [entries |-> <<>>, sent |-> FALSE]

TaskOf(c) == call[c].msg.job.task

Goto(c, pc) == call' = [call EXCEPT ![c].pc = pc]

Done(c) == call' = [call EXCEPT ![c] = NoCall]

\* What a caller does with an exception: queue_submit_task and notify_task
\* retry, a probe waits for the next round.
Fails(c) == IF c \in Workers THEN Goto(c, "raise") ELSE Done(c)

Mishap == mishaps < MaxMishaps /\ mishaps' = mishaps + 1

-------------------------------------------------------------------------------
(* Publishing and taking                                                   *)

\* kiq: LPUSH; the worker takes from the other end.
Publish(job) == list' = Append(list, First(job))

\* The last await of an acceptance or of a release.
Accept(t) ==
  /\ phase[t] = "NONE"
  /\ phase' = [phase EXCEPT ![t] = "SUBMITTED"]
  /\ session' = session \cup {t}
  /\ Publish(Submission(t))
  /\ UNCHANGED <<delayed, dlq, ids, breaker, call, replay, history, budget>>

\* /ops/requeue does not look at the row.
OpsRequeue(t) ==
  /\ phase[t] # "NONE"
  /\ requeues < MaxRequeues
  /\ requeues' = requeues + 1
  /\ Publish(Submission(t))
  /\ UNCHANGED <<rows, delayed, dlq, ids, breaker, call, replay, history, replays, mishaps>>

\* BRPOP: from here on only the worker knows the message.
Take(w) ==
  /\ call[w].pc = "idle"
  /\ list # <<>>
  /\ call' = [call EXCEPT ![w] =
                [NoCall EXCEPT !.msg = Head(list),
                               !.pc = IF Head(list).job.kind = "NOTIFY" THEN "push" ELSE "read"]]
  /\ list' = Tail(list)
  /\ UNCHANGED <<rows, delayed, dlq, ids, breaker, replay, history, budget>>

\* The scheduler finds a message due.
Due(m) ==
  /\ BagIn(m, delayed)
  /\ delayed' = delayed (-) SetToBag({m})
  /\ list' = Append(list, m)
  /\ UNCHANGED <<rows, dlq, ids, breaker, call, replay, history, budget>>

-------------------------------------------------------------------------------
(* _retry_or_dlq                                                           *)

\* Mutant: a retry that forgets the label.
RetriedBare(m) == m

Retried(m) == [m EXCEPT !.attempts = @ + 1]

\* Mutant: one attempt too many.
ExhaustedLate(m) == m.attempts + 1 > EventMaxAttempts

Exhausted(m) == m.attempts + 1 >= EventMaxAttempts

RetryOrDlq(w) ==
  /\ call[w].pc = "raise"
  /\ LET m == call[w].msg IN
       IF Exhausted(m)
       THEN /\ ids' = ids + 1
            /\ dlq' = Append(dlq, [id |-> ids', job |-> m.job])
            /\ UNCHANGED delayed
       ELSE /\ delayed' = delayed (+) SetToBag({Retried(m)})
            /\ UNCHANGED <<dlq, ids>>
  /\ Done(w)
  /\ UNCHANGED <<rows, list, breaker, replay, history, budget>>

\* Neither XADD nor the schedule has a second try.
RetryFails(w) ==
  /\ call[w].pc = "raise"
  /\ Mishap
  /\ lost' = lost \cup {call[w].msg.job}
  /\ Done(w)
  /\ UNCHANGED <<rows, queues, breaker, replay, told, replays, requeues>>

-------------------------------------------------------------------------------
(* submit_queue_task and the probes, up to call_upstream                   *)

Terminal(t) == phase[t] = "ENDED"

\* The row and the session are read: a task that has ended or that has its
\* upstream id is left alone, and so is one without a session.
ReadRow(w) ==
  /\ call[w].pc = "read"
  /\ IF phase[TaskOf(w)] = "SUBMITTED" /\ TaskOf(w) \in session
     THEN Goto(w, "guard")
     ELSE Done(w)
  /\ UNCHANGED <<rows, queues, breaker, replay, history, budget>>

\* A view, or a row of a sweep: only tasks with an upstream id are probed.
ProbeStart(p, t) ==
  /\ call[p].pc = "idle"
  /\ phase[t] = "QUEUED" /\ t \in session
  /\ call' = [call EXCEPT ![p] = [NoCall EXCEPT !.msg = First(Submission(t)), !.pc = "guard"]]
  /\ UNCHANGED <<rows, queues, breaker, replay, history, budget>>

\* breaker_guard reads the counter and then awaits the threshold.
GuardRead(c) ==
  /\ call[c].pc = "guard"
  /\ call' = [call EXCEPT ![c] = [pc |-> "compare", msg |-> @.msg, seen |-> failures]]
  /\ UNCHANGED <<rows, queues, breaker, replay, history, budget>>

\* Mutant: the breaker opens one failure late.
OpenLate(seen) == seen > Threshold

Open(seen) == seen >= Threshold

\* An open breaker raises before the request leaves.
Guard(c) ==
  /\ call[c].pc = "compare"
  /\ IF Open(call[c].seen) THEN Fails(c) ELSE Goto(c, "out")
  /\ UNCHANGED <<rows, queues, breaker, replay, history, budget>>

-------------------------------------------------------------------------------
(* breaker_report, right after the answer or the transport error           *)

\* Mutant: the key is given no lifetime.
ReportFailureForGood(c) ==
  /\ failures' = failures + 1
  /\ overrun' = IF Open(failures') THEN overrun \cup {c} ELSE overrun
  /\ UNCHANGED ttl

\* One pipeline: INCR and EXPIRE.
ReportFailure(c) ==
  /\ failures' = failures + 1
  /\ ttl' = "full"
  /\ overrun' = IF Open(failures') THEN overrun \cup {c} ELSE overrun

ReportSuccess == failures' = 0 /\ ttl' = "none" /\ overrun' = {}

\* A transport error or an answer from 500 up.
AnswerAmbiguous(c) ==
  /\ call[c].pc = "out"
  /\ ReportFailure(c)
  /\ Fails(c)
  /\ UNCHANGED <<rows, queues, replay, history, budget>>

\* An answer below 500.  A submission is rejected or lacks an id (final),
\* landed, or ended at once; a probe learns the end, or nothing that moves the
\* row.
AnswerClear(c) ==
  /\ call[c].pc = "out"
  /\ ReportSuccess
  /\ \/ Goto(c, "final")
     \/ IF c \in Workers THEN Goto(c, "landed") ELSE Done(c)
  /\ UNCHANGED <<rows, queues, replay, history, budget>>

\* Redis fails the report: the exception hides the answer.
ReportFails(c) ==
  /\ call[c].pc = "out"
  /\ Mishap
  /\ Fails(c)
  /\ UNCHANGED <<rows, queues, breaker, replay, history, replays, requeues>>

\* Half of the window goes by without a failure, then the rest of it.
WindowPasses ==
  /\ ttl = "full"
  /\ ttl' = "half"
  /\ UNCHANGED <<rows, queues, failures, overrun, call, replay, history, budget>>

WindowEnds ==
  /\ ttl = "half"
  /\ failures' = 0 /\ ttl' = "none" /\ overrun' = {}
  /\ UNCHANGED <<rows, queues, call, replay, history, budget>>

-------------------------------------------------------------------------------
(* The answer reaches the row                                              *)

\* CAS(ACTIVE -> QUEUED) with the upstream id; a task that ended meanwhile
\* only records the id.
Landed(w) ==
  /\ call[w].pc = "landed"
  /\ phase' = [phase EXCEPT ![TaskOf(w)] = IF Terminal(TaskOf(w)) THEN @ ELSE "QUEUED"]
  /\ Done(w)
  /\ UNCHANGED <<session, queues, breaker, replay, history, budget>>

\* _finalize_queue: CAS(ACTIVE -> terminal); the loser stops here.
Final(c) ==
  /\ call[c].pc = "final"
  /\ phase' = [phase EXCEPT ![TaskOf(c)] = "ENDED"]
  /\ IF Terminal(TaskOf(c)) THEN Done(c) ELSE Goto(c, "announce")
  /\ UNCHANGED <<session, queues, breaker, replay, history, budget>>

\* The rest of _finalize_queue: the callback, if the gateway owes one, then
\* the session.
Announce(c) ==
  /\ call[c].pc = "announce"
  /\ IF TaskOf(c) \in Callbacks THEN Publish(Callback(TaskOf(c))) ELSE UNCHANGED list
  /\ session' = session \ {TaskOf(c)}
  /\ Done(c)
  /\ UNCHANGED <<phase, delayed, dlq, ids, breaker, replay, history, budget>>

-------------------------------------------------------------------------------
(* notify.push                                                             *)

\* The client answers below 300.
PushTaken(w) ==
  /\ call[w].pc = "push"
  /\ told' = told \cup {TaskOf(w)}
  /\ Done(w)
  /\ UNCHANGED <<rows, queues, breaker, replay, lost, budget>>

\* Any other answer, or none.
PushRefused(w) ==
  /\ call[w].pc = "push"
  /\ Goto(w, "raise")
  /\ UNCHANGED <<rows, queues, breaker, replay, history, budget>>

-------------------------------------------------------------------------------
(* replay_dlq                                                              *)

ReplayStart(o) ==
  /\ replay[o] = NoReplay
  /\ dlq # <<>>
  /\ replays < MaxReplays
  /\ replays' = replays + 1
  /\ replay' = [replay EXCEPT ![o].entries =
                  SubSeq(dlq, 1, IF Len(dlq) < ReplayLimit THEN Len(dlq) ELSE ReplayLimit)]
  /\ UNCHANGED <<rows, queues, breaker, call, history, requeues, mishaps>>

\* Mutant: every entry is replayed as a submission.
ReplaySendUntyped(o) ==
  /\ replay[o] # NoReplay /\ ~replay[o].sent
  /\ Publish(Submission(Head(replay[o].entries).job.task))
  /\ replay' = [replay EXCEPT ![o].sent = TRUE]
  /\ UNCHANGED <<rows, delayed, dlq, ids, breaker, call, history, budget>>

\* kiq: a message without the label, so its attempts start again.
ReplaySend(o) ==
  /\ replay[o] # NoReplay /\ ~replay[o].sent
  /\ Publish(Head(replay[o].entries).job)
  /\ replay' = [replay EXCEPT ![o].sent = TRUE]
  /\ UNCHANGED <<rows, delayed, dlq, ids, breaker, call, history, budget>>

\* XDEL of that entry, which another replay may have deleted already.
ReplayDelete(o) ==
  /\ replay[o].sent
  /\ LET id == Head(replay[o].entries).id
     IN  \/ \E i \in DOMAIN dlq :
              dlq[i].id = id /\ dlq' = SubSeq(dlq, 1, i - 1) \o SubSeq(dlq, i + 1, Len(dlq))
         \/ (\A i \in DOMAIN dlq : dlq[i].id # id) /\ UNCHANGED dlq
  /\ replay' = [replay EXCEPT ![o] = [entries |-> Tail(@.entries), sent |-> FALSE]]
  /\ UNCHANGED <<rows, list, delayed, ids, breaker, call, history, budget>>

\* The request dies, before or after the entry it was at has been queued.
ReplayStops(o) ==
  /\ replay[o] # NoReplay
  /\ Mishap
  /\ replay' = [replay EXCEPT ![o] = NoReplay]
  /\ UNCHANGED <<rows, queues, breaker, call, history, replays, requeues>>

-------------------------------------------------------------------------------
(* Mishaps of workers, probers and Redis                                   *)

\* What is gone with the caller: the message it had taken, and the callback of
\* a task it has just ended.
Carried(c) ==
  IF call[c].pc = "announce" THEN {Callback(TaskOf(c))}
  ELSE IF c \in Workers THEN {call[c].msg.job} ELSE {}

Crash(c) ==
  /\ call[c].pc # "idle"
  /\ Mishap
  /\ lost' = lost \cup Carried(c)
  /\ Done(c)
  /\ UNCHANGED <<rows, queues, breaker, replay, told, replays, requeues>>

\* SK_SESSION_TTL_SECONDS are over: whoever takes the submission now drops it.
SessionExpires(t) ==
  /\ t \in session
  /\ Mishap
  /\ session' = session \ {t}
  /\ lost' = lost \cup {Submission(t)}
  /\ UNCHANGED <<phase, queues, breaker, call, replay, told, replays, requeues>>

-------------------------------------------------------------------------------
Upstream(c) ==
  \/ GuardRead(c) \/ Guard(c)
  \/ AnswerAmbiguous(c) \/ AnswerClear(c) \/ ReportFails(c)
  \/ Final(c) \/ Announce(c)

WorkerStep(w) ==
  \/ ReadRow(w) \/ Upstream(w) \/ Landed(w)
  \/ PushTaken(w) \/ PushRefused(w)
  \/ RetryOrDlq(w) \/ RetryFails(w)

Replay(o) == ReplayStart(o) \/ ReplaySend(o) \/ ReplayDelete(o) \/ ReplayStops(o)

Deliver == \E m \in BagToSet(delayed) : Due(m)

Init ==
  /\ phase = [t \in Tasks |-> "NONE"] /\ session = {}
  /\ list = <<>> /\ delayed = EmptyBag /\ dlq = <<>> /\ ids = 0
  /\ failures = 0 /\ ttl = "none" /\ overrun = {}
  /\ call = [c \in Callers |-> NoCall]
  /\ replay = [o \in Replayers |-> NoReplay]
  /\ told = {} /\ lost = {}
  /\ replays = 0 /\ requeues = 0 /\ mishaps = 0

Next ==
  \/ \E t \in Tasks : Accept(t) \/ OpsRequeue(t) \/ SessionExpires(t)
  \/ \E w \in Workers : Take(w) \/ WorkerStep(w)
  \/ \E p \in Probers : Upstream(p) \/ \E t \in Tasks : ProbeStart(p, t)
  \/ \E c \in Callers : Crash(c)
  \/ \E o \in Replayers : Replay(o)
  \/ Deliver
  \/ WindowPasses \/ WindowEnds

\* Workers run and take messages, the scheduler delivers what is due, awaited
\* calls return (every request has a timeout), time passes.  Operators and
\* probers owe nothing.
Fairness ==
  /\ \A w \in Workers : WF_vars(Take(w)) /\ WF_vars(WorkerStep(w))
  /\ \A p \in Probers : WF_vars(Upstream(p))
  /\ WF_vars(Deliver) /\ WF_vars(WindowPasses) /\ WF_vars(WindowEnds)

Spec == Init /\ [][Next]_vars /\ Fairness

-------------------------------------------------------------------------------
Running(job) == \E w \in Workers : call[w] # NoCall /\ call[w].msg.job = job

Queued(job) ==
  \/ \E i \in DOMAIN list : list[i].job = job
  \/ \E m \in BagToSet(delayed) : m.job = job

Dead(job) == \E i \in DOMAIN dlq : dlq[i].job = job

Kept(job) == Running(job) \/ Queued(job) \/ Dead(job) \/ job \in lost

\* Every variable is in its range; in particular a message never carries more
\* attempts than event_max_attempts allows (queue.py:170).
TypeOK ==
  /\ phase \in [Tasks -> {"NONE", "SUBMITTED", "QUEUED", "ENDED"}]
  /\ session \subseteq Tasks /\ told \subseteq Tasks /\ lost \subseteq Jobs
  /\ list \in Seq(Messages)
  /\ BagToSet(delayed) \subseteq Messages
  /\ \A i \in DOMAIN dlq : dlq[i].id \in 1..ids /\ dlq[i].job \in Jobs
  /\ failures \in Nat /\ overrun \subseteq Callers /\ ttl \in {"none", "half", "full"}
  /\ \A c \in Callers : call[c] # NoCall => call[c].msg \in Messages
  /\ DOMAIN replay = Replayers
  /\ \A o \in Replayers : replay[o].sent => replay[o].entries # <<>>

\* A submission or a callback that is still owed is in the list, delayed, in
\* the hands of a worker or in the dead letters, unless a killed worker, a
\* failed retry, an expired session or a publication of the callback that
\* raised took it (relayflow.py:669; a Crash at announce stands for it); a
\* replay that dies between queueing an entry and deleting it takes nothing
\* (queue.py:357-358).
NothingLost ==
  \A t \in Tasks :
    /\ phase[t] = "SUBMITTED" => Kept(Submission(t))
    /\ phase[t] = "ENDED" /\ t \in Callbacks \ told =>
         \/ Kept(Callback(t))
         \/ \E c \in Callers : call[c].pc = "announce" /\ TaskOf(c) = t

\* The breaker is read before a request and written after it, so it may be
\* overrun, but by each caller at most once: what the counter has beyond the
\* threshold are distinct callers that had passed the guard when it opened
\* (upstream.py:27, relay.py:145).
BoundedOvershoot ==
  failures >= Threshold => failures = Threshold - 1 + Cardinality(overrun)

\* An open breaker closes again by itself: its window is renewed only by
\* failures, and it lets no request through that could fail (upstream.py:42).
BreakerHeals == Open(failures) ~> ~Open(failures)

\* A published message ends: the submission reaches the row and the callback
\* the client, or attempts run out and a dead letter says so (queue.py:169-182).
Settled ==
  \A t \in Tasks :
    /\ phase[t] = "SUBMITTED" ~>
         (phase[t] # "SUBMITTED" \/ Dead(Submission(t)) \/ Submission(t) \in lost)
    /\ (phase[t] = "ENDED" /\ t \in Callbacks) ~>
         (t \in told \/ Dead(Callback(t)) \/ Callback(t) \in lost)
===============================================================================
