------------------------- MODULE BatchWindowProofs -------------------------
(***************************************************************************)
(* Windows and the sweep, for any number of tasks and rounds and any       *)
(* settings: no batch is forgotten by its triggers, no row waits longer    *)
(* than the settings of the sweep add up to, and rounds that do not        *)
(* overlap submit no task twice.                                           *)
(*                                                                         *)
(* WindowInv is the inductive invariant. ShapeOK gives the types.          *)
(* AcceptInv, WindowOK and ClockOK say how an acceptance, the window and   *)
(* the sweep stand to the clock. TurnsOK counts, for a row that is owed a  *)
(* rescue, the rounds that come for it: each of them, the next one, and    *)
(* every crash so far moves the bound by one Turn. SentOK, ArmedOK and     *)
(* EarlyOK are about one submission, one trigger, and early releases.      *)
(***************************************************************************)
EXTENDS BatchWindow, FiniteSetTheorems, WellFoundedInduction, TLAPS

States == {"none", "waiting", "releasing", "released", "canceled"}

Moments == 0..(LastArrival + Wait)

\* The task may still be sent to the upstream.
Standing(t) == row[t].state \in {"waiting", "releasing"}

Accepting(t) == accept[t].pc \notin {"new", "done"}

RowsOK == row \in [Tasks -> [state : States, due : Moments, updated : Times]]

AcceptsOK ==
  accept \in [Tasks -> [pc : {"new", "join", "patch", "due", "size", "done"}, due : Moments,
                        wrote : BOOLEAN, full : BOOLEAN]]

WorkOK == work \in [Tasks -> [pc : {"no", "woken", "claimed"}, since : Times]]

IsDuty(q) ==
  q = [pc |-> q.pc, started |-> q.started, todo |-> q.todo, stuck |-> q.stuck, held |-> q.held,
       claimed |-> q.claimed]

RoundsOK ==
  /\ round = [s \in Rounds |-> round[s]]
  /\ \A s \in Rounds :
       /\ IsDuty(round[s])
       /\ round[s].pc \in {"idle", "active"} /\ round[s].started \in Times
       /\ round[s].todo \subseteq Tasks /\ round[s].stuck \subseteq Tasks
       /\ round[s].held \subseteq Tasks

LockOK == lock \in [by : SUBSET Rounds, until : Nat]

RestOK ==
  /\ now \in Times /\ cron \in Nat /\ crashes \in Nat
  /\ quitting \subseteq Tasks /\ index \subseteq Tasks /\ stale \subseteq Tasks
  /\ deadline \in Moments /\ past \in Moments
  /\ trig \subseteq [by : Tasks, kind : {"due", "size"}, at : Nat]
  /\ joined \in [Tasks -> 0..LastArrival] /\ sent \in [Tasks -> Nat]

ShapeOK == RowsOK /\ AcceptsOK /\ WorkOK /\ RoundsOK /\ LockOK /\ RestOK

-------------------------------------------------------------------------------
\* The clock stands still during an acceptance.
AcceptOK(t) ==
  /\ joined[t] <= now
  /\ Accepting(t) => now <= LastArrival /\ (Standing(t) => row[t].updated = now)
  /\ accept[t].pc = "new" => row[t].state = "none"
  /\ accept[t].pc \in {"new", "join"} => t \notin index /\ joined[t] = 0
  /\ accept[t].pc \in {"new", "join", "patch"} => row[t].due = None
  /\ accept[t].pc \in {"patch", "due"} /\ accept[t].wrote => accept[t].due = now + Wait
  /\ accept[t].pc = "patch" => accept[t].due <= joined[t] + Wait
  /\ row[t].due <= joined[t] + Wait

\* A task that has not come is in nobody's hands.
NewOK(t) ==
  accept[t].pc = "new" =>
    work[t].pc # "claimed" /\ \A s \in Rounds : ~(round[s].claimed /\ t \in round[s].held)

HandsOK == \A s \in Rounds : round[s].claimed => round[s].held # {}

WindowOK ==
  /\ index = {} <=> deadline = None
  /\ \A t \in index :
       /\ deadline <= joined[t] + Wait
       /\ row[t].due # None => row[t].due = deadline
       /\ accept[t].pc = "patch" => accept[t].due = deadline
  /\ \A t \in stale : joined[t] # 0

ClockOK ==
  /\ now <= cron /\ cron <= now + Period
  /\ lock # Unlocked => now < lock.until
  /\ lock.until <= now + LockTTL
  /\ \A s \in Rounds : Active(s) =>
       /\ round[s].started <= now /\ now <= round[s].started + Slow
       /\ round[s].started + Period <= cron
       /\ now < round[s].started + LockTTL =>
            lock.by = {s} /\ lock.until = round[s].started + LockTTL

-------------------------------------------------------------------------------
\* From the crons and the life of a lock.
Turn == LockTTL + Period

Age(t) == Larger(joined[t] + Wait, row[t].updated) + Grace

Owed(t) == Standing(t) /\ row[t].due # None /\ Age(t) <= now

\* When the next round can start at the latest.
Opening == IF lock = Unlocked THEN cron ELSE Larger(cron, lock.until + Period)

Comers(t) == {s \in Rounds : Active(s) /\ t \in round[s].todo /\ Age(t) <= round[s].started}

Earlier(t, s) == {o \in Comers(t) : round[o].started < round[s].started}

RoundReads(s, t) ==
  /\ t \in round[s].stuck /\ Standing(t) =>
       \/ row[t].state = "releasing" /\ row[t].updated + Grace <= round[s].started
       \/ round[s].started <= row[t].updated
  /\ t \in round[s].todo \ round[s].stuck /\ row[t].state = "releasing" =>
       round[s].started <= row[t].updated
  /\ t \in round[s].held /\ Standing(t) => round[s].started <= row[t].updated

WaitOK(t) ==
  Owed(t) =>
    /\ Opening <= Age(t) + (crashes + 1 + Cardinality(Comers(t))) * Turn
    /\ \A s \in Comers(t) :
         round[s].started <= Age(t) + (crashes + 1 + Cardinality(Earlier(t, s))) * Turn

TurnsOK ==
  /\ \A s \in Rounds, t \in Tasks : Active(s) => RoundReads(s, t)
  /\ \A t \in Tasks : WaitOK(t)

-------------------------------------------------------------------------------
\* At most one round runs.
Alone == \A s, o \in Rounds : Active(s) /\ Active(o) => s = o

\* A worker has its task for itself until the sweep would take it for dead.
ReleaseOK(t) ==
  /\ sent[t] = 0 \/ (sent[t] = 1 /\ row[t].state = "released")
  /\ work[t].pc = "claimed" =>
       /\ now < work[t].since + Grace
       /\ \/ row[t].state = "canceled"
          \/ row[t].state = "releasing" /\ row[t].updated = work[t].since

\* So has the round, while it rescues it and before.
HoldOK(s, t) ==
  Active(s) =>
    /\ t \in round[s].stuck => t \notin round[s].held /\
         \/ row[t].state = "canceled"
         \/ row[t].state = "releasing" /\ row[t].updated + Grace <= round[s].started
    /\ round[s].claimed /\ t \in round[s].held =>
         work[t].pc # "claimed" /\ row[t].state \in {"releasing", "canceled"}

Once == Alone /\ \A t \in Tasks : ReleaseOK(t) /\ \A s \in Rounds : HoldOK(s, t)

SentOK == overlap \/ Once

Announced(t) == accept[t].pc \in {"patch", "due"} /\ accept[t].wrote

Armed ==
  \/ \E m \in trig : m.kind = "due" /\ m.by \notin stale /\ m.at = deadline
  \/ \E t \in Tasks : Announced(t) /\ t \notin stale /\ accept[t].due = deadline

ArmedOK == deadline # None /\ now <= deadline + Late /\ crashes = 0 => Armed

\* The deadline of the window, and all moments from the first deadline on that
\* has passed with its window.
Known == {d \in Nat : d # None /\ (d = deadline \/ (past # None /\ past <= d))}

EarlyOK ==
  /\ \A m \in trig : IF m.kind = "size" THEN full ELSE m.at \in Known
  /\ \A t \in Tasks : /\ Announced(t) => accept[t].due \in Known
                      /\ accept[t].pc = "due" => accept[t].wrote
                      /\ accept[t].pc = "size" => accept[t].full
                      /\ accept[t].full => full

-------------------------------------------------------------------------------
(* Types                                                                   *)

LEMMA Bounds ==
  /\ {Size, Wait, Grace, Period, LockTTL, MaxTime} \subseteq Nat \ {0}
  /\ {Late, Slow, LastArrival, MaxCancels, MaxCrashes} \subseteq Nat
  /\ IsFiniteSet(Rounds)
  BY WindowAssumption

\* What a change of state makes of a row.
LEMMA SetStateDoes ==
  ASSUME RowsOK, now \in Times, NEW t \in Tasks, NEW s \in States, SetState(t, s)
  PROVE  /\ RowsOK'
         /\ \A o \in Tasks \ {t} : row'[o] = row[o]
         /\ row'[t].state = s /\ row'[t].due = row[t].due
         /\ row'[t].updated = IF s \in {"waiting", "releasing"} THEN now ELSE 0
<1> DEFINE u == IF s \in {"waiting", "releasing"} THEN now ELSE 0
           r == [state |-> s, due |-> row[t].due, updated |-> u]
<1>1. row[t] \in [state : States, due : Moments, updated : Times]
  BY DEF RowsOK
<1>2. Touched([row[t] EXCEPT !.state = s]) = r
  <2> DEFINE q == [state |-> s, due |-> row[t].due, updated |-> row[t].updated]
  <2>1. [row[t] EXCEPT !.state = s] = q
    BY <1>1
  <2>2. Touched(q) = r
    BY DEF Touched
  <2> QED BY <2>1, <2>2
<1>3. row' = [row EXCEPT ![t] = r]
  BY <1>2 DEF SetState
<1>4. u \in Times
  BY Bounds DEF Times
<1>5. r \in [state : States, due : Moments, updated : Times]
  BY <1>1, <1>4
<1> QED BY <1>3, <1>5 DEF RowsOK

LEMMA PatchDoes ==
  ASSUME RowsOK, AcceptsOK, now \in Times, NEW t \in Tasks, Patch(t)
  PROVE  /\ RowsOK'
         /\ \A o \in Tasks \ {t} : row'[o] = row[o]
         /\ row'[t].state = row[t].state /\ row'[t].due = accept[t].due
         /\ row'[t].updated = IF Standing(t) THEN now ELSE 0
<1> DEFINE u == IF Standing(t) THEN now ELSE 0
           r == [state |-> row[t].state, due |-> accept[t].due, updated |-> u]
<1>1. row[t] \in [state : States, due : Moments, updated : Times] /\ accept[t].due \in Moments
  BY DEF RowsOK, AcceptsOK
<1>2. Touched([row[t] EXCEPT !.due = accept[t].due]) = r
  <2> DEFINE q == [state |-> row[t].state, due |-> accept[t].due, updated |-> row[t].updated]
  <2>1. [row[t] EXCEPT !.due = accept[t].due] = q
    BY <1>1
  <2>2. Touched(q) = r
    BY DEF Touched, Standing
  <2> QED BY <2>1, <2>2
<1>3. row' = [row EXCEPT ![t] = r]
  BY <1>2 DEF Patch
<1>4. u \in Times
  BY Bounds DEF Times
<1>5. r \in [state : States, due : Moments, updated : Times]
  BY <1>1, <1>4
<1> QED BY <1>3, <1>5 DEF RowsOK

Acceptance == [pc : {"new", "join", "patch", "due", "size", "done"}, due : Moments,
               wrote : BOOLEAN, full : BOOLEAN]

\* An acceptance that goes on, and one that ends.
LEMMA AcceptDoes ==
  ASSUME AcceptsOK, NEW t \in Tasks, NEW pc \in {"join", "due", "size"}, AcceptTo(t, pc)
  PROVE  /\ AcceptsOK'
         /\ \A o \in Tasks \ {t} : accept'[o] = accept[o]
         /\ accept'[t].pc = pc /\ accept'[t].due = accept[t].due
         /\ accept'[t].wrote = accept[t].wrote /\ accept'[t].full = accept[t].full
<1> DEFINE a == [pc |-> pc, due |-> accept[t].due, wrote |-> accept[t].wrote,
                 full |-> accept[t].full]
<1>1. accept[t] \in Acceptance
  BY DEF AcceptsOK, Acceptance
<1>2. [accept[t] EXCEPT !.pc = pc] = a
  BY <1>1 DEF Acceptance
<1>3. accept' = [accept EXCEPT ![t] = [accept[t] EXCEPT !.pc = pc]]
  BY DEF AcceptTo
<1>4. a \in Acceptance
  BY <1>1 DEF Acceptance
<1> QED BY <1>2, <1>3, <1>4 DEF AcceptsOK, Acceptance

LEMMA AcceptEnds ==
  ASSUME AcceptsOK, NEW t \in Tasks, NEW pc, pc = "done", AcceptTo(t, pc)
  PROVE  /\ AcceptsOK'
         /\ \A o \in Tasks \ {t} : accept'[o] = accept[o]
         /\ accept'[t].pc = "done" /\ accept'[t].wrote = FALSE /\ accept'[t].full = FALSE
<1> DEFINE n == NoAccept
           a == [pc |-> pc, due |-> n.due, wrote |-> n.wrote, full |-> n.full]
<1>1. n \in Acceptance /\ n.due = None /\ n.wrote = FALSE /\ n.full = FALSE
  BY Bounds DEF NoAccept, Acceptance, Moments, None
<1>2. accept' = [accept EXCEPT ![t] = [n EXCEPT !.pc = pc]]
  BY DEF AcceptTo
<1> HIDE DEF n
<1>3. [n EXCEPT !.pc = pc] = a
  BY <1>1 DEF Acceptance
<1>4. a \in Acceptance
  BY <1>1 DEF Acceptance
<1> QED BY <1>1, <1>2, <1>3, <1>4 DEF AcceptsOK, Acceptance

-------------------------------------------------------------------------------
(* What a step does to the rounds                                          *)

LEMMA StartDoes ==
  ASSUME RoundsOK, now \in Times, NEW s \in Rounds, StartRound(s)
  PROVE  /\ RoundsOK'
         /\ \A o \in Rounds \ {s} : round'[o] = round[o]
         /\ round'[s].pc = "active" /\ round'[s].started = now
         /\ round'[s].todo = Candidates /\ round'[s].stuck = {t \in Tasks : Stuck(t)}
         /\ round'[s].held = {} /\ ~round'[s].claimed
<1> DEFINE stood == {t \in Tasks : Stuck(t)}
           r == [pc |-> "active", started |-> now, todo |-> Candidates, stuck |-> stood,
                 held |-> {}, claimed |-> FALSE]
<1>1. round' = [round EXCEPT ![s] = r]
  BY DEF StartRound
<1>2. Candidates \subseteq Tasks /\ stood \subseteq Tasks
  BY DEF Candidates
<1> HIDE DEF stood
<1>3. /\ round' = [o \in Rounds |-> round'[o]] /\ round'[s] = r
      /\ \A o \in Rounds \ {s} : round'[o] = round[o]
  BY <1>1 DEF RoundsOK
<1>4. RoundsOK'
  BY <1>2, <1>3 DEF RoundsOK, IsDuty
<1> QED BY <1>3, <1>4 DEF stood

\* The end of a round, in good order or not.
LEMMA EndDoes ==
  ASSUME RoundsOK, NEW s \in Rounds, round' = [round EXCEPT ![s] = NoRound]
  PROVE  /\ RoundsOK'
         /\ \A o \in Rounds \ {s} : round'[o] = round[o]
         /\ round'[s].pc = "idle"
<1>1. /\ round' = [o \in Rounds |-> round'[o]] /\ round'[s] = NoRound
      /\ \A o \in Rounds \ {s} : round'[o] = round[o]
  BY DEF RoundsOK
<1>2. 0 \in Times
  BY Bounds DEF Times
<1>3. RoundsOK'
  BY <1>1, <1>2 DEF RoundsOK, IsDuty, NoRound
<1> QED BY <1>1, <1>3 DEF NoRound

LEMMA UnclaimDoes ==
  ASSUME RoundsOK, NEW s \in Rounds, NEW t \in Tasks, Unclaim(s, t)
  PROVE  /\ RoundsOK'
         /\ \A o \in Rounds \ {s} : round'[o] = round[o]
         /\ round'[s].pc = round[s].pc /\ round'[s].started = round[s].started
         /\ round'[s].todo = round[s].todo \ {t} /\ round'[s].stuck = round[s].stuck \ {t}
         /\ round'[s].held = {t} /\ round'[s].claimed = round[s].claimed
<1>1. /\ round' = [round EXCEPT ![s].stuck = @ \ {t}, ![s].todo = @ \ {t}, ![s].held = {t}]
      /\ round = [o \in Rounds |-> round[o]] /\ IsDuty(round[s])
  BY DEF Unclaim, RoundsOK
<1>2. /\ round'[s] = [pc |-> round[s].pc, started |-> round[s].started,
                      todo |-> round[s].todo \ {t}, stuck |-> round[s].stuck \ {t},
                      held |-> {t}, claimed |-> round[s].claimed]
  BY <1>1 DEF IsDuty
<1>3. /\ round' = [o \in Rounds |-> round'[o]]
      /\ \A o \in Rounds : o # s => round'[o] = round[o]
  BY <1>1
<1>4. RoundsOK'
  BY <1>2, <1>3 DEF RoundsOK, IsDuty
<1> QED BY <1>2, <1>3, <1>4

LEMMA RescueDoes ==
  ASSUME RoundsOK, NEW s \in Rounds, NEW t \in Tasks, Rescue(s, t)
  PROVE  /\ RoundsOK'
         /\ \A o \in Rounds \ {s} : round'[o] = round[o]
         /\ round'[s].pc = round[s].pc /\ round'[s].started = round[s].started
         /\ round'[s].todo = round[s].todo \ {t} /\ round'[s].stuck = round[s].stuck
         /\ row[t].state = "waiting" => round'[s].held = {t} /\ round'[s].claimed
         /\ row[t].state # "waiting" => round'[s].held = {} /\ ~round'[s].claimed
<1> DEFINE taken == row[t].state = "waiting"
           h == IF taken THEN {t} ELSE {}
<1>1. /\ round' = [round EXCEPT ![s].todo = @ \ {t}, ![s].held = h, ![s].claimed = taken]
      /\ round = [o \in Rounds |-> round[o]] /\ IsDuty(round[s])
  BY DEF Rescue, RoundsOK
<1>2. h \subseteq Tasks
  OBVIOUS
<1> HIDE DEF taken, h
<1>3. /\ round'[s] = [pc |-> round[s].pc, started |-> round[s].started,
                      todo |-> round[s].todo \ {t}, stuck |-> round[s].stuck,
                      held |-> h, claimed |-> taken]
  BY <1>1 DEF IsDuty
<1>4. /\ round' = [o \in Rounds |-> round'[o]]
      /\ \A o \in Rounds : o # s => round'[o] = round[o]
  BY <1>1
<1>5. RoundsOK'
  BY <1>2, <1>3, <1>4 DEF RoundsOK, IsDuty
<1>6. /\ round'[s].pc = round[s].pc /\ round'[s].started = round[s].started
      /\ round'[s].todo = round[s].todo \ {t} /\ round'[s].stuck = round[s].stuck
      /\ round'[s].held = h
  BY <1>3
<1>7. taken \in BOOLEAN
  BY DEF taken
<1>8. round'[s].claimed <=> taken
  BY <1>3, <1>7
<1> QED BY <1>4, <1>5, <1>6, <1>8 DEF taken, h

LEMMA RescueSendDoes ==
  ASSUME RoundsOK, NEW s \in Rounds, NEW t \in Tasks, RescueSend(s, t)
  PROVE  /\ RoundsOK'
         /\ \A o \in Rounds \ {s} : round'[o] = round[o]
         /\ round'[s].pc = round[s].pc /\ round'[s].started = round[s].started
         /\ round'[s].todo = round[s].todo /\ round'[s].stuck = round[s].stuck
         /\ round'[s].held = {} /\ ~round'[s].claimed
<1>1. /\ round' = [round EXCEPT ![s].held = {}, ![s].claimed = FALSE]
      /\ round = [o \in Rounds |-> round[o]] /\ IsDuty(round[s])
  BY DEF RescueSend, RoundsOK
<1>2. /\ round'[s] = [pc |-> round[s].pc, started |-> round[s].started, todo |-> round[s].todo,
                      stuck |-> round[s].stuck, held |-> {}, claimed |-> FALSE]
  BY <1>1 DEF IsDuty
<1>3. /\ round' = [o \in Rounds |-> round'[o]]
      /\ \A o \in Rounds : o # s => round'[o] = round[o]
  BY <1>1
<1>4. RoundsOK'
  BY <1>2, <1>3 DEF RoundsOK, IsDuty
<1> QED BY <1>2, <1>3, <1>4

-------------------------------------------------------------------------------
(* What a step does to the window and to the releases                      *)

\* Members go; the window ends with the last of them.
Shrinks ==
  /\ index' \subseteq index
  /\ \/ (index' # {} \/ deadline = None) /\ UNCHANGED <<deadline, stale, past>>
     \/ index' = {} /\ deadline # None /\ EndWindow

LEMMA LeftShrinks == \A t : Left(t) => Shrinks
  BY DEF Left, Shrinks

LEMMA ClaimedShrinks == Claimed => Shrinks
  BY DEF Claimed, Shrinks

LEMMA ShrinksOK ==
  ASSUME RestOK, Shrinks
  PROVE  /\ index' \subseteq Tasks /\ stale' \subseteq Tasks
         /\ deadline' \in Moments /\ past' \in Moments
  BY Bounds DEF RestOK, Shrinks, EndWindow, Moments, None

LEMMA TakeDoes ==
  ASSUME WorkOK, RowsOK, now \in Times, NEW t \in Tasks, Take(t)
  PROVE  /\ WorkOK' /\ RowsOK'
         /\ \A o \in Tasks \ {t} : work'[o] = work[o] /\ row'[o] = row[o]
         /\ row[t].state = "waiting" =>
              /\ work'[t].pc = "claimed" /\ work'[t].since = now
              /\ row'[t].state = "releasing" /\ row'[t].due = row[t].due
              /\ row'[t].updated = now
         /\ row[t].state # "waiting" => work'[t].pc = "no" /\ row' = row
<1>1. CASE row[t].state = "waiting"
  <2>1. SetState(t, "releasing") /\ work' = [work EXCEPT ![t] = [pc |-> "claimed", since |-> now]]
    BY <1>1 DEF Take
  <2>2. "releasing" \in States
    BY DEF States
  <2>3. /\ RowsOK' /\ \A o \in Tasks \ {t} : row'[o] = row[o]
        /\ row'[t].state = "releasing" /\ row'[t].due = row[t].due /\ row'[t].updated = now
    BY <2>1, <2>2, SetStateDoes
  <2>4. /\ WorkOK' /\ \A o \in Tasks \ {t} : work'[o] = work[o]
        /\ work'[t].pc = "claimed" /\ work'[t].since = now
    BY <2>1 DEF WorkOK
  <2> QED BY <1>1, <2>3, <2>4
<1>2. CASE row[t].state # "waiting"
  <2>1. row' = row /\ work' = [work EXCEPT ![t] = NoWork]
    BY <1>2 DEF Take
  <2>2. WorkOK' /\ work'[t].pc = "no" /\ \A o \in Tasks \ {t} : work'[o] = work[o]
    BY <2>1, Bounds DEF WorkOK, NoWork, Times
  <2> QED BY <1>2, <2>1, <2>2 DEF RowsOK
<1> QED BY <1>1, <1>2

\* The end of a release, by a worker or by a round.
LEMMA DispatchDoes ==
  ASSUME RowsOK, RestOK, NEW t \in Tasks, Dispatch(t)
  PROVE  /\ RowsOK' /\ sent' \in [Tasks -> Nat]
         /\ \A o \in Tasks \ {t} : row'[o] = row[o] /\ sent'[o] = sent[o]
         /\ row[t].state = "canceled" => row' = row /\ sent' = sent
         /\ row[t].state # "canceled" =>
              /\ row'[t].state = "released" /\ row'[t].due = row[t].due
              /\ sent'[t] = sent[t] + 1
<1>1. CASE row[t].state = "canceled"
  BY <1>1 DEF Dispatch, RowsOK, RestOK
<1>2. CASE row[t].state # "canceled"
  <2>1. SetState(t, "released") /\ sent' = [sent EXCEPT ![t] = @ + 1]
    BY <1>2 DEF Dispatch
  <2>2. "released" \in States /\ now \in Times
    BY DEF States, RestOK
  <2>3. /\ RowsOK' /\ \A o \in Tasks \ {t} : row'[o] = row[o]
        /\ row'[t].state = "released" /\ row'[t].due = row[t].due
    BY <2>1, <2>2, SetStateDoes
  <2>4. /\ sent' \in [Tasks -> Nat] /\ sent'[t] = sent[t] + 1
        /\ \A o \in Tasks \ {t} : sent'[o] = sent[o]
    BY <2>1 DEF RestOK
  <2> QED BY <1>2, <2>3, <2>4
<1> QED BY <1>1, <1>2

LEMMA JoinDoes ==
  ASSUME AcceptsOK, RestOK, NEW t \in Tasks, Join(t), now <= LastArrival
  PROVE  /\ AcceptsOK' /\ RestOK'
         /\ \A o \in Tasks \ {t} : accept'[o] = accept[o] /\ joined'[o] = joined[o]
         /\ accept'[t].pc = "patch" /\ accept'[t].due = deadline' /\ joined'[t] = now
         /\ accept'[t].wrote <=> deadline = None
         /\ accept'[t].full => full'
         /\ deadline' = FirstDeadline /\ index' = index \cup {t}
<1> DEFINE first == deadline = None
           reached == Cardinality(index \cup {t}) >= Size
           a == [pc |-> "patch", due |-> FirstDeadline, wrote |-> first, full |-> reached]
<1>1. /\ index' = index \cup {t} /\ deadline' = FirstDeadline
      /\ accept' = [accept EXCEPT ![t] = a] /\ full' = (full \/ reached)
      /\ joined' = [joined EXCEPT ![t] = now]
      /\ UNCHANGED <<now, row, quitting, stale, past, trig, work, sweep, sent, crashes>>
  BY DEF Join, RealDeadline
<1>2. FirstDeadline \in Moments
  BY Bounds DEF FirstDeadline, RestOK, Moments, Times
<1>3. first \in BOOLEAN /\ reached \in BOOLEAN
  OBVIOUS
<1> HIDE DEF first, reached
<1>4. a \in Acceptance
  BY <1>2, <1>3 DEF Acceptance
<1>5. AcceptsOK' /\ accept'[t] = a /\ \A o \in Tasks \ {t} : accept'[o] = accept[o]
  BY <1>1, <1>4 DEF AcceptsOK, Acceptance
<1>6. RestOK'
  BY <1>1, <1>2, Bounds DEF RestOK, Times, sweep
<1>7. joined'[t] = now /\ \A o \in Tasks \ {t} : joined'[o] = joined[o]
  BY <1>1 DEF RestOK
<1>8. accept'[t].pc = "patch" /\ accept'[t].due = deadline'
  BY <1>1, <1>5
<1>9. (accept'[t].wrote <=> first) /\ (accept'[t].full <=> reached) /\ (reached => full')
  BY <1>1, <1>3, <1>5
<1> QED BY <1>1, <1>5, <1>6, <1>7, <1>8, <1>9 DEF first

LEMMA TriggerIn ==
  ASSUME RestOK, AcceptsOK, NEW t \in Tasks
  PROVE  /\ [by |-> t, kind |-> "due", at |-> RunAt(accept[t].due)] \in
              [by : Tasks, kind : {"due", "size"}, at : Nat]
         /\ [by |-> t, kind |-> "size", at |-> now] \in
              [by : Tasks, kind : {"due", "size"}, at : Nat]
<1>1. now \in Nat /\ accept[t].due \in Nat
  BY Bounds DEF RestOK, AcceptsOK, Times, Moments
<1> QED BY <1>1 DEF RunAt

LEMMA PublishDueDoes ==
  ASSUME AcceptsOK, RestOK, NEW t \in Tasks, PublishDue(t)
  PROVE  /\ AcceptsOK' /\ RestOK'
         /\ \A o \in Tasks \ {t} : accept'[o] = accept[o]
         /\ accept'[t].pc \in {"size", "done"} /\ (accept'[t].full => accept[t].full)
         /\ accept'[t].pc = "size" => accept'[t].full
<1> DEFINE m == [by |-> t, kind |-> "due", at |-> RunAt(accept[t].due)]
<1>1. /\ (trig' = trig \cup {m} /\ UNCHANGED crashes) \/ (Crashing /\ UNCHANGED trig)
      /\ UNCHANGED <<now, row, quitting, batch, work, sweep, full, joined, sent>>
  BY DEF PublishDue
<1> HIDE DEF m
<1>2. RestOK'
  BY <1>1, TriggerIn DEF RestOK, Crashing, batch, sweep, m
<1>3. CASE accept[t].full
  <2>1. AcceptTo(t, "size")
    BY <1>3 DEF PublishDue
  <2>2. accept'[t].full <=> accept[t].full
    BY <2>1, AcceptDoes
  <2> QED BY <1>2, <1>3, <2>1, <2>2, AcceptDoes
<1>4. CASE ~accept[t].full
  <2>1. AcceptTo(t, "done")
    BY <1>4 DEF PublishDue
  <2> QED BY <1>2, <2>1, AcceptEnds
<1> QED BY <1>3, <1>4

LEMMA PatchAccepts ==
  ASSUME AcceptsOK, NEW t \in Tasks, Patch(t)
  PROVE  /\ AcceptsOK' /\ \A o \in Tasks \ {t} : accept'[o] = accept[o]
         /\ accept'[t].pc \in {"due", "size", "done"}
         /\ accept'[t].pc = "due" <=> accept[t].wrote
         /\ accept'[t].pc # "done" => /\ accept'[t].due = accept[t].due
                                      /\ accept'[t].wrote <=> accept[t].wrote
                                      /\ accept'[t].full <=> accept[t].full
         /\ accept'[t].pc = "done" => ~accept'[t].full
         /\ accept'[t].pc = "size" => accept'[t].full
<1>1. CASE accept[t].wrote
  <2>1. AcceptTo(t, "due")
    BY <1>1 DEF Patch
  <2> QED BY <1>1, <2>1, AcceptDoes
<1>2. CASE ~accept[t].wrote /\ accept[t].full
  <2>1. AcceptTo(t, "size")
    BY <1>2 DEF Patch
  <2> QED BY <1>2, <2>1, AcceptDoes
<1>3. CASE ~accept[t].wrote /\ ~accept[t].full
  <2>1. AcceptTo(t, "done")
    BY <1>3 DEF Patch
  <2> QED BY <1>3, <2>1, AcceptEnds
<1> QED BY <1>1, <1>2, <1>3

-------------------------------------------------------------------------------
(* Every step keeps the types                                              *)

AcceptInv == HandsOK /\ \A t \in Tasks : AcceptOK(t) /\ NewOK(t)

\* What most steps leave alone.
LEMMA FrameOK ==
  /\ RowsOK /\ UNCHANGED row => RowsOK'
  /\ AcceptsOK /\ UNCHANGED accept => AcceptsOK'
  /\ WorkOK /\ UNCHANGED work => WorkOK'
  /\ RoundsOK /\ UNCHANGED round => RoundsOK'
  /\ LockOK /\ UNCHANGED lock => LockOK'
  BY DEF RowsOK, AcceptsOK, WorkOK, RoundsOK, IsDuty, LockOK

LEMMA AcceptSteps ==
  ASSUME ShapeOK, AcceptInv, NEW t \in Tasks,
         Create(t) \/ Join(t) \/ Patch(t) \/ PublishDue(t) \/ PublishSize(t) \/ AcceptDies(t)
  PROVE  ShapeOK'
<1>1. RowsOK /\ AcceptsOK /\ WorkOK /\ RoundsOK /\ LockOK /\ RestOK /\ now \in Times
  BY DEF ShapeOK, RestOK
<1>2. UNCHANGED <<work, round, lock>>
  BY DEF Create, Join, Patch, PublishDue, PublishSize, AcceptDies, sweep
<1>3. CASE Create(t)
  <2>1. AcceptTo(t, "join") /\ SetState(t, "waiting") /\ "waiting" \in States
    BY <1>3 DEF Create, States
  <2>2. RestOK'
    BY <1>1, <1>3 DEF Create, RestOK, batch, sweep
  <2> QED BY <1>1, <1>2, <2>1, <2>2, SetStateDoes, AcceptDoes, FrameOK DEF ShapeOK
<1>4. CASE Join(t)
  <2>1. now <= LastArrival /\ UNCHANGED row
    BY <1>4 DEF Join, AcceptInv, AcceptOK, Accepting
  <2> QED BY <1>1, <1>2, <1>4, <2>1, JoinDoes, FrameOK DEF ShapeOK
<1>5. CASE Patch(t)
  <2>1. RestOK'
    BY <1>1, <1>5 DEF Patch, RestOK, batch, sweep
  <2> QED BY <1>1, <1>2, <1>5, <2>1, PatchDoes, PatchAccepts, FrameOK DEF ShapeOK
<1>6. CASE PublishDue(t)
  BY <1>1, <1>2, <1>6, PublishDueDoes, FrameOK DEF ShapeOK, PublishDue
<1>7. CASE PublishSize(t)
  <2>1. RestOK' /\ UNCHANGED row /\ AcceptTo(t, "done")
    BY <1>1, <1>7, TriggerIn DEF PublishSize, RestOK, batch, sweep
  <2> QED BY <1>1, <1>2, <2>1, AcceptEnds, FrameOK DEF ShapeOK
<1>8. CASE AcceptDies(t)
  <2>1. AcceptTo(t, "done") /\ UNCHANGED row /\ crashes' = crashes + 1
    BY <1>8 DEF AcceptDies, Crashing
  <2>2. /\ index' \subseteq Tasks /\ stale' \subseteq Tasks
        /\ deadline' \in Moments /\ past' \in Moments
    <3>1. CASE UNCHANGED batch
      BY <1>1, <3>1 DEF RestOK, batch
    <3>2. CASE Left(t)
      BY <1>1, <3>2, LeftShrinks, ShrinksOK
    <3> QED BY <1>8, <3>1, <3>2 DEF AcceptDies
  <2>3. RestOK'
    BY <1>1, <1>8, <2>1, <2>2 DEF AcceptDies, RestOK, sweep
  <2> QED BY <1>1, <1>2, <2>1, <2>3, AcceptEnds, FrameOK DEF ShapeOK
<1> QED BY <1>3, <1>4, <1>5, <1>6, <1>7, <1>8

LEMMA FireWork ==
  ASSUME WorkOK, NEW m, Fire(m)
  PROVE  /\ WorkOK'
         /\ \A t \in Tasks : IF t \in index THEN work'[t].pc = "woken" ELSE work'[t] = work[t]
  BY Bounds DEF WorkOK, Fire, Times

LEMMA ReleaseSteps ==
  ASSUME ShapeOK, NEW t \in Tasks, Cancel(t) \/ Leave(t) \/ Take(t) \/ Send(t)
  PROVE  ShapeOK'
<1>1. RowsOK /\ AcceptsOK /\ WorkOK /\ RoundsOK /\ LockOK /\ RestOK /\ now \in Times
  BY DEF ShapeOK, RestOK
<1>2. UNCHANGED <<accept, round, lock>>
  BY DEF Cancel, Leave, Take, Send, sweep
<1>3. CASE Cancel(t)
  <2>1. SetState(t, "canceled") /\ "canceled" \in States /\ UNCHANGED work
    BY <1>3 DEF Cancel, States
  <2>2. RestOK'
    BY <1>1, <1>3 DEF Cancel, RestOK, batch, sweep
  <2> QED BY <1>1, <1>2, <2>1, <2>2, SetStateDoes, FrameOK DEF ShapeOK
<1>4. CASE Leave(t)
  <2>1. Shrinks /\ UNCHANGED <<row, work>>
    BY <1>4, LeftShrinks DEF Leave
  <2>2. RestOK'
    BY <1>1, <1>4, <2>1, ShrinksOK DEF Leave, RestOK, sweep
  <2> QED BY <1>1, <1>2, <2>1, <2>2, FrameOK DEF ShapeOK
<1>5. CASE Take(t)
  <2>1. RestOK'
    BY <1>1, <1>5 DEF Take, RestOK, batch, sweep
  <2> QED BY <1>1, <1>2, <1>5, <2>1, TakeDoes, FrameOK DEF ShapeOK
<1>6. CASE Send(t)
  <2>1. Dispatch(t) /\ WorkOK'
    BY <1>1, <1>6, Bounds DEF Send, WorkOK, NoWork, Times
  <2>2. RowsOK' /\ sent' \in [Tasks -> Nat]
    BY <1>1, <2>1, DispatchDoes
  <2>3. RestOK'
    BY <1>1, <1>6, <2>2 DEF Send, RestOK, batch, sweep
  <2> QED BY <1>1, <1>2, <2>1, <2>2, <2>3, FrameOK DEF ShapeOK
<1> QED BY <1>3, <1>4, <1>5, <1>6

LEMMA FireShape ==
  ASSUME ShapeOK, NEW m \in trig, Fire(m)
  PROVE  ShapeOK'
<1>1. RowsOK /\ AcceptsOK /\ WorkOK /\ RoundsOK /\ LockOK /\ RestOK
  BY DEF ShapeOK
<1>2. Shrinks /\ UNCHANGED <<row, accept, round, lock>>
  BY ClaimedShrinks DEF Fire, sweep
<1>3. RestOK'
  BY <1>1, <1>2, ShrinksOK DEF Fire, RestOK, sweep
<1> QED BY <1>1, <1>2, <1>3, FireWork, FrameOK DEF ShapeOK

LEMMA RoundSteps ==
  ASSUME ShapeOK, NEW s \in Rounds, StartRound(s) \/ EndRound(s) \/ RoundDies(s)
  PROVE  ShapeOK'
<1>1. RowsOK /\ AcceptsOK /\ WorkOK /\ RoundsOK /\ LockOK /\ RestOK /\ now \in Times
  BY DEF ShapeOK, RestOK
<1>2. UNCHANGED <<row, accept, work>>
  BY DEF StartRound, EndRound, RoundDies
<1>3. now + LockTTL \in Nat /\ now + Period \in Nat
  BY <1>1, Bounds DEF Times
<1>4. CASE StartRound(s)
  <2>1. LockOK'
    BY <1>3, <1>4 DEF StartRound, LockOK
  <2>2. RestOK'
    BY <1>1, <1>3, <1>4 DEF StartRound, RestOK, batch
  <2> QED BY <1>1, <1>2, <1>4, <2>1, <2>2, StartDoes, FrameOK DEF ShapeOK
<1>5. CASE EndRound(s)
  <2>1. LockOK' /\ round' = [round EXCEPT ![s] = NoRound]
    BY <1>1, <1>5 DEF EndRound, LockOK, Released, Unlocked
  <2>2. RestOK'
    BY <1>1, <1>5 DEF EndRound, RestOK, batch
  <2> QED BY <1>1, <1>2, <2>1, <2>2, EndDoes, FrameOK DEF ShapeOK
<1>6. CASE RoundDies(s)
  <2>1. UNCHANGED lock /\ round' = [round EXCEPT ![s] = NoRound]
    BY <1>6 DEF RoundDies
  <2>2. RestOK'
    BY <1>1, <1>6 DEF RoundDies, Crashing, RestOK, batch
  <2> QED BY <1>1, <1>2, <2>1, <2>2, EndDoes, FrameOK DEF ShapeOK
<1> QED BY <1>4, <1>5, <1>6

\* What the steps of a rescue make of a row.
Touches(t) ==
  /\ \A o \in Tasks \ {t} : row'[o] = row[o]
  /\ row' # row => /\ row'[t].state \in {"waiting", "releasing"} /\ row'[t].due = row[t].due
                   /\ row'[t].updated = now

LEMMA UnclaimRows ==
  ASSUME RowsOK, now \in Times, NEW s \in Rounds, NEW t \in Tasks, Unclaim(s, t)
  PROVE  /\ RowsOK' /\ Touches(t)
         /\ row[t].state = "releasing" => row'[t].state = "waiting" /\ row'[t].updated = now
         /\ row[t].state # "releasing" => row' = row
<1>1. CASE row[t].state = "releasing"
  <2>1. SetState(t, "waiting") /\ "waiting" \in States
    BY <1>1 DEF Unclaim, States
  <2> QED BY <1>1, <2>1, SetStateDoes DEF Touches
<1>2. CASE row[t].state # "releasing"
  <2>1. row' = row
    BY <1>2 DEF Unclaim
  <2> QED BY <1>2, <2>1 DEF RowsOK, Touches
<1> QED BY <1>1, <1>2

LEMMA RescueRows ==
  ASSUME RowsOK, now \in Times, NEW s \in Rounds, NEW t \in Tasks, Rescue(s, t)
  PROVE  /\ RowsOK' /\ Touches(t)
         /\ row[t].state = "waiting" => row'[t].state = "releasing" /\ row'[t].updated = now
         /\ row[t].state # "waiting" => row' = row
<1>1. CASE row[t].state = "waiting"
  <2>1. SetState(t, "releasing") /\ "releasing" \in States
    BY <1>1 DEF Rescue, States
  <2> QED BY <1>1, <2>1, SetStateDoes DEF Touches
<1>2. CASE row[t].state # "waiting"
  <2>1. row' = row
    BY <1>2 DEF Rescue
  <2> QED BY <1>2, <2>1 DEF RowsOK, Touches
<1> QED BY <1>1, <1>2

LEMMA RescueSteps ==
  ASSUME ShapeOK, NEW s \in Rounds, NEW t \in Tasks,
         Unclaim(s, t) \/ Rescue(s, t) \/ RescueSend(s, t)
  PROVE  ShapeOK'
<1>1. RowsOK /\ AcceptsOK /\ WorkOK /\ RoundsOK /\ LockOK /\ RestOK /\ now \in Times
  BY DEF ShapeOK, RestOK
<1>2. UNCHANGED <<accept, work, lock>>
  BY DEF Unclaim, Rescue, RescueSend
<1>3. CASE Unclaim(s, t)
  <2>1. RestOK'
    BY <1>1, <1>3 DEF Unclaim, RestOK, batch
  <2> QED BY <1>1, <1>2, <1>3, <2>1, UnclaimDoes, UnclaimRows, FrameOK DEF ShapeOK
<1>4. CASE Rescue(s, t)
  <2>1. RestOK'
    BY <1>1, <1>4 DEF Rescue, RestOK, batch
  <2> QED BY <1>1, <1>2, <1>4, <2>1, RescueDoes, RescueRows, FrameOK DEF ShapeOK
<1>5. CASE RescueSend(s, t)
  <2>1. Dispatch(t)
    BY <1>5 DEF RescueSend
  <2>2. RowsOK' /\ sent' \in [Tasks -> Nat]
    BY <1>1, <2>1, DispatchDoes
  <2>3. RestOK'
    BY <1>1, <1>5, <2>2 DEF RescueSend, RestOK, batch
  <2> QED BY <1>1, <1>2, <1>5, <2>2, <2>3, RescueSendDoes, FrameOK DEF ShapeOK
<1> QED BY <1>3, <1>4, <1>5

LEMMA TickWork ==
  ASSUME WorkOK, Tick
  PROVE  /\ WorkOK'
         /\ \A t \in Tasks :
              IF work[t].pc = "claimed" /\ now' < work[t].since + Grace THEN work'[t] = work[t]
              ELSE work'[t].pc = "no"
  BY Bounds DEF WorkOK, Tick, NoWork, Times

LEMMA TickShape ==
  ASSUME ShapeOK, Tick
  PROVE  ShapeOK'
<1>1. RowsOK /\ AcceptsOK /\ WorkOK /\ RoundsOK /\ LockOK /\ RestOK
  BY DEF ShapeOK
<1>2. UNCHANGED <<row, accept, round>>
  BY DEF Tick
<1>3. LockOK'
  BY <1>1 DEF Tick, LockOK, Unlocked
<1>4. RestOK'
  BY <1>1, Bounds DEF Tick, RestOK, Times, batch
<1> QED BY <1>1, <1>2, <1>3, <1>4, TickWork, FrameOK DEF ShapeOK

LEMMA SkipShape ==
  ASSUME ShapeOK, SkipRound
  PROVE  ShapeOK'
<1>1. RowsOK /\ AcceptsOK /\ WorkOK /\ RoundsOK /\ LockOK /\ RestOK
  BY DEF ShapeOK
<1>2. RestOK'
  BY <1>1, Bounds DEF SkipRound, RestOK, Times, batch
<1> QED BY <1>1, <1>2, FrameOK DEF ShapeOK, SkipRound

LEMMA ShapeKeeps ==
  ASSUME ShapeOK, AcceptInv, Next
  PROVE  ShapeOK'
  BY AcceptSteps, ReleaseSteps, FireShape, RoundSteps, RescueSteps, TickShape, SkipShape DEF Next

-------------------------------------------------------------------------------
(* Acceptances and the window                                              *)

\* The steps that are no acceptance's and not the clock's.
Quiet ==
  \/ \E t \in Tasks : Cancel(t) \/ Leave(t) \/ Take(t) \/ Send(t)
  \/ \E m \in trig : Fire(m)
  \/ SkipRound
  \/ \E s \in Rounds :
       \/ StartRound(s) \/ EndRound(s) \/ RoundDies(s)
       \/ \E t \in Tasks : Unclaim(s, t) \/ Rescue(s, t) \/ RescueSend(s, t)

\* The steps of an acceptance.
Accepts(t) ==
  Create(t) \/ Join(t) \/ Patch(t) \/ PublishDue(t) \/ PublishSize(t) \/ AcceptDies(t)

LEMMA NextSplits == Next => (\E t \in Tasks : Accepts(t)) \/ Quiet \/ Tick
  BY DEF Next, Accepts, Quiet

\* A row they change belongs to a task that has come, and is touched.
RowStep(t) ==
  \/ row'[t] = row[t]
  \/ /\ accept[t].pc # "new" /\ row'[t].due = row[t].due
     /\ Standing(t)' => row'[t].updated = now

LEMMA CancelRows ==
  ASSUME ShapeOK, AcceptInv, NEW t \in Tasks, Cancel(t)
  PROVE  /\ \A o \in Tasks : RowStep(o)
         /\ \A o \in Tasks \ {t} : row'[o] = row[o]
         /\ row'[t].state = "canceled"
<1>1. SetState(t, "canceled") /\ "canceled" \in States /\ row[t].state # "none"
  BY DEF Cancel, States
<1>2. RowsOK /\ now \in Times /\ accept[t].pc # "new"
  BY <1>1 DEF ShapeOK, RestOK, AcceptInv, AcceptOK
<1> QED BY <1>1, <1>2, SetStateDoes DEF RowStep, Standing

LEMMA QuietRows ==
  ASSUME ShapeOK, AcceptInv, Quiet
  PROVE  \A t \in Tasks : RowStep(t)
<1>1. RowsOK /\ WorkOK /\ RestOK /\ now \in Times
  BY DEF ShapeOK, RestOK
<1>2. CASE \E t \in Tasks : Cancel(t)
  BY <1>2, CancelRows
<1>3. CASE \E t \in Tasks : Take(t)
  <2> PICK t \in Tasks : Take(t)
    BY <1>3
  <2> QED BY <1>1, TakeDoes DEF RowStep, AcceptInv, AcceptOK
<1>4. CASE \E t \in Tasks : Send(t)
  <2> PICK t \in Tasks : Send(t)
    BY <1>4
  <2>1. Dispatch(t) /\ accept[t].pc # "new"
    BY DEF Send, AcceptInv, NewOK
  <2> QED BY <1>1, <2>1, DispatchDoes DEF RowStep, Standing
<1>5. CASE \E s \in Rounds, t \in Tasks : Unclaim(s, t) \/ Rescue(s, t)
  <2> PICK s \in Rounds, t \in Tasks : Unclaim(s, t) \/ Rescue(s, t)
    BY <1>5
  <2>1. \A o \in Tasks \ {t} : row'[o] = row[o]
    BY <1>1, UnclaimRows, RescueRows DEF Touches
  <2>2. row'[t] = row[t] \/ (row[t].state # "none" /\ row'[t].due = row[t].due /\ row'[t].updated = now)
    BY <1>1, UnclaimRows, RescueRows DEF Touches
  <2> QED BY <2>1, <2>2 DEF RowStep, AcceptInv, AcceptOK
<1>6. CASE \E s \in Rounds, t \in Tasks : RescueSend(s, t)
  <2> PICK s \in Rounds, t \in Tasks : RescueSend(s, t)
    BY <1>6
  <2>1. Dispatch(t) /\ accept[t].pc # "new"
    BY DEF RescueSend, AcceptInv, NewOK
  <2> QED BY <1>1, <2>1, DispatchDoes DEF RowStep, Standing
<1>7. CASE UNCHANGED row
  BY <1>7 DEF RowStep
<1> QED BY <1>2, <1>3, <1>4, <1>5, <1>6, <1>7
       DEF Quiet, Leave, Fire, SkipRound, StartRound, EndRound, RoundDies

LEMMA QuietFrame ==
  ASSUME WindowOK, Quiet
  PROVE  UNCHANGED <<now, accept, joined, full>> /\ Shrinks
<1>1. UNCHANGED <<index, deadline, stale, past>> => Shrinks
  BY DEF WindowOK, Shrinks
<1>2. ASSUME NEW t \in Tasks, Cancel(t) \/ Leave(t) \/ Take(t) \/ Send(t)
      PROVE  UNCHANGED <<now, accept, joined, full>> /\ Shrinks
  BY <1>1, <1>2, LeftShrinks DEF Cancel, Leave, Take, Send, batch
<1>3. ASSUME NEW m \in trig, Fire(m)
      PROVE  UNCHANGED <<now, accept, joined, full>> /\ Shrinks
  BY <1>3, ClaimedShrinks DEF Fire
<1>4. ASSUME SkipRound
      PROVE  UNCHANGED <<now, accept, joined, full>> /\ Shrinks
  BY <1>1, <1>4 DEF SkipRound, batch
<1>5. ASSUME NEW s \in Rounds, StartRound(s) \/ EndRound(s) \/ RoundDies(s)
      PROVE  UNCHANGED <<now, accept, joined, full>> /\ Shrinks
  BY <1>1, <1>5 DEF StartRound, EndRound, RoundDies, batch
<1>6. ASSUME NEW s \in Rounds, NEW t \in Tasks, Unclaim(s, t) \/ Rescue(s, t) \/ RescueSend(s, t)
      PROVE  UNCHANGED <<now, accept, joined, full>> /\ Shrinks
  BY <1>1, <1>6 DEF Unclaim, Rescue, RescueSend, batch
<1> QED BY <1>2, <1>3, <1>4, <1>5, <1>6 DEF Quiet

LEMMA QuietWindow ==
  ASSUME ShapeOK, AcceptInv, WindowOK, Quiet
  PROVE  WindowOK' /\ \A t \in Tasks : AcceptOK(t)'
<1>1. UNCHANGED <<now, accept, joined>> /\ Shrinks /\ \A t \in Tasks : RowStep(t)
  BY QuietRows, QuietFrame
<1>2. index \subseteq Tasks
  BY DEF ShapeOK, RestOK
<1>3. WindowOK'
  <2>1. (index = {} <=> deadline = None)'
    BY <1>1 DEF WindowOK, Shrinks, EndWindow
  <2>2. \A t \in index' : row'[t].due = row[t].due /\ deadline' = deadline /\ t \in index
    BY <1>1, <1>2 DEF Shrinks, RowStep
  <2>3. \A t \in stale' : joined'[t] # 0
    BY <1>1 DEF WindowOK, Shrinks, EndWindow
  <2> QED BY <1>1, <2>1, <2>2, <2>3 DEF WindowOK
<1>4. ASSUME NEW t \in Tasks
      PROVE  AcceptOK(t)'
  <2>1. AcceptOK(t) /\ RowStep(t) /\ index' \subseteq index
    BY <1>1 DEF AcceptInv, Shrinks
  <2> QED BY <1>1, <2>1 DEF AcceptOK, RowStep, Accepting, Standing
<1> QED BY <1>3, <1>4

\* The other tasks do not notice an acceptance.
LEMMA OthersKeep ==
  ASSUME NEW t, AcceptOK(t), UNCHANGED <<now, row[t], accept[t], joined[t]>>,
         t \in index' => t \in index
  PROVE  AcceptOK(t)'
  BY DEF AcceptOK, Accepting, Standing

LEMMA CreateKeeps ==
  ASSUME ShapeOK, AcceptInv, WindowOK, NEW t \in Tasks, Create(t)
  PROVE  WindowOK' /\ \A o \in Tasks : AcceptOK(o)'
<1>1. /\ AcceptTo(t, "join") /\ SetState(t, "waiting") /\ "waiting" \in States
      /\ UNCHANGED <<now, joined, index, deadline, stale>>
      /\ accept[t].pc = "new" /\ now <= LastArrival
  BY DEF Create, States, batch
<1>2. RowsOK /\ AcceptsOK /\ now \in Times
  BY DEF ShapeOK, RestOK
<1>3. /\ \A o \in Tasks \ {t} : row'[o] = row[o] /\ accept'[o] = accept[o]
      /\ row'[t].due = row[t].due /\ row'[t].updated = now /\ accept'[t].pc = "join"
  BY <1>1, <1>2, SetStateDoes, AcceptDoes
<1>4. AcceptOK(t)'
  BY <1>1, <1>3 DEF AcceptInv, AcceptOK, Accepting, Standing
<1>5. \A o \in Tasks \ {t} : AcceptOK(o)'
  BY <1>1, <1>3, OthersKeep DEF AcceptInv
<1>6. t \notin index /\ index \subseteq Tasks
  BY <1>1 DEF AcceptInv, AcceptOK, ShapeOK, RestOK
<1>7. WindowOK'
  BY <1>1, <1>3, <1>6 DEF WindowOK
<1> QED BY <1>4, <1>5, <1>7

LEMMA JoinKeeps ==
  ASSUME ShapeOK, AcceptInv, WindowOK, NEW t \in Tasks, Join(t)
  PROVE  WindowOK' /\ \A o \in Tasks : AcceptOK(o)'
<1>1. /\ accept[t].pc = "join" /\ now <= LastArrival
      /\ UNCHANGED <<now, row, stale>> /\ index' = index \cup {t} /\ deadline' = FirstDeadline
  BY DEF Join, AcceptInv, AcceptOK, Accepting
<1>2. AcceptsOK /\ RestOK /\ now \in Nat /\ Wait \in Nat \ {0} /\ deadline \in Nat
  BY Bounds DEF ShapeOK, RestOK, Times, Moments
<1>3. /\ \A o \in Tasks \ {t} : accept'[o] = accept[o] /\ joined'[o] = joined[o]
      /\ accept'[t].pc = "patch" /\ accept'[t].due = deadline' /\ joined'[t] = now
      /\ accept'[t].wrote <=> deadline = None
  BY <1>1, <1>2, JoinDoes
<1>4. AcceptOK(t) /\ index \subseteq Tasks /\ \A o \in index : AcceptOK(o)
  BY <1>2 DEF AcceptInv, RestOK
<1>5. deadline' # None /\ deadline' <= now + Wait /\ (deadline # None => deadline' = deadline)
  <2>1. CASE deadline = None
    BY <1>1, <1>2, <2>1 DEF FirstDeadline, None
  <2>2. CASE deadline # None
    <3>1. PICK o \in index : deadline <= joined[o] + Wait
      BY <2>2 DEF WindowOK
    <3>2. joined[o] <= now /\ joined[o] \in Nat
      BY <1>2, <1>4, <3>1, Bounds DEF AcceptOK, RestOK
    <3> QED BY <1>1, <1>2, <2>2, <3>1, <3>2 DEF FirstDeadline
  <2> QED BY <2>1, <2>2
<1>6. row[t].due = None /\ joined[t] = 0 /\ joined[t] <= now
  BY <1>1, <1>4 DEF AcceptOK
<1>7. accept'[t].wrote => accept'[t].due = now + Wait
  BY <1>1, <1>3 DEF FirstDeadline
<1>8. AcceptOK(t)'
  BY <1>1, <1>2, <1>3, <1>4, <1>5, <1>6, <1>7 DEF AcceptOK, Accepting, Standing, None
<1>9. \A o \in Tasks \ {t} : AcceptOK(o)'
  BY <1>1, <1>3, OthersKeep DEF AcceptInv
<1>10. WindowOK'
  <2>1. (index = {} <=> deadline = None)'
    BY <1>1, <1>5
  <2>2. ASSUME NEW o \in index', o # t
        PROVE  /\ deadline' <= joined'[o] + Wait
               /\ row'[o].due # None => row'[o].due = deadline'
               /\ accept'[o].pc = "patch" => accept'[o].due = deadline'
    <3>1. o \in index /\ o \in Tasks /\ deadline # None
      BY <1>1, <1>4, <2>2 DEF WindowOK
    <3> QED BY <1>1, <1>3, <1>5, <2>2, <3>1 DEF WindowOK
  <2>3. \A o \in stale' : joined'[o] # 0
    <3>1. t \notin stale /\ stale \subseteq Tasks
      BY <1>2, <1>6 DEF WindowOK, RestOK
    <3> QED BY <1>1, <1>3, <3>1 DEF WindowOK
  <2>4. /\ deadline' <= joined'[t] + Wait
        /\ row'[t].due # None => row'[t].due = deadline'
        /\ accept'[t].pc = "patch" => accept'[t].due = deadline'
    BY <1>1, <1>3, <1>5, <1>6
  <2> QED BY <2>1, <2>2, <2>3, <2>4 DEF WindowOK
<1> QED BY <1>8, <1>9, <1>10

LEMMA PatchKeeps ==
  ASSUME ShapeOK, AcceptInv, WindowOK, NEW t \in Tasks, Patch(t)
  PROVE  WindowOK' /\ \A o \in Tasks : AcceptOK(o)'
<1>1. accept[t].pc = "patch" /\ UNCHANGED <<now, joined, index, deadline, stale>>
  BY DEF Patch, batch
<1>2. RowsOK /\ AcceptsOK /\ RestOK /\ now \in Times
  BY DEF ShapeOK, RestOK
<1>3. /\ \A o \in Tasks \ {t} : row'[o] = row[o] /\ accept'[o] = accept[o]
      /\ row'[t].state = row[t].state /\ row'[t].due = accept[t].due
      /\ Standing(t) => row'[t].updated = now
      /\ accept'[t].pc \in {"due", "size", "done"}
      /\ accept'[t].pc = "due" => accept'[t].due = accept[t].due /\ accept[t].wrote
  BY <1>2, PatchDoes, PatchAccepts
<1>4. AcceptOK(t)'
  BY <1>1, <1>3 DEF AcceptInv, AcceptOK, Accepting, Standing
<1>5. \A o \in Tasks \ {t} : AcceptOK(o)'
  BY <1>1, <1>3, OthersKeep DEF AcceptInv
<1>6. WindowOK'
  BY <1>1, <1>2, <1>3 DEF WindowOK, RestOK
<1> QED BY <1>4, <1>5, <1>6

LEMMA PublishKeeps ==
  ASSUME ShapeOK, AcceptInv, WindowOK, NEW t \in Tasks, PublishDue(t) \/ PublishSize(t)
  PROVE  WindowOK' /\ \A o \in Tasks : AcceptOK(o)'
<1>1. accept[t].pc \in {"due", "size"} /\ UNCHANGED <<now, row, joined, index, deadline, stale>>
  BY DEF PublishDue, PublishSize, batch
<1>2. AcceptsOK /\ RestOK
  BY DEF ShapeOK
<1>3. accept'[t].pc \in {"size", "done"} /\ \A o \in Tasks \ {t} : accept'[o] = accept[o]
  BY <1>2, PublishDueDoes, AcceptEnds DEF PublishSize
<1>4. AcceptOK(t)'
  BY <1>1, <1>3 DEF AcceptInv, AcceptOK, Accepting, Standing
<1>5. \A o \in Tasks \ {t} : AcceptOK(o)'
  BY <1>1, <1>3, OthersKeep DEF AcceptInv
<1>6. WindowOK'
  BY <1>1, <1>2, <1>3 DEF WindowOK, RestOK
<1> QED BY <1>4, <1>5, <1>6

LEMMA DiesKeeps ==
  ASSUME ShapeOK, AcceptInv, WindowOK, NEW t \in Tasks, AcceptDies(t)
  PROVE  WindowOK' /\ \A o \in Tasks : AcceptOK(o)'
<1>1. accept[t].pc \notin {"new", "done"} /\ UNCHANGED <<now, row, joined>> /\ AcceptTo(t, "done")
  BY DEF AcceptDies
<1>2. Shrinks
  BY LeftShrinks DEF AcceptDies, Shrinks, batch, WindowOK
<1>3. AcceptsOK /\ RestOK
  BY DEF ShapeOK
<1>4. accept'[t].pc = "done" /\ \A o \in Tasks \ {t} : accept'[o] = accept[o]
  BY <1>1, <1>3, AcceptEnds
<1>5. AcceptOK(t)'
  BY <1>1, <1>4 DEF AcceptInv, AcceptOK, Accepting, Standing
<1>6. \A o \in Tasks \ {t} : AcceptOK(o)'
  BY <1>1, <1>2, <1>4, OthersKeep DEF AcceptInv, Shrinks
<1>7. WindowOK'
  <2>1. (index = {} <=> deadline = None)'
    BY <1>2 DEF WindowOK, Shrinks, EndWindow
  <2>2. \A o \in index' : deadline' = deadline /\ o \in index /\ o \in Tasks
    BY <1>2, <1>3 DEF Shrinks, RestOK
  <2>3. \A o \in stale' : joined'[o] # 0
    BY <1>1, <1>2 DEF WindowOK, Shrinks, EndWindow
  <2>4. \A o \in index' : accept'[o].pc = "patch" => accept'[o] = accept[o]
    BY <1>4, <2>2
  <2> QED BY <1>1, <2>1, <2>2, <2>3, <2>4 DEF WindowOK
<1> QED BY <1>5, <1>6, <1>7

LEMMA TickKeeps ==
  ASSUME ShapeOK, AcceptInv, WindowOK, Tick
  PROVE  WindowOK' /\ \A o \in Tasks : AcceptOK(o)'
<1>1. /\ UNCHANGED <<row, accept, joined, index, deadline, stale>> /\ now' = now + 1
      /\ \A t \in Tasks : accept[t].pc \in {"new", "done"}
  BY DEF Tick, batch
<1>2. now \in Nat /\ joined \in [Tasks -> Nat]
  BY Bounds DEF ShapeOK, RestOK, Times
<1>3. \A o \in Tasks : AcceptOK(o)'
  BY <1>1, <1>2 DEF AcceptInv, AcceptOK, Accepting, Standing
<1> QED BY <1>1, <1>3 DEF WindowOK

\* A task comes once.
LEMMA AcceptGrows ==
  ASSUME ShapeOK, AcceptInv, WindowOK, Next, NEW t \in Tasks, accept'[t].pc = "new"
  PROVE  accept[t].pc = "new"
<1>1. AcceptsOK /\ RestOK
  BY DEF ShapeOK
<1>2. CASE \E o \in Tasks : Accepts(o)
  <2> PICK o \in Tasks : Accepts(o)
    BY <1>2
  <2>1. Join(o) => now <= LastArrival
    BY DEF Join, AcceptInv, AcceptOK, Accepting
  <2>2. accept'[o].pc # "new" /\ (o # t => accept'[t] = accept[t])
    BY <1>1, <2>1, AcceptDoes, JoinDoes, PatchAccepts, PublishDueDoes, AcceptEnds
       DEF Accepts, Create, PublishSize, AcceptDies
  <2> QED BY <2>2
<1>3. CASE Quiet \/ Tick
  BY <1>3, QuietFrame DEF AcceptInv, Tick
<1> QED BY <1>2, <1>3, NextSplits

LEMMA HandsKeep ==
  ASSUME ShapeOK, AcceptInv, Next
  PROVE  HandsOK' /\ \A t \in Tasks, s \in Rounds :
                       round'[s].claimed /\ t \in round'[s].held =>
                         row[t].state = "waiting" \/ (round[s].claimed /\ t \in round[s].held)
<1>1. RoundsOK /\ now \in Times /\ HandsOK
  BY DEF ShapeOK, RestOK, AcceptInv
<1>2. CASE \E s \in Rounds, t \in Tasks : Unclaim(s, t)
  <2> PICK s \in Rounds, t \in Tasks : Unclaim(s, t)
    BY <1>2
  <2>1. round[s].held = {}
    BY DEF Unclaim
  <2> QED BY <1>1, <2>1, UnclaimDoes DEF HandsOK
<1>3. CASE \E s \in Rounds, t \in Tasks : Rescue(s, t)
  BY <1>1, <1>3, RescueDoes DEF HandsOK
<1>4. CASE \E s \in Rounds, t \in Tasks : RescueSend(s, t)
  BY <1>1, <1>4, RescueSendDoes DEF HandsOK
<1>5. CASE \E s \in Rounds : StartRound(s)
  BY <1>1, <1>5, StartDoes DEF HandsOK
<1>6. CASE \E s \in Rounds : EndRound(s) \/ RoundDies(s)
  <2> PICK s \in Rounds : round' = [round EXCEPT ![s] = NoRound]
    BY <1>6 DEF EndRound, RoundDies
  <2>1. \A o \in Rounds \ {s} : round'[o] = round[o]
    BY <1>1 DEF RoundsOK
  <2>2. round'[s] = NoRound
    BY <1>1 DEF RoundsOK
  <2>3. ~round'[s].claimed
    BY <2>2 DEF NoRound
  <2> QED BY <1>1, <2>1, <2>3 DEF HandsOK
<1>7. CASE UNCHANGED round
  BY <1>1, <1>7 DEF HandsOK
<1>8. Next => \/ \E s \in Rounds : StartRound(s) \/ EndRound(s) \/ RoundDies(s)
              \/ \E s \in Rounds, t \in Tasks : Unclaim(s, t) \/ Rescue(s, t) \/ RescueSend(s, t)
              \/ UNCHANGED round
  BY DEF Next, Create, Join, Patch, PublishDue, PublishSize, AcceptDies, Cancel, Leave, Take,
         Send, Fire, SkipRound, Tick, sweep
<1> QED BY <1>2, <1>3, <1>4, <1>5, <1>6, <1>7, <1>8

LEMMA ClaimsKeep ==
  ASSUME ShapeOK, AcceptInv, Next, NEW t \in Tasks, work'[t].pc = "claimed"
  PROVE  work'[t] = work[t] \/ row[t].state = "waiting"
<1>1. WorkOK /\ RowsOK /\ now \in Times
  BY DEF ShapeOK, RestOK
<1>2. CASE \E o \in Tasks : Take(o)
  BY <1>1, <1>2, TakeDoes
<1>3. CASE \E o \in Tasks : Send(o)
  BY <1>1, <1>3 DEF WorkOK, Send, NoWork
<1>4. CASE \E m \in trig : Fire(m)
  BY <1>1, <1>4, FireWork
<1>5. CASE Tick
  BY <1>1, <1>5, TickWork
<1>6. CASE UNCHANGED work
  BY <1>6
<1>7. (\E o \in Tasks : Accepts(o)) => UNCHANGED work
  BY DEF Accepts, Create, Join, Patch, PublishDue, PublishSize, AcceptDies
<1>8. \A o \in Tasks : Cancel(o) \/ Leave(o) => UNCHANGED work
  BY DEF Cancel, Leave
<1>9. \A s \in Rounds : StartRound(s) \/ EndRound(s) \/ RoundDies(s) => UNCHANGED work
  BY DEF StartRound, EndRound, RoundDies
<1>10. \A s \in Rounds, o \in Tasks : Unclaim(s, o) \/ Rescue(s, o) \/ RescueSend(s, o) => UNCHANGED work
  BY DEF Unclaim, Rescue, RescueSend
<1>11. SkipRound => UNCHANGED work
  BY DEF SkipRound
<1> QED BY <1>2, <1>3, <1>4, <1>5, <1>6, <1>7, <1>8, <1>9, <1>10, <1>11, NextSplits
        DEF Quiet

LEMMA WindowKeeps ==
  ASSUME ShapeOK, AcceptInv, WindowOK, Next
  PROVE  AcceptInv' /\ WindowOK'
<1>1. WindowOK' /\ \A t \in Tasks : AcceptOK(t)'
  BY CreateKeeps, JoinKeeps, PatchKeeps, PublishKeeps, DiesKeeps, TickKeeps, QuietWindow
     DEF Next, Quiet
<1>2. ASSUME NEW t \in Tasks
      PROVE  NewOK(t)'
  <2> SUFFICES ASSUME accept'[t].pc = "new"
               PROVE  work'[t].pc # "claimed" /\
                      \A s \in Rounds : ~(round'[s].claimed /\ t \in round'[s].held)
    BY DEF NewOK
  <2>1. NewOK(t) /\ AcceptOK(t) /\ accept[t].pc = "new" /\ row[t].state # "waiting"
    BY AcceptGrows DEF AcceptInv, AcceptOK
  <2> QED BY <2>1, HandsKeep, ClaimsKeep DEF NewOK
<1> QED BY <1>1, <1>2, HandsKeep DEF AcceptInv

-------------------------------------------------------------------------------
(* The clock, the crons and the lock                                       *)

\* No round comes or goes.
SameRounds ==
  \A s \in Rounds : round'[s].pc = round[s].pc /\ round'[s].started = round[s].started

LEMMA RestSteps ==
  ASSUME ShapeOK, AcceptInv, WindowOK, Next
  PROVE  \/ SameRounds /\ UNCHANGED <<now, lock, cron>>
         \/ SkipRound \/ Tick
         \/ \E s \in Rounds : StartRound(s) \/ EndRound(s) \/ RoundDies(s)
<1>1. RoundsOK
  BY DEF ShapeOK
<1>2. ASSUME NEW t \in Tasks, Accepts(t)
      PROVE  UNCHANGED <<now, round, lock, cron>>
  BY <1>2 DEF Accepts, Create, Join, Patch, PublishDue, PublishSize, AcceptDies, sweep
<1>3. ASSUME NEW t \in Tasks, Cancel(t) \/ Leave(t) \/ Take(t) \/ Send(t)
      PROVE  UNCHANGED <<now, round, lock, cron>>
  BY <1>3 DEF Cancel, Leave, Take, Send, sweep
<1>4. ASSUME NEW m \in trig, Fire(m)
      PROVE  UNCHANGED <<now, round, lock, cron>>
  BY <1>4 DEF Fire, sweep
<1>5. ASSUME NEW s \in Rounds, NEW t \in Tasks, Unclaim(s, t) \/ Rescue(s, t) \/ RescueSend(s, t)
      PROVE  SameRounds /\ UNCHANGED <<now, lock, cron>>
  <2>1. UNCHANGED <<now, lock, cron>>
    BY <1>5 DEF Unclaim, Rescue, RescueSend
  <2> QED BY <1>1, <1>5, <2>1, UnclaimDoes, RescueDoes, RescueSendDoes DEF SameRounds
<1> QED BY <1>2, <1>3, <1>4, <1>5, NextSplits DEF Quiet, SameRounds

LEMMA ClockKeeps ==
  ASSUME ShapeOK, AcceptInv, WindowOK, ClockOK, Next
  PROVE  ClockOK'
<1>1. /\ RoundsOK /\ now \in Nat /\ cron \in Nat /\ lock.until \in Nat /\ now \in Times
      /\ {Period, LockTTL} \subseteq Nat \ {0} /\ Slow \in Nat
      /\ \A s \in Rounds : round[s].started \in Nat
  BY Bounds DEF ShapeOK, RestOK, LockOK, RoundsOK, Times
<1>2. CASE SameRounds /\ UNCHANGED <<now, lock, cron>>
  BY <1>2 DEF ClockOK, SameRounds, Active
<1>3. CASE SkipRound
  BY <1>1, <1>3 DEF ClockOK, SkipRound, Active
<1>4. CASE Tick
  <2>1. /\ now' = now + 1 /\ now < cron /\ UNCHANGED <<round, cron>>
        /\ \A s \in Rounds : Active(s) => now < round[s].started + Slow
        /\ lock' = IF lock.until <= now' THEN Unlocked ELSE lock
    BY <1>4 DEF Tick
  <2>2. now' <= cron' /\ cron' <= now' + Period
    BY <1>1, <2>1 DEF ClockOK
  <2>3. (lock' # Unlocked => now' < lock'.until) /\ lock'.until <= now' + LockTTL
    BY <1>1, <2>1 DEF ClockOK, Unlocked
  <2>4. ASSUME NEW s \in Rounds, Active(s)
        PROVE  /\ round[s].started <= now' /\ now' <= round[s].started + Slow
               /\ round[s].started + Period <= cron'
               /\ now' < round[s].started + LockTTL =>
                    lock'.by = {s} /\ lock'.until = round[s].started + LockTTL
    BY <1>1, <2>1, <2>4 DEF ClockOK
  <2> QED BY <2>1, <2>2, <2>3, <2>4 DEF ClockOK, Active
<1>5. CASE \E s \in Rounds : StartRound(s)
  <2> PICK s \in Rounds : StartRound(s)
    BY <1>5
  <2>1. /\ cron <= now /\ lock = Unlocked /\ cron' = now + Period /\ now' = now
        /\ lock' = [by |-> {s}, until |-> now + LockTTL]
    BY DEF StartRound
  <2>2. /\ \A o \in Rounds \ {s} : round'[o] = round[o]
        /\ round'[s].pc = "active" /\ round'[s].started = now
    BY <1>1, StartDoes
  <2>3. now' <= cron' /\ cron' <= now' + Period
    BY <1>1, <2>1
  <2>4. lock'.by = {s} /\ lock'.until = now + LockTTL
    BY <2>1
  <2>5. ASSUME NEW o \in Rounds \ {s}, Active(o)
        PROVE  /\ round[o].started <= now' /\ now' <= round[o].started + Slow
               /\ round[o].started + Period <= cron'
               /\ ~(now' < round[o].started + LockTTL)
    <3>1. lock.by # {o}
      BY <2>1 DEF Unlocked
    <3> QED BY <1>1, <2>1, <2>5, <3>1 DEF ClockOK
  <2> QED BY <1>1, <2>1, <2>2, <2>3, <2>4, <2>5 DEF ClockOK, Active
<1>6. CASE \E s \in Rounds : EndRound(s) \/ RoundDies(s)
  <2> PICK s \in Rounds : EndRound(s) \/ RoundDies(s)
    BY <1>6
  <2>1. /\ now' = now /\ cron' = cron /\ round' = [round EXCEPT ![s] = NoRound]
        /\ lock' = lock \/ (lock.by = {s} /\ lock' = Unlocked)
    BY DEF EndRound, RoundDies, Released
  <2>2. round'[s].pc = "idle" /\ \A o \in Rounds \ {s} : round'[o] = round[o]
    BY <1>1, <2>1, EndDoes
  <2>3. (lock' # Unlocked => now' < lock'.until) /\ lock'.until <= now' + LockTTL
    BY <1>1, <2>1 DEF ClockOK, Unlocked
  <2>4. ASSUME NEW o \in Rounds \ {s}, lock.by = {o}
        PROVE  lock' = lock
    BY <2>1, <2>4
  <2> QED BY <1>1, <2>1, <2>2, <2>3, <2>4 DEF ClockOK, Active
<1> QED BY <1>2, <1>3, <1>4, <1>5, <1>6, RestSteps

-------------------------------------------------------------------------------
(* One submission                                                          *)

SafeInv == ShapeOK /\ AcceptInv /\ WindowOK /\ ClockOK

LEMMA Numbers ==
  ASSUME SafeInv
  PROVE  /\ RowsOK /\ AcceptsOK /\ WorkOK /\ RoundsOK /\ RestOK /\ now \in Times /\ now \in Nat
         /\ cron \in Nat /\ crashes \in Nat /\ deadline \in Nat /\ past \in Nat
         /\ Grace \in Nat \ {0} /\ Wait \in Nat \ {0} /\ Period \in Nat \ {0}
         /\ LockTTL \in Nat \ {0} /\ Slow \in Nat /\ Late \in Nat
         /\ \A t \in Tasks : /\ row[t].updated \in Nat /\ row[t].due \in Nat
                             /\ work[t].since \in Nat /\ joined[t] \in Nat /\ sent[t] \in Nat
                             /\ accept[t].due \in Nat
         /\ \A s \in Rounds : round[s].started \in Nat
  BY Bounds DEF SafeInv, ShapeOK, RestOK, RowsOK, AcceptsOK, WorkOK, RoundsOK, Times, Moments

\* Nothing that matters here happens to t.
LEMMA StillOnce ==
  ASSUME NEW t, ReleaseOK(t), \A s \in Rounds : HoldOK(s, t),
         UNCHANGED <<now, row[t], sent[t], round>>,
         work'[t].pc = "claimed" => work'[t] = work[t]
  PROVE  ReleaseOK(t)' /\ \A s \in Rounds : HoldOK(s, t)'
  BY DEF ReleaseOK, HoldOK, Active

LEMMA CreateOnce ==
  ASSUME SafeInv, Once, NEW t \in Tasks, Create(t)
  PROVE  Once'
<1>1. /\ SetState(t, "waiting") /\ accept[t].pc = "new"
      /\ UNCHANGED <<now, work, round, sent>> /\ "waiting" \in States
  BY DEF Create, States, sweep
<1>2. /\ \A o \in Tasks \ {t} : row'[o] = row[o]
      /\ row'[t].state = "waiting" /\ row[t].state = "none"
      /\ work[t].pc # "claimed" /\ \A s \in Rounds : ~(round[s].claimed /\ t \in round[s].held)
  BY <1>1, Numbers, SetStateDoes DEF SafeInv, AcceptInv, AcceptOK, NewOK
<1>3. ReleaseOK(t)' /\ \A s \in Rounds : HoldOK(s, t)'
  BY <1>1, <1>2 DEF Once, ReleaseOK, HoldOK, Active
<1>4. \A o \in Tasks \ {t} : ReleaseOK(o)' /\ \A s \in Rounds : HoldOK(s, o)'
  BY <1>1, <1>2, StillOnce DEF Once
<1> QED BY <1>1, <1>3, <1>4 DEF Once, Alone, Active

\* The clock stands still since the task has come.
LEMMA PatchOnce ==
  ASSUME SafeInv, Once, NEW t \in Tasks, Patch(t)
  PROVE  Once'
<1>1. accept[t].pc = "patch" /\ UNCHANGED <<now, work, round, sent>>
  BY DEF Patch, sweep
<1>2. /\ \A o \in Tasks \ {t} : row'[o] = row[o]
      /\ row'[t].state = row[t].state /\ row'[t].updated = IF Standing(t) THEN now ELSE 0
      /\ Standing(t) => row[t].updated = now
  BY <1>1, Numbers, PatchDoes DEF SafeInv, AcceptInv, AcceptOK, Accepting
<1>3. \A s \in Rounds : Active(s) => round[s].started <= now
  BY DEF SafeInv, ClockOK
<1>4. ReleaseOK(t)' /\ \A s \in Rounds : HoldOK(s, t)'
  BY <1>1, <1>2, <1>3, Numbers DEF Once, ReleaseOK, HoldOK, Active, Standing
<1>5. \A o \in Tasks \ {t} : ReleaseOK(o)' /\ \A s \in Rounds : HoldOK(s, o)'
  BY <1>1, <1>2, StillOnce DEF Once
<1> QED BY <1>1, <1>4, <1>5 DEF Once, Alone, Active

LEMMA CancelOnce ==
  ASSUME SafeInv, Once, NEW t \in Tasks, Cancel(t)
  PROVE  Once'
<1>1. row[t].state \in {"waiting", "releasing"} /\ UNCHANGED <<now, work, round, sent>>
  BY DEF Cancel, sweep
<1>2. row'[t].state = "canceled" /\ \A o \in Tasks \ {t} : row'[o] = row[o]
  BY CancelRows DEF SafeInv
<1>3. ReleaseOK(t)' /\ \A s \in Rounds : HoldOK(s, t)'
  BY <1>1, <1>2 DEF Once, ReleaseOK, HoldOK, Active
<1>4. \A o \in Tasks \ {t} : ReleaseOK(o)' /\ \A s \in Rounds : HoldOK(s, o)'
  BY <1>1, <1>2, StillOnce DEF Once
<1> QED BY <1>1, <1>3, <1>4 DEF Once, Alone, Active

LEMMA TakeOnce ==
  ASSUME SafeInv, Once, NEW t \in Tasks, Take(t)
  PROVE  Once'
<1>1. UNCHANGED <<now, round, sent>>
  BY DEF Take, sweep
<1>2. \A o \in Tasks \ {t} : row'[o] = row[o] /\ work'[o] = work[o]
  BY Numbers, TakeDoes
<1>3. ReleaseOK(t)' /\ \A s \in Rounds : HoldOK(s, t)'
  BY <1>1, Numbers, TakeDoes DEF Once, ReleaseOK, HoldOK, Active
<1>4. \A o \in Tasks \ {t} : ReleaseOK(o)' /\ \A s \in Rounds : HoldOK(s, o)'
  BY <1>1, <1>2, StillOnce DEF Once
<1> QED BY <1>1, <1>3, <1>4 DEF Once, Alone, Active

LEMMA SendOnce ==
  ASSUME SafeInv, Once, NEW t \in Tasks, Send(t)
  PROVE  Once'
<1>1. /\ work[t].pc = "claimed" /\ now < work[t].since + Grace /\ Dispatch(t)
      /\ work' = [work EXCEPT ![t] = NoWork] /\ UNCHANGED <<now, round>>
  BY DEF Send, sweep
<1>2. work'[t].pc = "no" /\ \A o \in Tasks \ {t} : work'[o] = work[o]
  BY <1>1, Numbers DEF WorkOK, NoWork
<1>3. \A o \in Tasks \ {t} : row'[o] = row[o] /\ sent'[o] = sent[o]
  BY <1>1, Numbers, DispatchDoes
<1>4. /\ row[t].state = "canceled" => row' = row /\ sent' = sent
      /\ row[t].state # "canceled" => row'[t].state = "released" /\ sent'[t] = sent[t] + 1
  BY <1>1, Numbers, DispatchDoes
<1>5. \A s \in Rounds : Active(s) => round[s].started <= now
  BY DEF SafeInv, ClockOK
<1>6. ReleaseOK(t)' /\ \A s \in Rounds : HoldOK(s, t)'
  BY <1>1, <1>2, <1>4, <1>5, Numbers DEF Once, ReleaseOK, HoldOK, Active
<1>7. \A o \in Tasks \ {t} : ReleaseOK(o)' /\ \A s \in Rounds : HoldOK(s, o)'
  BY <1>1, <1>2, <1>3, StillOnce DEF Once
<1> QED BY <1>1, <1>6, <1>7 DEF Once, Alone, Active

\* A round that starts while another runs makes an overlap.
LEMMA StartOnce ==
  ASSUME SafeInv, Once, NEW s \in Rounds, StartRound(s), ~overlap'
  PROVE  Once'
<1>1. UNCHANGED <<now, row, work, sent>> /\ \A o \in Rounds : ~Active(o)
  BY DEF StartRound
<1>2. /\ \A o \in Rounds \ {s} : round'[o] = round[o]
      /\ round'[s].started = now /\ round'[s].stuck = {t \in Tasks : Stuck(t)}
      /\ round'[s].held = {} /\ ~round'[s].claimed
  BY Numbers, StartDoes
<1>3. Alone'
  BY <1>1, <1>2 DEF Alone, Active
<1>4. ASSUME NEW t \in Tasks
      PROVE  ReleaseOK(t)' /\ \A o \in Rounds : HoldOK(o, t)'
  <2>1. ReleaseOK(t)'
    BY <1>1 DEF Once, ReleaseOK
  <2>2. HoldOK(s, t)'
    BY <1>1, <1>2 DEF HoldOK, Active, Stuck
  <2>3. \A o \in Rounds \ {s} : HoldOK(o, t)'
    BY <1>1, <1>2 DEF HoldOK, Active
  <2> QED BY <2>1, <2>2, <2>3
<1> QED BY <1>3, <1>4 DEF Once

LEMMA EndOnce ==
  ASSUME SafeInv, Once, NEW s \in Rounds, EndRound(s) \/ RoundDies(s)
  PROVE  Once'
<1>1. UNCHANGED <<now, row, work, sent>> /\ round' = [round EXCEPT ![s] = NoRound]
  BY DEF EndRound, RoundDies
<1>2. round'[s].pc = "idle" /\ \A o \in Rounds \ {s} : round'[o] = round[o]
  BY <1>1, Numbers, EndDoes
<1> QED BY <1>1, <1>2 DEF Once, Alone, ReleaseOK, HoldOK, Active

\* Other rounds are not about.
LEMMA OtherRounds ==
  ASSUME Once, NEW s \in Rounds, Active(s), \A o \in Rounds \ {s} : round'[o] = round[o]
  PROVE  Alone' /\ \A o \in Rounds \ {s}, t \in Tasks : HoldOK(o, t)'
<1>1. \A o \in Rounds \ {s} : ~Active(o)
  BY DEF Once, Alone
<1> QED BY <1>1 DEF Alone, HoldOK, Active

LEMMA UnclaimOnce ==
  ASSUME SafeInv, Once, NEW s \in Rounds, NEW t \in Tasks, Unclaim(s, t)
  PROVE  Once'
<1>1. /\ Active(s) /\ round[s].held = {} /\ t \in round[s].stuck
      /\ UNCHANGED <<now, work, sent>>
  BY DEF Unclaim
<1>2. /\ \A o \in Tasks \ {t} : row'[o] = row[o]
      /\ row[t].state = "releasing" => row'[t].state = "waiting"
      /\ row[t].state # "releasing" => row' = row
  BY Numbers, UnclaimRows DEF Touches
<1>3. /\ \A o \in Rounds \ {s} : round'[o] = round[o]
      /\ round'[s].pc = round[s].pc /\ round'[s].started = round[s].started
      /\ round'[s].stuck = round[s].stuck \ {t} /\ round'[s].held = {t} /\ ~round'[s].claimed
  BY <1>1, Numbers, UnclaimDoes DEF SafeInv, AcceptInv, HandsOK
<1>4. round[s].started <= now
  BY <1>1 DEF SafeInv, ClockOK
<1>5. ReleaseOK(t)'
  BY <1>1, <1>2, <1>4, Numbers DEF Once, ReleaseOK, HoldOK
<1>6. \A o \in Tasks \ {t} : ReleaseOK(o)'
  BY <1>1, <1>2 DEF Once, ReleaseOK
<1>7. \A o \in Tasks : HoldOK(s, o)'
  BY <1>1, <1>2, <1>3 DEF Once, HoldOK, Active
<1> QED BY <1>1, <1>3, <1>5, <1>6, <1>7, OtherRounds DEF Once

LEMMA RescueOnce ==
  ASSUME SafeInv, Once, NEW s \in Rounds, NEW t \in Tasks, Rescue(s, t)
  PROVE  Once'
<1>1. /\ Active(s) /\ ~round[s].claimed
      /\ t \in round[s].todo \ round[s].stuck \/ t \in round[s].held
      /\ UNCHANGED <<now, work, sent>>
  BY DEF Rescue
<1>2. /\ \A o \in Tasks \ {t} : row'[o] = row[o]
      /\ row[t].state = "waiting" => row'[t].state = "releasing" /\ row'[t].updated = now
      /\ row[t].state # "waiting" => row' = row
  BY Numbers, RescueRows DEF Touches
<1>3. /\ \A o \in Rounds \ {s} : round'[o] = round[o]
      /\ round'[s].pc = round[s].pc /\ round'[s].started = round[s].started
      /\ round'[s].stuck = round[s].stuck
      /\ row[t].state = "waiting" => round'[s].held = {t} /\ round'[s].claimed
      /\ row[t].state # "waiting" => round'[s].held = {} /\ ~round'[s].claimed
  BY Numbers, RescueDoes
<1>4. t \notin round[s].stuck
  BY <1>1 DEF Once, HoldOK
<1>5. \A o \in Tasks : ReleaseOK(o)'
  BY <1>1, <1>2 DEF Once, ReleaseOK
<1>6. \A o \in Tasks \ {t} : HoldOK(s, o)'
  BY <1>1, <1>2, <1>3 DEF Once, HoldOK, Active
<1>7. HoldOK(s, t)'
  BY <1>1, <1>2, <1>3, <1>4 DEF Once, ReleaseOK, HoldOK, Active
<1> QED BY <1>1, <1>3, <1>5, <1>6, <1>7, OtherRounds DEF Once

LEMMA RescueSendOnce ==
  ASSUME SafeInv, Once, NEW s \in Rounds, NEW t \in Tasks, RescueSend(s, t)
  PROVE  Once'
<1>1. /\ Active(s) /\ round[s].claimed /\ t \in round[s].held /\ Dispatch(t)
      /\ UNCHANGED <<now, work>>
  BY DEF RescueSend
<1>2. \A o \in Tasks \ {t} : row'[o] = row[o] /\ sent'[o] = sent[o]
  BY <1>1, Numbers, DispatchDoes
<1>3. /\ row[t].state = "canceled" => row' = row /\ sent' = sent
      /\ row[t].state # "canceled" => row'[t].state = "released" /\ sent'[t] = sent[t] + 1
  BY <1>1, Numbers, DispatchDoes
<1>4. /\ \A o \in Rounds \ {s} : round'[o] = round[o]
      /\ round'[s].pc = round[s].pc /\ round'[s].started = round[s].started
      /\ round'[s].stuck = round[s].stuck /\ round'[s].held = {} /\ ~round'[s].claimed
  BY Numbers, RescueSendDoes
<1>5. work[t].pc # "claimed" /\ row[t].state \in {"releasing", "canceled"} /\ t \notin round[s].stuck
  BY <1>1 DEF Once, HoldOK
<1>6. ReleaseOK(t)'
  BY <1>1, <1>3, <1>5, Numbers DEF Once, ReleaseOK
<1>7. \A o \in Tasks \ {t} : ReleaseOK(o)'
  BY <1>1, <1>2 DEF Once, ReleaseOK
<1>8. \A o \in Tasks : HoldOK(s, o)'
  BY <1>1, <1>2, <1>4, <1>5 DEF Once, HoldOK, Active
<1> QED BY <1>1, <1>4, <1>6, <1>7, <1>8, OtherRounds DEF Once

LEMMA OtherOnce ==
  ASSUME SafeInv, Once, UNCHANGED <<now, row, round, sent>>,
         \A t \in Tasks : work'[t].pc = "claimed" => work'[t] = work[t]
  PROVE  Once'
  BY StillOnce DEF Once, Alone, Active

LEMMA TickOnce ==
  ASSUME SafeInv, Once, Tick
  PROVE  Once'
<1>1. UNCHANGED <<row, round, sent>>
  BY DEF Tick
<1>2. ASSUME NEW t \in Tasks, work'[t].pc = "claimed"
      PROVE  work'[t] = work[t] /\ now' < work[t].since + Grace
  BY <1>2, Numbers, TickWork
<1> QED BY <1>1, <1>2 DEF Once, Alone, ReleaseOK, HoldOK, Active

LEMMA SentKeeps ==
  ASSUME SafeInv, SentOK, Next
  PROVE  SentOK'
<1>1. overlap => overlap'
  <2>1. UNCHANGED overlap \/ \E s \in Rounds : StartRound(s)
    <3>1. \A t \in Tasks : Accepts(t) => UNCHANGED overlap
      BY DEF Accepts, Create, Join, Patch, PublishDue, PublishSize, AcceptDies, sweep
    <3>2. \A t \in Tasks : Cancel(t) \/ Leave(t) \/ Take(t) \/ Send(t) => UNCHANGED overlap
      BY DEF Cancel, Leave, Take, Send, sweep
    <3>3. \A m \in trig : Fire(m) => UNCHANGED overlap
      BY DEF Fire, sweep
    <3>4. \A s \in Rounds : EndRound(s) \/ RoundDies(s) => UNCHANGED overlap
      BY DEF EndRound, RoundDies
    <3>5. \A s \in Rounds, t \in Tasks :
            Unclaim(s, t) \/ Rescue(s, t) \/ RescueSend(s, t) => UNCHANGED overlap
      BY DEF Unclaim, Rescue, RescueSend
    <3>6. SkipRound \/ Tick => UNCHANGED overlap
      BY DEF SkipRound, Tick
    <3> QED BY <3>1, <3>2, <3>3, <3>4, <3>5, <3>6, NextSplits DEF Quiet
  <2> QED BY <2>1 DEF StartRound
<1> SUFFICES ASSUME ~overlap' PROVE Once'
  BY DEF SentOK
<1>2. Once
  BY <1>1 DEF SentOK
<1>3. ASSUME NEW t \in Tasks, Accepts(t)
      PROVE  Once'
  <2>1. CASE Join(t) \/ PublishDue(t) \/ PublishSize(t) \/ AcceptDies(t)
    <3>1. UNCHANGED <<now, row, work, round, sent>>
      BY <2>1 DEF Join, PublishDue, PublishSize, AcceptDies, sweep
    <3> QED BY <1>2, <3>1, OtherOnce
  <2> QED BY <1>2, <1>3, <2>1, CreateOnce, PatchOnce DEF Accepts
<1>4. ASSUME NEW t \in Tasks, Leave(t)
      PROVE  Once'
  BY <1>2, <1>4, OtherOnce DEF Leave, sweep
<1>5. ASSUME NEW m \in trig, Fire(m)
      PROVE  Once'
  <2>1. UNCHANGED <<now, row, round, sent>>
    BY <1>5 DEF Fire, sweep
  <2> QED BY <1>2, <1>5, <2>1, Numbers, FireWork, OtherOnce
<1>6. CASE SkipRound
  BY <1>2, <1>6, OtherOnce DEF SkipRound
<1> QED BY <1>2, <1>3, <1>4, <1>5, <1>6, CancelOnce, TakeOnce, SendOnce, StartOnce, EndOnce,
           UnclaimOnce, RescueOnce, RescueSendOnce, TickOnce, NextSplits DEF Quiet

-------------------------------------------------------------------------------
(* The triggers of a window                                                *)

\* What is armed stays so while the window lasts and nothing is lost.
LEMMA StaysArmed ==
  ASSUME Armed, UNCHANGED <<deadline, stale>>, trig \subseteq trig',
         \A t \in Tasks : Announced(t) => Announced(t)' /\ accept'[t].due = accept[t].due
  PROVE  Armed'
  BY DEF Armed

LEMMA AcceptsArmed ==
  ASSUME SafeInv, ArmedOK, NEW t \in Tasks, Accepts(t)
  PROVE  ArmedOK'
<1> SUFFICES ASSUME deadline' # None, now' <= deadline' + Late, crashes' = 0 PROVE Armed'
  BY DEF ArmedOK
<1>1. RowsOK /\ AcceptsOK /\ RestOK /\ now \in Nat /\ crashes \in Nat /\ Wait \in Nat \ {0}
  BY Numbers
<1>2. CASE Create(t)
  <2>1. /\ accept[t].pc = "new" /\ AcceptTo(t, "join")
        /\ UNCHANGED <<now, deadline, stale, trig, crashes>>
    BY <1>2 DEF Create, batch
  <2>2. \A o \in Tasks : Announced(o) => accept'[o] = accept[o]
    BY <1>1, <2>1, AcceptDoes DEF Announced
  <2> QED BY <2>1, <2>2, StaysArmed DEF ArmedOK, Announced
<1>3. CASE Join(t)
  <2>1. /\ accept[t].pc = "join" /\ now <= LastArrival /\ t \notin index /\ joined[t] = 0
        /\ UNCHANGED <<now, stale, trig, crashes>> /\ t \notin stale
    BY <1>3 DEF Join, SafeInv, AcceptInv, AcceptOK, Accepting, WindowOK
  <2>2. /\ \A o \in Tasks \ {t} : accept'[o] = accept[o]
        /\ accept'[t].pc = "patch" /\ accept'[t].due = deadline'
        /\ accept'[t].wrote <=> deadline = None
        /\ deadline' = FirstDeadline
    BY <1>1, <1>3, <2>1, JoinDoes
  <2>3. CASE deadline = None
    BY <2>1, <2>2, <2>3 DEF Armed, Announced
  <2>4. CASE deadline # None
    <3>1. deadline' = deadline
      BY <2>2, <2>4 DEF FirstDeadline
    <3>2. \A o \in Tasks : Announced(o) => accept'[o] = accept[o]
      BY <2>1, <2>2 DEF Announced
    <3> QED BY <2>1, <3>1, <3>2, StaysArmed DEF ArmedOK, Announced
  <2> QED BY <2>3, <2>4
<1>4. CASE Patch(t)
  <2>1. accept[t].pc = "patch" /\ UNCHANGED <<now, deadline, stale, trig, crashes>>
    BY <1>4 DEF Patch, batch
  <2>2. \A o \in Tasks : Announced(o) => Announced(o)' /\ accept'[o].due = accept[o].due
    BY <1>1, <1>4, <2>1, PatchAccepts DEF Announced
  <2> QED BY <2>1, <2>2, StaysArmed DEF ArmedOK
<1>5. CASE PublishDue(t)
  <2> DEFINE m == [by |-> t, kind |-> "due", at |-> RunAt(accept[t].due)]
  <2>1. accept[t].pc = "due" /\ UNCHANGED <<now, deadline, stale>>
    BY <1>5 DEF PublishDue, batch
  <2>2. trig' = trig \cup {m} /\ UNCHANGED crashes
    BY <1>1, <1>5 DEF PublishDue, Crashing
  <2>3. \A o \in Tasks \ {t} : accept'[o] = accept[o]
    BY <1>1, <1>5, PublishDueDoes
  <2>4. m \in trig' /\ m.kind = "due" /\ m.by = t /\ m.at = RunAt(accept[t].due)
    BY <2>2
  <2>5. Armed
    BY <2>1, <2>2 DEF ArmedOK
  <2>6. CASE \E e \in trig : e.kind = "due" /\ e.by \notin stale /\ e.at = deadline
    BY <2>1, <2>2, <2>6 DEF Armed
  <2>7. CASE \E o \in Tasks \ {t} : Announced(o) /\ o \notin stale /\ accept[o].due = deadline
    BY <2>1, <2>3, <2>7 DEF Armed, Announced
  <2>8. CASE Announced(t) /\ t \notin stale /\ accept[t].due = deadline
    <3>1. accept[t].due = now + Wait
      BY <2>1, <2>8 DEF SafeInv, AcceptInv, AcceptOK, Announced
    <3>2. RunAt(accept[t].due) = deadline
      BY <1>1, <2>8, <3>1 DEF RunAt
    <3> HIDE DEF m
    <3> QED BY <2>1, <2>4, <2>8, <3>2 DEF Armed
  <2> QED BY <2>5, <2>6, <2>7, <2>8 DEF Armed
<1>6. CASE PublishSize(t)
  <2>1. /\ accept[t].pc = "size" /\ AcceptTo(t, "done") /\ trig \subseteq trig'
        /\ UNCHANGED <<now, deadline, stale, crashes>>
    BY <1>6 DEF PublishSize, batch
  <2>2. \A o \in Tasks : Announced(o) => accept'[o] = accept[o]
    BY <1>1, <2>1, AcceptEnds DEF Announced
  <2> QED BY <2>1, <2>2, StaysArmed DEF ArmedOK, Announced
<1>7. CASE AcceptDies(t)
  BY <1>1, <1>7 DEF AcceptDies, Crashing
<1> QED BY <1>2, <1>3, <1>4, <1>5, <1>6, <1>7 DEF Accepts

\* No step but a trigger's takes a trigger away, and none gives back a crash.
LEMMA QuietTriggers ==
  ASSUME Quiet, crashes \in Nat
  PROVE  /\ crashes' >= crashes
         /\ UNCHANGED trig \/ (trig' \subseteq trig /\ Claimed)
<1>1. \A t \in Tasks : Cancel(t) \/ Leave(t) \/ Take(t) \/ Send(t) => UNCHANGED <<crashes, trig>>
  BY DEF Cancel, Leave, Take, Send
<1>2. \A m \in trig : Fire(m) => UNCHANGED crashes /\ trig' \subseteq trig /\ Claimed
  BY DEF Fire
<1>3. SkipRound => UNCHANGED <<crashes, trig>>
  BY DEF SkipRound
<1>4. \A s \in Rounds : StartRound(s) \/ EndRound(s) => UNCHANGED <<crashes, trig>>
  BY DEF StartRound, EndRound
<1>5. \A s \in Rounds : RoundDies(s) => crashes' = crashes + 1 /\ UNCHANGED trig
  BY DEF RoundDies, Crashing
<1>6. \A s \in Rounds, t \in Tasks :
        Unclaim(s, t) \/ Rescue(s, t) \/ RescueSend(s, t) => UNCHANGED <<crashes, trig>>
  BY DEF Unclaim, Rescue, RescueSend
<1> QED BY <1>1, <1>2, <1>3, <1>4, <1>5, <1>6 DEF Quiet

LEMMA ArmedKeeps ==
  ASSUME SafeInv, ArmedOK, Next
  PROVE  ArmedOK'
<1>1. CASE Quiet
  <2> SUFFICES ASSUME deadline' # None, now' <= deadline' + Late, crashes' = 0 PROVE Armed'
    BY DEF ArmedOK
  <2>1. UNCHANGED <<now, accept>> /\ Shrinks
    BY <1>1, QuietFrame DEF SafeInv
  <2>2. UNCHANGED <<deadline, stale>> /\ deadline # None
    BY <2>1 DEF Shrinks, EndWindow
  <2>3. crashes = 0 /\ UNCHANGED trig
    BY <1>1, <2>2, Numbers, QuietTriggers DEF Claimed, EndWindow
  <2> QED BY <2>1, <2>2, <2>3, StaysArmed DEF ArmedOK, Announced
<1>2. CASE Tick
  <2>1. /\ UNCHANGED <<accept, deadline, stale, crashes>> /\ now' = now + 1
        /\ trig' = {m \in trig : now' <= m.at + Late}
    BY <1>2 DEF Tick, batch
  <2>2. now <= now' /\ (now' <= deadline + Late => now <= deadline + Late)
    BY <2>1, Numbers
  <2> QED BY <2>1, <2>2 DEF ArmedOK, Armed, Announced
<1> QED BY <1>1, <1>2, AcceptsArmed, NextSplits

-------------------------------------------------------------------------------
(* Early releases                                                          *)

\* A deadline that ends with its window has passed with it.
LEMMA KnownStays ==
  ASSUME SafeInv, Shrinks
  PROVE  Known \subseteq Known'
<1>1. deadline \in Nat /\ past \in Nat
  BY Numbers
<1> QED BY <1>1 DEF Shrinks, EndWindow, Known

\* All that t can do to what is known.
LEMMA OthersEarly ==
  ASSUME EarlyOK, NEW t \in Tasks, full => full', trig' \subseteq trig,
         Known \subseteq Known',
         \A o \in Tasks \ {t} : accept'[o] = accept[o],
         Announced(t)' => accept'[t].due \in Known',
         accept'[t].pc = "due" => accept'[t].wrote,
         accept'[t].pc = "size" => accept'[t].full, accept'[t].full => full'
  PROVE  EarlyOK'
<1>1. ASSUME NEW m \in trig'
      PROVE  IF m.kind = "size" THEN full' ELSE m.at \in Known'
  BY DEF EarlyOK
<1>2. ASSUME NEW o \in Tasks
      PROVE  /\ Announced(o)' => accept'[o].due \in Known'
             /\ accept'[o].pc = "due" => accept'[o].wrote
             /\ accept'[o].pc = "size" => accept'[o].full
             /\ accept'[o].full => full'
  <2>1. CASE o = t
    BY <2>1
  <2>2. CASE o # t
    BY <2>2 DEF EarlyOK, Announced
  <2> QED BY <2>1, <2>2
<1> QED BY <1>1, <1>2 DEF EarlyOK

LEMMA AcceptsEarly ==
  ASSUME SafeInv, EarlyOK, NEW t \in Tasks, Accepts(t)
  PROVE  EarlyOK'
<1>1. /\ AcceptsOK /\ RestOK /\ now \in Nat /\ Wait \in Nat \ {0} /\ deadline \in Nat
      /\ \A o \in Tasks : accept[o].due \in Nat
  BY Numbers
<1>2. \A m \in trig : m.at \in Nat
  BY <1>1 DEF RestOK
<1>3. UNCHANGED <<deadline, past>> => Known \subseteq Known'
  BY DEF Known
<1>4. CASE Create(t)
  <2>1. AcceptTo(t, "join") /\ UNCHANGED <<deadline, past, trig, full>>
    BY <1>4 DEF Create, batch
  <2>2. /\ \A o \in Tasks \ {t} : accept'[o] = accept[o]
        /\ accept'[t].pc = "join" /\ accept'[t].full = accept[t].full
    BY <1>1, <2>1, AcceptDoes
  <2>3. accept'[t].full => full'
    BY <2>1, <2>2 DEF EarlyOK
  <2>4. ~Announced(t)'
    BY <2>2 DEF Announced
  <2> QED BY <1>1, <1>2, <1>3, <2>1, <2>2, <2>3, <2>4, OthersEarly
<1>5. CASE Join(t)
  <2>1. now <= LastArrival /\ UNCHANGED <<past, trig>> /\ (full => full')
    BY <1>5 DEF Join, SafeInv, AcceptInv, AcceptOK, Accepting
  <2>2. /\ \A o \in Tasks \ {t} : accept'[o] = accept[o]
        /\ accept'[t].pc = "patch" /\ accept'[t].due = deadline'
        /\ accept'[t].full => full'
        /\ deadline' = FirstDeadline
    BY <1>1, <1>5, <2>1, JoinDoes
  <2>3. deadline' \in Nat /\ deadline' # None /\ (deadline # None => deadline' = deadline)
    BY <1>1, <2>2 DEF FirstDeadline, None
  <2>4. Known \subseteq Known'
    BY <2>1, <2>3 DEF Known
  <2>5. Announced(t)' => accept'[t].due \in Known'
    BY <2>2, <2>3 DEF Known
  <2> QED BY <1>1, <1>2, <2>1, <2>2, <2>4, <2>5, OthersEarly
<1>6. CASE Patch(t)
  <2>1. accept[t].pc = "patch" /\ UNCHANGED <<deadline, past, trig, full>>
    BY <1>6 DEF Patch, batch
  <2>2. /\ \A o \in Tasks \ {t} : accept'[o] = accept[o]
        /\ accept'[t].pc \in {"due", "size", "done"}
        /\ accept'[t].pc = "due" <=> accept[t].wrote
        /\ accept'[t].pc # "done" => /\ accept'[t].due = accept[t].due
                                     /\ accept'[t].wrote <=> accept[t].wrote
                                     /\ accept'[t].full <=> accept[t].full
        /\ accept'[t].pc = "done" => ~accept'[t].full
        /\ accept'[t].pc = "size" => accept'[t].full
    BY <1>1, <1>6, PatchAccepts
  <2>3. accept'[t].full => full'
    BY <2>1, <2>2 DEF EarlyOK
  <2>4. Announced(t)' => Announced(t) /\ accept'[t].due = accept[t].due
    BY <2>1, <2>2 DEF Announced
  <2>5. Announced(t)' => accept'[t].due \in Known'
    BY <2>1, <2>4 DEF EarlyOK, Known
  <2> QED BY <1>1, <1>2, <1>3, <2>1, <2>2, <2>3, <2>5, OthersEarly
<1>7. CASE PublishDue(t)
  <2> DEFINE m == [by |-> t, kind |-> "due", at |-> RunAt(accept[t].due)]
  <2>1. /\ accept[t].pc = "due" /\ UNCHANGED <<deadline, past, full>>
        /\ trig' \subseteq trig \cup {m}
    BY <1>7 DEF PublishDue, batch
  <2>2. /\ \A o \in Tasks \ {t} : accept'[o] = accept[o]
        /\ accept'[t].pc \in {"size", "done"} /\ (accept'[t].full => accept[t].full)
        /\ accept'[t].pc = "size" => accept'[t].full
    BY <1>1, <1>7, PublishDueDoes
  <2>3. Announced(t)
    BY <2>1 DEF Announced, EarlyOK
  <2>4. accept[t].due = now + Wait
    BY <2>3 DEF SafeInv, AcceptInv, AcceptOK, Announced
  <2>5. m.kind = "due" /\ m.at = accept[t].due
    BY <1>1, <2>4 DEF RunAt
  <2> HIDE DEF m
  <2>6. m.at \in Known'
    BY <2>1, <2>3, <2>5 DEF EarlyOK, Known
  <2>7. ASSUME NEW e \in trig'
        PROVE  IF e.kind = "size" THEN full' ELSE e.at \in Known'
    BY <1>2, <1>3, <2>1, <2>5, <2>6 DEF EarlyOK
  <2>8. ASSUME NEW o \in Tasks
        PROVE  /\ Announced(o)' => accept'[o].due \in Known'
               /\ accept'[o].pc = "due" => accept'[o].wrote
               /\ accept'[o].pc = "size" => accept'[o].full
               /\ accept'[o].full => full'
    BY <1>1, <1>3, <2>1, <2>2 DEF EarlyOK, Announced
  <2> QED BY <2>7, <2>8 DEF EarlyOK
<1>8. CASE PublishSize(t)
  <2> DEFINE m == [by |-> t, kind |-> "size", at |-> now]
  <2>1. /\ accept[t].pc = "size" /\ UNCHANGED <<deadline, past, full>> /\ AcceptTo(t, "done")
        /\ trig' = trig \cup {m}
    BY <1>8 DEF PublishSize, batch
  <2>2. /\ \A o \in Tasks \ {t} : accept'[o] = accept[o]
        /\ accept'[t].pc = "done" /\ accept'[t].full = FALSE
    BY <1>1, <2>1, AcceptEnds
  <2>3. m.kind = "size" /\ full'
    BY <2>1 DEF EarlyOK
  <2> HIDE DEF m
  <2>4. ASSUME NEW e \in trig'
        PROVE  IF e.kind = "size" THEN full' ELSE e.at \in Known'
    BY <1>2, <1>3, <2>1, <2>3 DEF EarlyOK
  <2>5. ASSUME NEW o \in Tasks
        PROVE  /\ Announced(o)' => accept'[o].due \in Known'
               /\ accept'[o].pc = "due" => accept'[o].wrote
               /\ accept'[o].pc = "size" => accept'[o].full
               /\ accept'[o].full => full'
    BY <1>1, <1>3, <2>1, <2>2 DEF EarlyOK, Announced
  <2> QED BY <2>4, <2>5 DEF EarlyOK
<1>9. CASE AcceptDies(t)
  <2>1. AcceptTo(t, "done") /\ UNCHANGED <<trig, full>>
    BY <1>9 DEF AcceptDies
  <2>2. Shrinks
    BY <1>9, LeftShrinks DEF AcceptDies, Shrinks, batch, SafeInv, WindowOK
  <2>3. /\ \A o \in Tasks \ {t} : accept'[o] = accept[o]
        /\ accept'[t].pc = "done" /\ accept'[t].full = FALSE
    BY <1>1, <2>1, AcceptEnds
  <2>4. ~Announced(t)'
    BY <2>3 DEF Announced
  <2> QED BY <1>1, <1>2, <2>1, <2>2, <2>3, <2>4, KnownStays, OthersEarly
<1> QED BY <1>4, <1>5, <1>6, <1>7, <1>8, <1>9 DEF Accepts

LEMMA EarlyKeeps ==
  ASSUME SafeInv, EarlyOK, Next
  PROVE  EarlyOK'
<1>1. \A m \in trig : m.at \in Nat
  BY Numbers DEF RestOK
<1>2. \A o \in Tasks : accept[o].due \in Nat
  BY Numbers
<1>3. CASE Quiet
  <2>1. UNCHANGED <<accept, full>> /\ Shrinks
    BY <1>3, QuietFrame DEF SafeInv
  <2>2. trig' \subseteq trig
    BY <1>3, Numbers, QuietTriggers
  <2> QED BY <1>1, <1>2, <2>1, <2>2, KnownStays DEF EarlyOK, Announced
<1>4. CASE Tick
  <2>1. trig' \subseteq trig /\ UNCHANGED <<accept, full, deadline, past>>
    BY <1>4 DEF Tick, batch
  <2> QED BY <2>1 DEF EarlyOK, Announced, Known
<1> QED BY <1>3, <1>4, AcceptsEarly, NextSplits

\* Only a trigger wakes the workers.
LEMMA OnlyTriggersWake ==
  ASSUME SafeInv, EarlyOK, Next, index # {}, index' = {}, work' # work, now < deadline
  PROVE  full \/ (past # None /\ past <= now)
<1>1. now \in Nat /\ deadline \in Nat /\ past \in Nat /\ \A m \in trig : m.at \in Nat
  BY Numbers DEF RestOK
<1>2. CASE \E m \in trig : Fire(m)
  <2> PICK m \in trig : Fire(m)
    BY <1>2
  <2>1. m.at <= now
    BY DEF Fire
  <2> QED BY <1>1, <2>1 DEF EarlyOK, Known
<1>3. ASSUME NEW t \in Tasks, Accepts(t)
      PROVE  FALSE
  BY <1>3 DEF Accepts, Create, Join, Patch, PublishDue, PublishSize, AcceptDies
<1>4. ASSUME NEW t \in Tasks, Cancel(t) \/ Leave(t) \/ Take(t) \/ Send(t)
      PROVE  FALSE
  BY <1>4 DEF Cancel, Leave, Take, Send, batch
<1>5. ~SkipRound /\ ~Tick
  BY DEF SkipRound, Tick, batch
<1>6. ASSUME NEW s \in Rounds, StartRound(s) \/ EndRound(s) \/ RoundDies(s)
      PROVE  FALSE
  BY <1>6 DEF StartRound, EndRound, RoundDies
<1>7. ASSUME NEW s \in Rounds, NEW t \in Tasks, Unclaim(s, t) \/ Rescue(s, t) \/ RescueSend(s, t)
      PROVE  FALSE
  BY <1>7 DEF Unclaim, Rescue, RescueSend
<1> QED BY <1>2, <1>3, <1>4, <1>5, <1>6, <1>7, NextSplits DEF Quiet

-------------------------------------------------------------------------------
(* The turns of the sweep                                                  *)

\* A row that changes has been touched, or nobody waits for it any more.
LEMMA NextRows ==
  ASSUME SafeInv, Next, NEW t \in Tasks
  PROVE  row'[t] = row[t] \/ (Standing(t)' => row'[t].updated = now)
<1>1. RowsOK /\ AcceptsOK /\ now \in Times
  BY Numbers
<1>2. CASE \E o \in Tasks : Accepts(o)
  <2> PICK o \in Tasks : Accepts(o)
    BY <1>2
  <2>1. CASE Create(o)
    <3>1. SetState(o, "waiting") /\ "waiting" \in States
      BY <2>1 DEF Create, States
    <3> QED BY <1>1, <3>1, SetStateDoes
  <2>2. CASE Patch(o)
    BY <1>1, <2>2, PatchDoes DEF Standing
  <2>3. CASE Join(o) \/ PublishDue(o) \/ PublishSize(o) \/ AcceptDies(o)
    BY <2>3 DEF Join, PublishDue, PublishSize, AcceptDies
  <2> QED BY <2>1, <2>2, <2>3 DEF Accepts
<1>3. CASE Quiet
  BY <1>3, QuietRows DEF SafeInv, RowStep
<1>4. CASE Tick
  BY <1>4 DEF Tick
<1> QED BY <1>2, <1>3, <1>4, NextSplits

\* What becomes of a round that goes on: rows leave its lists, and those it
\* holds are touched or were gone when it took them.
GoesOn(s) ==
  /\ Active(s) /\ round'[s].started = round[s].started
  /\ round'[s].todo \subseteq round[s].todo /\ round'[s].stuck \subseteq round[s].stuck
  /\ round'[s].todo \ round'[s].stuck \subseteq round[s].todo \ round[s].stuck
  /\ \A t \in round'[s].held :
       \/ t \in round[s].held
       \/ t \in round[s].stuck /\ row[t].state # "releasing"
       \/ row'[t].updated = now

LEMMA RoundGoes ==
  ASSUME SafeInv, Next, NEW s \in Rounds, Active(s)'
  PROVE  GoesOn(s) \/ StartRound(s)
<1>1. RoundsOK /\ RowsOK /\ now \in Times
  BY Numbers
<1>2. CASE UNCHANGED round
  BY <1>2 DEF GoesOn, Active
<1>3. ASSUME NEW o \in Rounds, NEW t \in Tasks, Unclaim(o, t)
      PROVE  GoesOn(s)
  <2>1. t \in round[o].stuck
    BY <1>3 DEF Unclaim
  <2>2. row'[t].updated = now \/ row[t].state # "releasing"
    BY <1>1, <1>3, UnclaimRows
  <2> QED BY <1>1, <1>3, <2>1, <2>2, UnclaimDoes DEF GoesOn, Active
<1>4. ASSUME NEW o \in Rounds, NEW t \in Tasks, Rescue(o, t)
      PROVE  GoesOn(s)
  BY <1>1, <1>4, RescueDoes, RescueRows DEF GoesOn, Active
<1>5. ASSUME NEW o \in Rounds, NEW t \in Tasks, RescueSend(o, t)
      PROVE  GoesOn(s)
  BY <1>1, <1>5, RescueSendDoes DEF GoesOn, Active
<1>6. ASSUME NEW o \in Rounds, EndRound(o) \/ RoundDies(o)
      PROVE  GoesOn(s)
  <2>1. round' = [round EXCEPT ![o] = NoRound]
    BY <1>6 DEF EndRound, RoundDies
  <2> QED BY <1>1, <2>1, EndDoes DEF GoesOn, Active
<1>7. ASSUME NEW o \in Rounds, StartRound(o)
      PROVE  GoesOn(s) \/ StartRound(s)
  BY <1>1, <1>7, StartDoes DEF GoesOn, Active
<1>8. ASSUME NEW t \in Tasks, Accepts(t)
      PROVE  UNCHANGED round
  BY <1>8 DEF Accepts, Create, Join, Patch, PublishDue, PublishSize, AcceptDies, sweep
<1>9. ASSUME NEW t \in Tasks, Cancel(t) \/ Leave(t) \/ Take(t) \/ Send(t)
      PROVE  UNCHANGED round
  BY <1>9 DEF Cancel, Leave, Take, Send, sweep
<1>10. (\E m \in trig : Fire(m)) \/ SkipRound \/ Tick => UNCHANGED round
  BY DEF Fire, SkipRound, Tick, sweep
<1> QED BY <1>2, <1>3, <1>4, <1>5, <1>6, <1>7, <1>8, <1>9, <1>10, NextSplits DEF Quiet

LEMMA ReadsKeep ==
  ASSUME SafeInv, TurnsOK, Next, NEW s \in Rounds, NEW t \in Tasks, Active(s)'
  PROVE  RoundReads(s, t)'
<1>1. /\ now \in Nat /\ Grace \in Nat /\ row[t].updated \in Nat /\ round[s].started \in Nat
      /\ RoundsOK /\ now \in Times
  BY Numbers
<1>2. row'[t] = row[t] \/ (Standing(t)' => row'[t].updated = now)
  BY NextRows
<1>3. CASE GoesOn(s)
  <2>1. RoundReads(s, t) /\ round[s].started <= now
    BY <1>3 DEF TurnsOK, GoesOn, SafeInv, ClockOK
  <2>2. CASE row'[t] = row[t]
    <3>1. t \in round'[s].held /\ Standing(t)' => round'[s].started <= row'[t].updated
      <4> SUFFICES ASSUME t \in round'[s].held, Standing(t)
                   PROVE  round[s].started <= row[t].updated
        BY <1>3, <2>2 DEF GoesOn, Standing
      <4>1. CASE t \in round[s].stuck /\ row[t].state # "releasing"
        BY <2>1, <4>1 DEF RoundReads
      <4>2. CASE t \in round[s].held
        BY <2>1, <4>2 DEF RoundReads
      <4>3. CASE row'[t].updated = now
        BY <2>1, <2>2, <4>3
      <4> QED BY <1>3, <4>1, <4>2, <4>3 DEF GoesOn
    <3>2. t \in round'[s].stuck /\ Standing(t)' =>
            \/ row'[t].state = "releasing" /\ row'[t].updated + Grace <= round'[s].started
            \/ round'[s].started <= row'[t].updated
      BY <1>3, <2>1, <2>2 DEF RoundReads, GoesOn, Standing
    <3>3. t \in round'[s].todo \ round'[s].stuck /\ row'[t].state = "releasing" =>
            round'[s].started <= row'[t].updated
      BY <1>3, <2>1, <2>2 DEF RoundReads, GoesOn
    <3> QED BY <3>1, <3>2, <3>3 DEF RoundReads
  <2>3. CASE Standing(t)' => row'[t].updated = now
    <3>1. Standing(t)' => round'[s].started <= row'[t].updated
      BY <1>3, <2>1, <2>3 DEF GoesOn
    <3> QED BY <3>1 DEF RoundReads, Standing
  <2> QED BY <1>2, <2>2, <2>3
<1>4. CASE StartRound(s)
  <2>1. /\ round'[s].started = now /\ round'[s].todo = Candidates
        /\ round'[s].stuck = {o \in Tasks : Stuck(o)} /\ round'[s].held = {} /\ row' = row
    BY <1>1, <1>4, StartDoes DEF StartRound
  <2> QED BY <1>1, <2>1 DEF RoundReads, Candidates, Stuck, Overdue
<1> QED BY <1>3, <1>4, RoundGoes

\* A row that is owed a rescue has not been touched since.
LEMMA OwedStays ==
  ASSUME SafeInv, Quiet \/ \E o \in Tasks : Accepts(o), NEW t \in Tasks, Owed(t)'
  PROVE  /\ row'[t] = row[t] /\ joined'[t] = joined[t] /\ now' = now
         /\ Owed(t) /\ Age(t)' = Age(t)
<1>1. /\ now \in Nat /\ Grace \in Nat \ {0} /\ Wait \in Nat /\ RestOK /\ AcceptsOK
      /\ \A o \in Tasks : joined[o] \in Nat
  BY Numbers
<1>2. now' = now
  BY QuietFrame DEF SafeInv, Accepts, Create, Join, Patch, PublishDue, PublishSize, AcceptDies
<1>3. Next
  BY DEF Next, Quiet, Accepts
<1>4. joined'[t] \in Nat
  <2>1. ShapeOK'
    BY <1>3, ShapeKeeps DEF SafeInv
  <2> QED BY <2>1, Bounds DEF ShapeOK, RestOK
<1>5. row'[t] = row[t]
  <2> SUFFICES ASSUME row'[t].updated = now PROVE FALSE
    BY <1>3, NextRows DEF Owed
  <2>1. Age(t)' <= now
    BY <1>2 DEF Owed
  <2>2. Age(t)' = Larger(joined'[t] + Wait, row'[t].updated) + Grace
    BY DEF Age
  <2> QED BY <1>1, <1>4, <2>1, <2>2 DEF Larger
<1>6. joined'[t] = joined[t]
  <2>1. CASE \E o \in Tasks : Join(o)
    <3> PICK o \in Tasks : Join(o)
      BY <2>1
    <3>1. row[o].due = None /\ now <= LastArrival
      BY DEF Join, SafeInv, AcceptInv, AcceptOK, Accepting
    <3>2. o # t
      BY <1>5, <3>1 DEF Owed
    <3> QED BY <1>1, <3>1, <3>2, JoinDoes
  <2>2. CASE Quiet
    BY <2>2, QuietFrame DEF SafeInv
  <2>3. CASE \E o \in Tasks : Accepts(o) /\ ~Join(o)
    BY <2>3 DEF Accepts, Create, Patch, PublishDue, PublishSize, AcceptDies
  <2> QED BY <2>1, <2>2, <2>3 DEF Accepts
<1> QED BY <1>2, <1>5, <1>6 DEF Owed, Age, Standing

\* A round that comes for a row has it on its list until it rescues it.
LEMMA ComersStay ==
  ASSUME SafeInv, TurnsOK, Quiet \/ \E o \in Tasks : Accepts(o), NEW t \in Tasks, Owed(t)',
         NEW s \in Rounds, GoesOn(s), Active(s)'
  PROVE  s \in Comers(t)' <=> s \in Comers(t)
<1>1. /\ now \in Nat /\ Grace \in Nat \ {0} /\ Wait \in Nat /\ now \in Times
      /\ RoundsOK /\ RowsOK /\ joined[t] \in Nat /\ row[t].updated \in Nat
      /\ round[s].started \in Nat
  BY Numbers
<1>2. row'[t] = row[t] /\ Age(t)' = Age(t) /\ Owed(t)
  BY OwedStays
<1>3. Active(s) /\ round'[s].started = round[s].started /\ round'[s].todo \subseteq round[s].todo
  BY DEF GoesOn
<1>4. ASSUME s \in Comers(t)
      PROVE  t \in round'[s].todo
  <2>1. t \in round[s].todo /\ row[t].updated < round[s].started /\ round[s].started <= now
    BY <1>1, <1>3, <1>4 DEF Comers, Age, Larger, SafeInv, ClockOK
  <2>2. RoundReads(s, t) /\ Standing(t)
    BY <1>2, <1>3 DEF TurnsOK, Owed
  <2>3. ~(row'[t].updated = now)
    BY <1>1, <1>2, <2>1
  <2>4. ~Unclaim(s, t)
    <3> SUFFICES ASSUME Unclaim(s, t) PROVE FALSE
      OBVIOUS
    <3>1. t \in round[s].stuck /\ row[t].state # "releasing"
      BY <1>1, <2>3, UnclaimRows DEF Unclaim
    <3> QED BY <1>1, <2>1, <2>2, <3>1 DEF RoundReads
  <2>5. ~Rescue(s, t)
    <3> SUFFICES ASSUME Rescue(s, t) PROVE FALSE
      OBVIOUS
    <3>1. row[t].state = "releasing"
      BY <1>1, <2>2, <2>3, RescueRows DEF Standing
    <3>2. t \in round[s].todo \ round[s].stuck \/ t \in round[s].held
      BY DEF Rescue
    <3> QED BY <1>1, <2>1, <2>2, <3>1, <3>2 DEF RoundReads, Standing
  <2>6. CASE UNCHANGED round
    BY <2>1, <2>6
  <2>7. ASSUME NEW r \in Rounds, NEW o \in Tasks, Unclaim(r, o) \/ Rescue(r, o)
        PROVE  t \in round'[s].todo
    BY <1>1, <2>1, <2>4, <2>5, <2>7, UnclaimDoes, RescueDoes
  <2>8. ASSUME NEW r \in Rounds, NEW o \in Tasks, RescueSend(r, o)
        PROVE  t \in round'[s].todo
    BY <1>1, <2>1, <2>8, RescueSendDoes
  <2>9. ASSUME NEW r \in Rounds, EndRound(r) \/ RoundDies(r)
        PROVE  t \in round'[s].todo
    <3>1. round' = [round EXCEPT ![r] = NoRound]
      BY <2>9 DEF EndRound, RoundDies
    <3>2. r # s
      BY <1>1, <3>1, EndDoes DEF Active
    <3> QED BY <1>1, <2>1, <3>1, <3>2, EndDoes
  <2>10. ASSUME NEW r \in Rounds, StartRound(r)
         PROVE  t \in round'[s].todo
    <3>1. r # s
      BY <1>3, <2>10 DEF StartRound
    <3> QED BY <1>1, <2>1, <2>10, <3>1, StartDoes
  <2>11. ASSUME NEW o \in Tasks, Accepts(o)
         PROVE  UNCHANGED round
    BY <2>11 DEF Accepts, Create, Join, Patch, PublishDue, PublishSize, AcceptDies, sweep
  <2>12. ASSUME NEW o \in Tasks, Cancel(o) \/ Leave(o) \/ Take(o) \/ Send(o)
         PROVE  UNCHANGED round
    BY <2>12 DEF Cancel, Leave, Take, Send, sweep
  <2>13. (\E m \in trig : Fire(m)) \/ SkipRound => UNCHANGED round
    BY DEF Fire, SkipRound, sweep
  <2> QED BY <2>6, <2>7, <2>8, <2>9, <2>10, <2>11, <2>12, <2>13 DEF Quiet
<1> QED BY <1>2, <1>3, <1>4 DEF Comers

\* What the turns of a sweep add up to.
LEMMA TurnsAdd ==
  /\ Turn \in Nat
  /\ \A k, l \in Nat : k * Turn \in Nat /\ (k <= l => k * Turn <= l * Turn)
  /\ \A k \in Nat : (k + 1) * Turn = k * Turn + Turn
<1>1. LockTTL + Period \in Nat
  BY Bounds
<1> DEFINE d == Turn
<1>2. d \in Nat
  BY <1>1 DEF Turn
<1> HIDE DEF d
<1>3. \A k \in Nat : (k + 1) * d = k * d + d
  BY <1>2
<1>4. \A k, l \in Nat : k * d \in Nat /\ (k <= l => k * d <= l * d)
  BY <1>2
<1> QED BY <1>2, <1>3, <1>4 DEF d

LEMMA ComersFinite ==
  ASSUME NEW t
  PROVE  /\ IsFiniteSet(Comers(t)) /\ Cardinality(Comers(t)) \in Nat
         /\ \A s : IsFiniteSet(Earlier(t, s)) /\ Cardinality(Earlier(t, s)) \in Nat
<1>1. \A S \in SUBSET Rounds : IsFiniteSet(S) /\ Cardinality(S) \in Nat
  BY Bounds, FS_Subset, FS_CardinalityType
<1> QED BY <1>1 DEF Comers, Earlier

LEMMA CrashesGrow ==
  ASSUME SafeInv, Next
  PROVE  crashes' \in Nat /\ crashes <= crashes'
<1>1. ShapeOK' /\ crashes \in Nat
  BY ShapeKeeps, Numbers DEF SafeInv
<1>2. crashes' = crashes \/ crashes' = crashes + 1 \/ crashes' >= crashes
  BY <1>1, QuietTriggers, NextSplits
     DEF Accepts, Create, Join, Patch, PublishDue, PublishSize, AcceptDies, Tick, Crashing
<1> QED BY <1>1, <1>2 DEF ShapeOK, RestOK

LEMMA OpeningNat == ASSUME SafeInv PROVE Opening \in Nat
  BY Numbers DEF SafeInv, ShapeOK, LockOK, Opening, Larger

LEMMA AgeNat == ASSUME SafeInv, NEW t \in Tasks PROVE Age(t) \in Nat
  BY Numbers DEF Age, Larger

\* Nobody comes or goes, and the next round is not put off.
LEMMA WaitStays ==
  ASSUME SafeInv, SafeInv', NEW t \in Tasks, WaitOK(t), Owed(t), Age(t)' = Age(t),
         crashes <= crashes', Comers(t)' = Comers(t), Opening' <= Opening,
         \A s \in Comers(t) : round'[s].started = round[s].started
  PROVE  WaitOK(t)'
<1> DEFINE c == Cardinality(Comers(t))
           e(s) == Cardinality(Earlier(t, s))
<1>1. crashes \in Nat /\ crashes' \in Nat /\ \A s \in Rounds : round[s].started \in Nat
  BY Numbers DEF SafeInv, ShapeOK, RestOK
<1>2. Opening \in Nat /\ Opening' \in Nat /\ Age(t) \in Nat
  BY OpeningNat, AgeNat, Numbers DEF SafeInv, ShapeOK, LockOK, RestOK, Opening, Larger
<1>3. \A s \in Comers(t) : Earlier(t, s)' = Earlier(t, s)
  BY DEF Earlier
<1>4. \A k \in Nat : (crashes + 1 + k) * Turn <= (crashes' + 1 + k) * Turn
                     /\ (crashes + 1 + k) * Turn \in Nat /\ (crashes' + 1 + k) * Turn \in Nat
  <2> TAKE k \in Nat
  <2> DEFINE i == crashes + 1 + k
             j == crashes' + 1 + k
  <2>1. i \in Nat /\ j \in Nat /\ i <= j
    BY <1>1
  <2> HIDE DEF i, j
  <2>2. i * Turn <= j * Turn /\ i * Turn \in Nat /\ j * Turn \in Nat
    BY <2>1, TurnsAdd
  <2> QED BY <2>2 DEF i, j
<1>5. Opening' <= Age(t) + (crashes' + 1 + c) * Turn
  <2>1. Opening <= Age(t) + (crashes + 1 + c) * Turn
    BY DEF WaitOK
  <2>2. c \in Nat
    BY ComersFinite
  <2> HIDE DEF c
  <2> QED BY <1>2, <1>4, <2>1, <2>2
<1>6. ASSUME NEW s \in Comers(t)
      PROVE  round[s].started <= Age(t) + (crashes' + 1 + e(s)) * Turn
  <2>1. round[s].started <= Age(t) + (crashes + 1 + e(s)) * Turn
    BY DEF WaitOK
  <2>2. e(s) \in Nat /\ round[s].started \in Nat
    BY <1>1, ComersFinite DEF Comers
  <2> HIDE DEF e
  <2> QED BY <1>2, <1>4, <2>1, <2>2
<1>7. Cardinality(Comers(t)') = c
  OBVIOUS
<1>8. \A s \in Comers(t) : Cardinality(Earlier(t, s)') = e(s)
  BY <1>3
<1> QED BY <1>5, <1>6, <1>7, <1>8 DEF WaitOK

LEMMA StartWaits ==
  ASSUME SafeInv, SafeInv', TurnsOK, NEW s \in Rounds, StartRound(s), NEW t \in Tasks, Owed(t)'
  PROVE  WaitOK(t)'
<1>1. /\ now \in Nat /\ Grace \in Nat \ {0} /\ Wait \in Nat /\ now \in Times /\ RoundsOK
      /\ cron \in Nat /\ crashes \in Nat /\ Period \in Nat \ {0} /\ LockTTL \in Nat \ {0}
      /\ joined[t] \in Nat /\ row[t].updated \in Nat /\ row[t].due \in Nat
      /\ \A o \in Rounds : round[o].started \in Nat
  BY Numbers
<1>2. Quiet
  BY DEF Quiet
<1>3. Owed(t) /\ Age(t)' = Age(t) /\ Age(t) <= now /\ Age(t) \in Nat
  BY <1>2, OwedStays, AgeNat DEF Owed
<1>4. WaitOK(t)
  BY DEF TurnsOK
<1>5. /\ ~Active(s) /\ cron <= now /\ now <= cron /\ lock = Unlocked /\ cron' = now + Period
      /\ lock' = [by |-> {s}, until |-> now + LockTTL] /\ crashes' = crashes
  BY DEF StartRound, SafeInv, ClockOK
<1>6. /\ \A o \in Rounds \ {s} : round'[o] = round[o]
      /\ round'[s].pc = "active" /\ round'[s].started = now /\ round'[s].todo = Candidates
  BY <1>1, StartDoes
<1>7. t \in Candidates
  <2>1. row[t].due + Grace <= now /\ row[t].updated + Grace <= now
    BY <1>1, <1>3 DEF Age, Larger, SafeInv, AcceptInv, AcceptOK
  <2> QED BY <1>3, <2>1 DEF Candidates, Stuck, Overdue, Owed, Standing
<1>8. Comers(t)' = Comers(t) \cup {s} /\ s \notin Comers(t)
  BY <1>3, <1>5, <1>6, <1>7 DEF Comers, Active
<1>9. \A o \in Comers(t) : o # s /\ round'[o].started = round[o].started /\ round[o].started < now
  <2> TAKE o \in Comers(t)
  <2>1. o \in Rounds \ {s} /\ Active(o)
    BY <1>8 DEF Comers
  <2>2. round[o].started + Period <= now
    BY <1>1, <1>5, <2>1 DEF SafeInv, ClockOK
  <2> QED BY <1>1, <1>6, <2>1, <2>2
<1>10. Earlier(t, s)' = Comers(t)
  BY <1>1, <1>6, <1>8, <1>9 DEF Earlier
<1>11. \A o \in Comers(t) : Earlier(t, o)' = Earlier(t, o)
  <2> TAKE o \in Comers(t)
  <2>1. round[o].started \in Nat /\ ~(now < round[o].started)
    BY <1>1, <1>9 DEF Comers
  <2> QED BY <1>6, <1>8, <1>9, <2>1 DEF Earlier
<1> DEFINE c == Cardinality(Comers(t))
           k == crashes + 1 + c
<1>12. c \in Nat /\ IsFiniteSet(Comers(t))
  BY ComersFinite
<1>13. Cardinality(Comers(t)') = c + 1
  BY <1>8, <1>12, FS_AddElement
<1>14. k \in Nat /\ crashes' + 1 + (c + 1) = k + 1
  BY <1>1, <1>5, <1>12
<1>15. now <= Age(t) + k * Turn
  <2>1. Opening <= Age(t) + k * Turn
    BY <1>3, <1>4 DEF WaitOK
  <2>2. Opening = now
    BY <1>1, <1>5 DEF Opening
  <2> QED BY <2>1, <2>2
<1>16. Opening' <= Age(t) + (crashes' + 1 + Cardinality(Comers(t)')) * Turn
  <2>1. Opening' = now + Turn
    <3>1. lock' # Unlocked /\ lock'.until = now + LockTTL
      BY <1>1, <1>5 DEF Unlocked
    <3> QED BY <1>1, <1>5, <3>1 DEF Opening, Larger, Turn
  <2>2. (k + 1) * Turn = k * Turn + Turn /\ k * Turn \in Nat /\ Turn \in Nat
    BY <1>14, TurnsAdd
  <2>3. crashes' + 1 + Cardinality(Comers(t)') = k + 1
    BY <1>13, <1>14
  <2> HIDE DEF k
  <2> QED BY <1>1, <1>3, <1>15, <2>1, <2>2, <2>3
<1>17. \A o \in Comers(t)' :
         round'[o].started <= Age(t) + (crashes' + 1 + Cardinality(Earlier(t, o)')) * Turn
  <2> TAKE o \in Comers(t)'
  <2>1. CASE o = s
    BY <1>5, <1>6, <1>10, <1>15, <2>1
  <2>2. CASE o \in Comers(t)
    BY <1>3, <1>4, <1>5, <1>9, <1>11, <2>2 DEF WaitOK
  <2> QED BY <1>8, <2>1, <2>2
<1>18. Age(t)' = Age(t)
  BY <1>3
<1> QED BY <1>16, <1>17, <1>18 DEF WaitOK

LEMMA DiesWaits ==
  ASSUME SafeInv, SafeInv', TurnsOK, NEW s \in Rounds, RoundDies(s), NEW t \in Tasks, Owed(t)'
  PROVE  WaitOK(t)'
<1>1. RoundsOK /\ crashes \in Nat /\ crashes' = crashes + 1 /\ UNCHANGED <<lock, cron>>
  BY Numbers DEF RoundDies, Crashing
<1>2. Quiet /\ round' = [round EXCEPT ![s] = NoRound]
  BY DEF Quiet, RoundDies
<1>3. Owed(t) /\ Age(t)' = Age(t) /\ WaitOK(t)
  BY <1>2, OwedStays DEF TurnsOK
<1>4. round'[s].pc = "idle" /\ \A o \in Rounds \ {s} : round'[o] = round[o]
  BY <1>1, <1>2, EndDoes
<1>5. Comers(t)' = Comers(t) \ {s}
  BY <1>3, <1>4 DEF Comers, Active
<1>6. \A o \in Comers(t)' : o \in Comers(t) /\ round'[o].started = round[o].started
                            /\ Earlier(t, o)' = Earlier(t, o) \ {s}
  BY <1>4, <1>5 DEF Earlier, Comers
<1>7. ASSUME NEW S, IsFiniteSet(S), Cardinality(S) \in Nat
      PROVE  /\ Cardinality(S \ {s}) \in Nat
             /\ (crashes + 1 + Cardinality(S)) * Turn
                  <= (crashes' + 1 + Cardinality(S \ {s})) * Turn
             /\ (crashes + 1 + Cardinality(S)) * Turn \in Nat
             /\ (crashes' + 1 + Cardinality(S \ {s})) * Turn \in Nat
  <2> DEFINE i == crashes + 1 + Cardinality(S)
             j == crashes' + 1 + Cardinality(S \ {s})
  <2>1. Cardinality(S \ {s}) \in Nat /\ Cardinality(S) <= Cardinality(S \ {s}) + 1
    <3>1. /\ IsFiniteSet(S \ {s})
          /\ Cardinality(S \ {s}) = IF s \in S THEN Cardinality(S) - 1 ELSE Cardinality(S)
      BY <1>7, FS_RemoveElement
    <3>2. Cardinality(S \ {s}) \in Nat
      BY <3>1, FS_CardinalityType
    <3> QED BY <1>7, <3>1, <3>2
  <2>2. i \in Nat /\ j \in Nat /\ i <= j
    BY <1>1, <1>7, <2>1
  <2> HIDE DEF i, j
  <2>3. i * Turn <= j * Turn /\ i * Turn \in Nat /\ j * Turn \in Nat
    BY <2>2, TurnsAdd
  <2> QED BY <2>1, <2>3 DEF i, j
<1>8. Opening \in Nat /\ Opening' = Opening /\ Age(t) \in Nat
  BY <1>1, OpeningNat, AgeNat DEF Opening
<1>9. Opening' <= Age(t) + (crashes' + 1 + Cardinality(Comers(t)')) * Turn
  <2> DEFINE a == (crashes + 1 + Cardinality(Comers(t))) * Turn
             b == (crashes' + 1 + Cardinality(Comers(t) \ {s})) * Turn
  <2>1. a <= b /\ a \in Nat /\ b \in Nat
    BY <1>7, ComersFinite
  <2>2. Opening <= Age(t) + a
    BY <1>3 DEF WaitOK
  <2>3. (crashes' + 1 + Cardinality(Comers(t)')) * Turn = b
    <3>1. Cardinality(Comers(t)') = Cardinality(Comers(t) \ {s})
      BY <1>5
    <3> QED BY <3>1
  <2> HIDE DEF a, b
  <2> QED BY <1>8, <2>1, <2>2, <2>3
<1>10. \A o \in Comers(t)' :
         round'[o].started <= Age(t) + (crashes' + 1 + Cardinality(Earlier(t, o)')) * Turn
  <2> TAKE o \in Comers(t)'
  <2> DEFINE a == (crashes + 1 + Cardinality(Earlier(t, o))) * Turn
             b == (crashes' + 1 + Cardinality(Earlier(t, o) \ {s})) * Turn
  <2>1. a <= b /\ a \in Nat /\ b \in Nat
    BY <1>7, ComersFinite
  <2>2. o \in Comers(t) /\ o \in Rounds /\ round[o].started \in Nat
    BY <1>6, Numbers DEF Comers
  <2>3. round[o].started <= Age(t) + a
    BY <1>3, <2>2 DEF WaitOK
  <2>4. (crashes' + 1 + Cardinality(Earlier(t, o)')) * Turn = b
    BY <1>6
  <2>5. round'[o].started = round[o].started
    BY <1>6
  <2> HIDE DEF a, b
  <2> QED BY <1>8, <2>1, <2>2, <2>3, <2>4, <2>5
<1>11. Age(t)' = Age(t)
  BY <1>3
<1> QED BY <1>9, <1>10, <1>11 DEF WaitOK

LEMMA TickWaits ==
  ASSUME SafeInv, SafeInv', TurnsOK, Tick, NEW t \in Tasks, Owed(t)'
  PROVE  WaitOK(t)'
<1>1. /\ now \in Nat /\ cron \in Nat /\ crashes \in Nat /\ Period \in Nat \ {0}
      /\ LockTTL \in Nat \ {0} /\ \A s \in Rounds : round[s].started \in Nat
  BY Numbers
<1>2. /\ now' = now + 1 /\ UNCHANGED <<row, round, cron, joined, crashes>>
      /\ lock' = lock \/ lock' = Unlocked
  BY DEF Tick
<1>3. /\ Age(t)' = Age(t) /\ Comers(t)' = Comers(t) /\ Age(t) \in Nat /\ WaitOK(t)
      /\ \A s \in Comers(t) : round'[s].started = round[s].started
  BY <1>2, AgeNat DEF Age, Comers, Active, TurnsOK
<1>4. Opening' <= Opening /\ Opening' \in Nat /\ Opening' <= now' + Turn
  <2>1. /\ lock.until \in Nat /\ lock.until <= now + LockTTL /\ cron <= now + Period
    BY DEF SafeInv, ClockOK, ShapeOK, LockOK
  <2> QED BY <1>1, <1>2, <2>1 DEF Opening, Larger, Turn, Unlocked
<1>5. CASE Owed(t)
  BY <1>2, <1>1, <1>3, <1>4, <1>5, WaitStays
<1>6. CASE ~Owed(t)
  <2>1. Age(t) = now'
    BY <1>1, <1>2, <1>3, <1>6 DEF Owed, Standing
  <2>2. Comers(t)' = {}
    BY <1>1, <1>2, <1>3, <2>1 DEF Comers, SafeInv, ClockOK
  <2>3. Turn <= (crashes' + 1 + Cardinality(Comers(t)')) * Turn
    <3>1. Cardinality(Comers(t)') = 0
      BY <2>2, FS_EmptySet
    <3>2. (crashes + 1) * Turn = crashes * Turn + Turn /\ crashes * Turn \in Nat /\ Turn \in Nat
      BY <1>1, TurnsAdd
    <3>3. crashes' + 1 + Cardinality(Comers(t)') = crashes + 1
      BY <1>1, <1>2, <3>1
    <3> QED BY <3>2, <3>3
  <2>4. Turn \in Nat /\ (crashes' + 1 + Cardinality(Comers(t)')) * Turn \in Nat
    <3>1. crashes' + 1 + Cardinality(Comers(t)') \in Nat
      BY <1>1, <1>2, <2>2, FS_EmptySet
    <3> QED BY <3>1, TurnsAdd
  <2>5. Opening' <= Age(t) + (crashes' + 1 + Cardinality(Comers(t)')) * Turn
    <3> DEFINE b == (crashes' + 1 + Cardinality(Comers(t)')) * Turn
    <3> HIDE DEF b
    <3>1. Turn <= b /\ b \in Nat /\ Turn \in Nat
      BY <2>3, <2>4 DEF b
    <3>2. Opening' <= Age(t) + b
      BY <1>3, <1>4, <2>1, <3>1
    <3> QED BY <3>2 DEF b
  <2> QED BY <1>3, <2>2, <2>5 DEF WaitOK
<1> QED BY <1>5, <1>6

LEMMA TurnsKeep ==
  ASSUME SafeInv, SafeInv', TurnsOK, Next
  PROVE  TurnsOK'
<1>1. \A s \in Rounds, t \in Tasks : Active(s)' => RoundReads(s, t)'
  BY ReadsKeep
<1>2. ASSUME NEW t \in Tasks, Owed(t)'
      PROVE  WaitOK(t)'
  <2>1. crashes <= crashes' /\ Opening \in Nat /\ WaitOK(t)
    BY CrashesGrow, OpeningNat DEF TurnsOK
  <2>2. CASE Tick
    BY <1>2, <2>2, TickWaits
  <2>3. CASE \E s \in Rounds : StartRound(s)
    BY <1>2, <2>3, StartWaits
  <2>4. CASE \E s \in Rounds : RoundDies(s)
    BY <1>2, <2>4, DiesWaits
  <2>5. CASE SkipRound
    <3>1. Owed(t) /\ Age(t)' = Age(t)
      BY <1>2, <2>5, OwedStays DEF Quiet
    <3>2. UNCHANGED <<round, lock, now>> /\ lock # Unlocked /\ cron <= now /\ cron' = now + Period
      BY <2>5 DEF SkipRound
    <3>3. /\ now \in Nat /\ cron \in Nat /\ lock.until \in Nat /\ Period \in Nat
          /\ now < lock.until
      BY <3>2, Numbers DEF SafeInv, ShapeOK, LockOK, ClockOK
    <3>4. Opening' <= Opening
      BY <3>2, <3>3 DEF Opening, Larger
    <3>5. /\ Comers(t)' = Comers(t)
          /\ \A s \in Comers(t) : round'[s].started = round[s].started
      BY <3>1, <3>2 DEF Comers, Active
    <3> QED BY <2>1, <3>1, <3>4, <3>5, WaitStays
  <2>6. CASE \E s \in Rounds : EndRound(s)
    <3> PICK s \in Rounds : EndRound(s)
      BY <2>6
    <3>1. Owed(t) /\ Age(t)' = Age(t)
      BY <1>2, OwedStays DEF Quiet
    <3>2. /\ round' = [round EXCEPT ![s] = NoRound] /\ round[s].todo = {}
          /\ lock' \in {lock, Unlocked} /\ cron' = cron
      BY DEF EndRound, Released
    <3>3. cron \in Nat /\ lock.until \in Nat /\ Period \in Nat
      BY Numbers DEF SafeInv, ShapeOK, LockOK
    <3>4. Opening' <= Opening
      BY <2>1, <3>2, <3>3 DEF Opening, Larger
    <3>5. round'[s].pc = "idle" /\ \A o \in Rounds \ {s} : round'[o] = round[o]
      BY <3>2, Numbers, EndDoes
    <3>6. s \notin Comers(t)
      BY <3>2 DEF Comers
    <3>7. /\ Comers(t)' = Comers(t)
          /\ \A o \in Comers(t) : round'[o].started = round[o].started
      BY <3>1, <3>5, <3>6 DEF Comers, Active
    <3> QED BY <2>1, <3>1, <3>4, <3>7, WaitStays
  <2>7. CASE SameRounds /\ UNCHANGED <<now, lock, cron>> /\ (Quiet \/ \E o \in Tasks : Accepts(o))
    <3>1. Owed(t) /\ Age(t)' = Age(t)
      BY <1>2, <2>7, OwedStays
    <3>2. Opening' = Opening
      BY <2>7 DEF Opening
    <3>3. \A s \in Rounds : s \in Comers(t)' <=> s \in Comers(t)
      <4> TAKE s \in Rounds
      <4>1. CASE Active(s)
        <5>1. Active(s)' /\ GoesOn(s)
          BY <2>7, <4>1, RoundGoes DEF SameRounds, Active, StartRound
        <5> QED BY <1>2, <2>7, <5>1, ComersStay
      <4>2. CASE ~Active(s)
        BY <2>7, <4>2 DEF SameRounds, Active, Comers
      <4> QED BY <4>1, <4>2
    <3>4. /\ Comers(t)' = Comers(t)
          /\ \A s \in Comers(t) : round'[s].started = round[s].started
      <4>1. Comers(t) \subseteq Rounds /\ Comers(t)' \subseteq Rounds
        BY DEF Comers
      <4> QED BY <2>7, <3>3, <4>1 DEF SameRounds
    <3> QED BY <2>1, <3>1, <3>2, <3>4, WaitStays
  <2> QED BY <2>2, <2>3, <2>4, <2>5, <2>6, <2>7, RestSteps, NextSplits DEF SafeInv
<1> QED BY <1>1, <1>2 DEF TurnsOK, WaitOK

LEMMA MinNat ==
  ASSUME NEW T, T \subseteq Nat, T # {}
  PROVE  \E x \in T : \A y \in T : x <= y
<1> DEFINE R == {p \in Nat \X Nat : p[1] < p[2]}
<1>1. IsWellFoundedOn(R, Nat)
  <2>1. IsWellFoundedOn(OpToRel(<, Nat), Nat)
    BY NatLessThanWellFounded
  <2>2. OpToRel(<, Nat) = R
    BY DEF OpToRel
  <2> QED BY <2>1, <2>2
<1>2. \E x \in T : \A y \in T : ~(<<y, x>> \in R)
  <2> HIDE DEF R
  <2> QED BY <1>1, WFMin
<1>3. ASSUME NEW x \in Nat, NEW y \in Nat, <<y, x>> \notin R
      PROVE  x <= y
  <2>1. ~(y < x)
    BY <1>3
  <2> QED BY <2>1
<1> HIDE DEF R
<1> QED BY <1>2, <1>3

\* The round that came first settles what the row waits for; without one it is
\* the next that opens.
LEMMA TurnsTimely ==
  ASSUME SafeInv, TurnsOK
  PROVE  Timely
<1> SUFFICES ASSUME NEW t \in Tasks, Standing(t), row[t].due # None
             PROVE  now <= Larger(joined[t] + Wait, row[t].updated) + Patience
  BY DEF Timely, Standing
<1>1. /\ now \in Nat /\ crashes \in Nat /\ Slow \in Nat /\ cron \in Nat /\ Grace \in Nat
      /\ Wait \in Nat /\ joined[t] \in Nat /\ row[t].updated \in Nat /\ now <= cron
      /\ \A s \in Rounds : round[s].started \in Nat
  BY Numbers DEF SafeInv, ClockOK
<1> DEFINE d == (crashes + 1) * Turn
           a == Larger(joined[t] + Wait, row[t].updated)
<1>2. d \in Nat /\ a \in Nat
  <2>1. a \in Nat
    BY <1>1 DEF Larger
  <2>2. crashes + 1 \in Nat
    BY <1>1
  <2> QED BY <2>1, <2>2, TurnsAdd
<1>3. Age(t) = a + Grace /\ Patience = Grace + d + Slow
  BY DEF Age, Patience, Turn
<1> HIDE DEF a, d
<1>4. CASE ~Owed(t)
  BY <1>1, <1>2, <1>3, <1>4 DEF Owed, a
<1>5. CASE Owed(t) /\ Comers(t) = {}
  <2>1. crashes + 1 + Cardinality(Comers(t)) = crashes + 1
    BY <1>1, <1>5, FS_EmptySet
  <2>2. Opening <= Age(t) + d
    BY <1>5, <2>1 DEF TurnsOK, WaitOK, d
  <2>3. Opening \in Nat /\ cron <= Opening
    BY <1>1, Numbers, OpeningNat DEF Opening, Larger, SafeInv, ShapeOK, LockOK
  <2> QED BY <1>1, <1>2, <1>3, <2>2, <2>3 DEF a
<1>6. CASE Owed(t) /\ Comers(t) # {}
  <2> DEFINE T == {round[s].started : s \in Comers(t)}
  <2>1. T \subseteq Nat /\ T # {}
    BY <1>1, <1>6 DEF Comers
  <2>2. PICK x \in T : \A y \in T : x <= y
    BY <2>1, MinNat
  <2>3. PICK s \in Comers(t) : x = round[s].started
    BY <2>2
  <2>4. Earlier(t, s) = {}
    BY <1>1, <2>2, <2>3 DEF Earlier, Comers
  <2>5. crashes + 1 + Cardinality(Earlier(t, s)) = crashes + 1
    BY <1>1, <2>4, FS_EmptySet
  <2>6. round[s].started <= Age(t) + d
    BY <1>6, <2>3, <2>5 DEF TurnsOK, WaitOK, d
  <2>7. now <= round[s].started + Slow /\ round[s].started \in Nat
    BY <1>1, <2>3 DEF Comers, SafeInv, ClockOK
  <2> QED BY <1>1, <1>2, <1>3, <2>6, <2>7 DEF a
<1> QED BY <1>4, <1>5, <1>6

-------------------------------------------------------------------------------
(* Theorems                                                                *)

WindowInv == SafeInv /\ TurnsOK /\ SentOK /\ ArmedOK /\ EarlyOK

LEMMA InitShape == ASSUME Init PROVE ShapeOK
<1>1. /\ 0 \in Times /\ 1 \in Times /\ 0 \in Moments /\ 0 \in 0..LastArrival
      /\ "none" \in States
  BY Bounds DEF Times, Moments, States
<1>2. RowsOK
  BY <1>1 DEF Init, RowsOK, None
<1>3. AcceptsOK
  BY <1>1 DEF Init, AcceptsOK, NoAccept, None
<1>4. WorkOK
  BY <1>1 DEF Init, WorkOK, NoWork
<1>5. RoundsOK
  BY <1>1 DEF Init, RoundsOK, NoRound, IsDuty
<1>6. LockOK
  BY DEF Init, LockOK, Unlocked
<1>7. RestOK
  BY <1>1 DEF Init, RestOK, None
<1> QED BY <1>2, <1>3, <1>4, <1>5, <1>6, <1>7 DEF ShapeOK

LEMMA WindowInit == Init => WindowInv
<1> SUFFICES ASSUME Init PROVE WindowInv
  OBVIOUS
<1>1. /\ ShapeOK /\ now = 1 /\ index = {} /\ deadline = None /\ stale = {} /\ cron = 1
      /\ lock = Unlocked /\ trig = {}
  BY InitShape DEF Init
<1>2. \A t \in Tasks : /\ accept[t].pc = "new" /\ ~accept[t].wrote /\ ~accept[t].full
                       /\ row[t].state = "none" /\ row[t].due = None
                       /\ work[t].pc = "no" /\ joined[t] = 0 /\ sent[t] = 0
  BY DEF Init, NoAccept, NoWork
<1>3. \A s \in Rounds : round[s].pc = "idle" /\ ~round[s].claimed
  BY DEF Init, NoRound
<1>4. AcceptInv
  BY <1>1, <1>2, <1>3, Bounds DEF AcceptInv, AcceptOK, NewOK, HandsOK, Accepting, None
<1>5. WindowOK
  BY <1>1 DEF WindowOK
<1>6. ClockOK
  BY <1>1, <1>3, Bounds DEF ClockOK, Unlocked, Active
<1>7. TurnsOK
  BY <1>2, <1>3 DEF TurnsOK, WaitOK, Owed, Active
<1>8. SentOK
  BY <1>2, <1>3 DEF SentOK, Once, Alone, ReleaseOK, HoldOK, Active
<1>9. ArmedOK /\ EarlyOK
  BY <1>1, <1>2 DEF ArmedOK, EarlyOK, Announced
<1> QED BY <1>1, <1>4, <1>5, <1>6, <1>7, <1>8, <1>9 DEF WindowInv, SafeInv

LEMMA SafeKeeps == ASSUME SafeInv, Next PROVE SafeInv'
  BY ShapeKeeps, WindowKeeps, ClockKeeps DEF SafeInv

LEMMA WindowStutters == ASSUME WindowInv, UNCHANGED vars PROVE WindowInv'
<1>1. /\ UNCHANGED <<now, row, accept, quitting, index, deadline, stale, past, trig, work>>
      /\ UNCHANGED <<round, lock, cron, overlap, full, joined, sent, crashes>>
  BY DEF vars, batch, sweep
<1>2. ShapeOK' /\ AcceptInv'
  BY <1>1 DEF WindowInv, SafeInv, ShapeOK, RowsOK, AcceptsOK, WorkOK, RoundsOK, IsDuty, LockOK,
     RestOK, AcceptInv, AcceptOK, NewOK, HandsOK, Accepting, Standing
<1>3. WindowOK' /\ ClockOK'
  BY <1>1 DEF WindowInv, SafeInv, WindowOK, ClockOK, Active
<1>4. TurnsOK'
  BY <1>1 DEF WindowInv, TurnsOK, RoundReads, WaitOK, Opening, Comers, Earlier, Owed, Age,
     Standing, Active
<1>5. SentOK'
  BY <1>1 DEF WindowInv, SentOK, Once, Alone, ReleaseOK, HoldOK, Active
<1>6. ArmedOK' /\ EarlyOK'
  BY <1>1 DEF WindowInv, ArmedOK, Armed, EarlyOK, Announced, Known
<1> QED BY <1>2, <1>3, <1>4, <1>5, <1>6 DEF WindowInv, SafeInv

LEMMA WindowStep == WindowInv /\ [Next]_vars => WindowInv'
  BY SafeKeeps, TurnsKeep, SentKeeps, ArmedKeeps, EarlyKeeps, WindowStutters DEF WindowInv

LEMMA WindowAlways == Spec => []WindowInv
  BY WindowInit, WindowStep, PTL DEF Spec

\* The state keeps to its ranges; in particular no deadline lies later than T
\* after the last arrival, however the tasks of the batch trickle in.
THEOREM WindowTypes == Spec => []TypeOK
<1>1. WindowInv => TypeOK
  <2> SUFFICES ASSUME WindowInv PROVE TypeOK
    OBVIOUS
  <2>1. ShapeOK /\ ClockOK
    BY DEF WindowInv, SafeInv
  <2>2. now \in Times /\ cron \in 0..(MaxTime + Period)
    BY <2>1, Bounds DEF ShapeOK, RestOK, ClockOK, Times
  <2>3. \A t \in Tasks :
          /\ row[t].state \in {"none", "waiting", "releasing", "released", "canceled"}
          /\ row[t].due \in 0..(LastArrival + Wait) /\ row[t].updated \in Times
          /\ accept[t].pc \in {"new", "join", "patch", "due", "size", "done"}
          /\ work[t].pc \in {"no", "woken", "claimed"}
    BY <2>1 DEF ShapeOK, RowsOK, AcceptsOK, WorkOK, States, Moments
  <2>4. /\ quitting \subseteq Tasks /\ index \subseteq Tasks /\ stale \subseteq Tasks
        /\ deadline \in 0..(LastArrival + Wait) /\ past \in 0..(LastArrival + Wait)
        /\ \A m \in trig : m.by \in Tasks /\ m.kind \in {"due", "size"}
    BY <2>1 DEF ShapeOK, RestOK, Moments
  <2>5. /\ \A s \in Rounds : round[s].stuck \subseteq Tasks /\ round[s].todo \subseteq Tasks
        /\ lock.by \subseteq Rounds
    BY <2>1 DEF ShapeOK, RoundsOK, LockOK
  <2> QED BY <2>2, <2>3, <2>4, <2>5 DEF TypeOK
<1> QED BY <1>1, WindowAlways, PTL

\* The rows of the members of a batch know its deadline, which is that of the
\* first member: what the sweep goes by when Redis forgets.
THEOREM DeadlineKnown == Spec => []DueIsDeadline
<1>1. WindowInv => DueIsDeadline
  <2> SUFFICES ASSUME WindowInv PROVE DueIsDeadline
    OBVIOUS
  <2>1. index = {} <=> deadline = None
    BY DEF WindowInv, SafeInv, WindowOK
  <2> QED BY <2>1 DEF WindowInv, SafeInv, WindowOK, DueIsDeadline
<1> QED BY <1>1, WindowAlways, PTL

\* While nothing has crashed, the deadline of every batch has its trigger, or
\* an acceptance that is about to publish it.
THEOREM TriggersArmed == Spec => []TriggerArmed
<1>1. WindowInv => TriggerArmed
  BY DEF WindowInv, ArmedOK, Armed, Announced, TriggerArmed
<1> QED BY <1>1, WindowAlways, PTL

\* The lock of the sweep keeps rounds apart that do not outlive it.
THEOREM RoundsDisciplined == Spec => []LockDiscipline
<1>1. WindowInv => LockDiscipline
  <2> SUFFICES ASSUME WindowInv, NEW s \in Rounds, NEW o \in Rounds, s # o, Active(s), Active(o)
               PROVE  \E r \in {s, o} : now >= round[r].started + LockTTL
    BY DEF LockDiscipline
  <2>1. /\ now \in Nat /\ LockTTL \in Nat /\ round[s].started \in Nat /\ round[o].started \in Nat
    BY Numbers DEF WindowInv
  <2>2. /\ now < round[s].started + LockTTL => lock.by = {s}
        /\ now < round[o].started + LockTTL => lock.by = {o}
    BY DEF WindowInv, SafeInv, ClockOK
  <2> QED BY <2>1, <2>2
<1> QED BY <1>1, WindowAlways, PTL

\* Rounds that never overlap submit no task twice, whoever else releases it:
\* the worker of a trigger, two triggers of one batch, the round after a worker
\* that died.
THEOREM SubmittedOnce == Spec => []OnceUnlessOverlap
<1>1. WindowInv => OnceUnlessOverlap
  <2> SUFFICES ASSUME WindowInv, ~overlap, NEW t \in Tasks PROVE sent[t] <= 1
    BY DEF OnceUnlessOverlap
  <2>1. sent[t] = 0 \/ sent[t] = 1
    BY DEF WindowInv, SentOK, Once, ReleaseOK
  <2> QED BY <2>1
<1> QED BY <1>1, WindowAlways, PTL

\* No batch is taken before its time without a reason: a full window, or the
\* trigger of an earlier one.
THEOREM EarlyForReason == Spec => EarlyForAReason
<1>1. WindowInv /\ [Next]_vars =>
        [index # {} /\ index' = {} /\ work' # work /\ now < deadline =>
           full \/ (past # None /\ past <= now)]_vars
  BY OnlyTriggersWake DEF WindowInv
<1> QED BY <1>1, WindowAlways, PTL DEF Spec, EarlyForAReason

\* Whatever triggers and workers fail to do, the sweep gets to every row with a
\* deadline within the sum of its settings, and a lock for each crash.
THEOREM NobodyWaitsLong == Spec => []Timely
<1>1. WindowInv => Timely
  BY TurnsTimely DEF WindowInv
<1> QED BY <1>1, WindowAlways, PTL

===============================================================================
