------------------------- MODULE IdempotencyProofs -------------------------
(***************************************************************************)
(* What an Idempotency-Key guarantees, for any number of keys, requests    *)
(* and processes, any configuration, and the failures and crashes of       *)
(* Admission.                                                              *)
(*                                                                         *)
(* OneTaskPerKey speaks of what clients were told; what makes it inductive *)
(* is that all of it agrees with the value of the key (LeadsTo), and that  *)
(* a creation that is under way is the one that placed the placeholder and *)
(* finds it untouched until it fills it (Owns).  A creation that outlives  *)
(* its placeholder loses both; its key is in overrun from then on.         *)
(***************************************************************************)
EXTENDS Admission, FiniteSetTheorems, TLAPS

IsReq(q) ==
  q = [pc |-> q.pc, ask |-> q.ask, owned |-> q.owned, found |-> q.found, got |-> q.got,
       plan |-> q.plan, held |-> q.held, made |-> q.made, end |-> q.end]

ShapeOK ==
  /\ idem \in [Keys -> Readers \cup {NoTask, Pending}]
  /\ placer \in [Keys -> Readers \cup {NoTask}]
  /\ announced \subseteq Readers
  /\ req = [r \in Readers |-> req[r]]
  /\ \A r \in Readers : IsReq(req[r])

\* The awaits of a creation before it fills its key, and all of them.
Before == Reads \cup {"verdict", "free", "plan", "conc", "insert", "fill"}
Creating == Reads \cup {"plan", "conc", "insert", "fill", "announce"}

\* Whoever asks with key k is told x.
LeadsTo(k, x) == k = NoKey \/ k \in overrun \/ idem[k] = x

\* Request r, at await pc, has key k for itself.
Owns(r, k, pc) ==
  \/ k \in overrun
  \/ /\ placer[k] = r /\ idem[k] \in {Pending, r}
     /\ pc \in Before => idem[k] = Pending
     /\ pc = "announce" => idem[k] = r

\* What holds of request r when its state is q.
ReqOK(r, q) ==
  /\ q.pc = "new" => q.found = NoTask /\ ~q.owned /\ q.end = "none" /\ r \notin announced
  /\ q.pc # "done" => q.end \notin {"accepted", "replayed"}
  /\ q.pc # "new" => q.ask.key \in Keys \cup {NoKey}
  /\ q.pc \notin {"new", "done"} /\ q.owned => q.ask.key \in Keys /\ Owns(r, q.ask.key, q.pc)
  /\ q.pc \in Creating => q.owned \/ q.ask.key = NoKey
  /\ q.pc \in {"free", "unplace", "fill"} => q.owned
  /\ q.pc \in {"place", "peek", "wait"} => q.ask.key # NoKey /\ ~q.owned
  /\ q.found # NoTask => q.found \in Readers /\ LeadsTo(q.ask.key, q.found)
  /\ q.pc = "replay" \/ q.end = "replayed" => q.found # NoTask
  /\ r \in announced \/ q.end = "accepted" => LeadsTo(q.ask.key, r)

IdemInv == ShapeOK /\ \A r \in Readers : ReqOK(r, req[r])

\* What FilledKeyStays says of one step.
KeysKept ==
  \A k \in Keys : idem[k] \in Readers =>
    idem'[k] = idem[k] \/ (k \in overrun /\ idem'[k] \in Readers)

-------------------------------------------------------------------------------
(* How a request moves                                                     *)

LEMMA Values ==
  /\ NoTask \notin Readers /\ Pending \notin Readers /\ NoTask # Pending
  /\ NoKey \notin Keys
  BY AdmissionAssumption

LEMMA StandStill ==
  ASSUME IdemInv, UNCHANGED <<idem, placer, overrun, announced, req>>
  PROVE  IdemInv' /\ KeysKept
  BY DEF IdemInv, ShapeOK, IsReq, ReqOK, Owns, LeadsTo, KeysKept

\* A request goes on, its key does not change.
LEMMA Moves ==
  ASSUME IdemInv, NEW r \in Readers, NEW q, IsReq(q), ReqOK(r, q), Become(r, q),
         UNCHANGED <<idem, placer, overrun, announced>>
  PROVE  IdemInv' /\ KeysKept
<1>1. req'[r] = q /\ \A s \in Readers \ {r} : req'[s] = req[s]
  BY DEF Become, IdemInv, ShapeOK
<1>2. ShapeOK'
  BY DEF Become, IdemInv, ShapeOK, IsReq
<1>3. \A s \in Readers : ReqOK(s, req[s])'
  BY <1>1 DEF IdemInv, ReqOK, Owns, LeadsTo
<1> QED BY <1>2, <1>3 DEF IdemInv, KeysKept

\* What a request is to the invariant.
Looks(e, pc, ask, owned, found, end) ==
  IsReq(e) /\ e.pc = pc /\ e.ask = ask /\ e.owned = owned /\ e.found = found /\ e.end = end

LEMMA EditPc ==
  ASSUME NEW q, IsReq(q), NEW v
  PROVE  Looks([q EXCEPT !.pc = v], v, q.ask, q.owned, q.found, q.end)
<1>1. [q EXCEPT !.pc = v] =
        [pc |-> v, ask |-> q.ask, owned |-> q.owned, found |-> q.found, got |-> q.got,
         plan |-> q.plan, held |-> q.held, made |-> q.made, end |-> q.end]
  BY DEF IsReq
<1> QED BY <1>1 DEF Looks, IsReq

LEMMA EditAsk ==
  ASSUME NEW q, IsReq(q), NEW v
  PROVE  Looks([q EXCEPT !.ask = v], q.pc, v, q.owned, q.found, q.end)
<1>1. [q EXCEPT !.ask = v] =
        [pc |-> q.pc, ask |-> v, owned |-> q.owned, found |-> q.found, got |-> q.got,
         plan |-> q.plan, held |-> q.held, made |-> q.made, end |-> q.end]
  BY DEF IsReq
<1> QED BY <1>1 DEF Looks, IsReq

LEMMA EditOwned ==
  ASSUME NEW q, IsReq(q), NEW v
  PROVE  Looks([q EXCEPT !.owned = v], q.pc, q.ask, v, q.found, q.end)
<1>1. [q EXCEPT !.owned = v] =
        [pc |-> q.pc, ask |-> q.ask, owned |-> v, found |-> q.found, got |-> q.got,
         plan |-> q.plan, held |-> q.held, made |-> q.made, end |-> q.end]
  BY DEF IsReq
<1> QED BY <1>1 DEF Looks, IsReq

LEMMA EditFound ==
  ASSUME NEW q, IsReq(q), NEW v
  PROVE  Looks([q EXCEPT !.found = v], q.pc, q.ask, q.owned, v, q.end)
<1>1. [q EXCEPT !.found = v] =
        [pc |-> q.pc, ask |-> q.ask, owned |-> q.owned, found |-> v, got |-> q.got,
         plan |-> q.plan, held |-> q.held, made |-> q.made, end |-> q.end]
  BY DEF IsReq
<1> QED BY <1>1 DEF Looks, IsReq

LEMMA EditEnd ==
  ASSUME NEW q, IsReq(q), NEW v
  PROVE  Looks([q EXCEPT !.end = v], q.pc, q.ask, q.owned, q.found, v)
<1>1. [q EXCEPT !.end = v] =
        [pc |-> q.pc, ask |-> q.ask, owned |-> q.owned, found |-> q.found, got |-> q.got,
         plan |-> q.plan, held |-> q.held, made |-> q.made, end |-> v]
  BY DEF IsReq
<1> QED BY <1>1 DEF Looks, IsReq

\* The invariant does not see the plan, the slot and the row of a request.
LEMMA EditRest ==
  ASSUME NEW q, IsReq(q), NEW v
  PROVE  /\ Looks([q EXCEPT !.got = v], q.pc, q.ask, q.owned, q.found, q.end)
         /\ Looks([q EXCEPT !.plan = v], q.pc, q.ask, q.owned, q.found, q.end)
         /\ Looks([q EXCEPT !.held = v], q.pc, q.ask, q.owned, q.found, q.end)
         /\ Looks([q EXCEPT !.made = v], q.pc, q.ask, q.owned, q.found, q.end)
<1>1. [q EXCEPT !.got = v] =
        [pc |-> q.pc, ask |-> q.ask, owned |-> q.owned, found |-> q.found, got |-> v,
         plan |-> q.plan, held |-> q.held, made |-> q.made, end |-> q.end]
  BY DEF IsReq
<1>2. [q EXCEPT !.plan = v] =
        [pc |-> q.pc, ask |-> q.ask, owned |-> q.owned, found |-> q.found, got |-> q.got,
         plan |-> v, held |-> q.held, made |-> q.made, end |-> q.end]
  BY DEF IsReq
<1>3. [q EXCEPT !.held = v] =
        [pc |-> q.pc, ask |-> q.ask, owned |-> q.owned, found |-> q.found, got |-> q.got,
         plan |-> q.plan, held |-> v, made |-> q.made, end |-> q.end]
  BY DEF IsReq
<1>4. [q EXCEPT !.made = v] =
        [pc |-> q.pc, ask |-> q.ask, owned |-> q.owned, found |-> q.found, got |-> q.got,
         plan |-> q.plan, held |-> q.held, made |-> v, end |-> q.end]
  BY DEF IsReq
<1>5. Looks([q EXCEPT !.got = v], q.pc, q.ask, q.owned, q.found, q.end)
  BY <1>1 DEF Looks, IsReq
<1>6. Looks([q EXCEPT !.plan = v], q.pc, q.ask, q.owned, q.found, q.end)
  BY <1>2 DEF Looks, IsReq
<1>7. Looks([q EXCEPT !.held = v], q.pc, q.ask, q.owned, q.found, q.end)
  BY <1>3 DEF Looks, IsReq
<1>8. Looks([q EXCEPT !.made = v], q.pc, q.ask, q.owned, q.found, q.end)
  BY <1>4 DEF Looks, IsReq
<1> QED BY <1>5, <1>6, <1>7, <1>8

-------------------------------------------------------------------------------
(* How a request ends                                                      *)

\* A request that ends is told nothing but what it has found.
LEMMA EndedOK ==
  ASSUME NEW r, NEW q, ReqOK(r, q), q.ask.key \in Keys \cup {NoKey},
         NEW end, end \notin {"accepted", "replayed"}
  PROVE  Looks(Ended(q, end), "done", q.ask, FALSE, q.found, end) /\ ReqOK(r, Ended(q, end))
<1> DEFINE e == Ended(q, end)
<1>1. Looks(e, "done", q.ask, FALSE, q.found, end)
  BY DEF Ended, IsReq, Looks
<1> HIDE DEF e
<1>2. ReqOK(r, e)
  BY <1>1 DEF Looks, ReqOK, Creating, Reads, Before
<1> QED BY <1>1, <1>2 DEF e

\* The except branch: the next call of the way back, or the end.
LEMMA BackedOut ==
  ASSUME NEW r, NEW q, IsReq(q), ReqOK(r, q), q.pc \notin {"new", "done"},
         NEW end, end \notin {"accepted", "replayed"}, Backout(r, q, end)
  PROVE  \E e : /\ Become(r, e) /\ IsReq(e) /\ ReqOK(r, e) /\ e.ask = q.ask
               /\ e.pc \in {"unslot", "unbatch", "unplace", "done"}
<1>1. CASE Unwind(q) = "done"
  <2>1. q.ask.key \in Keys \cup {NoKey}
    BY DEF ReqOK
  <2>2. Become(r, Ended(q, end))
    BY <1>1 DEF Backout, Finish
  <2>3. Looks(Ended(q, end), "done", q.ask, FALSE, q.found, end) /\ ReqOK(r, Ended(q, end))
    BY <2>1, EndedOK
  <2> QED BY <2>2, <2>3 DEF Looks
<1>2. CASE Unwind(q) # "done"
  <2> DEFINE u == Unwind(q)
             d == [q EXCEPT !.pc = u]
             e == [q EXCEPT !.pc = u, !.end = end]
  <2>1. u \in {"unslot", "unbatch", "unplace"} /\ (u = "unplace" => q.owned)
    BY <1>2 DEF Unwind
  <2>2. Become(r, e)
    BY <1>2 DEF Backout
  <2>3. e = [d EXCEPT !.end = end]
    OBVIOUS
  <2> HIDE DEF u
  <2>4. Looks(d, u, q.ask, q.owned, q.found, q.end)
    BY EditPc
  <2> HIDE DEF d, e
  <2>5. Looks(e, u, q.ask, q.owned, q.found, end)
    BY <2>3, <2>4, EditEnd DEF Looks
  <2>6. ReqOK(r, e)
    BY <2>1, <2>5 DEF Looks, ReqOK, Owns, Creating, Reads, Before
  <2>7. IsReq(e) /\ e.ask = q.ask /\ e.pc \in {"unslot", "unbatch", "unplace", "done"}
    BY <2>1, <2>5 DEF Looks
  <2> QED BY <2>2, <2>6, <2>7
<1> QED BY <1>1, <1>2

\* From one await of a creation to the next.
LEMMA GoesOn ==
  ASSUME NEW r, NEW q, ReqOK(r, q), q.pc \notin {"new", "done"},
         NEW pc, NEW e, Looks(e, pc, q.ask, q.owned, q.found, q.end),
         pc \notin {"new", "done", "place"},
         pc \in Before => q.pc \in Before,
         pc = "announce" => ~q.owned,
         pc \in Creating => q.pc \in Creating \/ q.owned \/ q.ask.key = NoKey,
         pc \in {"free", "unplace", "fill"} => q.owned,
         pc \in {"peek", "wait"} => q.ask.key # NoKey /\ ~q.owned,
         pc = "replay" => q.found # NoTask
  PROVE  IsReq(e) /\ ReqOK(r, e)
  BY DEF Looks, ReqOK, Owns

\* The request ends.
LEMMA Finished ==
  ASSUME NEW r, NEW q, ReqOK(r, q), q.ask.key \in Keys \cup {NoKey},
         NEW end, end \notin {"accepted", "replayed"}, Finish(r, q, end)
  PROVE  \E e : Become(r, e) /\ IsReq(e) /\ ReqOK(r, e)
  BY EndedOK DEF Finish, Looks

-------------------------------------------------------------------------------
(* Steps that leave the key space alone                                    *)

\* r is in a state that fits.
Fitting(r) == \E e : Become(r, e) /\ IsReq(e) /\ ReqOK(r, e)

LEMMA ArriveOK ==
  ASSUME IdemInv, NEW r \in Readers, Arrive(r)
  PROVE  Fitting(r)
<1> DEFINE q == req[r]
<1>1. IsReq(q) /\ ReqOK(r, q) /\ q.pc = "new"
  BY DEF IdemInv, ShapeOK, Arrive, At
<1>2. PICK p \in Profiles :
        LET d == [q EXCEPT !.ask = p]
        IN  \/ Become(r, [d EXCEPT !.pc = IF p.key = NoKey THEN "verdict" ELSE "place"])
            \/ Finish(r, d, "4xx")
  BY DEF Arrive
<1> DEFINE d == [q EXCEPT !.ask = p]
           pc == IF p.key = NoKey THEN "verdict" ELSE "place"
           e == [d EXCEPT !.pc = pc]
<1>3. Become(r, e) \/ Finish(r, d, "4xx")
  BY <1>2
<1>4. p.key \in Keys \cup {NoKey}
  BY AdmissionAssumption
<1> HIDE DEF q
<1>5. Looks(d, "new", p, q.owned, q.found, q.end)
  BY <1>1, EditAsk
<1> HIDE DEF d
<1>6. ReqOK(r, d)
  BY <1>1, <1>5, Values DEF Looks, ReqOK, Creating, Reads
<1>7. CASE Become(r, e)
  <2> HIDE DEF pc
  <2>1. Looks(e, pc, p, q.owned, q.found, q.end)
    BY <1>5, EditPc DEF Looks
  <2> HIDE DEF e
  <2>2. IsReq(e) /\ ReqOK(r, e)
    BY <1>1, <1>4, <2>1, Values DEF pc, Looks, ReqOK, Creating, Reads
  <2> QED BY <1>7, <2>2 DEF Fitting
<1>8. CASE Finish(r, d, "4xx")
  BY <1>4, <1>5, <1>6, <1>8, Finished DEF Looks, Fitting
<1> QED BY <1>3, <1>7, <1>8

LEMMA PeekOK ==
  ASSUME IdemInv, NEW r \in Readers, Peek(r)
  PROVE  Fitting(r)
<1> DEFINE q == req[r]
           x == TaskOf(Key(r))
           d == [q EXCEPT !.pc = "verdict"]
           e == [q EXCEPT !.pc = "verdict", !.found = x]
<1>1. IsReq(q) /\ ReqOK(r, q) /\ q.pc = "peek"
  BY DEF IdemInv, ShapeOK, Peek, At
<1>2. Become(r, e) /\ e = [d EXCEPT !.found = x]
  BY DEF Peek
<1>3. q.ask.key \in Keys
  BY <1>1 DEF ReqOK
<1>4. x # NoTask => x \in Readers /\ LeadsTo(q.ask.key, x)
  BY <1>3 DEF TaskOf, Key, LeadsTo, IdemInv, ShapeOK
<1> HIDE DEF q, x
<1>5. Looks(d, "verdict", q.ask, q.owned, q.found, q.end)
  BY <1>1, EditPc
<1> HIDE DEF d, e
<1>6. Looks(e, "verdict", q.ask, q.owned, x, q.end)
  BY <1>2, <1>5, EditFound DEF Looks
<1>7. IsReq(e) /\ ReqOK(r, e)
  BY <1>1, <1>3, <1>4, <1>6, Values DEF Looks, ReqOK, Creating, Reads, Before, Owns
<1> QED BY <1>2, <1>7 DEF Fitting

\* Past the rate limit, and refused before the creation has begun.
LEMMA VerdictOK ==
  ASSUME IdemInv, NEW r \in Readers, Verdict(r)
  PROVE  Fitting(r)
<1> DEFINE q == req[r]
<1>1. IsReq(q) /\ ReqOK(r, q) /\ q.pc = "verdict" /\ q.ask.key \in Keys \cup {NoKey}
  BY DEF IdemInv, ShapeOK, Verdict, At, ReqOK
<1>2. ASSUME NEW pc, Goto(r, pc), pc \in {"replay", "batch_enabled", "wait", "free"},
             pc = "replay" => q.found # NoTask,
             pc = "batch_enabled" => q.owned \/ q.ask.key = NoKey,
             pc = "wait" => q.ask.key # NoKey /\ ~q.owned,
             pc = "free" => q.owned
      PROVE  Fitting(r)
  <2> DEFINE e == [q EXCEPT !.pc = pc]
  <2>1. Become(r, e)
    BY <1>2 DEF Goto
  <2> HIDE DEF q
  <2>2. Looks(e, pc, q.ask, q.owned, q.found, q.end)
    BY <1>1, EditPc
  <2> HIDE DEF e
  <2>3. IsReq(e) /\ ReqOK(r, e)
    BY <1>1, <1>2, <2>2, GoesOn DEF Before, Creating, Reads
  <2> QED BY <2>1, <2>3 DEF Fitting
<1>3. CASE Admitted(r)
  <2>1. \/ Goto(r, "replay") /\ q.found # NoTask
        \/ Goto(r, "batch_enabled") /\ (q.owned \/ q.ask.key = NoKey)
        \/ Backout(r, q, "4xx")
        \/ Goto(r, "wait") /\ q.ask.key # NoKey /\ ~q.owned
    BY <1>3 DEF Admitted, Key
  <2>2. CASE Backout(r, q, "4xx")
    BY <1>1, <2>2, BackedOut DEF Fitting
  <2> QED BY <1>2, <2>1, <2>2
<1>4. CASE q.owned /\ Goto(r, "free")
  BY <1>2, <1>4
<1>5. CASE Finish(r, q, "4xx")
  BY <1>1, <1>5, Finished DEF Fitting
<1> QED BY <1>3, <1>4, <1>5 DEF Verdict

\* A request that waits for the task of another.
LEMMA PollOK ==
  ASSUME IdemInv, NEW r \in Readers, Poll(r) \/ GiveUp(r)
  PROVE  Fitting(r)
<1> DEFINE q == req[r]
           x == idem[Key(r)]
           d == [q EXCEPT !.pc = "replay"]
           e == [q EXCEPT !.pc = "replay", !.found = x]
<1>1. IsReq(q) /\ ReqOK(r, q) /\ q.pc = "wait" /\ q.ask.key \in Keys /\ ~q.owned
  BY DEF IdemInv, ShapeOK, Poll, GiveUp, At, ReqOK
<1>2. Finish(r, q, "4xx") \/ (x \in Readers /\ Become(r, e))
  BY <1>1 DEF Poll, GiveUp, IdemInv, ShapeOK, Key
<1>3. CASE Finish(r, q, "4xx")
  BY <1>1, <1>3, Finished DEF Fitting
<1>4. CASE x \in Readers /\ Become(r, e)
  <2>1. LeadsTo(q.ask.key, x) /\ e = [d EXCEPT !.found = x]
    BY DEF LeadsTo, Key
  <2> HIDE DEF q, x
  <2>2. Looks(d, "replay", q.ask, q.owned, q.found, q.end)
    BY <1>1, EditPc
  <2> HIDE DEF d, e
  <2>3. Looks(e, "replay", q.ask, FALSE, x, q.end)
    BY <1>1, <2>1, <2>2, EditFound DEF Looks
  <2>4. IsReq(e) /\ ReqOK(r, e)
    BY <1>1, <1>4, <2>1, <2>3, Values DEF Looks, ReqOK, Creating, Reads, Before, Owns
  <2> QED BY <1>4, <2>4 DEF Fitting
<1> QED BY <1>2, <1>3, <1>4

LEMMA ReplayOK ==
  ASSUME IdemInv, NEW r \in Readers, Replay(r)
  PROVE  Fitting(r)
<1> DEFINE q == req[r]
           end == IF q.found \in rows THEN "replayed" ELSE "4xx"
           e == Ended(q, end)
<1>1. IsReq(q) /\ ReqOK(r, q) /\ q.pc = "replay" /\ q.ask.key \in Keys \cup {NoKey}
  BY DEF IdemInv, ShapeOK, Replay, At, ReqOK
<1>2. Become(r, e)
  BY DEF Replay, Finish
<1> HIDE DEF q
<1>3. Looks(e, "done", q.ask, FALSE, q.found, end)
  BY DEF Ended, IsReq, Looks
<1>4. end \in {"replayed", "4xx"}
  OBVIOUS
<1> HIDE DEF end, e
<1>5. IsReq(e) /\ ReqOK(r, e)
  BY <1>1, <1>3, <1>4 DEF Looks, ReqOK, Creating, Reads, Before
<1> QED BY <1>2, <1>5 DEF Fitting

\* A value of the configuration is there, or not yet.
LEMMA ReadOK ==
  ASSUME IdemInv, NEW r \in Readers, Read(r)
  PROVE  Fitting(r) \/ UNCHANGED req
<1> DEFINE q == req[r]
           pc == AfterRead[q.pc]
<1>1. IsReq(q) /\ ReqOK(r, q) /\ q.pc \in Reads
  BY DEF IdemInv, ShapeOK, Read
<1>2. pc \in {"batch_size", "batch_wait_seconds", "plan", "conc"}
  BY <1>1 DEF Reads, AfterRead
<1>3. ASSUME NEW hash, Take(r, q.pc, hash)
      PROVE  Fitting(r)
  <2> DEFINE v == Value(hash, q.pc)
             got == [q.got EXCEPT ![q.pc] = v]
             d == [q EXCEPT !.pc = pc]
             e == [d EXCEPT !.got = got]
  <2>1. Become(r, [q EXCEPT !.pc = pc, !.got[q.pc] = v])
    BY <1>3 DEF Take
  <2> HIDE DEF v, pc
  <2>2. Looks(d, pc, q.ask, q.owned, q.found, q.end)
    BY <1>1, EditPc
  <2>3. d.got = q.got
    BY <1>1 DEF IsReq
  <2>4. [q EXCEPT !.pc = pc, !.got[q.pc] = v] = e
    BY <2>3
  <2> HIDE DEF d, got
  <2>5. Looks(e, pc, q.ask, q.owned, q.found, q.end)
    <3>1. IsReq(d)
      BY <2>2 DEF Looks
    <3>2. Looks(e, d.pc, d.ask, d.owned, d.found, d.end)
      BY <3>1, EditRest
    <3> QED BY <2>2, <3>2 DEF Looks
  <2> HIDE DEF e
  <2>6. IsReq(e) /\ ReqOK(r, e)
    <3> HIDE DEF q
    <3> QED BY <1>1, <1>2, <2>5, GoesOn DEF Before, Creating, Reads
  <2> QED BY <2>1, <2>4, <2>6 DEF Fitting
<1> QED BY <1>3 DEF Read

LEMMA ResolveOK ==
  ASSUME IdemInv, NEW r \in Readers, Resolve(r)
  PROVE  Fitting(r)
<1> DEFINE q == req[r]
           plan == resolve_plan(q.ask.headers, q.got, q.ask.model, NoName)
           bare == [q EXCEPT !.got = NoOverrides]
           planned == [bare EXCEPT !.plan = plan]
           pc == IF plan.enabled THEN "insert" ELSE "max_concurrent_tasks"
           e == [planned EXCEPT !.pc = pc]
<1>1. IsReq(q) /\ ReqOK(r, q) /\ q.pc = "plan"
  BY DEF IdemInv, ShapeOK, Resolve, At
<1>2. \/ Become(r, e)
      \/ Backout(r, planned, "4xx")
      \/ Backout(r, bare, "4xx")
  BY DEF Resolve
<1> HIDE DEF q, plan
<1>3. pc \in {"insert", "max_concurrent_tasks"}
  OBVIOUS
<1> HIDE DEF pc
<1>4. Looks(bare, "plan", q.ask, q.owned, q.found, q.end)
  BY <1>1, EditRest
<1> HIDE DEF bare
<1>5. Looks(planned, "plan", q.ask, q.owned, q.found, q.end)
  <2>1. IsReq(bare)
    BY <1>4 DEF Looks
  <2>2. Looks(planned, bare.pc, bare.ask, bare.owned, bare.found, bare.end)
    BY <2>1, EditRest
  <2> QED BY <1>4, <2>2 DEF Looks
<1> HIDE DEF planned
<1>6. Looks(e, pc, q.ask, q.owned, q.found, q.end)
  BY <1>5, EditPc DEF Looks
<1> HIDE DEF e
<1>7. CASE Become(r, e)
  <2>1. IsReq(e) /\ ReqOK(r, e)
    BY <1>1, <1>3, <1>6, GoesOn DEF Before, Creating, Reads
  <2> QED BY <1>7, <2>1 DEF Fitting
<1>8. ReqOK(r, bare) /\ ReqOK(r, planned)
  BY <1>1, <1>4, <1>5, GoesOn DEF Before, Creating, Reads
<1>9. CASE Backout(r, planned, "4xx")
  BY <1>5, <1>8, <1>9, BackedOut DEF Fitting, Looks
<1>10. CASE Backout(r, bare, "4xx")
  BY <1>4, <1>8, <1>10, BackedOut DEF Fitting, Looks
<1> QED BY <1>2, <1>7, <1>9, <1>10

LEMMA TakeSlotOK ==
  ASSUME IdemInv, NEW r \in Readers, TakeSlot(r)
  PROVE  Fitting(r)
<1> DEFINE q == req[r]
           bare == [q EXCEPT !.got = NoOverrides]
           there == [bare EXCEPT !.pc = "insert"]
           e == [there EXCEPT !.held = TRUE]
<1>1. IsReq(q) /\ ReqOK(r, q) /\ q.pc = "conc"
  BY DEF IdemInv, ShapeOK, TakeSlot, At
<1>2. Become(r, e) \/ Backout(r, bare, "4xx") \/ Backout(r, bare, "5xx")
  BY DEF TakeSlot
<1> HIDE DEF q
<1>3. Looks(bare, "conc", q.ask, q.owned, q.found, q.end)
  BY <1>1, EditRest
<1> HIDE DEF bare
<1>4. Looks(there, "insert", q.ask, q.owned, q.found, q.end)
  BY <1>3, EditPc DEF Looks
<1> HIDE DEF there
<1>5. Looks(e, "insert", q.ask, q.owned, q.found, q.end)
  <2>1. IsReq(there)
    BY <1>4 DEF Looks
  <2>2. Looks(e, there.pc, there.ask, there.owned, there.found, there.end)
    BY <2>1, EditRest
  <2> QED BY <1>4, <2>2 DEF Looks
<1> HIDE DEF e
<1>6. CASE Become(r, e)
  <2>1. IsReq(e) /\ ReqOK(r, e)
    BY <1>1, <1>5, GoesOn DEF Before, Creating, Reads
  <2> QED BY <1>6, <2>1 DEF Fitting
<1>7. ReqOK(r, bare)
  BY <1>1, <1>3, GoesOn DEF Before, Creating, Reads
<1>8. CASE Backout(r, bare, "4xx") \/ Backout(r, bare, "5xx")
  BY <1>3, <1>7, <1>8, BackedOut DEF Fitting, Looks
<1> QED BY <1>2, <1>6, <1>8

LEMMA InsertOK ==
  ASSUME IdemInv, NEW r \in Readers, Insert(r)
  PROVE  Fitting(r)
<1> DEFINE q == req[r]
           made == [q EXCEPT !.made = TRUE]
           pc == IF q.ask.key = NoKey THEN "announce" ELSE "fill"
           e == [made EXCEPT !.pc = pc]
<1>1. IsReq(q) /\ ReqOK(r, q) /\ q.pc = "insert"
  BY DEF IdemInv, ShapeOK, Insert, At
<1>2. Become(r, e) \/ Backout(r, q, "5xx")
  BY DEF Insert, Key
<1>3. CASE Backout(r, q, "5xx")
  BY <1>1, <1>3, BackedOut DEF Fitting
<1>4. CASE Become(r, e)
  <2> HIDE DEF q
  <2>1. \/ pc = "announce" /\ q.ask.key = NoKey /\ ~q.owned
        \/ pc = "fill" /\ q.owned
    BY <1>1, Values DEF ReqOK, Creating
  <2>2. Looks(made, "insert", q.ask, q.owned, q.found, q.end)
    BY <1>1, EditRest
  <2> HIDE DEF pc, made
  <2>3. Looks(e, pc, q.ask, q.owned, q.found, q.end)
    BY <2>2, EditPc DEF Looks
  <2> HIDE DEF e
  <2>4. IsReq(e) /\ ReqOK(r, e)
    BY <1>1, <2>1, <2>3, GoesOn DEF Before, Creating, Reads
  <2> QED BY <1>4, <2>4 DEF Fitting
<1> QED BY <1>2, <1>3, <1>4

\* The slot and the batch of a failed creation are given up.
LEMMA GiveBackOK ==
  ASSUME IdemInv, NEW r \in Readers, Unslot(r) \/ Unbatch(r)
  PROVE  Fitting(r)
<1> DEFINE q == req[r]
           without == [q EXCEPT !.held = FALSE]
           left == [q EXCEPT !.made = FALSE]
<1>1. IsReq(q) /\ ReqOK(r, q) /\ q.pc \in {"unslot", "unbatch"}
  BY DEF IdemInv, ShapeOK, Unslot, Unbatch, At
<1>2. Backout(r, without, q.end) \/ Backout(r, left, q.end)
  BY DEF Unslot, Unbatch
<1>3. q.end \notin {"accepted", "replayed"}
  BY <1>1 DEF ReqOK
<1> HIDE DEF q
<1>4. Looks(without, q.pc, q.ask, q.owned, q.found, q.end) /\ Looks(left, q.pc, q.ask, q.owned, q.found, q.end)
  BY <1>1, EditRest
<1> HIDE DEF without, left
<1>5. ReqOK(r, without) /\ ReqOK(r, left)
  BY <1>1, <1>4, GoesOn DEF Before, Creating, Reads
<1> QED BY <1>1, <1>2, <1>3, <1>4, <1>5, BackedOut DEF Fitting, Looks

-------------------------------------------------------------------------------
(* Steps that move the key space                                           *)

\* r is in state q, every other request fits what the keys hold now.
LEMMA Together ==
  ASSUME IdemInv, NEW r \in Readers, NEW q, Become(r, q), IsReq(q), ReqOK(r, q)',
         idem' \in [Keys -> Readers \cup {NoTask, Pending}],
         placer' \in [Keys -> Readers \cup {NoTask}], announced' \subseteq Readers,
         \A s \in Readers \ {r} : \A x : ReqOK(s, x) => ReqOK(s, x)'
  PROVE  IdemInv'
<1>1. req'[r] = q /\ \A s \in Readers \ {r} : req'[s] = req[s]
  BY DEF Become, IdemInv, ShapeOK
<1>2. ShapeOK'
  BY DEF Become, IdemInv, ShapeOK, IsReq
<1>3. ASSUME NEW s \in Readers
      PROVE  ReqOK(s, req[s])'
  <2>1. CASE s = r
    BY <1>1, <2>1
  <2>2. CASE s # r
    <3>1. PICK x : x = req[s]
      OBVIOUS
    <3>2. ReqOK(s, x)'
      BY <2>2, <3>1 DEF IdemInv
    <3> QED BY <1>1, <2>2, <3>1, <3>2
  <2> QED BY <2>1, <2>2
<1> QED BY <1>2, <1>3 DEF IdemInv

\* SET NX: the key was free, so nobody counted on it.
LEMMA PlaceKeeps ==
  ASSUME NEW r \in Readers, NEW k \in Keys, ShapeOK, idem[k] = NoTask,
         idem' = [idem EXCEPT ![k] = Pending], placer' = [placer EXCEPT ![k] = r],
         UNCHANGED <<overrun, announced>>,
         NEW s \in Readers, NEW x, ReqOK(s, x)
  PROVE  ReqOK(s, x)'
<1>1. x.ask.key \in Keys \cup {NoKey} =>
        \A y \in Readers : LeadsTo(x.ask.key, y) => LeadsTo(x.ask.key, y)'
  BY Values DEF LeadsTo, ShapeOK
<1>2. x.ask.key \in Keys /\ Owns(s, x.ask.key, x.pc) => Owns(s, x.ask.key, x.pc)'
  BY Values DEF Owns, ShapeOK
<1> QED BY <1>1, <1>2 DEF ReqOK

\* The release of an owner: others have no placeholder at this key.
LEMMA FreeKeeps ==
  ASSUME NEW r \in Readers, NEW k \in Keys, NEW pc, ShapeOK, Owns(r, k, pc),
         idem' \in {idem, Freed(k)}, UNCHANGED <<placer, overrun, announced>>,
         NEW s \in Readers, NEW x, ReqOK(s, x), s # r \/ x.pc = "done"
  PROVE  ReqOK(s, x)'
<1>1. x.ask.key \in Keys \cup {NoKey} =>
        \A y \in Readers : LeadsTo(x.ask.key, y) => LeadsTo(x.ask.key, y)'
  BY Values DEF LeadsTo, ShapeOK, Freed
<1>2. s # r /\ x.ask.key \in Keys /\ Owns(s, x.ask.key, x.pc) => Owns(s, x.ask.key, x.pc)'
  BY Values DEF Owns, ShapeOK, Freed
<1> QED BY <1>1, <1>2 DEF ReqOK

\* The owner fills its key: until then it held the placeholder.
LEMMA FillKeeps ==
  ASSUME NEW r \in Readers, NEW k \in Keys, ShapeOK, Owns(r, k, "fill"),
         idem' \in {idem, [idem EXCEPT ![k] = r]}, UNCHANGED <<placer, overrun, announced>>,
         NEW s \in Readers, NEW x, ReqOK(s, x), s # r \/ x.pc \notin Before
  PROVE  ReqOK(s, x)'
<1>1. x.ask.key \in Keys \cup {NoKey} =>
        \A y \in Readers : LeadsTo(x.ask.key, y) => LeadsTo(x.ask.key, y)'
  BY Values DEF LeadsTo, ShapeOK, Owns, Before
<1>2. x.ask.key \in Keys /\ Owns(s, x.ask.key, x.pc) => Owns(s, x.ask.key, x.pc)'
  BY Values DEF Owns, ShapeOK, Before
<1> QED BY <1>1, <1>2 DEF ReqOK

LEMMA AnnounceKeeps ==
  ASSUME NEW r \in Readers, announced' \in {announced, announced \cup {r}}, UNCHANGED keyspace,
         NEW s \in Readers, NEW x, ReqOK(s, x), s # r \/ (LeadsTo(x.ask.key, r) /\ x.pc # "new")
  PROVE  ReqOK(s, x)'
  BY DEF ReqOK, LeadsTo, Owns, keyspace

-------------------------------------------------------------------------------
LEMMA AcquireKeeps ==
  ASSUME IdemInv, NEW r \in Readers, Acquire(r)
  PROVE  IdemInv' /\ KeysKept
<1>1. PICK q : q = req[r]
  OBVIOUS
<1>2. PICK k : k = Key(r)
  OBVIOUS
<1>3. IsReq(q) /\ ReqOK(r, q) /\ q.pc = "place" /\ k = q.ask.key /\ k \in Keys
  BY <1>1, <1>2 DEF IdemInv, ShapeOK, Acquire, At, ReqOK, Key
<1> DEFINE Placing == /\ idem[k] = NoTask
                      /\ idem' = [idem EXCEPT ![k] = Pending]
                      /\ placer' = [placer EXCEPT ![k] = r]
<1>4. UNCHANGED <<overrun, announced>>
  BY DEF Acquire
<1>5. KeysKept /\ idem' \in [Keys -> Readers \cup {NoTask, Pending}]
      /\ placer' \in [Keys -> Readers \cup {NoTask}] /\ announced' \subseteq Readers
  <2>1. Placing \/ UNCHANGED <<idem, placer>>
    BY <1>2 DEF Acquire
  <2> QED BY <1>3, <1>4, <2>1, Values DEF KeysKept, IdemInv, ShapeOK
<1>6. CASE Placing /\ Become(r, [q EXCEPT !.pc = "verdict", !.owned = TRUE])
  <2>1. PICK d : d = [q EXCEPT !.pc = "verdict"]
    OBVIOUS
  <2>2. PICK e : e = [d EXCEPT !.owned = TRUE]
    OBVIOUS
  <2>3. Looks(d, "verdict", q.ask, q.owned, q.found, q.end)
    BY <1>3, <2>1, EditPc
  <2>4. Looks(e, "verdict", q.ask, TRUE, q.found, q.end)
    BY <2>2, <2>3, EditOwned DEF Looks
  <2>5. Owns(r, k, "verdict")'
    BY <1>3, <1>6 DEF Owns, IdemInv, ShapeOK
  <2>6. ReqOK(r, q)'
    BY <1>3, <1>4, <1>6, PlaceKeeps DEF IdemInv
  <2>7. IsReq(e) /\ ReqOK(r, e)'
    BY <1>3, <2>4, <2>5, <2>6 DEF Looks, ReqOK, Creating, Reads
  <2>8. Become(r, e)
    BY <1>6, <2>1, <2>2
  <2>9. \A s \in Readers \ {r} : \A x : ReqOK(s, x) => ReqOK(s, x)'
    BY <1>3, <1>4, <1>6, PlaceKeeps DEF IdemInv
  <2> QED BY <1>5, <2>7, <2>8, <2>9, Together
<1>7. CASE UNCHANGED <<idem, placer>> /\ Goto(r, "peek")
  <2>1. PICK e : e = [q EXCEPT !.pc = "peek"]
    OBVIOUS
  <2>2. Looks(e, "peek", q.ask, q.owned, q.found, q.end)
    BY <1>3, <2>1, EditPc
  <2>3. IsReq(e) /\ ReqOK(r, e)
    BY <1>3, <2>2, GoesOn, Values DEF Before, Creating, Reads, ReqOK
  <2>4. Become(r, e)
    BY <1>1, <1>7, <2>1 DEF Goto
  <2> QED BY <1>4, <1>7, <2>3, <2>4, Moves
<1>8. CASE (Placing \/ UNCHANGED <<idem, placer>>) /\ Finish(r, q, "5xx")
  <2>1. PICK e : Become(r, e) /\ IsReq(e) /\ ReqOK(r, e)
    BY <1>3, <1>8, Finished
  <2>2. CASE Placing
    <3>1. ReqOK(r, e)' /\ \A s \in Readers \ {r} : \A x : ReqOK(s, x) => ReqOK(s, x)'
      BY <1>3, <1>4, <2>1, <2>2, PlaceKeeps DEF IdemInv
    <3> QED BY <1>5, <2>1, <3>1, Together
  <2>3. CASE UNCHANGED <<idem, placer>>
    BY <1>4, <2>1, <2>3, Moves
  <2> QED BY <1>8, <2>2, <2>3
<1> QED BY <1>1, <1>2, <1>6, <1>7, <1>8 DEF Acquire

LEMMA ReleaseKeeps ==
  ASSUME IdemInv, NEW r \in Readers, Release(r)
  PROVE  IdemInv' /\ KeysKept
<1>1. PICK q : q = req[r]
  OBVIOUS
<1>2. IsReq(q) /\ ReqOK(r, q) /\ q.pc \in {"free", "unplace"} /\ q.owned /\ q.ask.key \in Keys
      /\ Owns(r, q.ask.key, q.pc)
  BY <1>1 DEF IdemInv, ShapeOK, Release, At, ReqOK
<1>3. q.end \notin {"accepted", "replayed"}
  BY <1>2 DEF ReqOK
<1>4. /\ idem' \in {idem, Freed(q.ask.key)}
      /\ UNCHANGED <<placer, overrun, announced>>
  BY <1>1 DEF Release, Key
<1>5. PICK end \in {"4xx", "5xx", q.end} : Finish(r, q, end)
  BY <1>1 DEF Release
<1>6. PICK e : Become(r, e) /\ IsReq(e) /\ ReqOK(r, e) /\ e.pc = "done"
  <2>1. end \notin {"accepted", "replayed"}
    BY <1>3
  <2>2. Looks(Ended(q, end), "done", q.ask, FALSE, q.found, end) /\ ReqOK(r, Ended(q, end))
    BY <1>2, <2>1, EndedOK
  <2> QED BY <1>5, <2>2 DEF Finish, Looks
<1>7. \A s \in Readers : \A x : ReqOK(s, x) /\ (s # r \/ x.pc = "done") => ReqOK(s, x)'
  BY <1>2, <1>4, FreeKeeps DEF IdemInv
<1>8. KeysKept /\ idem' \in [Keys -> Readers \cup {NoTask, Pending}]
      /\ placer' \in [Keys -> Readers \cup {NoTask}] /\ announced' \subseteq Readers
  BY <1>4, Values DEF Freed, KeysKept, IdemInv, ShapeOK
<1>9. ReqOK(r, e)'
  BY <1>6, <1>7
<1> QED BY <1>6, <1>7, <1>8, <1>9, Together

LEMMA FillStepKeeps ==
  ASSUME IdemInv, NEW r \in Readers, Fill(r)
  PROVE  IdemInv' /\ KeysKept
<1>1. PICK q : q = req[r]
  OBVIOUS
<1>2. PICK k : k = q.ask.key
  OBVIOUS
<1>3. IsReq(q) /\ ReqOK(r, q) /\ q.pc = "fill" /\ q.owned /\ k \in Keys /\ Owns(r, k, "fill")
  BY <1>1, <1>2 DEF IdemInv, ShapeOK, Fill, At, ReqOK
<1>4. idem' \in {idem, [idem EXCEPT ![k] = r]} /\ UNCHANGED <<placer, overrun, announced>>
  BY <1>1, <1>2 DEF Fill, Filled, Key
<1>5. \A s \in Readers : \A x : ReqOK(s, x) /\ (s # r \/ x.pc \notin Before) => ReqOK(s, x)'
  BY <1>3, <1>4, FillKeeps DEF IdemInv
<1>6. KeysKept /\ idem' \in [Keys -> Readers \cup {NoTask, Pending}]
      /\ placer' \in [Keys -> Readers \cup {NoTask}] /\ announced' \subseteq Readers
  BY <1>3, <1>4, Values DEF Owns, Before, KeysKept, IdemInv, ShapeOK
<1>7. CASE idem' = [idem EXCEPT ![k] = r] /\ Goto(r, "announce")
  <2>1. PICK e : e = [q EXCEPT !.pc = "announce"]
    OBVIOUS
  <2>2. Looks(e, "announce", q.ask, q.owned, q.found, q.end)
    BY <1>3, <2>1, EditPc
  <2>3. Owns(r, k, "announce")' /\ LeadsTo(k, r)'
    BY <1>3, <1>4, <1>7 DEF Owns, LeadsTo, IdemInv, ShapeOK, Before, Reads
  <2>4. q.found # NoTask => q.found \in Readers /\ LeadsTo(k, q.found)'
    BY <1>2, <1>3, <1>4, Values DEF ReqOK, Owns, LeadsTo, Before
  <2>5. IsReq(e) /\ ReqOK(r, e)'
    BY <1>2, <1>3, <2>2, <2>3, <2>4 DEF Looks, ReqOK, Creating, Reads
  <2>6. Become(r, e)
    BY <1>1, <1>7, <2>1 DEF Goto
  <2> QED BY <1>5, <1>6, <2>5, <2>6, Together
<1>8. CASE Backout(r, q, "5xx")
  <2>1. PICK e : /\ Become(r, e) /\ IsReq(e) /\ ReqOK(r, e)
                 /\ e.pc \in {"unslot", "unbatch", "unplace", "done"}
    BY <1>3, <1>8, BackedOut
  <2>2. ReqOK(r, e)'
    BY <1>5, <2>1 DEF Before, Reads
  <2> QED BY <1>5, <1>6, <2>1, <2>2, Together
<1> QED BY <1>1, <1>2, <1>7, <1>8 DEF Fill, Filled, Key

LEMMA AnnounceStepKeeps ==
  ASSUME IdemInv, NEW r \in Readers, Announce(r)
  PROVE  IdemInv' /\ KeysKept
<1>1. PICK q : q = req[r]
  OBVIOUS
<1>2. IsReq(q) /\ ReqOK(r, q) /\ q.pc = "announce" /\ q.ask.key \in Keys \cup {NoKey}
  BY <1>1 DEF IdemInv, ShapeOK, Announce, At, ReqOK
<1>3. LeadsTo(q.ask.key, r)
  BY <1>2 DEF ReqOK, Creating, Owns, LeadsTo
<1>4. announced' \in {announced, announced \cup {r}} /\ UNCHANGED <<idem, placer, overrun>>
  BY DEF Announce, keyspace
<1>5. \A s \in Readers : \A x :
        ReqOK(s, x) /\ (s # r \/ (LeadsTo(x.ask.key, r) /\ x.pc # "new")) => ReqOK(s, x)'
  BY <1>4, AnnounceKeeps DEF keyspace
<1>6. KeysKept /\ idem' \in [Keys -> Readers \cup {NoTask, Pending}]
      /\ placer' \in [Keys -> Readers \cup {NoTask}] /\ announced' \subseteq Readers
  BY <1>4 DEF KeysKept, IdemInv, ShapeOK
<1>7. PICK e : Become(r, e) /\ IsReq(e) /\ ReqOK(r, e) /\ e.ask = q.ask /\ e.pc # "new"
  <2>1. CASE Finish(r, q, "accepted")
    <3> DEFINE e == Ended(q, "accepted")
    <3>1. Looks(e, "done", q.ask, FALSE, q.found, "accepted")
      BY DEF Ended, IsReq, Looks
    <3>2. Become(r, e)
      BY <2>1 DEF Finish
    <3> HIDE DEF e
    <3>3. ReqOK(r, e)
      BY <1>2, <1>3, <3>1 DEF Looks, ReqOK, Creating, Reads, Before
    <3> QED BY <3>1, <3>2, <3>3 DEF Looks
  <2>2. CASE Backout(r, q, "5xx")
    BY <1>2, <2>2, BackedOut
  <2> QED BY <1>1, <2>1, <2>2 DEF Announce
<1>8. ReqOK(r, e)'
  BY <1>3, <1>5, <1>7
<1> QED BY <1>5, <1>6, <1>7, <1>8, Together

\* The placeholder of a creation that still runs marks its key for good.
LEMMA ExpireKeeps ==
  ASSUME IdemInv, NEW k \in Keys, Expire(k)
  PROVE  IdemInv' /\ KeysKept
<1>1. /\ idem[k] = Pending /\ idem' = [idem EXCEPT ![k] = NoTask]
      /\ overrun' = IF Running(placer[k]) THEN overrun \cup {k} ELSE overrun
      /\ UNCHANGED <<placer, announced, req>>
  BY DEF Expire
<1>2. ShapeOK' /\ KeysKept
  BY <1>1, Values DEF IdemInv, ShapeOK, IsReq, KeysKept
<1>3. ASSUME NEW s \in Readers
      PROVE  ReqOK(s, req[s])'
  <2>1. PICK x : x = req[s]
    OBVIOUS
  <2>2. ReqOK(s, x) /\ req'[s] = x
    BY <1>1, <2>1 DEF IdemInv
  <2>3. x.ask.key \in Keys \cup {NoKey} =>
          \A y \in Readers : LeadsTo(x.ask.key, y) => LeadsTo(x.ask.key, y)'
    BY <1>1, Values DEF LeadsTo, IdemInv, ShapeOK
  <2>4. x.pc \notin {"new", "done"} /\ x.ask.key \in Keys /\ Owns(s, x.ask.key, x.pc)
          => Owns(s, x.ask.key, x.pc)'
    BY <1>1, <2>1, Values DEF Owns, Running, IdemInv, ShapeOK
  <2>5. ReqOK(s, x)'
    BY <1>1, <2>2, <2>3, <2>4 DEF ReqOK
  <2> QED BY <2>2, <2>5
<1> QED BY <1>2, <1>3 DEF IdemInv

LEMMA KillKeeps ==
  ASSUME IdemInv, NEW p \in Processes, Kill(p)
  PROVE  IdemInv' /\ KeysKept
<1>1. UNCHANGED <<idem, placer, overrun, announced>>
  BY DEF Kill, keyspace
<1> DEFINE dead == {s \in Readers : Home[s] = p /\ Running(s)}
           bare(s) == [req[s] EXCEPT !.held = FALSE]
<1>2. req' = [s \in Readers |-> IF s \in dead THEN Ended(bare(s), "crashed") ELSE req[s]]
  BY DEF Kill
<1>3. ASSUME NEW s \in Readers
      PROVE  \E x : req'[s] = x /\ IsReq(x) /\ ReqOK(s, x)
  <2>1. IsReq(req[s]) /\ ReqOK(s, req[s])
    BY DEF IdemInv, ShapeOK
  <2>2. CASE s \in dead
    <3> DEFINE b == bare(s)
    <3>1. req'[s] = Ended(b, "crashed")
      BY <1>2, <2>2
    <3>2. req[s].pc \notin {"new", "done"}
      BY <2>2 DEF Running
    <3>3. Looks(b, req[s].pc, req[s].ask, req[s].owned, req[s].found, req[s].end)
      BY <2>1, EditRest
    <3> HIDE DEF b
    <3>4. ReqOK(s, b) /\ b.ask.key \in Keys \cup {NoKey}
      BY <2>1, <3>2, <3>3 DEF Looks, ReqOK
    <3>5. Looks(Ended(b, "crashed"), "done", b.ask, FALSE, b.found, "crashed")
          /\ ReqOK(s, Ended(b, "crashed"))
      BY <3>4, EndedOK
    <3> QED BY <3>1, <3>5 DEF Looks
  <2>3. CASE s \notin dead
    BY <1>2, <2>1, <2>3
  <2> QED BY <2>2, <2>3
<1>4. req' = [s \in Readers |-> req'[s]]
  BY <1>2
<1>5. \A s \in Readers : IsReq(req[s])'
  BY <1>3 DEF IsReq
<1>6. \A s \in Readers : ReqOK(s, req[s])'
  BY <1>1, <1>3 DEF ReqOK, Owns, LeadsTo
<1> QED BY <1>1, <1>4, <1>5, <1>6 DEF IdemInv, ShapeOK, KeysKept

-------------------------------------------------------------------------------
LEMMA InitInv ==
  ASSUME Init
  PROVE  IdemInv
<1>1. ShapeOK
  BY DEF Init, ShapeOK, IsReq, NewRequest
<1>2. \A r \in Readers :
        /\ req[r].pc = "new" /\ req[r].found = NoTask /\ req[r].owned = FALSE /\ req[r].end = "none"
        /\ r \notin announced
  BY DEF Init, NewRequest
<1>3. \A r \in Readers : ReqOK(r, req[r])
  BY <1>2 DEF ReqOK, Creating, Reads
<1> QED BY <1>1, <1>3 DEF IdemInv

LEMMA HandleKeeps ==
  ASSUME IdemInv, NEW r \in Readers, Handle(r)
  PROVE  IdemInv' /\ KeysKept
<1>1. CASE Fitting(r) /\ UNCHANGED <<idem, placer, overrun, announced>>
  BY <1>1, Moves DEF Fitting
<1>2. CASE Arrive(r)
  BY <1>1, <1>2, ArriveOK DEF Arrive, keyspace
<1>3. CASE Acquire(r)
  BY <1>3, AcquireKeeps
<1>4. CASE Peek(r)
  BY <1>1, <1>4, PeekOK DEF Peek, keyspace
<1>5. CASE Verdict(r)
  BY <1>1, <1>5, VerdictOK DEF Verdict, keyspace
<1>6. CASE Release(r)
  BY <1>6, ReleaseKeeps
<1>7. CASE Poll(r) \/ GiveUp(r)
  BY <1>1, <1>7, PollOK DEF Poll, GiveUp, keyspace
<1>8. CASE Replay(r)
  BY <1>1, <1>8, ReplayOK DEF Replay, keyspace
<1>9. CASE Read(r)
  <2>1. Fitting(r) \/ UNCHANGED req
    BY <1>9, ReadOK
  <2>2. UNCHANGED <<idem, placer, overrun, announced>>
    BY <1>9 DEF Read, keyspace
  <2> QED BY <1>1, <2>1, <2>2, StandStill
<1>10. CASE Resolve(r)
  <2>1. Fitting(r)
    BY <1>10, ResolveOK
  <2>2. UNCHANGED <<idem, placer, overrun, announced>>
    BY <1>10 DEF Resolve, keyspace
  <2> QED BY <1>1, <2>1, <2>2
<1>11. CASE TakeSlot(r)
  BY <1>1, <1>11, TakeSlotOK DEF TakeSlot, keyspace
<1>12. CASE Insert(r)
  BY <1>1, <1>12, InsertOK DEF Insert, keyspace
<1>13. CASE Fill(r)
  BY <1>13, FillStepKeeps
<1>14. CASE Announce(r)
  BY <1>14, AnnounceStepKeeps
<1>15. CASE Unslot(r) \/ Unbatch(r)
  BY <1>1, <1>15, GiveBackOK DEF Unslot, Unbatch, keyspace
<1> QED BY <1>2, <1>3, <1>4, <1>5, <1>6, <1>7, <1>8, <1>9, <1>10, <1>11, <1>12, <1>13,
           <1>14, <1>15 DEF Handle

LEMMA NextKeeps ==
  ASSUME IdemInv, [Next]_vars
  PROVE  IdemInv' /\ KeysKept
<1>1. CASE UNCHANGED vars
  BY <1>1, StandStill DEF vars, keyspace
<1>2. CASE \E r \in Readers : Handle(r)
  BY <1>2, HandleKeeps
<1>3. CASE \E k \in Keys : Expire(k)
  BY <1>3, ExpireKeeps
<1>4. CASE \E p \in Processes : Kill(p)
  BY <1>4, KillKeeps
<1>5. CASE Config
  BY <1>5, StandStill DEF Config, keyspace
<1> QED BY <1>1, <1>2, <1>3, <1>4, <1>5 DEF Next

\* Whoever is told of a task of k is told of the one the key holds.
LEMMA OneTaskOfInv ==
  ASSUME IdemInv
  PROVE  OneTaskPerKey
<1> SUFFICES ASSUME NEW k \in Keys \ overrun
             PROVE  Cardinality({r \in announced : Key(r) = k} \cup Told(k)) <= 1
  BY DEF OneTaskPerKey
<1> DEFINE S == {r \in announced : Key(r) = k} \cup Told(k)
<1>1. k # NoKey /\ k \notin overrun
  BY Values
<1>2. \A r \in Readers : ReqOK(r, req[r])
  BY DEF IdemInv
<1>3. \A r \in Readers : Key(r) = k =>
        /\ r \in announced \/ req[r].end = "accepted" => r = idem[k]
        /\ req[r].end = "replayed" => req[r].found = idem[k]
  BY <1>1, <1>2 DEF ReqOK, LeadsTo, Key
<1>4. S \subseteq {idem[k]}
  BY <1>3 DEF Told, IdemInv, ShapeOK
<1>5. IsFiniteSet({idem[k]}) /\ Cardinality({idem[k]}) = 1
  BY FS_Singleton
<1>6. IsFiniteSet(S) /\ Cardinality(S) <= Cardinality({idem[k]})
  BY <1>4, <1>5, FS_Subset
<1> QED BY <1>5, <1>6

\* Requests with one Idempotency-Key lead to one task.
THEOREM OneTask == Spec => []OneTaskPerKey
<1>1. Init => IdemInv
  BY InitInv
<1>2. IdemInv /\ [Next]_vars => IdemInv'
  BY NextKeeps
<1>3. IdemInv => OneTaskPerKey
  BY OneTaskOfInv
<1> QED BY <1>1, <1>2, <1>3, PTL DEF Spec

\* A key that holds a task keeps it.
THEOREM FilledKeysStay == Spec => FilledKeyStays
<1>1. Init => IdemInv
  BY InitInv
<1>2. IdemInv /\ [Next]_vars => IdemInv'
  BY NextKeeps
<1>3. IdemInv /\ [Next]_vars =>
        [\A k \in Keys : idem[k] \in Readers =>
           idem'[k] = idem[k] \/ (k \in overrun /\ idem'[k] \in Readers)]_vars
  BY NextKeeps DEF KeysKept
<1> QED BY <1>1, <1>2, <1>3, PTL DEF Spec, FilledKeyStays
===============================================================================
