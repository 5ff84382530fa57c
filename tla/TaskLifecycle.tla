---------------------------- MODULE TaskLifecycle ----------------------------
(***************************************************************************)
(* What the service promises about one task, whatever happens inside: a    *)
(* task is created once, moves between active statuses, ends once and then *)
(* never changes, and its callback is published at most once, after the    *)
(* end and only if the upstream's answer (not the client, and not the      *)
(* service giving up before submission) ended it.                          *)
(***************************************************************************)
EXTENDS Naturals

CONSTANT Tasks

VARIABLES
  status, \* the status a client sees
  owed,   \* tasks whose callback is about to be published
  told    \* callbacks published per task

vars == <<status, owed, told>>

Active == {"SUBMITTED", "QUEUED", "IN_PROGRESS"}
Ended == {"SUCCESS", "FAILURE", "CANCELED"}

Init ==
  /\ status = [t \in Tasks |-> "NONE"]
  /\ owed = {}
  /\ told = [t \in Tasks |-> 0]

Move(t, s) == status' = [status EXCEPT ![t] = s]

Create(t) == status[t] = "NONE" /\ Move(t, "SUBMITTED") /\ UNCHANGED <<owed, told>>

\* Upstream statuses may arrive out of order, but never "not submitted".
Advance(t) ==
  /\ status[t] \in Active
  /\ \E s \in Active \ {"SUBMITTED"} : Move(t, s)
  /\ UNCHANGED <<owed, told>>

Finish(t) ==
  /\ status[t] \in Active
  /\ \E s \in Ended : Move(t, s)
  /\ owed' = owed \cup {t}
  /\ UNCHANGED told

\* Canceled by the client, or failed before it reached the upstream.
Abort(t) ==
  /\ \/ status[t] \in Active /\ Move(t, "CANCELED")
     \/ status[t] = "SUBMITTED" /\ Move(t, "FAILURE")
  /\ UNCHANGED <<owed, told>>

Tell(t) ==
  /\ t \in owed
  /\ owed' = owed \ {t}
  /\ told' = [told EXCEPT ![t] = @ + 1]
  /\ UNCHANGED status

\* A crash loses the callback.
Forget(t) == t \in owed /\ owed' = owed \ {t} /\ UNCHANGED <<status, told>>

Next ==
  \E t \in Tasks :
    Create(t) \/ Advance(t) \/ Finish(t) \/ Abort(t) \/ Tell(t) \/ Forget(t)

Spec == Init /\ [][Next]_vars
===============================================================================
