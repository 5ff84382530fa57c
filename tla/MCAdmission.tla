---------------------------- MODULE MCAdmission ----------------------------
(* An instance of Admission small enough for TLC. *)
EXTENDS Admission, TLC

CONSTANTS r1, r2, a1, a2, p1, p2, k1

HomeDef == (r1 :> p1) @@ (r2 :> p1) @@ (a1 :> p1) @@ (a2 :> p2)

RequestSymmetry == Permutations(Readers)

Keywords == {"batch_enabled", "batch_size", "batch_wait_seconds", "max_concurrent_tasks"}

\* The wait may be above the ceiling: the white list allows 3600 s, the
\* default ceiling is 300 s.
AllowedDef == [batch_enabled |-> BOOLEAN, batch_size |-> {0, 2, 3}, batch_wait_seconds |-> {1, 9},
               max_concurrent_tasks |-> {1, 2}]

SettingsDef == [batch_enabled |-> TRUE, batch_size |-> 0, batch_wait_seconds |-> 0,
                max_concurrent_tasks |-> 1]

UpdatesDef == {[batch_size |-> 2, batch_wait_seconds |-> 9, max_concurrent_tasks |-> 2]}

CleanDef == (NoName :> NoName) @@ ("Chat" :> "chat")

Plain == [size |-> Absent, wait |-> Absent, key |-> Absent]

ProfilesDef ==
  {[key |-> k1, headers |-> [Plain EXCEPT !.size = 2], model |-> NoName],
   [key |-> NoKey, headers |-> Plain, model |-> "Chat"],
   [key |-> NoKey, headers |-> [Plain EXCEPT !.size = Garbage], model |-> "Chat"]}
===============================================================================
