------------------------------ MODULE BatchPlan ------------------------------
(***************************************************************************)
(* What batching a submission gets: app/services/batching.py from the      *)
(* three X-Batch-* headers, the runtime configuration and the settings to  *)
(* the batching.Plan that create_queue_task follows.                       *)
(***************************************************************************)
EXTENDS Integers

CONSTANTS
  MAX_BATCH,   \* the largest batch a header may ask for
  MaxWait,     \* max_batch_wait_seconds
  GroupBy,     \* batch_group_by
  Absent,      \* the header is not there
  Garbage,     \* the text of a header that is no integer
  NoName,      \* the empty key and the empty model
  Clean        \* sanitize_key and the normalisation of a model: raw to stored

ASSUME PlanAssumption ==
  /\ MAX_BATCH \in Nat /\ MAX_BATCH > 1
  /\ MaxWait \in Int
  /\ Clean[NoName] = NoName

AtMost(n, bound) == IF n > bound THEN bound ELSE n
AtLeast(n, bound) == IF n < bound THEN bound ELSE n

WaitCeiling == AtLeast(MaxWait, 1)

\* _parse_positive_int accepts the text.
Positive(text) == text # Garbage /\ text >= 1

\* parse_overrides does not raise BatchParamError; h has the raw headers.
HeadersValid(h) ==
  /\ h.size # Absent => Positive(h.size) /\ h.size <= MAX_BATCH
  /\ h.wait # Absent => Positive(h.wait) /\ h.wait <= WaitCeiling

Immediate == [enabled |-> FALSE, size |-> 0, wait |-> 0, key |-> NoName]

\* The dimension of batches when the request names none.
group_key(batchKey, model, token) ==
  IF batchKey # NoName THEN <<batchKey>>
  ELSE IF GroupBy = "token_model" THEN <<token, Clean[model]>> ELSE <<Clean[model]>>

EffectiveSize(h, size) == IF h.size # Absent THEN h.size ELSE AtLeast(size, 0)

\* Mutant: the wait of the server is taken as it is.
UncappedWait(h, wait) == IF h.wait # Absent THEN h.wait ELSE wait

\* A window of nothing becomes the longest one, and none is longer.
EffectiveWait(h, wait) ==
  LET asked == IF h.wait # Absent THEN h.wait ELSE wait
  IN  AtMost(IF asked <= 0 THEN WaitCeiling ELSE asked, WaitCeiling)

\* resolve_plan for headers that are valid; conf has the three values that
\* were read from the runtime configuration, one get() after the other.
resolve_plan(h, conf, model, token) ==
  LET size == EffectiveSize(h, conf.batch_size)
  IN  IF ~conf.batch_enabled \/ size < 2
      THEN [Immediate EXCEPT !.size = IF conf.batch_enabled THEN size ELSE 0]
      ELSE [enabled |-> TRUE, size |-> size, wait |-> EffectiveWait(h, conf.batch_wait_seconds),
            key |-> group_key(IF h.key = Absent THEN NoName ELSE Clean[h.key], model, token)]
===============================================================================
