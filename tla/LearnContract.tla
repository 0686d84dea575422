---------------------------- MODULE LearnContract ----------------------------
(***************************************************************************)
(* What mapping by the LLM promises of one provider and of the table of    *)
(* learned rules, with nothing said of semaphores, limiters, attempts,     *)
(* transactions or locks: the provider has one call at a time; a batch is  *)
(* mapped by a rule only while its key has one; a rule is learned from an  *)
(* answer only, once for each batch, and takes the place of the rule its   *)
(* key had in one step; and an invalidation takes a rule away.             *)
(***************************************************************************)
CONSTANTS Task, Key, keyOf, Old

VARIABLES
  stage,  \* of each batch: "waiting", "asking" or "answered", then its outcome
  rules   \* the rules in force for each key: a batch's rule is named after it

vars == <<stage, rules>>

Init ==
  /\ stage = [t \in Task |-> "waiting"]
  /\ rules \in [Key -> {{}, {Old}}]

Becomes(t, s) == stage' = [stage EXCEPT ![t] = s]

UseRule(t) ==
  /\ stage[t] = "waiting"
  /\ rules[keyOf[t]] # {}
  /\ Becomes(t, "rule")
  /\ UNCHANGED rules

Ask(t) ==
  /\ stage[t] = "waiting"
  /\ \A u \in Task : stage[u] # "asking"
  /\ Becomes(t, "asking")
  /\ UNCHANGED rules

\* an answer that is to be learned from
Answer(t) ==
  /\ stage[t] = "asking"
  /\ Becomes(t, "answered")
  /\ UNCHANGED rules

\* the items of an answer, with no rule learned
Return(t) ==
  /\ stage[t] \in {"asking", "answered"}
  /\ Becomes(t, "items")
  /\ UNCHANGED rules

GiveUp(t) ==
  /\ stage[t] \in {"waiting", "asking"}
  /\ Becomes(t, "nothing") \/ Becomes(t, "cancelled")
  /\ UNCHANGED rules

\* cut short, or in error, while the rule is stored: neither items nor a rule
Lose(t) ==
  /\ stage[t] = "answered"
  /\ Becomes(t, "cancelled") \/ Becomes(t, "raised")
  /\ UNCHANGED rules

\* the items may be lost at the last moment
Learn(t) ==
  /\ stage[t] = "answered"
  /\ Becomes(t, "items") \/ Becomes(t, "cancelled")
  /\ rules' = [rules EXCEPT ![keyOf[t]] = {t}]

Invalidate(k) ==
  /\ rules' = [rules EXCEPT ![k] = {}]
  /\ UNCHANGED stage

Next ==
  \/ \E t \in Task :
       \/ UseRule(t) \/ Ask(t) \/ Answer(t) \/ Return(t)
       \/ GiveUp(t) \/ Lose(t) \/ Learn(t)
  \/ \E k \in Key : Invalidate(k)

Spec == Init /\ [][Next]_vars
=============================================================================
