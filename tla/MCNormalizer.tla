----------------------------- MODULE MCNormalizer -----------------------------
(* Instances of Normalizer for TLC. *)
EXTENDS Normalizer, TLC

CONSTANTS m1, m2, m3, m4, t1, t2

\* two sources, so that a batch may hold a group of each
TwoSources == [m \in Msg |-> IF m = m3 THEN "valencia" ELSE "catalunya"]

AllStations == [m \in Msg |-> "station"]
SomeScalar == m1 :> "station" @@ m2 :> "station" @@ m3 :> "empty" @@ m4 :> "scalar"
SomeInvalid == m1 :> "station" @@ m2 :> "malformed" @@ m3 :> "station" @@ m4 :> "text"

LLM(faults) == [llm |-> TRUE, faults |-> faults]
Rules(faults) == [llm |-> FALSE, faults |-> faults]

\* all but an LLM that ignores its prompt and a rejected_data that is down
EveryFault ==
  LET all == FaultKinds \ {"answer", "refusal"} IN {LLM(all), Rules(all)}

\* the faults under which no message is stranded
BenignFaults ==
  {LLM({"refusal", "answer", "crash", "stop"}),
   Rules({"publish", "refusal", "crash", "stop"})}

NoConfirms == {LLM({"publish"})}
=============================================================================
