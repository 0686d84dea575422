------------------------------ MODULE MCLLMRules ------------------------------
(* Instances of LLMRules for TLC. *)
EXTENDS LLMRules

CONSTANTS t1, t2, t3, k1, k2

\* two batches and the endpoint compete for a key
Competing == [s \in Session |-> IF s = t3 THEN k2 ELSE k1]

With(provider, given, faults, known) ==
  [provider |-> provider, session |-> given, faults |-> faults, known |-> known]

\* the clients without a database, then sessions that compete, with and without
\* faults and cancellation
Some ==
  {With("github", FALSE, {"limit", "cancel"}, {}),
   With("groq", FALSE, {"limit", "garbage", "cancel"}, {}),
   With("groq", FALSE, {"key"}, {}),
   With("groq", TRUE, {"rule", "http"}, {k1}),
   With("groq", TRUE, {"cancel", "database"}, {k1}),
   With("github", TRUE, {}, {})}
=============================================================================
