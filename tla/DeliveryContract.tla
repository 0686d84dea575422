--------------------------- MODULE DeliveryContract ---------------------------
(***************************************************************************)
(* What the persister promises of a queue and of two tables, with nothing  *)
(* said of buffers, timers, tasks, retries or processes: delivery at least *)
(* once, an effect at most once per message id, batches committed whole,   *)
(* no acknowledgement before the effect, and one acknowledgement per id.   *)
(***************************************************************************)
CONSTANTS Msg, Bad, MsgId, idOf, Key, keyOf, NoMsg

VARIABLES
  where,     \* "ready", "unacked", "acked" or "dead"
  stations,  \* the message each station's row was last written from
  log        \* the final status of each message id, once

vars == <<where, stations, log>>

Init ==
  /\ where = [m \in Msg |-> "ready"]
  /\ stations = [k \in Key |-> NoMsg]
  /\ log = [i \in MsgId |-> "none"]

Deliver(m) ==
  /\ where[m] = "ready"
  /\ m \notin Bad
  /\ where' = [where EXCEPT ![m] = "unacked"]
  /\ UNCHANGED <<stations, log>>

FreshIds(S) ==
  /\ \A m \in S : log[idOf[m]] = "none"
  /\ \A m, n \in S : idOf[m] = idOf[n] => m = n

Logged(S, status) ==
  [i \in MsgId |-> IF \E m \in S : idOf[m] = i THEN status ELSE log[i]]

\* all rows of a batch at once, each station and each id written by one message
Commit(S) ==
  /\ FreshIds(S)
  /\ \A m, n \in S : keyOf[m] = keyOf[n] => m = n
  /\ log' = Logged(S, "success")
  /\ stations' = [k \in Key |->
       IF \E m \in S : keyOf[m] = k THEN CHOOSE m \in S : keyOf[m] = k ELSE stations[k]]
  /\ UNCHANGED where

GiveUp(S) ==
  /\ FreshIds(S)
  /\ log' = Logged(S, "failed")
  /\ UNCHANGED <<where, stations>>

\* after the effect, and once for each id: a copy of an acknowledged message is not
Acknowledge(m) ==
  /\ where[m] = "unacked"
  /\ log[idOf[m]] = "success"
  /\ \A n \in Msg : idOf[n] = idOf[m] => where[n] # "acked"
  /\ where' = [where EXCEPT ![m] = "acked"]
  /\ UNCHANGED <<stations, log>>

DeadLetter(m) ==
  /\ where[m] = "unacked" \/ (where[m] = "ready" /\ m \in Bad)
  /\ where' = [where EXCEPT ![m] = "dead"]
  /\ UNCHANGED <<stations, log>>

\* the worker or its channel is gone
TakeBack ==
  /\ where' = [m \in Msg |-> IF where[m] = "unacked" THEN "ready" ELSE where[m]]
  /\ UNCHANGED <<stations, log>>

Next ==
  \/ \E m \in Msg : Deliver(m) \/ Acknowledge(m) \/ DeadLetter(m)
  \/ \E S \in SUBSET Msg : Commit(S) \/ GiveUp(S)
  \/ TakeBack

Spec == Init /\ [][Next]_vars
=============================================================================
