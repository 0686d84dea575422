---------------------------- MODULE ForwardContract ----------------------------
(***************************************************************************)
(* What the normalizer promises of its queue and of what it publishes,     *)
(* with nothing said of modes, batches, timers, tasks, answers or          *)
(* processes: a message's station is published under its own id and at     *)
(* most once for each time the message was delivered; it is acknowledged   *)
(* when it left a station or a rejection; what is settled stays so.        *)
(***************************************************************************)
EXTENDS Integers, Sequences

CONSTANTS Msg, Unreadable \* the messages that cannot be read

VARIABLES
  where,   \* "ready", "unacked", "acked" or "dead"
  due,     \* how many deliveries of a message may still publish its station
  sent,    \* the stations published under its id, by whose they are
  refused  \* a rejection was published for it

vars == <<where, due, sent, refused>>

Init ==
  /\ where = [m \in Msg |-> "ready"]
  /\ due = [m \in Msg |-> 0]
  /\ sent = [m \in Msg |-> <<>>]
  /\ refused = [m \in Msg |-> FALSE]

\* any step may give up some of what is due
AtMost(limit) == due' \in [Msg -> Nat] /\ \A m \in Msg : due'[m] <= limit[m]

\* where the messages are when the worker or its channel is gone
Requeued == [m \in Msg |-> IF where[m] = "unacked" THEN "ready" ELSE where[m]]

Deliver(m) ==
  /\ where[m] = "ready"
  /\ m \notin Unreadable
  /\ where' = [where EXCEPT ![m] = "unacked"]
  /\ AtMost([due EXCEPT ![m] = @ + 1])
  /\ UNCHANGED <<sent, refused>>

\* the worker may be gone with the publish
Forward(m) ==
  /\ due[m] > 0
  /\ sent' = [sent EXCEPT ![m] = Append(@, m)]
  /\ AtMost([due EXCEPT ![m] = @ - 1])
  /\ where' \in {where, Requeued}
  /\ UNCHANGED refused

Refuse(m) ==
  /\ due[m] > 0
  /\ refused' = [refused EXCEPT ![m] = TRUE]
  /\ AtMost(due)
  /\ UNCHANGED <<where, sent>>

Acknowledge(m) ==
  /\ where[m] = "unacked"
  /\ sent[m] # <<>> \/ refused[m]
  /\ where' = [where EXCEPT ![m] = "acked"]
  /\ AtMost(due)
  /\ UNCHANGED <<sent, refused>>

DeadLetter(m) ==
  /\ where[m] = "unacked" \/ (where[m] = "ready" /\ m \in Unreadable)
  /\ where' = [where EXCEPT ![m] = "dead"]
  /\ AtMost(due)
  /\ UNCHANGED <<sent, refused>>

GiveUp ==
  /\ where' \in {where, Requeued}
  /\ AtMost(due)
  /\ UNCHANGED <<sent, refused>>

Next ==
  \/ \E m \in Msg :
       Deliver(m) \/ Forward(m) \/ Refuse(m) \/ Acknowledge(m) \/ DeadLetter(m)
  \/ GiveUp

Spec == Init /\ [][Next]_vars
=============================================================================
