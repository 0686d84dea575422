---------------------------- MODULE IntakeContract ----------------------------
(***************************************************************************)
(* What the gateway promises of a request, with nothing said of endpoints, *)
(* checks, handlers, connections or processes: its stations are queued one *)
(* after the other, it is accepted with the last of them and only then,    *)
(* and once it has its verdict nothing more of it is queued.               *)
(***************************************************************************)
EXTENDS Naturals

CONSTANTS Request, size  \* the number of stations in each request

VARIABLES
  queued,   \* of each request: how many of its stations are queued
  verdict   \* "open", "accepted" or "refused"

vars == <<queued, verdict>>

Init ==
  /\ queued = [r \in Request |-> 0]
  /\ verdict = [r \in Request |-> "open"]

Queue(r) ==
  /\ verdict[r] = "open"
  /\ queued[r] < size[r]
  /\ queued' = [queued EXCEPT ![r] = @ + 1]
  /\ \/ UNCHANGED verdict
     \/ queued'[r] = size[r] /\ verdict' = [verdict EXCEPT ![r] = "accepted"]
     \/ verdict' = [verdict EXCEPT ![r] = "refused"]

\* several at once when the process that works for them dies
Refuse ==
  /\ verdict' = [r \in Request |-> IF verdict'[r] = verdict[r] THEN verdict[r] ELSE "refused"]
  /\ \A r \in Request : verdict[r] # "open" => verdict'[r] = verdict[r]
  /\ UNCHANGED queued

Next == Refuse \/ \E r \in Request : Queue(r)

Spec == Init /\ [][Next]_vars
=============================================================================
