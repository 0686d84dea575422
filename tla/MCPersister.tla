----------------------------- MODULE MCPersister -----------------------------
(* Instances of Persister for TLC. *)
EXTENDS Persister, TLC

CONSTANTS m1, m2, m3, m4, f1, f2

\* every message has an id and a station of its own
Number == m1 :> 1 @@ m2 :> 2 @@ m3 :> 3 @@ m4 :> 4
OwnIds == [m \in Msg |-> Number[m]]
OwnStations == [m \in Msg |-> Number[m]]

\* m3 repeats the id of m1: the normalizer published one result twice; m4 is a body
\* that names nothing
CopiedId == m1 :> 1 @@ m2 :> 2 @@ m3 :> 1 @@ m4 :> 2

\* m1 and m2 carry the same station
StationOf == m1 :> 1 @@ m2 :> 1 @@ m3 :> 2 @@ m4 :> 2
SameStation == [m \in Msg |-> StationOf[m]]

Symmetry == Permutations(Flusher)
=============================================================================
