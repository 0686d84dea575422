------------------------------- MODULE Pipeline -------------------------------
(***************************************************************************)
(* A station's way through the system: a client (scripts/load_generator.py *)
(* or another), the gateway, the normalizer, the persister, and the        *)
(* endpoints that look at the tables or empty them (routers/monitoring.py).*)
(* The gateway is the one of Gateway, handler by handler.  The normalizer  *)
(* is reduced to what its module shows of the mode RULES: a message is     *)
(* acknowledged after its station or its rejection is published, and taken *)
(* again if the worker dies in between.  The persister is reduced to       *)
(* DeliveryContract, which the module Persister implements.                *)
(***************************************************************************)
EXTENDS Gateway

CONSTANTS
  Concurrency, \* of the load generator: its semaphore
  Key, keyOf,  \* the row a station is stored in
  Sound,       \* the stations that pass the transformer and its rules
  MaxCopies,   \* bound: how often the normalizer publishes one message
  NoMsg        \* no message: the content of a row that was never written

ASSUME PipelineAssumption ==
  /\ Concurrency \in Nat \ {0}
  /\ keyOf \in [Station -> Key]
  /\ Sound \subseteq Station
  /\ MaxCopies \in Nat \ {0}

VARIABLES
  client,    \* of each request: "idle", "waiting", "ok" or "error"
  rawFate,   \* of each raw message: "ready", "acked" or "dead"
  copies,    \* how often its station was published to normalized_data
  refused,   \* a rejection was published for it
  fate,      \* what the persister decided about a copy it holds
  where, stations, log  \* its queue and its tables: see DeliveryContract

tables == <<where, stations, log>>
downstream == <<rawFate, copies, refused, fate, tables>>
vars == <<gatewayVars, client, downstream>>

\* the messages a request can come to, by its id and their place
Msg == UNION {{<<r, i>> : i \in DOMAIN parts[r]} : r \in Request}
PartAt(m) == parts[m[1]][m[2]]
StationAt(m) == PartAt(m).items[1]
SourceAt(m) == workOf[m[1]].source

Published(m) == m[2] <= Len(raw[m[1]])

Copy == Msg \X (1..MaxCopies)

idOfCopy == [c \in Copy |-> c[1]]
keyOfCopy == [c \in Copy |-> keyOf[StationAt(c[1])]]

Store == INSTANCE DeliveryContract WITH
  Msg <- Copy, Bad <- {}, MsgId <- Msg, idOf <- idOfCopy, keyOf <- keyOfCopy

Forwarded(c) == c[2] <= copies[c[1]]

TypeOK ==
  /\ GatewayTypeOK
  /\ client \in [Request -> {"idle", "waiting", "ok", "error"}]
  /\ rawFate \in [Msg -> {"ready", "acked", "dead"}]
  /\ copies \in [Msg -> 0..MaxCopies]
  /\ refused \in [Msg -> BOOLEAN]
  /\ fate \in [Copy -> {"none", "ack", "nack"}]
  /\ where \in [Copy -> {"ready", "unacked", "acked", "dead"}]
  /\ stations \in [Key -> Copy \cup {NoMsg}]
  /\ log \in [Msg -> {"none", "success", "failed"}]

Init ==
  /\ GatewayInit
  /\ client = [r \in Request |-> "idle"]
  /\ rawFate = [m \in Msg |-> "ready"]
  /\ copies = [m \in Msg |-> 0]
  /\ refused = [m \in Msg |-> FALSE]
  /\ fate = [c \in Copy |-> "none"]
  /\ Store!Init

-----------------------------------------------------------------------------
(* The client: send_request under the semaphore of the load generator.     *)

InFlight == {r \in Request : client[r] = "waiting"}

Send(r) ==
  /\ client[r] = "idle"
  /\ r \in setting.requests
  /\ Cardinality(InFlight) < Concurrency
  /\ client' = [client EXCEPT ![r] = "waiting"]
  /\ UNCHANGED <<gatewayVars, downstream>>

\* mutation of Hear: only an acceptance ends the wait, whatever else is heard is sent
\* again and answered alike
HearAccepted(r) ==
  /\ client[r] = "waiting"
  /\ answer[r] \in Success
  /\ client' = [client EXCEPT ![r] = "ok"]
  /\ UNCHANGED <<gatewayVars, downstream>>

\* a status code, or the connection breaks with the process
Hear(r) ==
  /\ client[r] = "waiting"
  /\ answer[r] # "none"
  /\ client' = [client EXCEPT ![r] = IF answer[r] \in Success THEN "ok" ELSE "error"]
  /\ UNCHANGED <<gatewayVars, downstream>>

\* nobody listens, or the answer takes too long; the handler knows nothing of it
GiveUpWaiting(r) ==
  /\ client[r] = "waiting"
  /\ answer[r] = "none"
  /\ (handler[r].pc = "idle" /\ app # "up") \/ (handler[r].pc # "idle" /\ Fault("timeout"))
  /\ client' = [client EXCEPT ![r] = "error"]
  /\ UNCHANGED <<gatewayVars, downstream>>

Accept(r) ==
  /\ client[r] = "waiting"
  /\ Receive(r)
  /\ UNCHANGED <<client, downstream>>

Serve(r) == Handle(r) /\ UNCHANGED <<client, downstream>>

Live == Lifecycle /\ UNCHANGED <<client, downstream>>

-----------------------------------------------------------------------------
(* The normalizer.                                                         *)

\* whether a transformer of rules can read a part at all: Valencia's takes no
\* text, Catalunya's parses text as XML, Galicia's as CSV
Unreadable(m) ==
  \/ SourceAt(m) = "valencia" /\ PartAt(m).text
  \/ SourceAt(m) = "catalunya" /\ PartAt(m).format = "csv"

\* XML read as a table has a header and no row with an id
Garbled(m) == SourceAt(m) = "galicia" /\ PartAt(m).format = "xml"

Sorted(m) == ~Unreadable(m) /\ ~Garbled(m) /\ StationAt(m) \in Sound

Waiting(m) == setting.workers /\ Published(m) /\ rawFate[m] = "ready"

Publish(m) ==
  /\ copies[m] < MaxCopies
  /\ copies' = [copies EXCEPT ![m] = @ + 1]

\* the station is published and the message acknowledged, unless the worker dies
\* in between: then it will be taken again
Normalize(m) ==
  /\ Waiting(m)
  /\ Sorted(m)
  /\ Publish(m)
  /\ \/ rawFate' = [rawFate EXCEPT ![m] = "acked"]
     \/ Fault("redelivery") /\ copies'[m] < MaxCopies /\ UNCHANGED rawFate
  /\ UNCHANGED <<gatewayVars, client, refused, fate, tables>>

\* mutation of RejectStation: acknowledged without a rejection
RejectSilently(m) ==
  /\ Waiting(m)
  /\ ~Sorted(m)
  /\ ~Unreadable(m)
  /\ rawFate' = [rawFate EXCEPT ![m] = "acked"]
  /\ UNCHANGED <<gatewayVars, client, copies, refused, fate, tables>>

\* acknowledged even if the rejection cannot be published; the worker may die in
\* between, and then takes the message again
RejectStation(m) ==
  /\ Waiting(m)
  /\ ~Sorted(m)
  /\ ~Unreadable(m)
  /\ \/ refused' = [refused EXCEPT ![m] = TRUE]
     \/ Fault("publish") /\ UNCHANGED refused
  /\ \/ rawFate' = [rawFate EXCEPT ![m] = "acked"]
     \/ Fault("redelivery") /\ UNCHANGED rawFate
  /\ UNCHANGED <<gatewayVars, client, copies, fate, tables>>

\* any exception of process_message rejects the message: the ValueError of a
\* transformer that cannot read it, or a publish that raises, whether the broker has
\* the station or not
DeadLetterRaw(m) ==
  /\ Waiting(m)
  /\ \/ Unreadable(m) /\ UNCHANGED copies
     \/ Sorted(m) /\ Fault("publish") /\ (Publish(m) \/ UNCHANGED copies)
  /\ rawFate' = [rawFate EXCEPT ![m] = "dead"]
  /\ UNCHANGED <<gatewayVars, client, refused, fate, tables>>

-----------------------------------------------------------------------------
(* The persister, on the operations of its contract, and the tables.       *)

beforeTables == <<gatewayVars, client, rawFate, copies, refused>>

\* what the worker holds and has not decided about
Held == {c \in Copy : where[c] = "unacked" /\ fate[c] = "none"}

Decide(S, what) == fate' = [c \in Copy |-> IF c \in S THEN what ELSE fate[c]]

DeliverCopy(c) ==
  /\ Forwarded(c)
  /\ Store!Deliver(c)
  /\ UNCHANGED <<beforeTables, fate>>

\* no id twice, no id that is there, no station twice in one statement
Storable(S) ==
  /\ Store!FreshIds(S)
  /\ \A c, d \in S : keyOfCopy[c] = keyOfCopy[d] => c = d

\* mutation of CommitBatch: the log rows are upserted like the stations
CommitAgain(S) ==
  /\ \A c, d \in S : keyOfCopy[c] = keyOfCopy[d] => c = d
  /\ log' = Store!Logged(S, "success")
  /\ stations' = [k \in Key |->
       IF \E c \in S : keyOfCopy[c] = k THEN CHOOSE c \in S : keyOfCopy[c] = k ELSE stations[k]]
  /\ Decide(S, "ack")
  /\ UNCHANGED <<beforeTables, where>>

\* a commit whose answer comes too late is tried again in vain
CommitBatch(S) ==
  /\ Store!Commit(S)
  /\ Decide(S, "ack") \/ (Fault("database") /\ Decide(S, "nack"))
  /\ UNCHANGED beforeTables

\* mutation of GiveUpBatch: the failure record overwrites what is there
GiveUpOverwrites(S) ==
  /\ Fault("database") \/ ~Storable(S)
  /\ log' = [m \in Msg |-> IF \E c \in S : c[1] = m THEN "failed" ELSE log[m]]
  /\ UNCHANGED <<where, stations>>
  /\ Decide(S, "nack")
  /\ UNCHANGED beforeTables

\* every attempt failed; the failure record is written, or fails too, because of ids
\* that are there or of the database, and is given up as well
GiveUpBatch(S) ==
  /\ Fault("database") \/ ~Storable(S)
  /\ \/ Store!GiveUp(S)
     \/ (Fault("database") \/ ~Store!FreshIds(S)) /\ UNCHANGED tables
  /\ Decide(S, "nack")
  /\ UNCHANGED beforeTables

PersistBatch == \E S \in SUBSET Held \ {{}} : CommitBatch(S) \/ GiveUpBatch(S)

SettleCopy(c) ==
  /\ where[c] = "unacked"
  /\ fate[c] # "none"
  /\ where' = [where EXCEPT ![c] = IF fate[c] = "ack" THEN "acked" ELSE "dead"]
  /\ UNCHANGED <<beforeTables, stations, log, fate>>

\* the worker dies; what it holds is delivered again, decided upon or not
PersisterDies ==
  /\ MayFail("redelivery")
  /\ faults' = faults + 1
  /\ Store!TakeBack
  /\ Decide({c \in Copy : where[c] = "unacked"}, "none")
  /\ UNCHANGED <<setting, app, connected, handler, answer, raw, client, rawFate, copies, refused>>

\* mutation of TruncateStorage: only the second table is emptied
TruncateLog ==
  /\ Fault("truncate")
  /\ log' = [m \in Msg |-> "none"]
  /\ UNCHANGED <<beforeTables, where, fate, stations>>

\* DELETE /monitoring/truncate: both tables in one transaction
TruncateStorage ==
  /\ Fault("truncate")
  /\ log' = [m \in Msg |-> "none"]
  /\ stations' = [k \in Key |-> NoMsg]
  /\ UNCHANGED <<beforeTables, where, fate>>

\* GET /monitoring/ingest/{message_id}: the row of a message, or 404.  The id a
\* request is answered with is no message's, so it is never found.
StatusOf(m) == IF log[m] = "none" THEN "404" ELSE log[m]

Next ==
  \/ \E r \in Request : Send(r) \/ Hear(r) \/ GiveUpWaiting(r) \/ Accept(r) \/ Serve(r)
  \/ Live
  \/ \E m \in Msg : Normalize(m) \/ RejectStation(m) \/ DeadLetterRaw(m)
  \/ \E c \in Copy : DeliverCopy(c) \/ SettleCopy(c)
  \/ PersistBatch \/ PersisterDies \/ TruncateStorage

\* the event loops run what can run; connections and containers come back
Fairness ==
  /\ WF_vars(\E r \in Request : Accept(r) \/ Serve(r))
  /\ WF_vars(\E r \in Request : Hear(r) \/ GiveUpWaiting(r))
  /\ WF_vars((Start \/ Reconnected \/ Shutdown) /\ UNCHANGED <<client, downstream>>)
  /\ WF_vars(\E m \in Msg : Normalize(m) \/ RejectStation(m) \/ DeadLetterRaw(m))
  /\ WF_vars(\E c \in Copy : DeliverCopy(c) \/ SettleCopy(c))
  /\ WF_vars(PersistBatch)

Spec == Init /\ [][Next]_vars /\ Fairness

-----------------------------------------------------------------------------
(* Properties.                                                             *)

\* A row of itv.estaciones always comes from a message whose status is a success,
\* whatever is redelivered, given up or truncated meanwhile (monitoring.py:135-137
\* empties both tables in one transaction).
RowsKeepTheirLog ==
  \A k \in Key : stations[k] # NoMsg => StatusOf(stations[k][1]) = "success"

\* Nothing in the tables is made up on the way: a message with a status was queued
\* by the gateway, kept by the transformer and published by the normalizer, and the
\* row of a key holds a copy of such a message, whose station has that key
\* (normalizer/worker.py:280-344, persister/worker.py:205-302).
TablesAreTraced ==
  /\ \A m \in Msg : StatusOf(m) # "404" => Published(m) /\ Sorted(m) /\ copies[m] > 0
  /\ \A k \in Key : stations[k] # NoMsg =>
       Forwarded(stations[k]) /\ keyOfCopy[stations[k]] = k

\* However often the normalizer publishes a message again and the persister takes a
\* copy back: unless the tables are emptied, one copy takes effect and is
\* acknowledged, its status is a success, and every other copy ends in the DLQ
\* (the unique message id, models.py:144-176, is all that prevents a second effect).
OneEffect ==
  "truncate" \notin setting.faults =>
    \A c, d \in Copy : where[c] = "acked" =>
      /\ StatusOf(c[1]) = "success"
      /\ c[1] = d[1] /\ where[d] = "acked" => c = d

\* What the tables say is true of the whole way from the request to the row.
EndToEnd == RowsKeepTheirLog /\ TablesAreTraced /\ OneEffect

\* A status that was found is not found different later, unless the tables were
\* emptied: a copy of the message that fails does not turn its success.
StatusNeverTurns ==
  [][\A m \in Msg : StatusOf(m) # "404" => StatusOf(m)' \in {StatusOf(m), "404"}]_vars

\* Every client is answered or sees its connection break: no handler waits for
\* ever, though connections are lost and processes end half way through a loop.
EveryClientAnswered == <>[](\A r \in Request : client[r] # "waiting")

Settled(m) ==
  \/ refused[m] \/ rawFate[m] = "dead"
  \/ \E i \in 1..copies[m] : where[<<m, i>>] \in {"acked", "dead"}

Untraced(m) == rawFate[m] = "acked" /\ copies[m] = 0 /\ ~refused[m]

\* Every station that reached the queue comes to an end that leaves a trace: a
\* rejection, a dead letter, or a settled station message.  That holds too for the
\* stations of a request that was answered with an error.  The one exception is a
\* rejection that the broker does not take: see FilteredIsTraced.
EveryStationAccounted ==
  <>[](\A m \in Msg : setting.workers /\ Published(m) =>
         Settled(m) \/ (Fault("publish") /\ ~Sorted(m) /\ Untraced(m)))

\* "rejected_data.itv_stations evita pérdida silenciosa de datos filtrados"
\* (docs/DATA_CONTRACTS.md:77): no raw message is acknowledged with neither its
\* station nor a rejection published.  Not so: the failure of that publish is
\* swallowed (normalizer/worker.py:643-647).
FilteredIsTraced == \A m \in Msg : ~Untraced(m)

=============================================================================
