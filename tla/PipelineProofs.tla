----------------------------- MODULE PipelineProofs -----------------------------
(* Theorems about Pipeline, for any number of requests, stations, copies and   *)
(* faults: what GatewayProofs shows of the gateway, carried over to the        *)
(* system, and what the tables keep.                                           *)
EXTENDS Pipeline, GatewayProofs

-----------------------------------------------------------------------------
(* The messages of a request.                                              *)

LEMMA StationIsOne ==
  ASSUME NEW m \in Msg
  PROVE  StationAt(m) \in Station
  <1>0. PICK r \in Request : \E i \in DOMAIN parts[r] : m = <<r, i>>
    BY DEF Msg
  <1>1. PICK i \in DOMAIN parts[r] : m = <<r, i>>
    BY <1>0
  <1>2. /\ parts[r] # <<>> /\ i \in 1..Len(parts[r])
        /\ Len(parts[r]) = Len(Records(PayloadOf(workOf[r])))
        /\ parts[r][i].items = <<Records(PayloadOf(workOf[r]))[i]>>
    BY <1>1, PartsFacts
  <1>3. Records(PayloadOf(workOf[r]))[i] \in Station
    BY <1>2, RecordsAreStations
  <1>4. QED
    BY <1>1, <1>2, <1>3 DEF StationAt, PartAt

LEMMA CopyFacts ==
  ASSUME NEW c \in Copy
  PROVE  /\ c[1] \in Msg
         /\ idOfCopy[c] = c[1]
         /\ keyOfCopy[c] \in Key
  <1>1. c[1] \in Msg
    BY DEF Copy
  <1>2. keyOf[StationAt(c[1])] \in Key
    BY <1>1, StationIsOne, PipelineAssumption
  <1>3. QED
    BY <1>1, <1>2 DEF idOfCopy, keyOfCopy

-----------------------------------------------------------------------------
(* Steps, sorted by what they leave alone.                                 *)

\* The gateway's handlers and process, and everything else that never meets it.
OfGateway == (\E r \in Request : Accept(r) \/ Serve(r)) \/ Live

OfClient == \E r \in Request : Send(r) \/ Hear(r) \/ GiveUpWaiting(r)

OfNormalizer == \E m \in Msg : Normalize(m) \/ RejectStation(m) \/ DeadLetterRaw(m)

OfQueue == (\E c \in Copy : DeliverCopy(c) \/ SettleCopy(c)) \/ PersisterDies

OfTables == PersistBatch \/ TruncateStorage

LEMMA Kinds ==
  ASSUME [Next]_vars
  PROVE  OfGateway \/ OfClient \/ OfNormalizer \/ OfQueue \/ OfTables \/ UNCHANGED vars
  BY DEF Next, OfGateway, OfClient, OfNormalizer, OfQueue, OfTables

LEMMA GatewaySteps ==
  ASSUME TypeOK, [Next]_vars
  PROVE  /\ GatewayNext \/ Around
         /\ ~OfGateway => UNCHANGED <<handler, answer, raw>>
  <1>0. faults \in 0..MaxFaults
    BY DEF TypeOK, GatewayTypeOK
  <1>1. CASE OfGateway
    BY <1>1 DEF OfGateway, Accept, Serve, Live, GatewayNext
  <1>2. CASE UNCHANGED gatewayVars
    BY <1>0, <1>2 DEF Around, gatewayVars, process
  <1>3. CASE PersisterDies
    <2>1. faults' \in 0..MaxFaults
      BY <1>0, <1>3, GatewayAssumption DEF PersisterDies, MayFail
    <2>2. QED
      BY <1>3, <2>1 DEF PersisterDies, Around
  <1>4. CASE OfClient \/ OfNormalizer \/ OfQueue \/ OfTables \/ UNCHANGED vars
    <2>1. PersisterDies \/ UNCHANGED gatewayVars
      BY <1>4 DEF OfClient, OfNormalizer, OfQueue, OfTables, Send, Hear, GiveUpWaiting,
         Normalize, RejectStation, DeadLetterRaw, DeliverCopy, SettleCopy, PersistBatch,
         CommitBatch, GiveUpBatch, TruncateStorage, beforeTables, vars
    <2>2. QED
      BY <1>2, <1>3, <2>1 DEF PersisterDies, gatewayVars
  <1>5. QED
    BY <1>1, <1>4, Kinds DEF OfGateway

-----------------------------------------------------------------------------
(* Types.                                                                  *)

LEMMA InitTypes ==
  ASSUME Init
  PROVE  TypeOK
  BY InitKeeps, PipelineAssumption DEF Init, TypeOK, Store!Init

LEMMA ClientTypes ==
  ASSUME TypeOK, OfClient
  PROVE  client' \in [Request -> {"idle", "waiting", "ok", "error"}] /\ UNCHANGED downstream
  BY DEF TypeOK, OfClient, Send, Hear, GiveUpWaiting

\* The normalizer publishes one message at a time, and only one that passed.
LEMMA NormalizerPublishes ==
  ASSUME OfNormalizer
  PROVE  copies' = copies \/ \E m \in Msg : Publish(m) /\ Waiting(m) /\ Sorted(m)
  BY DEF OfNormalizer, Normalize, RejectStation, DeadLetterRaw

LEMMA NormalizerTypes ==
  ASSUME TypeOK, OfNormalizer
  PROVE  /\ rawFate' \in [Msg -> {"ready", "acked", "dead"}]
         /\ copies' \in [Msg -> 0..MaxCopies]
         /\ refused' \in [Msg -> BOOLEAN]
         /\ UNCHANGED <<client, fate, tables>>
  <1>1. copies' \in [Msg -> 0..MaxCopies]
    <2>1. ASSUME NEW m \in Msg, Publish(m)
          PROVE  copies' \in [Msg -> 0..MaxCopies]
      <3>1. copies[m] + 1 \in 0..MaxCopies
        BY <2>1, PipelineAssumption DEF TypeOK, Publish
      <3>2. QED
        BY <2>1, <3>1 DEF TypeOK, Publish
    <2>2. QED
      BY <2>1, NormalizerPublishes DEF TypeOK
  <1>2. ASSUME NEW m \in Msg, Normalize(m) \/ RejectStation(m) \/ DeadLetterRaw(m)
        PROVE  /\ rawFate' \in [Msg -> {"ready", "acked", "dead"}]
               /\ refused' \in [Msg -> BOOLEAN]
               /\ UNCHANGED <<client, fate, tables>>
    BY <1>2 DEF TypeOK, Normalize, RejectStation, DeadLetterRaw
  <1>3. QED
    BY <1>1, <1>2 DEF OfNormalizer

LEMMA QueueTypes ==
  ASSUME TypeOK, OfQueue
  PROVE  /\ fate' \in [Copy -> {"none", "ack", "nack"}]
         /\ where' \in [Copy -> {"ready", "unacked", "acked", "dead"}]
         /\ UNCHANGED <<client, rawFate, copies, refused, stations, log>>
  <1>1. ASSUME NEW c \in Copy, DeliverCopy(c) \/ SettleCopy(c)
        PROVE  /\ fate' = fate
               /\ where' \in [Copy -> {"ready", "unacked", "acked", "dead"}]
               /\ UNCHANGED <<client, rawFate, copies, refused, stations, log>>
    BY <1>1 DEF TypeOK, DeliverCopy, SettleCopy, Store!Deliver, beforeTables
  <1>2. CASE PersisterDies
    BY <1>2 DEF TypeOK, PersisterDies, Store!TakeBack, Decide
  <1>3. QED
    BY <1>1, <1>2 DEF OfQueue, TypeOK

\* What the two tables can come to: a batch is committed, a batch is given up, or
\* both are emptied.
Commits(S) == S \in SUBSET Copy /\ Store!Commit(S)
GivesUp(S) == S \in SUBSET Copy /\ Store!GiveUp(S)
Empties == log' = [m \in Msg |-> "none"] /\ stations' = [k \in Key |-> NoMsg]

LEMMA TableSteps ==
  ASSUME TypeOK, OfTables
  PROVE  /\ \/ \E S : Commits(S) \/ GivesUp(S)
            \/ Empties
            \/ UNCHANGED <<stations, log>>
         /\ fate' \in [Copy -> {"none", "ack", "nack"}]
         /\ UNCHANGED <<client, rawFate, copies, refused, where>>
  <1>1. Held \subseteq Copy
    BY DEF Held
  <1>2. \A S, what : what \in {"ack", "nack"} /\ Decide(S, what)
          => fate' \in [Copy -> {"none", "ack", "nack"}]
    BY DEF Decide, TypeOK
  <1>3. ASSUME NEW S \in SUBSET Held, CommitBatch(S)
        PROVE  /\ Commits(S)
               /\ fate' \in [Copy -> {"none", "ack", "nack"}]
               /\ UNCHANGED <<client, rawFate, copies, refused, where>>
    BY <1>1, <1>2, <1>3 DEF CommitBatch, Commits, Store!Commit, beforeTables
  <1>4. ASSUME NEW S \in SUBSET Held, GiveUpBatch(S)
        PROVE  /\ GivesUp(S) \/ UNCHANGED <<stations, log>>
               /\ fate' \in [Copy -> {"none", "ack", "nack"}]
               /\ UNCHANGED <<client, rawFate, copies, refused, where>>
    BY <1>1, <1>2, <1>4 DEF GiveUpBatch, GivesUp, Store!GiveUp, beforeTables, tables
  <1>5. CASE TruncateStorage
    BY <1>5 DEF TypeOK, TruncateStorage, Empties, beforeTables
  <1>6. CASE PersistBatch
    BY <1>3, <1>4, <1>6 DEF PersistBatch
  <1>7. QED
    BY <1>5, <1>6 DEF OfTables

LEMMA CommitFacts ==
  ASSUME TypeOK, NEW S, Commits(S)
  PROVE  /\ S \subseteq Copy
         /\ \A c \in S : log[c[1]] = "none"
         /\ log' = [m \in Msg |-> IF \E c \in S : c[1] = m THEN "success" ELSE log[m]]
         /\ stations' \in [Key -> Copy \cup {NoMsg}]
         /\ \A k \in Key : stations'[k] \in S \/ stations'[k] = stations[k]
  <1>1. S \subseteq Copy /\ Store!Commit(S)
    BY DEF Commits
  <1>2. \A c \in S : idOfCopy[c] = c[1]
    BY <1>1, CopyFacts
  <1>3. \A c \in S : log[c[1]] = "none"
    BY <1>1, <1>2 DEF Store!Commit, Store!FreshIds
  <1>4. log' = [m \in Msg |-> IF \E c \in S : c[1] = m THEN "success" ELSE log[m]]
    BY <1>1, <1>2 DEF Store!Commit, Store!Logged
  <1>5. stations' = [k \in Key |->
          IF \E c \in S : keyOfCopy[c] = k THEN CHOOSE c \in S : keyOfCopy[c] = k
          ELSE stations[k]]
    BY <1>1 DEF Store!Commit
  <1>6. \A k \in Key : stations'[k] \in S \/ stations'[k] = stations[k]
    BY <1>5
  <1>7. stations' \in [Key -> Copy \cup {NoMsg}]
    BY <1>1, <1>5, <1>6 DEF TypeOK
  <1>8. QED
    BY <1>1, <1>3, <1>4, <1>6, <1>7

LEMMA GiveUpFacts ==
  ASSUME NEW S, GivesUp(S)
  PROVE  /\ S \subseteq Copy
         /\ \A c \in S : log[c[1]] = "none"
         /\ log' = [m \in Msg |-> IF \E c \in S : c[1] = m THEN "failed" ELSE log[m]]
         /\ stations' = stations
  <1>1. S \subseteq Copy /\ Store!GiveUp(S)
    BY DEF GivesUp
  <1>2. \A c \in S : idOfCopy[c] = c[1]
    BY <1>1, CopyFacts
  <1>3. QED
    BY <1>1, <1>2 DEF Store!GiveUp, Store!FreshIds, Store!Logged

LEMMA TableTypes ==
  ASSUME TypeOK, OfTables
  PROVE  /\ stations' \in [Key -> Copy \cup {NoMsg}]
         /\ log' \in [Msg -> {"none", "success", "failed"}]
  <1>1. ASSUME NEW S, Commits(S)
        PROVE  /\ stations' \in [Key -> Copy \cup {NoMsg}]
               /\ log' \in [Msg -> {"none", "success", "failed"}]
    BY <1>1, CommitFacts DEF TypeOK
  <1>2. ASSUME NEW S, GivesUp(S)
        PROVE  /\ stations' \in [Key -> Copy \cup {NoMsg}]
               /\ log' \in [Msg -> {"none", "success", "failed"}]
    BY <1>2, GiveUpFacts DEF TypeOK
  <1>3. CASE Empties
    BY <1>3 DEF Empties
  <1>4. CASE UNCHANGED <<stations, log>>
    BY <1>4 DEF TypeOK
  <1>5. QED
    BY <1>1, <1>2, <1>3, <1>4, TableSteps

LEMMA NextTypes ==
  ASSUME TypeOK, GatewayInv, [Next]_vars
  PROVE  TypeOK' /\ GatewayInv'
  <1>1. GatewayTypeOK' /\ GatewayInv'
    BY GatewaySteps, GatewayStepKeeps DEF TypeOK
  <1>2. CASE OfGateway
    <2>1. UNCHANGED <<client, downstream>>
      BY <1>2 DEF OfGateway, Accept, Serve, Live
    <2>2. QED
      BY <1>1, <2>1 DEF TypeOK, downstream, tables
  <1>3. CASE OfClient
    BY <1>1, <1>3, ClientTypes DEF TypeOK, downstream, tables
  <1>4. CASE OfNormalizer
    BY <1>1, <1>4, NormalizerTypes DEF TypeOK, tables
  <1>5. CASE OfQueue
    BY <1>1, <1>5, QueueTypes DEF TypeOK
  <1>6. CASE OfTables
    BY <1>1, <1>6, TableSteps, TableTypes DEF TypeOK
  <1>7. CASE UNCHANGED vars
    BY <1>1, <1>7 DEF TypeOK, vars, downstream, tables
  <1>8. QED
    BY <1>2, <1>3, <1>4, <1>5, <1>6, <1>7, Kinds

\* TypeOK and GatewayInv together: the queue and the answers of the gateway stay
\* consistent while everything around it goes on.
LEMMA Invariants == Spec => [](TypeOK /\ GatewayInv)
  <1>1. Init => TypeOK /\ GatewayInv
    BY InitTypes, InitKeeps DEF Init
  <1>2. TypeOK /\ GatewayInv /\ [Next]_vars => (TypeOK /\ GatewayInv)'
    BY NextTypes
  <1>3. QED
    BY <1>1, <1>2, PTL DEF Spec

\* Every variable of the pipeline keeps its type.
THEOREM PipelineTypes == Spec => []TypeOK
  BY Invariants, PTL

-----------------------------------------------------------------------------
(* The gateway in the pipeline.                                            *)

\* The queue of a request is a prefix of its stations, in order, each once.
THEOREM QueuesInOrder == Spec => []PublishedInOrder
  <1>1. TypeOK /\ GatewayInv => PublishedInOrder
    BY QueueIsInOrder
  <1>2. QED
    BY <1>1, Invariants, PTL

\* A request that is accepted has every station of its body queued, and nothing else.
THEOREM AcceptedInFull == Spec => []AcceptedIsComplete
  <1>1. TypeOK /\ GatewayInv => AcceptedIsComplete
    BY AcceptedHasAll DEF TypeOK
  <1>2. QED
    BY <1>1, Invariants, PTL

\* A request that is refused as the client's fault has left nothing in the queue.
THEOREM BadRequestsAreClean == Spec => []BadRequestsLeaveNothing
  <1>1. TypeOK /\ GatewayInv => BadRequestsLeaveNothing
    BY NothingLeftBehind DEF TypeOK
  <1>2. QED
    BY <1>1, Invariants, PTL

\* The gateway implements IntakeContract, whatever the rest of the system does.
THEOREM ImplementsIntake == Spec => KeepsIntakeContract
  <1>1. Init => Intake!Init
    BY InitMaps DEF Init
  <1>2. TypeOK /\ GatewayInv /\ [Next]_vars => [Intake!Next]_(Intake!vars)
    BY GatewaySteps, GatewayStepMaps DEF TypeOK
  <1>3. QED
    BY <1>1, <1>2, Invariants, PTL DEF Spec, KeepsIntakeContract, Intake!Spec

-----------------------------------------------------------------------------
(* The tables.                                                             *)

LEMMA StatusForms ==
  ASSUME TypeOK, NEW m \in Msg
  PROVE  /\ StatusOf(m) = "success" <=> log[m] = "success"
         /\ StatusOf(m) = "404" <=> log[m] = "none"
         /\ log[m] = "failed" => StatusOf(m) = "failed"
         /\ StatusOf(m) # "404" => StatusOf(m) = log[m]
  BY DEF TypeOK, StatusOf

\* A step adds statuses, keeps those that are there, or empties both tables; and a
\* row that changes comes from a message that just got its success.
LEMMA TablesMove ==
  ASSUME TypeOK, [Next]_vars
  PROVE  \/ Empties
         \/ /\ \A m \in Msg : log[m] # "none" => log'[m] = log[m]
            /\ \A k \in Key : \/ stations'[k] = stations[k]
                              \/ stations'[k] \in Copy /\ log'[stations'[k][1]] = "success"
  <1>1. ASSUME NEW S, Commits(S)
        PROVE  /\ \A m \in Msg : log[m] # "none" => log'[m] = log[m]
               /\ \A k \in Key : \/ stations'[k] = stations[k]
                                 \/ stations'[k] \in Copy /\ log'[stations'[k][1]] = "success"
    <2>1. \A c \in S : c[1] \in Msg /\ log'[c[1]] = "success"
      BY <1>1, CommitFacts, CopyFacts
    <2>2. QED
      BY <1>1, <2>1, CommitFacts
  <1>2. ASSUME NEW S, GivesUp(S)
        PROVE  stations' = stations /\ \A m \in Msg : log[m] # "none" => log'[m] = log[m]
    BY <1>2, GiveUpFacts
  <1>3. CASE OfTables
    BY <1>1, <1>2, <1>3, TableSteps
  <1>4. CASE OfGateway \/ OfClient \/ OfNormalizer \/ OfQueue \/ UNCHANGED vars
    <2>1. UNCHANGED <<stations, log>>
      BY <1>4, ClientTypes, NormalizerTypes, QueueTypes
         DEF OfGateway, Accept, Serve, Live, downstream, tables, vars
    <2>2. QED
      BY <2>1
  <1>5. QED
    BY <1>3, <1>4, Kinds

\* A row always comes from a message whose status is a success, redeliveries, batches
\* given up and truncations included.
THEOREM RowsAreOfSuccesses == Spec => []RowsKeepTheirLog
  <1>1. Init => RowsKeepTheirLog
    BY DEF Init, Store!Init, RowsKeepTheirLog
  <1>2. ASSUME TypeOK, TypeOK', RowsKeepTheirLog, [Next]_vars
        PROVE  RowsKeepTheirLog'
    <2>1. SUFFICES ASSUME NEW k \in Key, stations'[k] # NoMsg
                   PROVE  StatusOf(stations[k][1])' = "success"
      BY DEF RowsKeepTheirLog
    <2>2. stations'[k] \in Copy
      BY <1>2, <2>1 DEF TypeOK
    <2>3. stations'[k][1] \in Msg
      BY <2>2, CopyFacts
    <2>4. ~Empties
      BY <2>1 DEF Empties
    <2>5. log'[stations'[k][1]] = "success"
      <3>1. CASE stations'[k] = stations[k]
        <4>1. StatusOf(stations[k][1]) = "success"
          BY <1>2, <2>1, <3>1 DEF RowsKeepTheirLog
        <4>2. log[stations[k][1]] = "success"
          BY <1>2, <2>3, <3>1, <4>1, StatusForms
        <4>3. QED
          BY <1>2, <2>3, <2>4, <3>1, <4>2, TablesMove
      <3>2. CASE stations'[k] # stations[k]
        BY <1>2, <2>4, <3>2, TablesMove
      <3>3. QED
        BY <3>1, <3>2
    <2>6. QED
      BY <2>5 DEF StatusOf
  <1>3. QED
    BY <1>1, <1>2, PipelineTypes, PTL DEF Spec

\* A status that was found changes only by vanishing with both tables.
THEOREM StatusIsStable == Spec => StatusNeverTurns
  <1>1. ASSUME TypeOK, [Next]_vars, NEW m \in Msg, StatusOf(m) # "404"
        PROVE  StatusOf(m)' \in {StatusOf(m), "404"}
    <2>1. log[m] # "none"
      BY <1>1, StatusForms
    <2>2. CASE Empties
      BY <2>2 DEF Empties, StatusOf
    <2>3. CASE log'[m] = log[m]
      BY <2>3 DEF StatusOf
    <2>4. QED
      BY <1>1, <2>1, <2>2, <2>3, TablesMove
  <1>2. TypeOK /\ [Next]_vars =>
          [\A m \in Msg : StatusOf(m) # "404" => StatusOf(m)' \in {StatusOf(m), "404"}]_vars
    BY <1>1
  <1>3. QED
    BY <1>2, PipelineTypes, PTL DEF Spec, StatusNeverTurns

-----------------------------------------------------------------------------
(* From the request to the row.                                            *)

\* What a step never takes back: the environment is chosen once, a message that is
\* queued was queued, and what was published was published.
LEMMA NothingUnsaid ==
  ASSUME TypeOK, [Next]_vars
  PROVE  /\ setting' = setting
         /\ \A m \in Msg : Published(m) => Published(m)'
         /\ \A c \in Copy : Forwarded(c) => Forwarded(c)'
         /\ \A m \in Msg : copies[m] > 0 => copies'[m] > 0
  <1>1. /\ setting' = setting
        /\ \A r \in Request : Len(raw[r]) \in Nat /\ Len(raw'[r]) \in Nat
                              /\ Len(raw[r]) <= Len(raw'[r])
    BY GatewaySteps, QueuesGrow DEF TypeOK
  <1>2. ASSUME NEW m \in Msg, Published(m)
        PROVE  Published(m)'
    <2>1. m[1] \in Request /\ m[2] \in Nat
      <3>1. PICK r \in Request : \E i \in DOMAIN parts[r] : m = <<r, i>>
        BY DEF Msg
      <3>2. DOMAIN parts[r] \subseteq Nat
        BY PartsFacts
      <3>3. QED
        BY <3>1, <3>2
    <2>2. m[2] <= Len(raw'[m[1]])
      BY <1>1, <1>2, <2>1 DEF Published
    <2>3. QED
      BY <2>2 DEF Published
  <1>3. \A m \in Msg : copies[m] \in Nat /\ copies'[m] \in Nat /\ copies[m] <= copies'[m]
    <2>0. \A m \in Msg : copies[m] \in Nat
      BY PipelineAssumption DEF TypeOK
    <2>1. CASE OfNormalizer
      <3>1. ASSUME NEW n \in Msg, Publish(n)
            PROVE  \A m \in Msg : copies'[m] \in Nat /\ copies[m] <= copies'[m]
        BY <2>0, <3>1 DEF Publish, TypeOK
      <3>2. QED
        BY <2>0, <2>1, <3>1, NormalizerPublishes
    <2>2. CASE OfGateway \/ OfClient \/ OfQueue \/ OfTables \/ UNCHANGED vars
      <3>1. copies' = copies
        BY <2>2, ClientTypes, QueueTypes, TableSteps
           DEF OfGateway, Accept, Serve, Live, downstream, vars
      <3>2. QED
        BY <2>0, <3>1
    <2>3. QED
      BY <2>1, <2>2, Kinds
  <1>4. ASSUME NEW c \in Copy, Forwarded(c)
        PROVE  Forwarded(c)'
    <2>1. c[1] \in Msg /\ c[2] \in Nat
      BY PipelineAssumption DEF Copy
    <2>2. c[2] <= copies'[c[1]]
      BY <1>3, <1>4, <2>1 DEF Forwarded
    <2>3. QED
      BY <2>2 DEF Forwarded
  <1>5. QED
    BY <1>1, <1>2, <1>3, <1>4

LEMMA SortedIsFixed ==
  ASSUME NEW m
  PROVE  Sorted(m)' = Sorted(m) /\ StationAt(m)' = StationAt(m)
  BY DEF Sorted, Unreadable, Garbled, SourceAt, StationAt, PartAt

LEMMA KeysAreFixed ==
  ASSUME NEW c \in Copy
  PROVE  keyOfCopy'[c] = keyOfCopy[c]
  BY SortedIsFixed DEF keyOfCopy, Copy, Msg

\* Every station on its way was put there by the step before: what left the
\* persister's queue was published by the normalizer, what that published was sound
\* and queued by the gateway; a status is of a message that was published, and a row
\* of a copy that was, under its own key.
ForwardedIsSorted == \A m \in Msg : copies[m] > 0 => Published(m) /\ Sorted(m)
TakenIsForwarded == \A c \in Copy : where[c] # "ready" => Forwarded(c)
LoggedIsForwarded == \A m \in Msg : log[m] # "none" => copies[m] > 0
RowsAreForwarded ==
  \A k \in Key : stations[k] # NoMsg => Forwarded(stations[k]) /\ keyOfCopy[stations[k]] = k

ChainInv == ForwardedIsSorted /\ TakenIsForwarded /\ LoggedIsForwarded /\ RowsAreForwarded

LEMMA ForwardedIsCounted ==
  ASSUME TypeOK, NEW c \in Copy, Forwarded(c)
  PROVE  copies[c[1]] > 0
  <1>1. c[1] \in Msg /\ c[2] \in 1..MaxCopies /\ copies[c[1]] \in 0..MaxCopies
    BY DEF Copy, TypeOK
  <1>2. QED
    BY <1>1, PipelineAssumption DEF Forwarded

\* What a batch of the worker's does to the tables, and what it decides.
LEMMA BatchWrites ==
  ASSUME TypeOK, NEW S \in SUBSET Held, CommitBatch(S) \/ GiveUpBatch(S)
  PROVE  /\ \A m \in Msg : \/ log'[m] = log[m]
                           \/ \E c \in S : c[1] = m
         /\ \A k \in Key : \/ stations'[k] = stations[k]
                           \/ stations'[k] \in S /\ keyOfCopy[stations'[k]] = k
         /\ UNCHANGED <<rawFate, copies, raw, setting, where>>
  <1>1. S \subseteq Copy
    BY DEF Held
  <1>2. CASE CommitBatch(S)
    <2>1. Commits(S) /\ UNCHANGED <<beforeTables, where>>
      BY <1>1, <1>2 DEF CommitBatch, Commits, Store!Commit
    <2>2. stations' = [k \in Key |->
            IF \E c \in S : keyOfCopy[c] = k THEN CHOOSE c \in S : keyOfCopy[c] = k
            ELSE stations[k]]
      BY <1>2 DEF CommitBatch, Store!Commit
    <2>3. \A k \in Key : \/ stations'[k] = stations[k]
                         \/ stations'[k] \in S /\ keyOfCopy[stations'[k]] = k
      BY <2>2
    <2>4. \A m \in Msg : log'[m] = log[m] \/ \E c \in S : c[1] = m
      BY <2>1, CommitFacts
    <2>5. QED
      BY <2>1, <2>3, <2>4 DEF beforeTables, gatewayVars
  <1>3. CASE GiveUpBatch(S)
    <2>1. /\ GivesUp(S) \/ UNCHANGED <<stations, log>>
          /\ UNCHANGED <<beforeTables, where>>
      BY <1>1, <1>3 DEF GiveUpBatch, GivesUp, Store!GiveUp, tables
    <2>2. /\ stations' = stations
          /\ \A m \in Msg : log'[m] = log[m] \/ \E c \in S : c[1] = m
      BY <2>1, GiveUpFacts
    <2>3. QED
      BY <2>1, <2>2 DEF beforeTables, gatewayVars
  <1>4. QED
    BY <1>2, <1>3

LEMMA ChainStarts ==
  ASSUME Init
  PROVE  ChainInv
  BY CopyFacts DEF Init, Store!Init, ChainInv, ForwardedIsSorted, TakenIsForwarded,
     LoggedIsForwarded, RowsAreForwarded

\* A row and a status stay traced when what they come from is not taken back.
LEMMA TracesStay ==
  ASSUME TypeOK, TypeOK', ChainInv, [Next]_vars
  PROVE  /\ \A m \in Msg : copies[m] > 0 => copies'[m] > 0 /\ Published(m)' /\ Sorted(m)'
         /\ \A k \in Key, c \in Copy : stations[k] = c /\ c # NoMsg =>
              Forwarded(c)' /\ keyOfCopy'[c] = k
  <1>1. \A m \in Msg : copies[m] > 0 => copies'[m] > 0 /\ Published(m)' /\ Sorted(m)'
    BY NothingUnsaid, SortedIsFixed DEF ChainInv, ForwardedIsSorted
  <1>2. ASSUME NEW k \in Key, NEW c \in Copy, stations[k] = c, c # NoMsg
        PROVE  Forwarded(c)' /\ keyOfCopy'[c] = k
    <2>1. Forwarded(c) /\ keyOfCopy[c] = k
      BY <1>2 DEF ChainInv, RowsAreForwarded
    <2>2. QED
      BY <2>1, NothingUnsaid, KeysAreFixed
  <1>3. QED
    BY <1>1, <1>2

LEMMA ChainStep ==
  ASSUME TypeOK, TypeOK', ChainInv, [Next]_vars
  PROVE  ChainInv'
  <1>1. ForwardedIsSorted'
    <2>1. SUFFICES ASSUME NEW m \in Msg, copies'[m] > 0
                   PROVE  Published(m)' /\ Sorted(m)'
      BY SortedIsFixed DEF ForwardedIsSorted, Msg
    <2>2. CASE copies[m] > 0
      BY <2>2, TracesStay
    <2>3. CASE ~(copies[m] > 0)
      <3>1. copies'[m] # copies[m]
        BY <2>1, <2>3
      <3>2. OfNormalizer
        BY <3>1, Kinds, ClientTypes, QueueTypes, TableSteps
           DEF OfGateway, Accept, Serve, Live, downstream, vars
      <3>3. PICK n \in Msg : Publish(n) /\ Waiting(n) /\ Sorted(n)
        BY <3>1, <3>2, NormalizerPublishes
      <3>4. n = m
        BY <3>1, <3>3 DEF Publish, TypeOK
      <3>5. Published(m) /\ Sorted(m)
        BY <3>3, <3>4 DEF Waiting
      <3>6. QED
        BY <3>5, NothingUnsaid, SortedIsFixed
    <2>4. QED
      BY <2>2, <2>3
  <1>2. TakenIsForwarded'
    <2>1. SUFFICES ASSUME NEW c \in Copy, where'[c] # "ready"
                   PROVE  Forwarded(c)'
      BY DEF TakenIsForwarded, Copy, Msg
    <2>2. CASE where[c] # "ready"
      BY <2>2, NothingUnsaid DEF ChainInv, TakenIsForwarded
    <2>3. CASE where[c] = "ready"
      <3>1. where'[c] # where[c]
        BY <2>1, <2>3
      <3>2. OfQueue
        BY <3>1, Kinds, ClientTypes, NormalizerTypes, TableSteps
           DEF OfGateway, Accept, Serve, Live, downstream, tables, vars
      <3>3. ~PersisterDies
        BY <2>1, <2>3 DEF PersisterDies, Store!TakeBack
      <3>4. PICK d \in Copy : DeliverCopy(d) \/ SettleCopy(d)
        BY <3>2, <3>3 DEF OfQueue
      <3>5. DeliverCopy(d) /\ d = c
        BY <2>3, <3>1, <3>4 DEF DeliverCopy, SettleCopy, Store!Deliver, TypeOK
      <3>6. QED
        BY <3>5, NothingUnsaid DEF DeliverCopy
    <2>4. QED
      BY <2>2, <2>3
  <1>3. \A S \in SUBSET Held : \A c \in S :
          c \in Copy /\ Forwarded(c) /\ c[1] \in Msg /\ copies[c[1]] > 0
    BY ForwardedIsCounted, CopyFacts DEF Held, ChainInv, TakenIsForwarded
  <1>4. LoggedIsForwarded'
    <2>1. SUFFICES ASSUME NEW m \in Msg, log'[m] # "none"
                   PROVE  copies'[m] > 0
      BY DEF LoggedIsForwarded, Msg
    <2>2. CASE log[m] # "none"
      BY <2>2, NothingUnsaid DEF ChainInv, LoggedIsForwarded
    <2>3. CASE log[m] = "none"
      <3>1. log'[m] # log[m]
        BY <2>1, <2>3
      <3>2. OfTables
        BY <3>1, Kinds, ClientTypes, NormalizerTypes, QueueTypes
           DEF OfGateway, Accept, Serve, Live, downstream, tables, vars
      <3>3. ~TruncateStorage
        BY <2>1 DEF TruncateStorage
      <3>4. PICK S \in SUBSET Held : CommitBatch(S) \/ GiveUpBatch(S)
        BY <3>2, <3>3 DEF OfTables, PersistBatch
      <3>5. \E c \in S : c[1] = m
        BY <3>1, <3>4, BatchWrites
      <3>6. copies[m] > 0
        BY <1>3, <3>5
      <3>7. QED
        BY <3>6, NothingUnsaid
    <2>4. QED
      BY <2>2, <2>3
  <1>5. RowsAreForwarded'
    <2>1. SUFFICES ASSUME NEW k \in Key, NEW c, c = stations'[k], c # NoMsg
                   PROVE  Forwarded(c)' /\ keyOfCopy'[c] = k
      BY DEF RowsAreForwarded
    <2>2. c \in Copy
      BY <2>1 DEF TypeOK
    <2>3. CASE c = stations[k]
      BY <2>1, <2>2, <2>3, TracesStay
    <2>4. CASE c # stations[k]
      <3>1. stations'[k] # stations[k]
        BY <2>1, <2>4
      <3>2. OfTables
        BY <3>1, Kinds, ClientTypes, NormalizerTypes, QueueTypes
           DEF OfGateway, Accept, Serve, Live, downstream, tables, vars
      <3>3. ~TruncateStorage
        BY <2>1 DEF TruncateStorage
      <3>4. PICK S \in SUBSET Held : CommitBatch(S) \/ GiveUpBatch(S)
        BY <3>2, <3>3 DEF OfTables, PersistBatch
      <3>5. c \in S /\ keyOfCopy[c] = k
        BY <2>1, <3>1, <3>4, BatchWrites
      <3>6. QED
        BY <1>3, <2>2, <3>5, NothingUnsaid, KeysAreFixed
    <2>5. QED
      BY <2>3, <2>4
  <1>6. QED
    BY <1>1, <1>2, <1>4, <1>5 DEF ChainInv

LEMMA ChainHolds == Spec => []ChainInv
  BY ChainStarts, ChainStep, PipelineTypes, PTL DEF Spec

\* What is in the tables was queued by the gateway, sound, and published by the
\* normalizer, and it is stored under its own key.
THEOREM TablesTraceBack == Spec => []TablesAreTraced
  <1>1. ASSUME TypeOK, ChainInv
        PROVE  TablesAreTraced
    <2>1. \A m \in Msg : StatusOf(m) # "404" => Published(m) /\ Sorted(m) /\ copies[m] > 0
      BY <1>1, StatusForms DEF ChainInv, LoggedIsForwarded, ForwardedIsSorted
    <2>2. QED
      BY <1>1, <2>1 DEF TablesAreTraced, ChainInv, RowsAreForwarded
  <1>2. QED
    BY <1>1, ChainHolds, PipelineTypes, PTL

-----------------------------------------------------------------------------
(* One effect.                                                             *)

\* While the tables are not emptied: what was decided to be acknowledged has its
\* success in the log, and nothing else under its id was decided so.
AckedIsDecided == \A c \in Copy : where[c] = "acked" => fate[c] = "ack"
DecidedIsLogged == \A c \in Copy : fate[c] = "ack" => log[c[1]] = "success"
DecidedOnce == \A c, d \in Copy : c[1] = d[1] /\ fate[c] = "ack" /\ fate[d] = "ack" => c = d

Truncates == "truncate" \in setting.faults

EffectInv == ~Truncates => AckedIsDecided /\ DecidedIsLogged /\ DecidedOnce

\* A step that decides for an acknowledgement commits, and what it commits is new.
Commitment(S) ==
  /\ S \subseteq Copy
  /\ \A c \in S : log[c[1]] = "none" /\ log'[c[1]] = "success"
  /\ \A c, d \in S : c[1] = d[1] => c = d
  /\ \A c \in Copy : fate'[c] = "ack" => c \in S \/ fate[c] = "ack"

LEMMA Commitments ==
  ASSUME TypeOK, NEW S \in SUBSET Held, CommitBatch(S)
  PROVE  Commitment(S)
  <1>1. Commits(S) /\ Store!FreshIds(S) /\ S \subseteq Copy
    BY DEF CommitBatch, Commits, Store!Commit, Held
  <1>2. \A c, d \in S : c[1] = d[1] => c = d
    BY <1>1, CopyFacts DEF Store!FreshIds
  <1>3. \A c \in S : log[c[1]] = "none" /\ log'[c[1]] = "success"
    BY <1>1, CommitFacts, CopyFacts
  <1>4. \A c \in Copy : fate'[c] = "ack" => c \in S \/ fate[c] = "ack"
    BY DEF CommitBatch, Decide
  <1>5. QED
    BY <1>1, <1>2, <1>3, <1>4 DEF Commitment

LEMMA FateSteps ==
  ASSUME TypeOK, [Next]_vars
  PROVE  \/ \E S : Commitment(S)
         \/ \A c \in Copy : fate'[c] = "ack" => fate[c] = "ack"
  <1>1. ASSUME NEW S \in SUBSET Held, GiveUpBatch(S), NEW c \in Copy, fate'[c] = "ack"
        PROVE  fate[c] = "ack"
    BY <1>1 DEF GiveUpBatch, Decide
  <1>2. CASE OfTables
    BY <1>1, <1>2, Commitments DEF OfTables, PersistBatch, TruncateStorage
  <1>3. CASE OfQueue
    <2>1. PersisterDies => \A c \in Copy : fate'[c] = "ack" => fate[c] = "ack"
      BY DEF PersisterDies, Decide
    <2>2. \A d \in Copy : DeliverCopy(d) \/ SettleCopy(d) => fate' = fate
      BY DEF DeliverCopy, SettleCopy
    <2>3. QED
      BY <1>3, <2>1, <2>2 DEF OfQueue
  <1>4. CASE OfGateway \/ OfClient \/ OfNormalizer \/ UNCHANGED vars
    <2>1. fate' = fate
      BY <1>4, ClientTypes, NormalizerTypes
         DEF OfGateway, Accept, Serve, Live, downstream, vars
    <2>2. QED
      BY <2>1
  <1>5. QED
    BY <1>2, <1>3, <1>4, Kinds

\* Acknowledged is what was decided so, and it stays decided.
LEMMA AckSteps ==
  ASSUME TypeOK, [Next]_vars, AckedIsDecided
  PROVE  AckedIsDecided'
  <1>1. SUFFICES ASSUME NEW c \in Copy, where'[c] = "acked"
                 PROVE  fate'[c] = "ack"
    BY DEF AckedIsDecided, Copy, Msg
  <1>2. CASE OfTables
    <2>1. where[c] = "acked"
      BY <1>1, <1>2, TableSteps
    <2>2. fate[c] = "ack" /\ c \notin Held
      BY <2>1 DEF AckedIsDecided, Held
    <2>3. ASSUME NEW S \in SUBSET Held, CommitBatch(S) \/ GiveUpBatch(S)
          PROVE  fate'[c] = fate[c]
      BY <2>2, <2>3 DEF CommitBatch, GiveUpBatch, Decide
    <2>4. QED
      BY <1>2, <2>2, <2>3 DEF OfTables, PersistBatch, TruncateStorage
  <1>3. CASE OfQueue
    <2>1. CASE PersisterDies
      <3>1. where[c] = "acked"
        BY <1>1, <2>1 DEF PersisterDies, Store!TakeBack
      <3>2. QED
        BY <2>1, <3>1 DEF AckedIsDecided, PersisterDies, Decide
    <2>2. ASSUME NEW d \in Copy, DeliverCopy(d) \/ SettleCopy(d)
          PROVE  fate'[c] = "ack"
      <3>1. fate' = fate
        BY <2>2 DEF DeliverCopy, SettleCopy
      <3>2. where[c] = "acked" \/ fate[c] = "ack"
        BY <1>1, <2>2 DEF DeliverCopy, SettleCopy, Store!Deliver, TypeOK
      <3>3. QED
        BY <3>1, <3>2 DEF AckedIsDecided
    <2>3. QED
      BY <1>3, <2>1, <2>2 DEF OfQueue
  <1>4. CASE OfGateway \/ OfClient \/ OfNormalizer \/ UNCHANGED vars
    <2>1. UNCHANGED <<fate, where>>
      BY <1>4, ClientTypes, NormalizerTypes
         DEF OfGateway, Accept, Serve, Live, downstream, tables, vars
    <2>2. QED
      BY <1>1, <2>1 DEF AckedIsDecided
  <1>5. QED
    BY <1>2, <1>3, <1>4, Kinds

LEMMA EffectStep ==
  ASSUME TypeOK, TypeOK', EffectInv, [Next]_vars
  PROVE  EffectInv'
  <1>1. SUFFICES ASSUME ~Truncates
                 PROVE  (AckedIsDecided /\ DecidedIsLogged /\ DecidedOnce)'
    BY NothingUnsaid DEF EffectInv, Truncates
  <1>2. AckedIsDecided /\ DecidedIsLogged /\ DecidedOnce
    BY <1>1 DEF EffectInv
  <1>3. ~TruncateStorage
    BY <1>1 DEF TruncateStorage, Fault, Truncates
  <1>4. \A m \in Msg : log[m] # "none" => log'[m] = log[m]
    <2>1. ASSUME NEW S \in SUBSET Held, CommitBatch(S)
          PROVE  \A m \in Msg : log[m] # "none" => log'[m] = log[m]
      <3>1. Commits(S)
        BY <2>1 DEF CommitBatch, Commits, Store!Commit, Held
      <3>2. QED
        BY <3>1, CommitFacts
    <2>2. ASSUME NEW S \in SUBSET Held, GiveUpBatch(S)
          PROVE  \A m \in Msg : log[m] # "none" => log'[m] = log[m]
      <3>1. GivesUp(S) \/ UNCHANGED log
        BY <2>2 DEF GiveUpBatch, GivesUp, Store!GiveUp, Held, tables
      <3>2. QED
        BY <3>1, GiveUpFacts
    <2>3. CASE OfTables
      BY <1>3, <2>1, <2>2, <2>3 DEF OfTables, PersistBatch
    <2>4. CASE OfGateway \/ OfClient \/ OfNormalizer \/ OfQueue \/ UNCHANGED vars
      <3>1. log' = log
        BY <2>4, ClientTypes, NormalizerTypes, QueueTypes
           DEF OfGateway, Accept, Serve, Live, downstream, tables, vars
      <3>2. QED
        BY <3>1
    <2>5. QED
      BY <2>3, <2>4, Kinds
  <1>5. \A c \in Copy : fate[c] = "ack" => log[c[1]] = "success" /\ log'[c[1]] = "success"
    BY <1>2, <1>4, CopyFacts DEF DecidedIsLogged
  <1>6. CASE \A c \in Copy : fate'[c] = "ack" => fate[c] = "ack"
    <2>1. DecidedIsLogged' /\ DecidedOnce'
      BY <1>2, <1>5, <1>6 DEF DecidedIsLogged, DecidedOnce, Copy, Msg
    <2>2. QED
      BY <1>2, <2>1, AckSteps
  <1>7. ASSUME NEW S, Commitment(S)
        PROVE  DecidedIsLogged' /\ DecidedOnce'
    <2>1. \A c \in Copy : fate'[c] = "ack" => log'[c[1]] = "success"
      BY <1>5, <1>7 DEF Commitment
    <2>2. \A c, d \in Copy : c[1] = d[1] /\ fate'[c] = "ack" /\ fate'[d] = "ack" => c = d
      BY <1>2, <1>5, <1>7 DEF Commitment, DecidedOnce
    <2>3. QED
      BY <2>1, <2>2 DEF DecidedIsLogged, DecidedOnce, Copy, Msg
  <1>8. QED
    BY <1>2, <1>6, <1>7, AckSteps, FateSteps

LEMMA EffectHolds == Spec => []EffectInv
  <1>1. Init => EffectInv
    BY DEF Init, Store!Init, EffectInv, AckedIsDecided, DecidedIsLogged, DecidedOnce
  <1>2. TypeOK /\ TypeOK' /\ EffectInv /\ [Next]_vars => EffectInv'
    BY EffectStep
  <1>3. QED
    BY <1>1, <1>2, PipelineTypes, PTL DEF Spec

\* Unless the tables are emptied, a message takes effect once: one copy of it is
\* acknowledged, and its status is a success.
THEOREM EffectIsSingle == Spec => []OneEffect
  <1>1. ASSUME TypeOK, EffectInv
        PROVE  OneEffect
    <2>1. SUFFICES ASSUME ~Truncates, NEW c \in Copy, NEW d \in Copy, where[c] = "acked"
                   PROVE  /\ StatusOf(c[1]) = "success"
                          /\ c[1] = d[1] /\ where[d] = "acked" => c = d
      BY DEF OneEffect, Truncates
    <2>2. fate[c] = "ack" /\ log[c[1]] = "success"
      BY <1>1, <2>1 DEF EffectInv, AckedIsDecided, DecidedIsLogged
    <2>3. StatusOf(c[1]) = "success"
      BY <2>2 DEF StatusOf
    <2>4. c[1] = d[1] /\ where[d] = "acked" => c = d
      BY <1>1, <2>1, <2>2 DEF EffectInv, AckedIsDecided, DecidedOnce
    <2>5. QED
      BY <2>3, <2>4
  <1>2. QED
    BY <1>1, EffectHolds, PipelineTypes, PTL

\* The tables tell the truth about the whole way from the request to the row.
THEOREM TrueFromEndToEnd == Spec => []EndToEnd
  <1>1. RowsKeepTheirLog /\ TablesAreTraced /\ OneEffect => EndToEnd
    BY DEF EndToEnd
  <1>2. QED
    BY <1>1, RowsAreOfSuccesses, TablesTraceBack, EffectIsSingle, PTL

-----------------------------------------------------------------------------
(* The persister of the pipeline and its contract.                         *)

\* The reduced persister stays within DeliveryContract, which the module Persister
\* implements: unless the tables are emptied behind its back, it acknowledges no copy
\* but one whose status is a success.
THEOREM PersistsByContract == Spec /\ [](~Truncates) => Store!Spec
  <1>1. Init => Store!Init
    BY DEF Init
  <1>2. ASSUME TypeOK, EffectInv, ~Truncates, [Next]_vars
        PROVE  Store!Next \/ UNCHANGED Store!vars
    <2>1. ASSUME NEW S \in SUBSET Held, CommitBatch(S) \/ GiveUpBatch(S)
          PROVE  Store!Next \/ UNCHANGED Store!vars
      <3>1. S \in SUBSET Copy
        BY DEF Held
      <3>2. Store!Commit(S) \/ Store!GiveUp(S) \/ UNCHANGED tables
        BY <2>1 DEF CommitBatch, GiveUpBatch
      <3>3. QED
        BY <3>1, <3>2 DEF Store!Next, Store!vars, tables
    <2>2. CASE OfTables
      <3>1. ~TruncateStorage
        BY <1>2 DEF TruncateStorage, Fault, Truncates
      <3>2. QED
        BY <2>1, <2>2, <3>1 DEF OfTables, PersistBatch
    <2>3. CASE OfQueue
      <3>1. ASSUME NEW c \in Copy, DeliverCopy(c)
            PROVE  Store!Next
        BY <3>1 DEF DeliverCopy, Store!Next
      <3>2. ASSUME NEW c \in Copy, SettleCopy(c)
            PROVE  Store!Next
        <4>1. where[c] = "unacked" /\ UNCHANGED <<stations, log>>
          BY <3>2 DEF SettleCopy
        <4>2. CASE fate[c] = "ack"
          <5>1. log[idOfCopy[c]] = "success"
            BY <1>2, <4>2, CopyFacts DEF EffectInv, DecidedIsLogged
          <5>2. where' = [where EXCEPT ![c] = "acked"]
            BY <3>2, <4>2 DEF SettleCopy
          <5>3. ASSUME NEW d \in Copy, idOfCopy[d] = idOfCopy[c]
                PROVE  where[d] # "acked"
            <6>1. d[1] = c[1]
              BY <5>3, CopyFacts
            <6>2. where[d] = "acked" => fate[d] = "ack"
              BY <1>2 DEF EffectInv, AckedIsDecided
            <6>3. fate[d] = "ack" => d = c
              BY <1>2, <4>2, <6>1 DEF EffectInv, DecidedOnce
            <6>4. QED
              BY <4>1, <6>2, <6>3
          <5>4. Store!Acknowledge(c)
            BY <4>1, <5>1, <5>2, <5>3 DEF Store!Acknowledge
          <5>5. QED
            BY <5>4 DEF Store!Next
        <4>3. CASE fate[c] # "ack"
          <5>1. where' = [where EXCEPT ![c] = "dead"]
            BY <3>2, <4>3 DEF SettleCopy
          <5>2. Store!DeadLetter(c)
            BY <4>1, <5>1 DEF Store!DeadLetter
          <5>3. QED
            BY <5>2 DEF Store!Next
        <4>4. QED
          BY <4>2, <4>3
      <3>3. PersisterDies => Store!Next
        BY DEF PersisterDies, Store!Next
      <3>4. QED
        BY <2>3, <3>1, <3>2, <3>3 DEF OfQueue
    <2>4. CASE OfGateway \/ UNCHANGED vars
      <3>1. UNCHANGED tables
        BY <2>4 DEF OfGateway, Accept, Serve, Live, downstream, vars
      <3>2. QED
        BY <3>1 DEF Store!vars, tables
    <2>5. CASE OfClient \/ OfNormalizer
      <3>1. UNCHANGED tables
        BY <1>2, <2>5, ClientTypes, NormalizerTypes DEF downstream, tables
      <3>2. QED
        BY <3>1 DEF Store!vars, tables
    <2>6. QED
      BY <1>2, <2>2, <2>3, <2>4, <2>5, Kinds
  <1>3. TypeOK /\ EffectInv /\ ~Truncates /\ [Next]_vars => [Store!Next]_(Store!vars)
    BY <1>2
  <1>4. QED
    BY <1>1, <1>3, PipelineTypes, EffectHolds, PTL DEF Spec, Store!Spec
=================================================================================
