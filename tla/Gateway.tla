------------------------------- MODULE Gateway -------------------------------
(***************************************************************************)
(* The HTTP side of the gateway: /ingest (routers/ingest.py), the two      *)
(* synthetic injections and the file upload (routers/upload.py), on the    *)
(* one RabbitMQClient of the process (core/messaging/__init__.py) and in   *)
(* the process's lifespan (main.py).  Handlers of several requests run     *)
(* side by side in one event loop: a step is what runs between two awaits. *)
(***************************************************************************)
EXTENDS FanOut

CONSTANTS
  Request,   \* HTTP requests; one sent again is another request
  workOf,    \* what each one asks for: see Work
  Settings,  \* the requests and the faults to choose from: see Setting
  MaxFaults  \* bound: connection losses and process ends before it gets calm

Endpoints == {"ingest", "synthetic", "mixed", "file"}

Defects == {
  "none",
  "source",     \* an unknown source
  "types",      \* an unknown error type
  "errors",     \* an error rate, but no error types to choose from
  "mime", "large", "encoding", "malformed" }   \* of an uploaded file

\* payload is the body of an ingest or an upload, generated the stations that
\* the generator makes for an injection
Work ==
  [endpoint: Endpoints, source: Sources, defect: Defects, payload: Payload,
   generated: Seq(Station)]

FaultKinds == {
  "publish",    \* publish raises, whether the broker has the message or not
  "connection", \* the broker is away for a while
  "crash",      \* the process dies
  "stop",       \* SIGTERM
  "timeout",    \* the client gives up waiting
  "redelivery", \* a worker downstream dies before it acknowledges
  "database",   \* a batch cannot be stored
  "truncate" }  \* DELETE /monitoring/truncate

\* workers: the normalizer and the persister run, or messages just queue up
Setting == [requests: SUBSET Request, faults: SUBSET FaultKinds, workers: BOOLEAN]

ASSUME GatewayAssumption ==
  /\ Junk \notin Station
  /\ workOf \in [Request -> Work]
  /\ Settings \subseteq Setting
  /\ MaxFaults \in Nat

VARIABLES
  setting,   \* the environment of this behaviour
  app,       \* the process: "down", "up" or "stopping"
  connected, \* rabbitmq_client.is_connected
  faults,    \* losses and ends so far
  handler,   \* what the handler of each request is doing
  answer,    \* the status code of each request; "lost" with the process
  raw        \* what was published to raw_data under each request's id

process == <<app, connected, faults>>
gatewayVars == <<setting, process, handler, answer, raw>>

Idle == [pc |-> "idle", parts |-> <<>>, next |-> 1]

Handler ==
  [pc: {"idle", "reading", "publishing", "done"}, parts: Seq(Payload), next: Nat \ {0}]

\* RawIngestionMessage; the message id is that of its parent and its place
Message == [station_sequence: Nat \ {0}, total_stations: Nat \ {0}, payload: Payload]

\* 202 is what /ingest declares; injections and uploads answer with the default
Success == {"200", "202"}
SuccessCode(w) == IF w.endpoint = "ingest" THEN "202" ELSE "200"

Codes == Success \cup {"none", "400", "413", "415", "500", "503", "lost"}

GatewayTypeOK ==
  /\ setting \in Settings
  /\ app \in {"down", "up", "stopping"}
  /\ connected \in BOOLEAN
  /\ faults \in 0..MaxFaults
  /\ handler \in [Request -> Handler]
  /\ answer \in [Request -> Codes]
  /\ raw \in [Request -> Seq(Message)]

GatewayInit ==
  /\ setting \in Settings
  /\ app = "down"
  /\ connected = TRUE
  /\ faults = 0
  /\ handler = [r \in Request |-> Idle]
  /\ answer = [r \in Request |-> "none"]
  /\ raw = [r \in Request |-> <<>>]

Fault(kind) == kind \in setting.faults

-----------------------------------------------------------------------------
(* What a request comes to.                                                *)

Injected(w) == w.endpoint \in {"synthetic", "mixed"}

\* an injection makes its own JSON, under the key of its source
PayloadOf(w) ==
  IF Injected(w)
  THEN [format |-> "json", text |-> FALSE, shape |-> ListKey(w.source), items |-> w.generated]
  ELSE w.payload

\* what split_payload_by_station returns for each request
parts == [r \in Request |-> Split(workOf[r].source, PayloadOf(workOf[r]))]

Refusal(test, code) == [test |-> test, code |-> code]

\* the code of the first test that refuses
FirstRefusal(tests) ==
  LET refusing == {i \in DOMAIN tests : tests[i].test}
  IN IF refusing = {} THEN "none"
     ELSE tests[CHOOSE i \in refusing : \A j \in refusing : i <= j].code

\* the tests in front of the try block
EarlyRefusal(r) ==
  LET w == workOf[r] IN
  FirstRefusal(
    << Refusal(w.defect = "source", "400"),
       Refusal(w.endpoint = "synthetic" /\ w.defect = "types", "400"),
       Refusal(~connected, "503"),
       Refusal(w.endpoint = "file" /\ w.defect = "mime", "415") >>)

\* mutation of FailureCode: any exception of an injection is the client's fault
FailureBlamesClient(w) == IF w.endpoint = "ingest" THEN "503" ELSE "400"

\* what an exception in the try block is answered with
FailureCode(w) == IF w.endpoint = "ingest" THEN "503" ELSE "500"

\* the 400 of an empty payload is caught by the same handler, but for uploads
EmptyCode(w) == IF w.endpoint = "file" THEN "400" ELSE FailureCode(w)

\* the tests inside it
LateRefusal(r) ==
  LET w == workOf[r] IN
  FirstRefusal(
    << Refusal(w.endpoint = "mixed" /\ w.defect = "types", "400"),
       Refusal(w.endpoint = "synthetic" /\ w.defect = "errors", "500"),
       Refusal(w.endpoint = "file" /\ w.defect = "large", "413"),
       Refusal(w.endpoint = "file" /\ w.defect = "encoding", "500"),
       Refusal(w.endpoint = "file" /\ w.defect = "malformed", "400"),
       Refusal(Raises(PayloadOf(w)), FailureCode(w)),
       Refusal(parts[r] = <<>>, EmptyCode(w)) >>)

-----------------------------------------------------------------------------
(* The handlers.                                                           *)

Answer(r, code) ==
  /\ answer' = [answer EXCEPT ![r] = code]
  /\ handler' = [handler EXCEPT ![r] = [Idle EXCEPT !.pc = "done"]]

\* the try block up to its first await: an injection or an ingest gets there at
\* once, an upload after file.read()
Begin(r) ==
  /\ \/ /\ LateRefusal(r) # "none"
        /\ Answer(r, LateRefusal(r))
     \/ /\ LateRefusal(r) = "none"
        /\ handler' = [handler EXCEPT ![r] =
             [pc |-> "publishing", parts |-> parts[r], next |-> 1]]
        /\ UNCHANGED answer
  /\ UNCHANGED raw

Arrives(r) ==
  /\ app = "up"
  /\ r \in setting.requests
  /\ handler[r].pc = "idle"
  /\ UNCHANGED <<setting, process>>

Refuse(r) ==
  /\ Arrives(r)
  /\ EarlyRefusal(r) # "none"
  /\ Answer(r, EarlyRefusal(r))
  /\ UNCHANGED raw

StartReading(r) ==
  /\ Arrives(r)
  /\ EarlyRefusal(r) = "none"
  /\ workOf[r].endpoint = "file"
  /\ handler' = [handler EXCEPT ![r].pc = "reading"]
  /\ UNCHANGED <<answer, raw>>

StartPublishing(r) ==
  /\ Arrives(r)
  /\ EarlyRefusal(r) = "none"
  /\ workOf[r].endpoint # "file"
  /\ Begin(r)

FileRead(r) ==
  /\ handler[r].pc = "reading"
  /\ Begin(r)
  /\ UNCHANGED <<setting, process>>

\* mutation of Current: places counted from 0
CurrentFromZero(r) ==
  LET h == handler[r] IN
  [station_sequence |-> h.next - 1, total_stations |-> Len(h.parts), payload |-> h.parts[h.next]]

\* mutation of Current: the total is of the stations that are left
CurrentOfRest(r) ==
  LET h == handler[r] IN
  [station_sequence |-> h.next, total_stations |-> Len(h.parts) - h.next + 1,
   payload |-> h.parts[h.next]]

\* the message the loop is at
Current(r) ==
  LET h == handler[r] IN
  [station_sequence |-> h.next, total_stations |-> Len(h.parts), payload |-> h.parts[h.next]]

Publishing(r) ==
  /\ handler[r].pc = "publishing"
  /\ UNCHANGED <<setting, process>>

\* the broker confirms; the answer follows the last message in the same step
PublishNext(r) ==
  /\ Publishing(r)
  /\ connected
  /\ raw' = [raw EXCEPT ![r] = Append(@, Current(r))]
  /\ IF handler[r].next < Len(handler[r].parts)
     THEN handler' = [handler EXCEPT ![r].next = @ + 1] /\ UNCHANGED answer
     ELSE Answer(r, SuccessCode(workOf[r]))

\* mutation of PublishRaises: the loop goes on after a message that failed
PublishSwallows(r) ==
  /\ Publishing(r)
  /\ ~connected \/ Fault("publish")
  /\ UNCHANGED raw
  /\ IF handler[r].next < Len(handler[r].parts)
     THEN handler' = [handler EXCEPT ![r].next = @ + 1] /\ UNCHANGED answer
     ELSE Answer(r, SuccessCode(workOf[r]))

\* nothing is taken back: what was published before stays in the queue, and the
\* message at hand may be there too if only its confirmation is missing
PublishRaises(r) ==
  /\ Publishing(r)
  /\ ~connected \/ Fault("publish")
  /\ \/ UNCHANGED raw
     \/ connected /\ raw' = [raw EXCEPT ![r] = Append(@, Current(r))]
  /\ Answer(r, FailureCode(workOf[r]))

-----------------------------------------------------------------------------
(* The process and its connection.                                         *)

Active == {r \in Request : handler[r].pc \in {"reading", "publishing"}}

MayFail(kind) == Fault(kind) /\ faults < MaxFaults

\* connect_robust, channel and topology, or the process ends and is started again
Start ==
  /\ app = "down"
  /\ connected
  /\ app' = "up"
  /\ UNCHANGED <<setting, connected, faults, handler, answer, raw>>

\* the server takes no more requests and waits for its handlers
Stop ==
  /\ app = "up"
  /\ MayFail("stop")
  /\ app' = "stopping"
  /\ faults' = faults + 1
  /\ UNCHANGED <<setting, connected, handler, answer, raw>>

\* disconnect and dispose_engine
Shutdown ==
  /\ app = "stopping"
  /\ Active = {}
  /\ app' = "down"
  /\ UNCHANGED <<setting, connected, faults, handler, answer, raw>>

Crash ==
  /\ app # "down"
  /\ MayFail("crash")
  /\ app' = "down"
  /\ faults' = faults + 1
  /\ handler' = [r \in Request |-> IF r \in Active THEN [Idle EXCEPT !.pc = "done"] ELSE handler[r]]
  /\ answer' = [r \in Request |-> IF r \in Active THEN "lost" ELSE answer[r]]
  /\ UNCHANGED <<setting, connected, raw>>

Disconnected ==
  /\ connected
  /\ MayFail("connection")
  /\ connected' = FALSE
  /\ faults' = faults + 1
  /\ UNCHANGED <<setting, app, handler, answer, raw>>

\* the robust connection comes back by itself
Reconnected ==
  /\ ~connected
  /\ connected' = TRUE
  /\ UNCHANGED <<setting, app, faults, handler, answer, raw>>

Receive(r) == Refuse(r) \/ StartReading(r) \/ StartPublishing(r)
Handle(r) == FileRead(r) \/ PublishNext(r) \/ PublishRaises(r)
Lifecycle == Start \/ Stop \/ Shutdown \/ Crash \/ Disconnected \/ Reconnected

GatewayNext == (\E r \in Request : Receive(r) \/ Handle(r)) \/ Lifecycle

GatewaySpec == GatewayInit /\ [][GatewayNext]_gatewayVars

-----------------------------------------------------------------------------
(* Properties.                                                             *)

\* What is in the queue of a request is a prefix of its stations, numbered from
\* 1 to the total its messages name, each once (ingest.py:133-154): whatever
\* fails, and however many handlers publish at the same time.
PublishedInOrder ==
  \A r \in Request :
    /\ Len(raw[r]) <= Len(parts[r])
    /\ \A i \in DOMAIN raw[r] :
         raw[r][i] = [station_sequence |-> i, total_stations |-> Len(parts[r]),
                      payload |-> parts[r][i]]

\* Accepted, with 202 or 200: every station record of the body is queued, in its
\* order and alone in its message, and nothing else is (ingest.py:156-161,
\* upload.py:151-161).
AcceptedIsComplete ==
  \A r \in Request : answer[r] \in Success =>
    /\ [i \in DOMAIN raw[r] |-> raw[r][i].payload.items]
         = [i \in DOMAIN Records(PayloadOf(workOf[r])) |-> <<Records(PayloadOf(workOf[r]))[i]>>]
    /\ raw[r] # <<>>

\* A request that is refused as the client's fault left nothing in the queue: it
\* can be corrected and sent again.  Other failures may leave stations behind.
BadRequestsLeaveNothing ==
  \A r \in Request : answer[r] \in {"400", "413", "415"} => raw[r] = <<>>

sizes == [r \in Request |-> Len(parts[r])]

\* The gateway implements IntakeContract: seen through the queue and the answers,
\* every step of its handlers and its process is one of the contract's, or none.
Intake == INSTANCE IntakeContract WITH
  size <- sizes,
  queued <- [r \in Request |-> Len(raw[r])],
  verdict <- [r \in Request |->
    CASE answer[r] = "none" -> "open" [] answer[r] \in Success -> "accepted" [] OTHER -> "refused"]
KeepsIntakeContract == Intake!Spec

=============================================================================
