----------------------------- MODULE GatewayProofs -----------------------------
(* What the gateway's handlers keep, for any number of requests, stations and *)
(* faults.  A step is one of the gateway's own, or one of a system around it  *)
(* that counts a fault and leaves the rest of the gateway alone: Pipeline has *)
(* such steps.                                                                *)
EXTENDS Gateway, SelectionLemmas

-----------------------------------------------------------------------------
(* The cut of a payload.                                                   *)

LEMMA PayloadType ==
  ASSUME NEW r \in Request
  PROVE  PayloadOf(workOf[r]) \in Payload
  <1>1. workOf[r] \in Work
    BY GatewayAssumption
  <1>2. CASE Injected(workOf[r])
    <2>1. workOf[r].generated \in Seq(Station \cup {Junk})
      BY <1>1 DEF Work
    <2>2. ListKey(workOf[r].source) \in Shapes
      BY DEF ListKey, Shapes
    <2>3. QED
      BY <1>2, <2>1, <2>2 DEF PayloadOf, Payload
  <1>3. CASE ~Injected(workOf[r])
    BY <1>1, <1>3 DEF PayloadOf, Work
  <1>4. QED
    BY <1>2, <1>3

LEMMA RecordsAreStations ==
  ASSUME NEW r \in Request
  PROVE  Records(PayloadOf(workOf[r])) \in Seq(Station)
  <1> DEFINE items == PayloadOf(workOf[r]).items
             places == {i \in DOMAIN items : items[i] \in Station}
  <1>1. items \in Seq(Station \cup {Junk})
    BY PayloadType DEF Payload
  <1>2. places \in SUBSET DOMAIN items /\ \A i \in places : items[i] \in Station
    OBVIOUS
  <1>3. Records(PayloadOf(workOf[r])) = Pick(items, places)
    BY DEF Records
  <1> HIDE DEF items, places
  <1>4. QED
    BY <1>1, <1>2, <1>3, PickFacts

LEMMA PartType ==
  ASSUME NEW source, NEW p \in Payload, NEW station \in Station
  PROVE  /\ PartOf(source, p, station) \in Payload
         /\ PartOf(source, p, station).items = <<station>>
  <1>1. <<station>> \in Seq(Station \cup {Junk})
    OBVIOUS
  <1>2. ListKey(source) \in Shapes /\ "rows" \in Shapes
    BY DEF ListKey, Shapes
  <1>3. (p.format # "json") \in BOOLEAN
    OBVIOUS
  <1>4. QED
    BY <1>1, <1>2, <1>3 DEF PartOf, Payload

LEMMA PartsFacts ==
  ASSUME NEW r \in Request
  PROVE  /\ parts[r] \in Seq(Payload)
         /\ Len(parts[r]) \in Nat
         /\ parts[r] # <<>> =>
              /\ Len(parts[r]) > 0
              /\ Len(parts[r]) = Len(Records(PayloadOf(workOf[r])))
              /\ \A i \in 1..Len(parts[r]) :
                   parts[r][i].items = <<Records(PayloadOf(workOf[r]))[i]>>
  <1> DEFINE p == PayloadOf(workOf[r])
             source == workOf[r].source
             records == Records(p)
  <1>1. p \in Payload
    BY PayloadType
  <1>2. records \in Seq(Station)
    BY RecordsAreStations
  <1>3. parts[r] = Split(source, p)
    BY DEF parts
  <1> HIDE DEF p, source, records
  <1>4. CASE Listed(source, p)
    <2>1. parts[r] = [i \in 1..Len(records) |-> PartOf(source, p, records[i])]
      BY <1>2, <1>3, <1>4 DEF Split, records
    <2>2. \A i \in 1..Len(records) :
            /\ PartOf(source, p, records[i]) \in Payload
            /\ PartOf(source, p, records[i]).items = <<records[i]>>
      BY <1>1, <1>2, PartType
    <2>3. Len(records) \in Nat
      BY <1>2
    <2>4. parts[r] \in Seq(Payload) /\ Len(parts[r]) = Len(records)
      BY <2>1, <2>2, <2>3
    <2>5. \A i \in 1..Len(parts[r]) : parts[r][i].items = <<records[i]>>
      BY <2>1, <2>2, <2>4
    <2>6. QED
      BY <2>3, <2>4, <2>5 DEF records, p
  <1>5. CASE ~Listed(source, p)
    BY <1>3, <1>5 DEF Split
  <1>6. QED
    BY <1>4, <1>5

-----------------------------------------------------------------------------
(* The order of the tests.                                                 *)

LEMMA FirstExists ==
  ASSUME NEW S \in SUBSET (1..7), S # {}
  PROVE  \E i \in S : \A j \in S : i <= j
  <1>1. CASE 1 \in S
    BY <1>1
  <1>2. CASE 1 \notin S /\ 2 \in S
    BY <1>2
  <1>3. CASE 1 \notin S /\ 2 \notin S /\ 3 \in S
    BY <1>3
  <1>4. CASE 1 \notin S /\ 2 \notin S /\ 3 \notin S /\ 4 \in S
    BY <1>4
  <1>5. CASE 1 \notin S /\ 2 \notin S /\ 3 \notin S /\ 4 \notin S /\ 5 \in S
    BY <1>5
  <1>6. CASE 1 \notin S /\ 2 \notin S /\ 3 \notin S /\ 4 \notin S /\ 5 \notin S /\ 6 \in S
    BY <1>6
  <1>7. CASE 1 \notin S /\ 2 \notin S /\ 3 \notin S /\ 4 \notin S /\ 5 \notin S /\ 6 \notin S
    <2>1. \A i \in 1..7 : i = 1 \/ i = 2 \/ i = 3 \/ i = 4 \/ i = 5 \/ i = 6 \/ i = 7
      OBVIOUS
    <2>2. \A i \in S : i = 7
      BY <1>7, <2>1
    <2>3. 7 \in S
      BY <2>2
    <2>4. \A j \in S : 7 <= j
      BY <2>2
    <2>5. QED
      BY <2>3, <2>4
  <1>8. QED
    BY <1>1, <1>2, <1>3, <1>4, <1>5, <1>6, <1>7

LEMMA Refusals ==
  ASSUME NEW r \in Request
  PROVE  /\ EarlyRefusal(r) \in {"none", "400", "503", "415"}
         /\ LateRefusal(r) \in {"none", "400", "413", "500", "503"}
         /\ LateRefusal(r) = "none" => parts[r] # <<>>
  <1> DEFINE w == workOf[r]
             early == << Refusal(w.defect = "source", "400"),
                         Refusal(w.endpoint = "synthetic" /\ w.defect = "types", "400"),
                         Refusal(~connected, "503"),
                         Refusal(w.endpoint = "file" /\ w.defect = "mime", "415") >>
             late == << Refusal(w.endpoint = "mixed" /\ w.defect = "types", "400"),
                        Refusal(w.endpoint = "synthetic" /\ w.defect = "errors", "500"),
                        Refusal(w.endpoint = "file" /\ w.defect = "large", "413"),
                        Refusal(w.endpoint = "file" /\ w.defect = "encoding", "500"),
                        Refusal(w.endpoint = "file" /\ w.defect = "malformed", "400"),
                        Refusal(Raises(PayloadOf(w)), FailureCode(w)),
                        Refusal(parts[r] = <<>>, EmptyCode(w)) >>
             Codes1 == {"400", "503", "415"}
             Codes2 == {"400", "413", "500", "503"}
             First(tests) == CHOOSE i \in {j \in DOMAIN tests : tests[j].test} :
                               \A j \in {k \in DOMAIN tests : tests[k].test} : i <= j
  <1>1. /\ DOMAIN early = 1..4 /\ DOMAIN late = 1..7
        /\ \A i \in 1..4 : early[i].code \in Codes1
        /\ \A i \in 1..7 : late[i].code \in Codes2
    BY DEF Refusal, FailureCode, EmptyCode
  <1>2. EarlyRefusal(r) = FirstRefusal(early) /\ LateRefusal(r) = FirstRefusal(late)
    BY DEF EarlyRefusal, LateRefusal
  <1> HIDE DEF early, late
  <1>3. EarlyRefusal(r) \in {"none"} \cup Codes1
    <2>1. CASE {i \in DOMAIN early : early[i].test} = {}
      BY <1>2, <2>1 DEF FirstRefusal
    <2>2. CASE {i \in DOMAIN early : early[i].test} # {}
      <3>1. \E i \in {j \in DOMAIN early : early[j].test} :
              \A j \in {k \in DOMAIN early : early[k].test} : i <= j
        BY <1>1, <2>2, FirstExists
      <3>2. First(early) \in 1..4
        BY <1>1, <3>1
      <3>3. QED
        BY <1>1, <1>2, <2>2, <3>2 DEF FirstRefusal
    <2>3. QED
      BY <2>1, <2>2
  <1>4. CASE {i \in DOMAIN late : late[i].test} = {}
    <2>1. LateRefusal(r) = "none"
      BY <1>2, <1>4 DEF FirstRefusal
    <2>2. parts[r] # <<>>
      <3>1. ~late[7].test
        BY <1>1, <1>4
      <3>2. late[7].test <=> parts[r] = <<>>
        BY DEF late, Refusal
      <3>3. QED
        BY <3>1, <3>2
    <2>3. QED
      BY <1>3, <2>1, <2>2
  <1>5. CASE {i \in DOMAIN late : late[i].test} # {}
    <2>1. \E i \in {j \in DOMAIN late : late[j].test} :
            \A j \in {k \in DOMAIN late : late[k].test} : i <= j
      BY <1>1, <1>5, FirstExists
    <2>2. First(late) \in 1..7
      BY <1>1, <2>1
    <2>3. LateRefusal(r) \in Codes2
      BY <1>1, <1>2, <1>5, <2>2 DEF FirstRefusal
    <2>4. LateRefusal(r) # "none"
      BY <2>3
    <2>5. LateRefusal(r) \in {"none", "400", "413", "500", "503"}
      BY <2>3
    <2>6. EarlyRefusal(r) \in {"none", "400", "503", "415"}
      BY <1>3
    <2>7. QED
      BY <2>4, <2>5, <2>6
  <1>6. QED
    BY <1>4, <1>5

-----------------------------------------------------------------------------
(* What a step does to one request.                                        *)

\* A request is consistent: while its handler publishes, the queue has what lies
\* before the loop's place; before that it has nothing; and the answer agrees.
InOrder(r) ==
  /\ Len(raw[r]) <= Len(parts[r])
  /\ \A i \in DOMAIN raw[r] :
       raw[r][i] = [station_sequence |-> i, total_stations |-> Len(parts[r]),
                    payload |-> parts[r][i]]

Untouched(r) == raw[r] = <<>> /\ answer[r] = "none"

InLoop(r) ==
  /\ answer[r] = "none"
  /\ handler[r].parts = parts[r]
  /\ handler[r].next = Len(raw[r]) + 1
  /\ handler[r].next <= Len(parts[r])

Over(r) ==
  /\ answer[r] # "none"
  /\ answer[r] \in Success => raw[r] # <<>> /\ Len(raw[r]) = Len(parts[r])
  /\ answer[r] \in {"400", "413", "415"} => raw[r] = <<>>

Consistent(r) ==
  /\ InOrder(r)
  /\ handler[r].pc \in {"idle", "reading"} => Untouched(r)
  /\ handler[r].pc = "publishing" => InLoop(r)
  /\ handler[r].pc = "done" => Over(r)

GatewayInv == \A r \in Request : Consistent(r)

\* The ways a handler's step can go.
Same(r) == handler'[r] = handler[r] /\ answer'[r] = answer[r] /\ raw'[r] = raw[r]

Ends(r, codes) == handler'[r] = [Idle EXCEPT !.pc = "done"] /\ answer'[r] \in codes

Refused(r) ==
  /\ handler[r].pc \in {"idle", "reading"}
  /\ Ends(r, {"400", "413", "415", "500", "503"})
  /\ raw'[r] = raw[r]

Reads(r) ==
  /\ handler[r].pc = "idle"
  /\ handler'[r] = [handler[r] EXCEPT !.pc = "reading"]
  /\ answer'[r] = answer[r] /\ raw'[r] = raw[r]

Begins(r) ==
  /\ handler[r].pc \in {"idle", "reading"}
  /\ parts[r] # <<>>
  /\ handler'[r] = [pc |-> "publishing", parts |-> parts[r], next |-> 1]
  /\ answer'[r] = answer[r] /\ raw'[r] = raw[r]

Appends(r) == handler[r].pc = "publishing" /\ raw'[r] = Append(raw[r], Current(r))

Continues(r) ==
  /\ Appends(r)
  /\ handler[r].next < Len(handler[r].parts)
  /\ handler'[r] = [handler[r] EXCEPT !.next = handler[r].next + 1]
  /\ answer'[r] = answer[r]

Completes(r) ==
  /\ Appends(r)
  /\ ~(handler[r].next < Len(handler[r].parts))
  /\ Ends(r, Success)

Fails(r) ==
  /\ handler[r].pc = "publishing"
  /\ Ends(r, {"500", "503"})
  /\ raw'[r] = raw[r] \/ Appends(r)

Ways(r) == Refused(r) \/ Reads(r) \/ Begins(r) \/ Continues(r) \/ Completes(r) \/ Fails(r)

LEMMA HandlerWays ==
  ASSUME GatewayTypeOK, NEW r \in Request, Receive(r) \/ Handle(r)
  PROVE  /\ Ways(r)
         /\ \A u \in Request \ {r} : Same(u)
         /\ UNCHANGED <<setting, process>>
  <1>1. ASSUME NEW code, Answer(r, code)
        PROVE  /\ Ends(r, {code})
               /\ \A u \in Request \ {r} : handler'[u] = handler[u] /\ answer'[u] = answer[u]
    BY <1>1 DEF GatewayTypeOK, Answer, Ends
  <1>2. ASSUME Begin(r), handler[r].pc \in {"idle", "reading"}
        PROVE  Ways(r) /\ \A u \in Request \ {r} : Same(u)
    <2>1. CASE LateRefusal(r) # "none" /\ Answer(r, LateRefusal(r)) /\ UNCHANGED raw
      <3>1. Refused(r)
        BY <1>1, <1>2, <2>1, Refusals DEF Refused, Ends
      <3>2. QED
        BY <1>1, <2>1, <3>1 DEF Same, Ways
    <2>2. CASE /\ LateRefusal(r) = "none"
               /\ handler' = [handler EXCEPT ![r] =
                    [pc |-> "publishing", parts |-> parts[r], next |-> 1]]
               /\ UNCHANGED <<answer, raw>>
      <3>1. Begins(r)
        BY <1>2, <2>2, Refusals DEF Begins, GatewayTypeOK
      <3>2. QED
        BY <2>2, <3>1 DEF Same, Ways, GatewayTypeOK
    <2>3. QED
      BY <1>2, <2>1, <2>2 DEF Begin
  <1>3. CASE Refuse(r)
    <2>1. Refused(r)
      BY <1>1, <1>3, Refusals DEF Refuse, Arrives, Refused, Ends
    <2>2. QED
      BY <1>1, <1>3, <2>1 DEF Refuse, Arrives, Same, Ways
  <1>4. CASE StartReading(r)
    BY <1>4 DEF GatewayTypeOK, StartReading, Arrives, Reads, Same, Ways
  <1>5. CASE StartPublishing(r)
    BY <1>2, <1>5 DEF StartPublishing, Arrives
  <1>6. CASE FileRead(r)
    BY <1>2, <1>6 DEF FileRead
  <1>7. CASE PublishNext(r)
    <2>1. handler[r].pc = "publishing" /\ UNCHANGED <<setting, process>>
      BY <1>7 DEF PublishNext, Publishing
    <2>2. raw'[r] = Append(raw[r], Current(r)) /\ \A u \in Request \ {r} : raw'[u] = raw[u]
      BY <1>7 DEF PublishNext, GatewayTypeOK
    <2>3. CASE handler[r].next < Len(handler[r].parts)
      <3>1. /\ handler' = [handler EXCEPT ![r].next = handler[r].next + 1]
            /\ answer' = answer
        BY <1>7, <2>3 DEF PublishNext
      <3>2. QED
        BY <2>1, <2>2, <2>3, <3>1 DEF Continues, Appends, Same, Ways, GatewayTypeOK
    <2>4. CASE ~(handler[r].next < Len(handler[r].parts))
      <3>1. Answer(r, SuccessCode(workOf[r]))
        BY <1>7, <2>4 DEF PublishNext
      <3>2. /\ Ends(r, Success)
            /\ \A u \in Request \ {r} : handler'[u] = handler[u] /\ answer'[u] = answer[u]
        BY <1>1, <3>1 DEF Ends, Success, SuccessCode
      <3>3. QED
        BY <2>1, <2>2, <2>4, <3>2 DEF Completes, Appends, Same, Ways
    <2>5. QED
      BY <2>3, <2>4
  <1>8. CASE PublishRaises(r)
    <2>1. handler[r].pc = "publishing" /\ UNCHANGED <<setting, process>>
      BY <1>8 DEF PublishRaises, Publishing
    <2>2. /\ raw'[r] = raw[r] \/ Appends(r)
          /\ \A u \in Request \ {r} : raw'[u] = raw[u]
      BY <1>8, <2>1 DEF PublishRaises, Appends, GatewayTypeOK
    <2>3. Answer(r, FailureCode(workOf[r])) /\ FailureCode(workOf[r]) \in {"500", "503"}
      BY <1>8 DEF PublishRaises, FailureCode
    <2>4. QED
      BY <1>1, <2>1, <2>2, <2>3 DEF Fails, Ends, Same, Ways
  <1>9. QED
    BY <1>3, <1>4, <1>5, <1>6, <1>7, <1>8 DEF Receive, Handle

LEMMA HandlerFunctions ==
  ASSUME GatewayTypeOK, NEW r \in Request, Receive(r) \/ Handle(r)
  PROVE  /\ handler' = [handler EXCEPT ![r] = handler'[r]]
         /\ answer' = [answer EXCEPT ![r] = answer'[r]]
         /\ raw' = [raw EXCEPT ![r] = raw'[r]]
  <1>1. /\ \A code : Answer(r, code) => /\ answer' = [answer EXCEPT ![r] = answer'[r]]
                                        /\ handler' = [handler EXCEPT ![r] = handler'[r]]
    BY DEF Answer, GatewayTypeOK
  <1>2. /\ UNCHANGED handler => handler' = [handler EXCEPT ![r] = handler'[r]]
        /\ UNCHANGED answer => answer' = [answer EXCEPT ![r] = answer'[r]]
        /\ UNCHANGED raw => raw' = [raw EXCEPT ![r] = raw'[r]]
    BY DEF GatewayTypeOK
  <1>3. \A h : handler' = [handler EXCEPT ![r] = h] => handler' = [handler EXCEPT ![r] = handler'[r]]
    BY DEF GatewayTypeOK
  <1>4. \A s : raw' = [raw EXCEPT ![r] = s] => raw' = [raw EXCEPT ![r] = raw'[r]]
    BY DEF GatewayTypeOK
  <1>5. Begin(r) => /\ handler' = [handler EXCEPT ![r] = handler'[r]]
                    /\ answer' = [answer EXCEPT ![r] = answer'[r]]
                    /\ raw' = [raw EXCEPT ![r] = raw'[r]]
    BY <1>1, <1>2, <1>3 DEF Begin
  <1>6. CASE Refuse(r) \/ StartPublishing(r) \/ FileRead(r)
    BY <1>1, <1>2, <1>5, <1>6 DEF Refuse, StartPublishing, FileRead
  <1>7. CASE StartReading(r)
    BY <1>2, <1>3, <1>7 DEF StartReading
  <1>8. CASE PublishNext(r) \/ PublishRaises(r)
    BY <1>1, <1>2, <1>3, <1>4, <1>8 DEF PublishNext, PublishRaises
  <1>9. QED
    BY <1>6, <1>7, <1>8 DEF Receive, Handle

-----------------------------------------------------------------------------
(* The invariant.                                                          *)

LEMMA CurrentFacts ==
  ASSUME GatewayTypeOK, NEW r \in Request, Consistent(r), handler[r].pc = "publishing"
  PROVE  /\ Current(r) \in Message
         /\ Current(r) = [station_sequence |-> Len(raw[r]) + 1, total_stations |-> Len(parts[r]),
                          payload |-> parts[r][Len(raw[r]) + 1]]
         /\ handler[r].next \in 1..Len(parts[r])
         /\ Len(raw[r]) \in Nat /\ raw[r] \in Seq(Message)
  <1>1. InLoop(r)
    BY DEF Consistent
  <1>2. Len(raw[r]) \in Nat /\ raw[r] \in Seq(Message) /\ handler[r].next \in Nat \ {0}
    BY DEF GatewayTypeOK, Handler
  <1>3. parts[r] \in Seq(Payload) /\ Len(parts[r]) \in Nat
    BY PartsFacts
  <1>4. handler[r].next \in 1..Len(parts[r])
    BY <1>1, <1>2, <1>3 DEF InLoop
  <1>5. parts[r][handler[r].next] \in Payload
    BY <1>3, <1>4
  <1>6. Current(r) \in Message
    BY <1>1, <1>2, <1>3, <1>4, <1>5 DEF Current, Message, InLoop
  <1>7. QED
    BY <1>1, <1>2, <1>4, <1>6 DEF Current, InLoop

LEMMA OverType == [Idle EXCEPT !.pc = "done"] \in Handler
  <1>1. Idle \in Handler
    BY DEF Idle, Handler
  <1>2. QED
    BY <1>1 DEF Handler

LEMMA WaysTypes ==
  ASSUME GatewayTypeOK, NEW r \in Request, Consistent(r), Ways(r)
  PROVE  handler'[r] \in Handler /\ answer'[r] \in Codes /\ raw'[r] \in Seq(Message)
  <1>1. handler[r] \in Handler /\ answer[r] \in Codes /\ raw[r] \in Seq(Message)
    BY DEF GatewayTypeOK
  <1>2. [Idle EXCEPT !.pc = "done"] \in Handler
    BY OverType
  <1>3. handler'[r] \in Handler
    <2>1. CASE Reads(r)
      BY <1>1, <2>1 DEF Reads, Handler
    <2>2. CASE Begins(r)
      BY <2>2, PartsFacts DEF Begins, Handler
    <2>3. CASE Continues(r)
      <3>1. handler[r].next + 1 \in Nat \ {0}
        BY <1>1 DEF Handler
      <3>2. QED
        BY <1>1, <2>3, <3>1 DEF Continues, Handler
    <2>4. CASE Refused(r) \/ Completes(r) \/ Fails(r)
      BY <1>2, <2>4 DEF Refused, Completes, Fails, Ends
    <2>5. QED
      BY <2>1, <2>2, <2>3, <2>4 DEF Ways
  <1>4. answer'[r] \in Codes
    <2>1. CASE Reads(r) \/ Begins(r) \/ Continues(r)
      BY <1>1, <2>1 DEF Reads, Begins, Continues
    <2>2. CASE Refused(r) \/ Completes(r) \/ Fails(r)
      BY <2>2 DEF Refused, Completes, Fails, Ends, Codes
    <2>3. QED
      BY <2>1, <2>2 DEF Ways
  <1>5. raw'[r] \in Seq(Message)
    <2>1. CASE Appends(r)
      <3>1. Current(r) \in Message
        BY <2>1, CurrentFacts DEF Appends
      <3>2. QED
        BY <1>1, <2>1, <3>1 DEF Appends
    <2>2. CASE ~Appends(r)
      BY <1>1, <2>2 DEF Ways, Refused, Reads, Begins, Continues, Completes, Fails
    <2>3. QED
      BY <2>1, <2>2
  <1>6. QED
    BY <1>3, <1>4, <1>5

LEMMA AppendKeepsOrder ==
  ASSUME GatewayTypeOK, NEW r \in Request, Consistent(r), Appends(r)
  PROVE  /\ InOrder(r)'
         /\ Len(raw'[r]) = Len(raw[r]) + 1
         /\ raw'[r] # <<>>
         /\ handler[r].next = Len(raw[r]) + 1
  <1>1. /\ handler[r].pc = "publishing"
        /\ raw'[r] = Append(raw[r], Current(r))
    BY DEF Appends
  <1>2. InLoop(r) /\ InOrder(r)
    BY <1>1 DEF Consistent
  <1>3. /\ Len(raw[r]) \in Nat /\ raw[r] \in Seq(Message)
        /\ Current(r) = [station_sequence |-> Len(raw[r]) + 1,
                         total_stations |-> Len(parts[r]),
                         payload |-> parts[r][Len(raw[r]) + 1]]
    BY <1>1, CurrentFacts
  <1>4. /\ Len(raw'[r]) = Len(raw[r]) + 1
        /\ DOMAIN raw'[r] = 1..(Len(raw[r]) + 1)
        /\ DOMAIN raw[r] = 1..Len(raw[r])
        /\ raw'[r][Len(raw[r]) + 1] = Current(r)
        /\ \A i \in 1..Len(raw[r]) : raw'[r][i] = raw[r][i]
    BY <1>1, <1>3
  <1>5. ASSUME NEW i \in DOMAIN raw'[r]
        PROVE  raw'[r][i] = [station_sequence |-> i, total_stations |-> Len(parts[r]),
                             payload |-> parts[r][i]]
    <2>1. CASE i = Len(raw[r]) + 1
      BY <1>3, <1>4, <2>1
    <2>2. CASE i \in 1..Len(raw[r])
      BY <1>2, <1>4, <2>2 DEF InOrder
    <2>3. QED
      BY <1>3, <1>4, <2>1, <2>2
  <1>6. Len(raw[r]) + 1 <= Len(parts[r]) /\ handler[r].next = Len(raw[r]) + 1
    BY <1>2 DEF InLoop
  <1>7. QED
    BY <1>3, <1>4, <1>5, <1>6 DEF InOrder

LEMMA WaysConsistent ==
  ASSUME GatewayTypeOK, NEW r \in Request, Consistent(r), Ways(r)
  PROVE  Consistent(r)'
  <1>0. Len(parts[r]) \in Nat /\ raw[r] \in Seq(Message) /\ Len(raw[r]) \in Nat
    BY PartsFacts DEF GatewayTypeOK
  <1>1. CASE Refused(r)
    <2>1. Untouched(r) /\ InOrder(r)
      BY <1>1 DEF Refused, Consistent
    <2>2. handler'[r].pc = "done"
      BY <1>1 DEF Refused, Ends, Idle
    <2>3. Over(r)' /\ InOrder(r)'
      BY <1>1, <2>1 DEF Refused, Ends, Over, Untouched, InOrder, Success
    <2>4. QED
      BY <2>2, <2>3 DEF Consistent
  <1>2. CASE Reads(r)
    <2>1. Untouched(r) /\ InOrder(r)
      BY <1>2 DEF Reads, Consistent
    <2>2. handler'[r].pc = "reading"
      BY <1>2 DEF Reads, GatewayTypeOK, Handler
    <2>3. Untouched(r)' /\ InOrder(r)'
      BY <1>2, <2>1 DEF Reads, Untouched, InOrder
    <2>4. QED
      BY <2>2, <2>3 DEF Consistent
  <1>3. CASE Begins(r)
    <2>1. Untouched(r) /\ InOrder(r)
      BY <1>3 DEF Begins, Consistent
    <2>2. handler'[r].pc = "publishing"
      BY <1>3 DEF Begins
    <2>3. Len(parts[r]) >= 1
      BY <1>0, <1>3, PartsFacts DEF Begins
    <2>4. InLoop(r)' /\ InOrder(r)'
      BY <1>3, <2>1, <2>3 DEF Begins, Untouched, InLoop, InOrder
    <2>5. QED
      BY <2>2, <2>4 DEF Consistent
  <1>4. CASE Continues(r)
    <2>1. InOrder(r)' /\ Len(raw'[r]) = Len(raw[r]) + 1
      BY <1>4, AppendKeepsOrder DEF Continues
    <2>2. InLoop(r) /\ handler[r].next \in 1..Len(parts[r])
      BY <1>4, CurrentFacts DEF Continues, Appends, Consistent
    <2>3. /\ handler'[r].pc = "publishing"
          /\ handler'[r].parts = handler[r].parts
          /\ handler'[r].next = handler[r].next + 1
      BY <1>4 DEF Continues, Appends, GatewayTypeOK, Handler
    <2>4. InLoop(r)'
      BY <1>0, <1>4, <2>1, <2>2, <2>3 DEF Continues, InLoop
    <2>5. QED
      BY <2>1, <2>3, <2>4 DEF Consistent
  <1>5. CASE Completes(r)
    <2>1. /\ InOrder(r)' /\ Len(raw'[r]) = Len(raw[r]) + 1 /\ raw'[r] # <<>>
          /\ handler[r].next = Len(raw[r]) + 1
      BY <1>5, AppendKeepsOrder DEF Completes
    <2>2. InLoop(r) /\ handler[r].next \in 1..Len(parts[r])
      BY <1>5, CurrentFacts DEF Completes, Appends, Consistent
    <2>3. Len(raw'[r]) = Len(parts[r])
      BY <1>0, <1>5, <2>1, <2>2 DEF Completes, InLoop
    <2>4. handler'[r].pc = "done" /\ answer'[r] \in Success
      BY <1>5 DEF Completes, Ends, Idle
    <2>5. Over(r)'
      BY <2>1, <2>3, <2>4 DEF Over, Success
    <2>6. QED
      BY <2>1, <2>4, <2>5 DEF Consistent
  <1>6. CASE Fails(r)
    <2>1. InOrder(r)'
      BY <1>6, AppendKeepsOrder DEF Fails, Consistent, InOrder
    <2>2. handler'[r].pc = "done" /\ answer'[r] \in {"500", "503"}
      BY <1>6 DEF Fails, Ends, Idle
    <2>3. Over(r)'
      BY <2>2 DEF Over, Success
    <2>4. QED
      BY <2>1, <2>2, <2>3 DEF Consistent
  <1>7. QED
    BY <1>1, <1>2, <1>3, <1>4, <1>5, <1>6 DEF Ways

\* A step of a system around the gateway counts a fault, or does not meet it at all.
Around ==
  /\ faults' \in 0..MaxFaults
  /\ UNCHANGED <<setting, app, connected, handler, answer, raw>>

LEMMA InitKeeps ==
  ASSUME GatewayInit
  PROVE  GatewayTypeOK /\ GatewayInv
  <1>1. Idle \in Handler /\ Idle.pc = "idle"
    BY DEF Idle, Handler
  <1>2. GatewayTypeOK
    BY <1>1, GatewayAssumption DEF GatewayInit, GatewayTypeOK, Codes
  <1>3. ASSUME NEW r \in Request
        PROVE  Consistent(r)
    <2>1. Untouched(r) /\ handler[r].pc = "idle"
      BY <1>1 DEF GatewayInit, Untouched
    <2>2. InOrder(r)
      BY <2>1, PartsFacts DEF Untouched, InOrder
    <2>3. QED
      BY <2>1, <2>2 DEF Consistent
  <1>4. QED
    BY <1>2, <1>3 DEF GatewayInv

\* The process dies: the handlers at work are lost, the queue is not.
Lost(r) == Ends(r, {"lost"}) /\ raw'[r] = raw[r]

LEMMA CrashLoses ==
  ASSUME GatewayTypeOK, Crash, NEW r \in Request
  PROVE  /\ r \in Active => Lost(r)
         /\ r \notin Active => Same(r)
  BY DEF GatewayTypeOK, Crash, Lost, Ends, Same

LEMMA LifecycleTypes ==
  ASSUME GatewayTypeOK, Lifecycle
  PROVE  GatewayTypeOK'
  <1>1. CASE Start \/ Shutdown \/ Reconnected
    BY <1>1 DEF GatewayTypeOK, Start, Shutdown, Reconnected
  <1>2. CASE Stop \/ Disconnected
    <2>1. faults' \in 0..MaxFaults
      BY <1>2, GatewayAssumption DEF GatewayTypeOK, Stop, Disconnected, MayFail
    <2>2. QED
      BY <1>2, <2>1 DEF GatewayTypeOK, Stop, Disconnected
  <1>3. CASE Crash
    <2>1. faults' \in 0..MaxFaults
      BY <1>3, GatewayAssumption DEF GatewayTypeOK, Crash, MayFail
    <2>2. [Idle EXCEPT !.pc = "done"] \in Handler
      BY OverType
    <2>3. handler' \in [Request -> Handler]
      BY <1>3, <2>2 DEF GatewayTypeOK, Crash
    <2>4. answer' \in [Request -> Codes]
      BY <1>3 DEF GatewayTypeOK, Crash, Codes
    <2>5. QED
      BY <1>3, <2>1, <2>3, <2>4 DEF GatewayTypeOK, Crash
  <1>4. QED
    BY <1>1, <1>2, <1>3 DEF Lifecycle

LEMMA GatewayStepKeeps ==
  ASSUME GatewayTypeOK, GatewayInv, GatewayNext \/ Around
  PROVE  GatewayTypeOK' /\ GatewayInv'
  <1>0. \A r \in Request : Same(r) => Consistent(r)'
    BY DEF GatewayInv, Consistent, Same, InOrder, Untouched, InLoop, Over
  <1>1. ASSUME NEW r \in Request, Receive(r) \/ Handle(r)
        PROVE  GatewayTypeOK' /\ GatewayInv'
    <2>1. Ways(r) /\ (\A u \in Request \ {r} : Same(u)) /\ UNCHANGED <<setting, process>>
      BY <1>1, HandlerWays
    <2>2. /\ handler' = [handler EXCEPT ![r] = handler'[r]]
          /\ answer' = [answer EXCEPT ![r] = answer'[r]]
          /\ raw' = [raw EXCEPT ![r] = raw'[r]]
      BY <1>1, HandlerFunctions
    <2>3. Consistent(r)
      BY DEF GatewayInv
    <2>4. handler'[r] \in Handler /\ answer'[r] \in Codes /\ raw'[r] \in Seq(Message)
      BY <2>1, <2>3, WaysTypes
    <2>5. Consistent(r)'
      BY <2>1, <2>3, WaysConsistent
    <2>6. GatewayTypeOK'
      BY <2>1, <2>2, <2>4 DEF GatewayTypeOK, process
    <2>7. GatewayInv'
      BY <1>0, <2>1, <2>5 DEF GatewayInv
    <2>8. QED
      BY <2>6, <2>7
  <1>2. CASE Crash
    <2>1. ASSUME NEW r \in Active
          PROVE  Consistent(r)'
      <3>1. InOrder(r) /\ Lost(r) /\ r \in Request
        BY <1>2, CrashLoses DEF GatewayInv, Consistent, Active
      <3>2. Over(r)' /\ InOrder(r)' /\ handler'[r].pc = "done"
        BY <3>1 DEF Lost, Ends, Over, InOrder, Idle, Success
      <3>3. QED
        BY <3>2 DEF Consistent
    <2>2. GatewayInv'
      BY <1>0, <1>2, <2>1, CrashLoses DEF GatewayInv
    <2>3. QED
      BY <1>2, <2>2, LifecycleTypes DEF Lifecycle
  <1>3. CASE Start \/ Stop \/ Shutdown \/ Disconnected \/ Reconnected
    <2>1. \A r \in Request : Same(r)
      BY <1>3 DEF Start, Stop, Shutdown, Disconnected, Reconnected, Same
    <2>2. QED
      BY <1>0, <1>3, <2>1, LifecycleTypes DEF Lifecycle, GatewayInv
  <1>4. CASE Around
    <2>1. \A r \in Request : Same(r)
      BY <1>4 DEF Around, Same
    <2>2. GatewayTypeOK'
      BY <1>4 DEF Around, GatewayTypeOK
    <2>3. QED
      BY <1>0, <2>1, <2>2 DEF GatewayInv
  <1>5. QED
    BY <1>1, <1>2, <1>3, <1>4 DEF GatewayNext, Lifecycle

-----------------------------------------------------------------------------
(* What follows from it.                                                   *)

LEMMA QueueIsInOrder ==
  ASSUME GatewayInv
  PROVE  PublishedInOrder
  BY DEF GatewayInv, Consistent, InOrder, PublishedInOrder

\* An answer ends a handler's work.
LEMMA AnsweredIsOver ==
  ASSUME GatewayTypeOK, GatewayInv, NEW r \in Request, answer[r] # "none"
  PROVE  Over(r)
  <1>1. handler[r].pc \in {"idle", "reading", "publishing", "done"}
    BY DEF GatewayTypeOK, Handler
  <1>2. QED
    BY <1>1 DEF GatewayInv, Consistent, Untouched, InLoop

LEMMA NothingLeftBehind ==
  ASSUME GatewayTypeOK, GatewayInv
  PROVE  BadRequestsLeaveNothing
  BY AnsweredIsOver DEF BadRequestsLeaveNothing, Over

LEMMA AcceptedHasAll ==
  ASSUME GatewayTypeOK, GatewayInv
  PROVE  AcceptedIsComplete
  <1>1. SUFFICES ASSUME NEW r \in Request, answer[r] \in Success
                 PROVE  /\ [i \in DOMAIN raw[r] |-> raw[r][i].payload.items]
                             = [i \in DOMAIN Records(PayloadOf(workOf[r])) |->
                                  <<Records(PayloadOf(workOf[r]))[i]>>]
                        /\ raw[r] # <<>>
    BY DEF AcceptedIsComplete
  <1> DEFINE records == Records(PayloadOf(workOf[r]))
  <1>2. Over(r) /\ InOrder(r)
    BY <1>1, AnsweredIsOver DEF GatewayInv, Consistent, Success
  <1>3. raw[r] # <<>> /\ Len(raw[r]) = Len(parts[r]) /\ raw[r] \in Seq(Message)
    BY <1>1, <1>2 DEF Over, GatewayTypeOK
  <1>4. parts[r] # <<>>
    BY <1>3
  <1>5. /\ Len(parts[r]) = Len(records)
        /\ \A i \in 1..Len(parts[r]) : parts[r][i].items = <<records[i]>>
    BY <1>4, PartsFacts
  <1>6. records \in Seq(Station)
    BY RecordsAreStations
  <1> HIDE DEF records
  <1>7. DOMAIN raw[r] = DOMAIN records /\ DOMAIN raw[r] = 1..Len(parts[r])
    BY <1>3, <1>5, <1>6
  <1>8. \A i \in DOMAIN raw[r] : raw[r][i].payload.items = <<records[i]>>
    <2>1. \A i \in DOMAIN raw[r] :
            raw[r][i] = [station_sequence |-> i, total_stations |-> Len(parts[r]),
                         payload |-> parts[r][i]]
      BY <1>2 DEF InOrder
    <2>2. ASSUME NEW i \in DOMAIN raw[r]
          PROVE  raw[r][i].payload = parts[r][i]
      <3>1. raw[r][i] = [station_sequence |-> i, total_stations |-> Len(parts[r]),
                         payload |-> parts[r][i]]
        BY <2>1
      <3>2. QED
        BY <3>1
    <2>3. QED
      BY <1>5, <1>7, <2>2
  <1>9. QED
    BY <1>3, <1>7, <1>8 DEF records

-----------------------------------------------------------------------------
(* The gateway implements IntakeContract.                                  *)

\* What the contract sees of a request.
Verdict(r) ==
  CASE answer[r] = "none" -> "open" [] answer[r] \in Success -> "accepted" [] OTHER -> "refused"

queuedNow == [r \in Request |-> Len(raw[r])]
verdictNow == [r \in Request |-> Verdict(r)]

LEMMA IntakeVars ==
  /\ Intake!vars = <<queuedNow, verdictNow>>
  /\ Intake!vars' = <<queuedNow', verdictNow'>>
  BY DEF Intake!vars, queuedNow, verdictNow, Verdict

LEMMA VerdictFacts ==
  ASSUME NEW r \in Request
  PROVE  /\ Verdict(r) = "open" <=> answer[r] = "none"
         /\ answer[r] \in Success => Verdict(r) = "accepted"
         /\ answer[r] \notin Success \cup {"none"} => Verdict(r) = "refused"
  BY DEF Verdict, Success

LEMMA SameMaps ==
  ASSUME \A r \in Request : raw'[r] = raw[r] /\ answer'[r] = answer[r]
  PROVE  UNCHANGED Intake!vars
  <1>1. queuedNow' = queuedNow /\ verdictNow' = verdictNow
    BY DEF queuedNow, verdictNow, Verdict
  <1>2. QED
    BY <1>1, IntakeVars

LEMMA RefuseMaps ==
  ASSUME \A u \in Request : raw'[u] = raw[u],
         \A u \in Request :
           Verdict(u)' = Verdict(u) \/ (Verdict(u) = "open" /\ Verdict(u)' = "refused")
  PROVE  Intake!Next
  <1>1. queuedNow' = queuedNow
    BY DEF queuedNow
  <1>2. /\ verdictNow' = [u \in Request |->
             IF verdictNow'[u] = verdictNow[u] THEN verdictNow[u] ELSE "refused"]
        /\ \A u \in Request : verdictNow[u] # "open" => verdictNow'[u] = verdictNow[u]
    <2>1. \A u \in Request : verdictNow[u] = Verdict(u) /\ verdictNow'[u] = Verdict(u)'
      BY DEF verdictNow
    <2>2. verdictNow' = [u \in Request |-> Verdict(u)']
      BY DEF verdictNow
    <2>3. QED
      BY <2>1, <2>2
  <1>3. Intake!Refuse
    BY <1>1, <1>2 DEF Intake!Refuse, queuedNow, verdictNow, Verdict
  <1>4. QED
    BY <1>3 DEF Intake!Next

LEMMA QueueMaps ==
  ASSUME NEW r \in Request, Len(raw[r]) \in Nat,
         \A u \in Request \ {r} : raw'[u] = raw[u] /\ answer'[u] = answer[u],
         Len(raw'[r]) = Len(raw[r]) + 1,
         Len(raw[r]) < Len(parts[r]),
         Verdict(r) = "open",
         \/ Verdict(r)' = "open"
         \/ Len(raw'[r]) = Len(parts[r]) /\ Verdict(r)' = "accepted"
         \/ Verdict(r)' = "refused"
  PROVE  Intake!Next
  <1>1. /\ verdictNow[r] = "open"
        /\ queuedNow[r] = Len(raw[r]) /\ queuedNow'[r] = Len(raw'[r])
        /\ sizes[r] = Len(parts[r])
    BY DEF verdictNow, queuedNow, sizes
  <1>2. queuedNow' = [queuedNow EXCEPT ![r] = @ + 1]
    BY DEF queuedNow
  <1>3. \A u \in Request \ {r} : Verdict(u)' = Verdict(u)
    BY DEF Verdict
  <1>4. \/ verdictNow' = verdictNow
        \/ queuedNow'[r] = sizes[r] /\ verdictNow' = [verdictNow EXCEPT ![r] = "accepted"]
        \/ verdictNow' = [verdictNow EXCEPT ![r] = "refused"]
    <2>1. verdictNow' = [u \in Request |-> Verdict(u)']
      BY DEF verdictNow
    <2>2. CASE Verdict(r)' = "open"
      BY <1>3, <2>1, <2>2 DEF verdictNow
    <2>3. CASE Len(raw'[r]) = Len(parts[r]) /\ Verdict(r)' = "accepted"
      BY <1>1, <1>3, <2>1, <2>3 DEF verdictNow
    <2>4. CASE Verdict(r)' = "refused"
      BY <1>3, <2>1, <2>4 DEF verdictNow
    <2>5. QED
      BY <2>2, <2>3, <2>4
  <1>5. Intake!Queue(r)
    BY <1>1, <1>2, <1>4 DEF Intake!Queue, queuedNow, verdictNow, Verdict
  <1>6. QED
    BY <1>5 DEF Intake!Next

LEMMA HandlerMaps ==
  ASSUME GatewayTypeOK, GatewayInv, NEW r \in Request, Receive(r) \/ Handle(r)
  PROVE  Intake!Next \/ UNCHANGED Intake!vars
  <1>1. Ways(r) /\ \A u \in Request \ {r} : Same(u)
    BY HandlerWays
  <1>2. Consistent(r)
    BY DEF GatewayInv
  <1>3. \A u \in Request \ {r} : raw'[u] = raw[u] /\ answer'[u] = answer[u] /\ Verdict(u)' = Verdict(u)
    BY <1>1 DEF Same, Verdict
  <1>4. CASE Reads(r) \/ Begins(r)
    BY <1>3, <1>4, SameMaps DEF Reads, Begins
  <1>5. CASE Refused(r) \/ (Fails(r) /\ raw'[r] = raw[r])
    <2>1. answer[r] = "none" /\ raw'[r] = raw[r] /\ answer'[r] \notin Success \cup {"none"}
      BY <1>2, <1>5 DEF Refused, Fails, Ends, Consistent, Untouched, InLoop, Success
    <2>2. Verdict(r) = "open" /\ Verdict(r)' = "refused"
      BY <2>1 DEF Verdict, Success
    <2>3. QED
      BY <1>3, <2>1, <2>2, RefuseMaps
  <1>6. CASE Appends(r) /\ (Continues(r) \/ Completes(r) \/ Fails(r))
    <2>1. /\ Len(raw'[r]) = Len(raw[r]) + 1 /\ handler[r].next = Len(raw[r]) + 1
          /\ Len(raw[r]) \in Nat
      BY <1>2, <1>6, AppendKeepsOrder DEF GatewayTypeOK
    <2>2. InLoop(r) /\ Len(parts[r]) \in Nat
      BY <1>2, <1>6, PartsFacts DEF Appends, Consistent
    <2>3. Len(raw[r]) < Len(parts[r]) /\ Verdict(r) = "open"
      BY <2>1, <2>2 DEF InLoop, Verdict, Success
    <2>4. \/ Verdict(r)' = "open"
          \/ Len(raw'[r]) = Len(parts[r]) /\ Verdict(r)' = "accepted"
          \/ Verdict(r)' = "refused"
      <3>1. CASE Continues(r)
        BY <2>2, <3>1 DEF Continues, InLoop, Verdict, Success
      <3>2. CASE Completes(r)
        <4>1. answer'[r] \in Success /\ Len(raw'[r]) = Len(parts[r])
          BY <2>1, <2>2, <3>2 DEF Completes, Ends, InLoop
        <4>2. QED
          BY <4>1 DEF Verdict
      <3>3. CASE Fails(r)
        <4>1. answer'[r] \notin Success \cup {"none"}
          BY <3>3 DEF Fails, Ends, Success
        <4>2. QED
          BY <4>1 DEF Verdict
      <3>4. QED
        BY <1>6, <3>1, <3>2, <3>3
    <2>5. QED
      BY <1>3, <2>1, <2>3, <2>4, QueueMaps
  <1>7. QED
    BY <1>1, <1>4, <1>5, <1>6 DEF Ways, Continues, Completes, Fails

LEMMA GatewayStepMaps ==
  ASSUME GatewayTypeOK, GatewayInv, GatewayNext \/ Around
  PROVE  Intake!Next \/ UNCHANGED Intake!vars
  <1>1. ASSUME NEW r \in Request, Receive(r) \/ Handle(r)
        PROVE  Intake!Next \/ UNCHANGED Intake!vars
    BY <1>1, HandlerMaps
  <1>2. CASE Crash
    <2>1. ASSUME NEW u \in Request
          PROVE  /\ raw'[u] = raw[u]
                 /\ Verdict(u)' = Verdict(u) \/ (Verdict(u) = "open" /\ Verdict(u)' = "refused")
      <3>1. CASE u \in Active
        <4>1. answer[u] = "none"
          BY <3>1 DEF Active, GatewayInv, Consistent, Untouched, InLoop
        <4>2. raw'[u] = raw[u] /\ answer'[u] = "lost"
          BY <1>2, <3>1, CrashLoses DEF Lost, Ends
        <4>3. QED
          BY <4>1, <4>2 DEF Verdict, Success
      <3>2. CASE u \notin Active
        BY <1>2, <3>2, CrashLoses DEF Same, Verdict
      <3>3. QED
        BY <3>1, <3>2
    <2>2. QED
      BY <2>1, RefuseMaps
  <1>3. CASE Start \/ Stop \/ Shutdown \/ Disconnected \/ Reconnected \/ Around
    <2>1. raw' = raw /\ answer' = answer
      BY <1>3 DEF Start, Stop, Shutdown, Disconnected, Reconnected, Around
    <2>2. QED
      BY <2>1, SameMaps
  <1>4. QED
    BY <1>1, <1>2, <1>3 DEF GatewayNext, Lifecycle

LEMMA InitMaps ==
  ASSUME GatewayInit
  PROVE  Intake!Init
  <1>1. \A r \in Request : raw[r] = <<>> /\ answer[r] = "none"
    BY DEF GatewayInit
  <1>2. queuedNow = [r \in Request |-> 0] /\ verdictNow = [r \in Request |-> "open"]
    BY <1>1 DEF queuedNow, verdictNow, Verdict, Success
  <1>3. QED
    BY <1>2 DEF Intake!Init, queuedNow, verdictNow, Verdict

-----------------------------------------------------------------------------
(* What no step of the gateway takes back.                                 *)

\* Queues only grow, and the environment is chosen once.
LEMMA QueuesGrow ==
  ASSUME GatewayTypeOK, GatewayNext \/ Around
  PROVE  /\ setting' = setting
         /\ \A r \in Request : Len(raw[r]) \in Nat /\ Len(raw'[r]) \in Nat
                               /\ Len(raw[r]) <= Len(raw'[r])
  <1>1. \A r \in Request : Len(raw[r]) \in Nat
    BY DEF GatewayTypeOK
  <1>2. ASSUME NEW r \in Request, Receive(r) \/ Handle(r)
        PROVE  /\ setting' = setting
               /\ \A u \in Request : Len(raw'[u]) \in Nat /\ Len(raw[u]) <= Len(raw'[u])
    <2>1. Ways(r) /\ (\A u \in Request \ {r} : Same(u)) /\ UNCHANGED setting
      BY <1>2, HandlerWays
    <2>2. raw'[r] = raw[r] \/ raw'[r] = Append(raw[r], Current(r))
      BY <2>1 DEF Ways, Refused, Reads, Begins, Continues, Completes, Fails, Appends
    <2>3. raw[r] \in Seq(Message)
      BY DEF GatewayTypeOK
    <2>4. Len(Append(raw[r], Current(r))) = Len(raw[r]) + 1
      BY <2>3
    <2>5. Len(raw'[r]) \in Nat /\ Len(raw[r]) <= Len(raw'[r])
      BY <1>1, <2>2, <2>4
    <2>6. QED
      BY <1>1, <2>1, <2>5 DEF Same
  <1>3. CASE Crash \/ Start \/ Stop \/ Shutdown \/ Disconnected \/ Reconnected \/ Around
    <2>1. UNCHANGED <<setting, raw>>
      BY <1>3 DEF Crash, Start, Stop, Shutdown, Disconnected, Reconnected, Around
    <2>2. QED
      BY <1>1, <2>1
  <1>4. QED
    BY <1>1, <1>2, <1>3 DEF GatewayNext, Lifecycle
================================================================================
