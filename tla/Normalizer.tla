------------------------------ MODULE Normalizer ------------------------------
(***************************************************************************)
(* The normalizer worker (apps/normalizer/worker.py) on its consumer       *)
(* (core/messaging/consumer.py): it takes raw messages one at a time from  *)
(* raw_data.itv_stations, turns each into a station and publishes that to  *)
(* normalized_data, or to rejected_data why there is none.  In the modes   *)
(* RULES and FUZZY the handler of a message does all of it; in the mode    *)
(* LLM messages are buffered and a batch is mapped by one call per source. *)
(*                                                                         *)
(* The consumer's loop runs one handler at a time (Main); batches flushed  *)
(* by the timer run beside it (Timers).  A step is what runs between two   *)
(* awaits.                                                                 *)
(***************************************************************************)
EXTENDS Selections, Functions

CONSTANTS
  Msg,            \* the raw messages
  bodyOf,         \* what each one's body is: see BodyKinds
  Source,         \* source systems
  sourceOf,       \* the source a message names
  BatchSize,      \* LLM_NORMALIZER_BATCH_SIZE, the prefetch in the mode LLM too
  RabbitPrefetch, \* RABBITMQ_PREFETCH, the prefetch in the other modes
  Main,           \* the task of main(): consumer loop, then shutdown
  Timers,         \* bound: timer flushes that may be alive at once
  Settings,       \* the modes of work and the faults to choose from: see Setting
  MaxLosses       \* bound: channels lost before the environment calms down

BodyKinds == {
  "text",       \* not JSON
  "scalar",     \* JSON, but no object
  "malformed",  \* an object without source, payload or a known format
  "empty",      \* a payload that is there and is falsy
  "station" }   \* a work unit as the gateway makes it

FaultKinds == {
  "publish",    \* publishing a station raises
  "refusal",    \* publishing to rejected_data raises
  "answer",     \* the LLM answers with any number of items, in any order
  "setup",      \* the transformer cannot be built
  "reconnect",  \* the robust connection drops and is reopened
  "crash",      \* the process dies
  "stop" }      \* Ctrl+C: the consumer loop is cancelled and shutdown() runs

Setting == [llm: BOOLEAN, faults: SUBSET FaultKinds]

ASSUME NormalizerAssumption ==
  /\ bodyOf \in [Msg -> BodyKinds]
  /\ sourceOf \in [Msg -> Source]
  /\ BatchSize \in Nat \ {0}
  /\ RabbitPrefetch \in Nat \ {0}
  /\ Main \notin Timers
  /\ Settings \subseteq Setting
  /\ MaxLosses \in Nat

Task == {Main} \cup Timers

VARIABLES
  where,    \* of each message: "ready", "unacked", "acked" or "dead" (in the DLQ)
  epoch,    \* the channel in use; a delivery dies with the channel it came on
  setting,  \* the configuration and the environment of this behaviour
  mode,     \* of the process: "up", "draining" (shutdown), "closed" or "down"
  buffer,   \* _batch_buffer
  timer,    \* _batch_timer_task is sleeping
  task,     \* what each task is doing
  sent,     \* the stations published under a message's id: whose content each is
  refused   \* a rejection was published for the message

broker == <<where, epoch>>
exchanges == <<sent, refused>>
vars == <<broker, setting, mode, buffer, timer, task, exchanges>>

\* _BatchItem: a message and the channel it was delivered on
Delivery == [msg: Msg, epoch: Nat]

Idle ==
  [pc |-> "idle", how |-> "none", group |-> <<>>, todo |-> <<>>,
   stations |-> <<>>, found |-> 0, trigger |-> "none"]

TaskState ==
  [pc: {"idle", "map", "choose", "refuse", "station", "ack", "reject"},
   how: {"none", "triage", "refuse", "single", "zip"},  \* the loop it is in
   group: Seq(Delivery),    \* the items of that loop, the current one first
   todo: Seq(Delivery),     \* the items of the batch that come after
   stations: Seq(Msg),      \* zipped with group
   found: 0..2,             \* stations in the current message, 2 for several
   trigger: {"none", "message", "size", "timeout", "shutdown"}]

TypeOK ==
  /\ where \in [Msg -> {"ready", "unacked", "acked", "dead"}]
  /\ epoch \in Nat
  /\ setting \in Settings
  /\ mode \in {"up", "draining", "closed", "down"}
  /\ buffer \in Seq(Delivery)
  /\ timer \in BOOLEAN
  /\ task \in [Task -> TaskState]
  /\ sent \in [Msg -> Seq(Msg)]
  /\ refused \in [Msg -> BOOLEAN]

Init ==
  /\ where = [m \in Msg |-> "ready"]
  /\ epoch = 0
  /\ setting \in Settings
  /\ mode = "up"
  /\ buffer = <<>>
  /\ timer = FALSE
  /\ task = [t \in Task |-> Idle]
  /\ sent = [m \in Msg |-> <<>>]
  /\ refused = [m \in Msg |-> FALSE]

-----------------------------------------------------------------------------
(* The broker, as the worker sees it through aio_pika.                     *)

ChannelOpen == mode \in {"up", "draining"}

Unacked == {m \in Msg : where[m] = "unacked"}

Prefetch == IF setting.llm THEN BatchSize ELSE RabbitPrefetch

\* the consumer's loop takes a message when the handler of the one before is done
Deliverable(m) ==
  /\ mode = "up"
  /\ task[Main].pc = "idle"
  /\ where[m] = "ready"
  /\ Cardinality(Unacked) < Prefetch

\* ack() and reject() raise on a channel that is not the delivery's any more
Settleable(d) == ChannelOpen /\ d.epoch = epoch /\ where[d.msg] = "unacked"

LoseChannel ==
  /\ where' = [m \in Msg |-> IF where[m] = "unacked" THEN "ready" ELSE where[m]]
  /\ epoch' = epoch + 1

Fault(kind) == kind \in setting.faults

-----------------------------------------------------------------------------
(* A batch: _process_batch and its calls of _process_source_batch.         *)

Malformed(d) == bodyOf[d.msg] = "malformed"

Bad(todo) == {i \in DOMAIN todo : Malformed(todo[i])}
OfFirst(todo) == {i \in DOMAIN todo : sourceOf[todo[i].msg] = sourceOf[todo[1].msg]}

\* mutation of Resume: only the first source of the batch is processed
ResumeOnce(t) ==
  LET bad == Bad(t.todo)
      first == OfFirst(t.todo)
      others(S) == DOMAIN t.todo \ S
  IN  IF bad # {} THEN
        [t EXCEPT !.pc = "reject", !.how = "triage", !.group = <<Head(Pick(t.todo, bad))>>,
                  !.todo = Tail(Pick(t.todo, bad)) \o Pick(t.todo, others(bad))]
      ELSE IF t.todo # <<>> THEN
        [t EXCEPT !.pc = "map", !.how = "none", !.group = Pick(t.todo, first), !.todo = <<>>]
      ELSE Idle

\* What a task takes up next: the malformed items are rejected one by one, then
\* comes each source, in the order of its first item.
Resume(t) ==
  LET bad == Bad(t.todo)
      first == OfFirst(t.todo)
      others(S) == DOMAIN t.todo \ S
  IN  IF bad # {} THEN
        [t EXCEPT !.pc = "reject", !.how = "triage", !.group = <<Head(Pick(t.todo, bad))>>,
                  !.todo = Tail(Pick(t.todo, bad)) \o Pick(t.todo, others(bad))]
      ELSE IF t.todo # <<>> THEN
        [t EXCEPT !.pc = "map", !.how = "none", !.group = Pick(t.todo, first),
                  !.todo = Pick(t.todo, others(first))]
      ELSE Idle

StartBatch(items, trigger) == Resume([Idle EXCEPT !.todo = items, !.trigger = trigger])

FirstOf(how) == CASE how = "refuse" -> "refuse"
                  [] how = "single" -> "choose"
                  [] how = "zip"    -> "station"

\* the current item is settled: the next of the loop, or what comes after it
Advanced(t) ==
  LET u == [t EXCEPT !.group = Tail(t.group), !.found = 0,
                     !.stations = IF t.how = "zip" THEN Tail(t.stations) ELSE <<>>]
  IN  IF u.group = <<>> THEN Resume(u) ELSE [u EXCEPT !.pc = FirstOf(t.how)]

-----------------------------------------------------------------------------
(* Receiving: _process_raw_message and _enqueue_message_for_batch.         *)

\* a body that is not JSON: _safe_reject_message
RejectText(m) ==
  /\ bodyOf[m] = "text"
  /\ Deliverable(m)
  /\ where' = [where EXCEPT ![m] = "dead"]
  /\ UNCHANGED <<epoch, setting, mode, buffer, timer, task, exchanges>>

\* JSON that is no object raises, and with auto_ack nobody settles the message
ForgetScalar(m) ==
  /\ bodyOf[m] = "scalar"
  /\ Deliverable(m)
  /\ where' = [where EXCEPT ![m] = "unacked"]
  /\ UNCHANGED <<epoch, setting, mode, buffer, timer, task, exchanges>>

IsObject(m) == bodyOf[m] \in {"malformed", "empty", "station"}

\* RULES and FUZZY: _process_message_with_ack, at once
HandleMessage(m) ==
  /\ ~setting.llm
  /\ IsObject(m)
  /\ Deliverable(m)
  /\ where' = [where EXCEPT ![m] = "unacked"]
  /\ task' = [task EXCEPT ![Main] =
       [Idle EXCEPT !.pc = "choose", !.how = "single", !.trigger = "message",
                    !.group = <<[msg |-> m, epoch |-> epoch]>>]]
  /\ UNCHANGED <<epoch, setting, mode, buffer, timer, exchanges>>

\* mutation of EnqueueAndWait: the message is buffered without its delivery
EnqueuePayload(m) ==
  /\ setting.llm
  /\ IsObject(m)
  /\ Deliverable(m)
  /\ Len(buffer) + 1 < BatchSize
  /\ where' = [where EXCEPT ![m] = "unacked"]
  /\ buffer' = Append(buffer, m)
  /\ timer' = TRUE
  /\ UNCHANGED <<epoch, setting, mode, task, exchanges>>

\* LLM, the batch still short: the timer is restarted
EnqueueAndWait(m) ==
  /\ setting.llm
  /\ IsObject(m)
  /\ Deliverable(m)
  /\ Len(buffer) + 1 < BatchSize
  /\ where' = [where EXCEPT ![m] = "unacked"]
  /\ buffer' = Append(buffer, [msg |-> m, epoch |-> epoch])
  /\ timer' = TRUE
  /\ UNCHANGED <<epoch, setting, mode, task, exchanges>>

\* LLM, the message that fills the batch: its handler processes it
EnqueueAndProcess(m) ==
  /\ setting.llm
  /\ IsObject(m)
  /\ Deliverable(m)
  /\ Len(buffer) + 1 >= BatchSize
  /\ where' = [where EXCEPT ![m] = "unacked"]
  /\ task' = [task EXCEPT ![Main] =
       StartBatch(Append(buffer, [msg |-> m, epoch |-> epoch]), "size")]
  /\ buffer' = <<>>
  /\ timer' = FALSE
  /\ UNCHANGED <<epoch, setting, mode, exchanges>>

\* mutation of TimerFires: the batch is copied and the buffer not cleared
TimerCopies(t) ==
  /\ timer
  /\ buffer # <<>>
  /\ task[t].pc = "idle"
  /\ task' = [task EXCEPT ![t] = StartBatch(buffer, "timeout")]
  /\ timer' = FALSE
  /\ UNCHANGED <<broker, setting, mode, buffer, exchanges>>

\* mutation of TimerFires: a lone message is no batch
TimerNeedsTwo(t) ==
  /\ timer
  /\ Len(buffer) > 1
  /\ task[t].pc = "idle"
  /\ task' = [task EXCEPT ![t] = StartBatch(buffer, "timeout")]
  /\ buffer' = <<>>
  /\ timer' = FALSE
  /\ UNCHANGED <<broker, setting, mode, exchanges>>

\* _flush_after_timeout
TimerFires(t) ==
  /\ timer
  /\ buffer # <<>>
  /\ task[t].pc = "idle"
  /\ task' = [task EXCEPT ![t] = StartBatch(buffer, "timeout")]
  /\ buffer' = <<>>
  /\ timer' = FALSE
  /\ UNCHANGED <<broker, setting, mode, exchanges>>

-----------------------------------------------------------------------------
(* Processing: _process_source_batch and process_message.                  *)

\* what the LLM makes of a group, as the messages the stations come from: some
\* items yield nothing (validation, deduplication), the rest keep their order
Answers(group) ==
  {Pick([i \in DOMAIN group |-> group[i].msg], S) : S \in SUBSET DOMAIN group}

\* what an LLM that does not keep to the prompt makes of it
LooseAnswers(group) ==
  UNION {[1..n -> {group[i].msg : i \in DOMAIN group}] : n \in 0..Len(group)}

\* mutation of LoopOver: no check that the batch and the answer are of a length
LoopZips(group, answer) == IF answer = <<>> THEN "refuse" ELSE "zip"

LoopOver(group, answer) ==
  IF answer = <<>> THEN "refuse"
  ELSE IF Len(answer) # Len(group) THEN "single"
  ELSE "zip"

\* transform_batch_async returns, and the loop over the group begins
MapGroup(t) ==
  /\ task[t].pc = "map"
  /\ \E answer \in Answers(task[t].group)
                   \cup (IF Fault("answer") THEN LooseAnswers(task[t].group) ELSE {}) :
       LET how == LoopOver(task[t].group, answer) IN
       task' = [task EXCEPT ![t] =
         [@ EXCEPT !.how = how, !.pc = FirstOf(how),
                   !.stations = IF how = "zip" THEN answer ELSE <<>>]]
  /\ UNCHANGED <<broker, setting, mode, buffer, timer, exchanges>>

\* memory is lost and the broker takes back what was not settled
Die ==
  /\ LoseChannel
  /\ mode' = "down"
  /\ buffer' = <<>>
  /\ timer' = FALSE
  /\ task' = [t \in Task |-> Idle]

\* An exception leaves the task with the rest of its batch: _process_raw_message
\* logs it (auto_ack), the timer's task ends, shutdown() gives up disconnecting.
Abandon(t) ==
  \/ /\ task[t].trigger # "shutdown"
     /\ task' = [task EXCEPT ![t] = Idle]
     /\ UNCHANGED <<broker, mode, buffer, timer>>
  \/ /\ task[t].trigger = "shutdown"
     /\ Die

\* factory.create raises for the whole group
MapRaises(t) ==
  /\ Fault("setup")
  /\ task[t].pc = "map"
  /\ Abandon(t)
  /\ UNCHANGED <<setting, exchanges>>

Current(t) == task[t].group[1]

GoTo(t, pc) == task' = [task EXCEPT ![t].pc = pc]

\* mutation of AfterChoice: nothing to publish, nothing to refuse
ChoiceWithoutRefusal(found, partly) ==
  IF partly THEN "refuse"
  ELSE CASE found = 0 -> "ack" [] found = 1 -> "station" [] found = 2 -> "reject"

\* publishing the rejections comes first, those of the parts too (partly)
AfterChoice(found, partly) ==
  IF partly \/ found = 0 THEN "refuse"
  ELSE IF found = 1 THEN "station" ELSE "reject"

\* process_message up to its first publish; found = 2 is also a transformer that
\* raises
Choose(t) ==
  /\ task[t].pc = "choose"
  /\ \/ /\ bodyOf[Current(t).msg] # "station"
        /\ GoTo(t, "reject")
     \/ /\ bodyOf[Current(t).msg] = "station"
        /\ \E found \in 0..2, partly \in BOOLEAN :
             task' = [task EXCEPT ![t] =
               [@ EXCEPT !.found = found, !.pc = AfterChoice(found, partly)]]
  /\ UNCHANGED <<broker, setting, mode, buffer, timer, exchanges>>

AfterRefusal(s) ==
  IF s.how = "refuse" \/ s.found = 0 THEN "ack"
  ELSE IF s.found = 1 THEN "station" ELSE "reject"

\* _publish_rejected: published, or the failure is swallowed
Refuse(t) ==
  /\ task[t].pc = "refuse"
  /\ \/ refused' = [refused EXCEPT ![Current(t).msg] = TRUE]
     \/ /\ Fault("refusal") \/ mode = "closed"
        /\ UNCHANGED refused
  /\ GoTo(t, AfterRefusal(task[t]))
  /\ UNCHANGED <<broker, setting, mode, buffer, timer, sent>>

\* the station of the current item, published under the current message's id
StationSent(t) ==
  LET m == Current(t).msg
      content == IF task[t].how = "zip" THEN task[t].stations[1] ELSE m
  IN  [sent EXCEPT ![m] = Append(sent[m], content)]

Publish(t) ==
  /\ task[t].pc = "station"
  /\ sent' = StationSent(t)
  /\ GoTo(t, "ack")
  /\ UNCHANGED <<broker, setting, mode, buffer, timer, refused>>

\* mutation of PublishFails: a publish without its confirm is tried again
PublishAgain(t) ==
  /\ Fault("publish") \/ mode = "closed"
  /\ task[t].pc = "station"
  /\ sent' = StationSent(t)
  /\ UNCHANGED <<broker, setting, mode, buffer, timer, task, refused>>

\* publish raises, its confirm lost or nothing published: process_message's caller
\* rejects the message, the loop over a mapped batch gives up
PublishFails(t) ==
  /\ Fault("publish") \/ mode = "closed"
  /\ task[t].pc = "station"
  /\ sent' \in {sent, StationSent(t)}
  /\ \/ /\ task[t].how = "single"
        /\ GoTo(t, "reject")
        /\ UNCHANGED <<broker, mode, buffer, timer>>
     \/ /\ task[t].how = "zip"
        /\ Abandon(t)
  /\ UNCHANGED <<setting, refused>>

Settle(t, fate) ==
  /\ Settleable(Current(t))
  /\ where' = [where EXCEPT ![Current(t).msg] = fate]
  /\ task' = [task EXCEPT ![t] = Advanced(task[t])]
  /\ UNCHANGED <<epoch, setting, mode, buffer, timer, exchanges>>

Ack(t) == task[t].pc = "ack" /\ Settle(t, "acked")

Reject(t) == task[t].pc = "reject" /\ Settle(t, "dead")

\* ack raises: _process_message_with_ack goes on to reject
AckFails(t) ==
  /\ task[t].pc = "ack"
  /\ ~Settleable(Current(t))
  /\ \/ /\ task[t].how = "single"
        /\ GoTo(t, "reject")
        /\ UNCHANGED <<broker, mode, buffer, timer>>
     \/ /\ task[t].how # "single"
        /\ Abandon(t)
  /\ UNCHANGED <<setting, exchanges>>

RejectFails(t) ==
  /\ task[t].pc = "reject"
  /\ ~Settleable(Current(t))
  /\ Abandon(t)
  /\ UNCHANGED <<setting, exchanges>>

-----------------------------------------------------------------------------
(* The life of the process.                                                *)

\* main() is cancelled, with the handler it runs; shutdown() flushes the buffer
Stop ==
  /\ Fault("stop")
  /\ mode = "up"
  /\ epoch < MaxLosses
  /\ mode' = "draining"
  /\ task' = [task EXCEPT ![Main] = StartBatch(buffer, "shutdown")]
  /\ buffer' = <<>>
  /\ timer' = FALSE
  /\ UNCHANGED <<broker, setting, exchanges>>

\* shutdown(), once its flush is over: the timers' batches are not awaited
CloseChannel ==
  /\ mode = "draining"
  /\ task[Main].pc = "idle"
  /\ LoseChannel
  /\ mode' = "closed"
  /\ UNCHANGED <<setting, buffer, timer, task, exchanges>>

\* main() returns: asyncio.run cancels the tasks that are left
Exit == mode = "closed" /\ Die /\ UNCHANGED <<setting, exchanges>>

Crash ==
  /\ Fault("crash")
  /\ mode # "down"
  /\ epoch < MaxLosses
  /\ Die
  /\ UNCHANGED <<setting, exchanges>>

\* connect_robust reopens the channel and consumes again; buffer and tasks live on
ConnectionLost ==
  /\ Fault("reconnect")
  /\ ChannelOpen
  /\ epoch < MaxLosses
  /\ LoseChannel
  /\ UNCHANGED <<setting, mode, buffer, timer, task, exchanges>>

\* start() in a new process
Restart ==
  /\ mode = "down"
  /\ mode' = "up"
  /\ UNCHANGED <<broker, setting, buffer, timer, task, exchanges>>

-----------------------------------------------------------------------------
Receive(m) ==
  \/ RejectText(m) \/ ForgetScalar(m)
  \/ HandleMessage(m) \/ EnqueueAndWait(m) \/ EnqueueAndProcess(m)

TaskStep(t) ==
  \/ MapGroup(t) \/ MapRaises(t) \/ Choose(t) \/ Refuse(t)
  \/ Publish(t) \/ PublishFails(t)
  \/ Ack(t) \/ AckFails(t) \/ Reject(t) \/ RejectFails(t)

Next ==
  \/ \E m \in Msg : Receive(m)
  \/ \E t \in Timers : TimerFires(t)
  \/ \E t \in Task : TaskStep(t)
  \/ Stop \/ CloseChannel \/ Exit \/ Crash \/ ConnectionLost \/ Restart

Spec == Init /\ [][Next]_vars

\* The event loop runs every task that can run and fires every timer, the broker
\* delivers while the prefetch window is open, and the container is restarted.
Fairness ==
  /\ WF_vars(\E m \in Msg : Receive(m))
  /\ WF_vars(\E t \in Timers : TimerFires(t))
  /\ \A t \in Task : WF_vars(TaskStep(t))
  /\ WF_vars(CloseChannel) /\ WF_vars(Exit) /\ WF_vars(Restart)

FairSpec == Spec /\ Fairness

-----------------------------------------------------------------------------
(* Properties.                                                             *)

\* The deliveries somebody will still settle
Held == Range(buffer) \cup UNION {Range(task[t].group \o task[t].todo) : t \in Task}

\* A station is published under the id of the message it was made from, though
\* the batch is mapped by one call whose answer may be short (the length check
\* and the fallback of _process_source_batch).
StationsKeepTheirId ==
  \A m \in Msg : \A i \in DOMAIN sent[m] : sent[m][i] = m

\* A message is published at most once per delivery, whatever the size flush, the
\* timer, the per-message fallback and a shutdown do to each other: more copies
\* than channels lost never reach the persister, whose log refuses the second.
OncePerDelivery ==
  \A m \in Msg : Len(sent[m]) <= epoch + 1

\* No message disappears: one that is acknowledged was published as a station or
\* as a rejection.  It needs a rejected_data exchange that works: _publish_rejected
\* swallows what it raises (fault "refusal").
AckedIsTraced ==
  \A m \in Msg : where[m] = "acked" => sent[m] # <<>> \/ refused[m]

\* A held delivery has one holder: the buffer, a batch under way, or one group of it.
ExclusiveOwner ==
  LET held(t) == task[t].group \o task[t].todo
  IN  /\ IsInjective(buffer)
      /\ \A t \in Task : IsInjective(held(t)) /\ Range(held(t)) \cap Range(buffer) = {}
      /\ \A t, u \in Task : t # u => Range(held(t)) \cap Range(held(u)) = {}

\* Every message the broker waits for is held by somebody who will still settle
\* it ("Re-raise to send to DLQ", worker.py:594, says so of the failed ones).
NothingStranded ==
  mode = "up" => \A m \in Unacked : [msg |-> m, epoch |-> epoch] \in Held

\* What a task holds and has not yet published: an item that is being acknowledged
\* or rejected is over.
HeldBy(s) == s.group \o s.todo
Open(s) == IF s.pc \in {"ack", "reject"} THEN Range(Tail(s.group) \o s.todo) ELSE Range(HeldBy(s))

Unsent == Range(buffer) \cup UNION {Open(task[t]) : t \in Task}

\* the channels on which m was delivered and may yet be published
Owed(m) == {d.epoch : d \in {x \in Unsent : x.msg = m}}

\* The normalizer implements ForwardContract: seen through its queue and what it
\* publishes, every step is one of the contract's, or no step.
Contract == INSTANCE ForwardContract WITH
  Unreadable <- {m \in Msg : bodyOf[m] = "text"},
  due <- [m \in Msg |-> Cardinality(Owed(m))]
KeepsContract == Contract!Spec

\* Every message leaves the queue for good: no short batch waits for ever, and no
\* fallback, failed publish or shutdown keeps a message.
EventuallySettled == \A m \in Msg : <>(where[m] \in {"acked", "dead"})

=============================================================================
