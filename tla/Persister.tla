------------------------------ MODULE Persister ------------------------------
(***************************************************************************)
(* The persister worker (apps/persister/worker.py): it takes normalized    *)
(* stations from the queue normalized_data.itv_stations, buffers them, and *)
(* writes each batch in one PostgreSQL transaction (an upsert of the       *)
(* stations and one ingestion_log row per message) before it acknowledges  *)
(* the messages one by one.                                                *)
(*                                                                         *)
(* Every flush is a task of its own (the handler of the message that       *)
(* filled the buffer, the timer, or stop()), so several batches are        *)
(* persisted, acknowledged or dead-lettered at the same time.  A step is   *)
(* what runs between two awaits.                                           *)
(***************************************************************************)
EXTENDS Naturals, Sequences, FiniteSets

CONSTANTS
  Msg,            \* the copies in the queue: one message per publish
  Bad,            \* the ones whose body is no NormalizedStation
  MsgId, idOf,    \* the tracing id of each message; copies may share it
  Key, keyOf,     \* (fuente_origen, id_en_fuente) of the station it carries
  NoMsg,          \* no row yet
  BatchSize,      \* PERSISTER_BATCH_SIZE
  MaxAttempts,    \* PERSISTER_RETRY_MAX_ATTEMPTS
  PrefetchFloor,  \* the 10 of connect_rabbitmq
  Flusher,        \* bound: the flush tasks that may be alive at once
  Faults,         \* what the environment does: see FaultKinds
  MaxLosses       \* bound: channels lost before the environment calms down

FaultKinds == {
  "db",         \* a statement or a commit fails or times out
  "rawerror",   \* a driver error that is not an SQLAlchemyError
  "reconnect",  \* the robust connection drops and is reopened
  "crash",      \* the process dies
  "stop" }      \* Ctrl+C: main() runs stop()

ASSUME PersisterAssumption ==
  /\ Bad \subseteq Msg
  /\ idOf \in [Msg -> MsgId]
  /\ keyOf \in [Msg -> Key]
  /\ NoMsg \notin Msg
  /\ BatchSize \in Nat \ {0}
  /\ MaxAttempts \in Nat \ {0}
  /\ PrefetchFloor \in Nat \ {0}
  /\ Faults \subseteq FaultKinds
  /\ MaxLosses \in Nat

VARIABLES
  where,     \* of each message: "ready", "unacked", "acked" or "dead" (in the DLQ)
  epoch,     \* the channel in use; a delivery dies with the channel it came on
  mode,      \* of the process: "up", "draining" (stop), "closed" (channel) or "down"
  buffer,    \* the deliveries waiting for a flush
  timer,     \* _flush_timer_task is sleeping
  flush,     \* the flush tasks
  stations,  \* table estaciones_itv: the message each row was last written from
  log        \* table ingestion_log: the status recorded for each message id

broker == <<where, epoch>>
db == <<stations, log>>
vars == <<broker, mode, buffer, timer, flush, db>>

\* BatchItem: a message and the channel it was delivered on
Delivery == [msg: Msg, epoch: Nat]

Idle == [pc |-> "idle", items |-> <<>>, attempt |-> 0, next |-> 0, trigger |-> "none"]

FlushTask ==
  [pc: {"idle", "persist", "ack", "record", "nack", "raised"},
   items: Seq(Delivery), attempt: 0..MaxAttempts, next: Nat,
   trigger: {"none", "size", "timeout", "shutdown"}]

TypeOK ==
  /\ where \in [Msg -> {"ready", "unacked", "acked", "dead"}]
  /\ epoch \in Nat
  /\ mode \in {"up", "draining", "closed", "down"}
  /\ buffer \in Seq(Delivery)
  /\ timer \in BOOLEAN
  /\ flush \in [Flusher -> FlushTask]
  /\ stations \in [Key -> Msg \cup {NoMsg}]
  /\ log \in [MsgId -> {"none", "success", "failed"}]

Init ==
  /\ where = [m \in Msg |-> "ready"]
  /\ epoch = 0
  /\ mode = "up"
  /\ buffer = <<>>
  /\ timer = FALSE
  /\ flush = [f \in Flusher |-> Idle]
  /\ stations = [k \in Key |-> NoMsg]
  /\ log = [i \in MsgId |-> "none"]

-----------------------------------------------------------------------------
(* The broker, as the worker sees it through aio_pika.                     *)

ChannelOpen == mode \in {"up", "draining"}

Prefetch == IF 2 * BatchSize > PrefetchFloor THEN 2 * BatchSize ELSE PrefetchFloor

Unacked == {m \in Msg : where[m] = "unacked"}

\* stop() does not cancel the consumer: messages arrive until the channel closes
Deliverable(m) ==
  /\ ChannelOpen
  /\ where[m] = "ready"
  /\ Cardinality(Unacked) < Prefetch

\* ack() and nack() raise on a closed channel and on a message already settled
Settleable(d) == ChannelOpen /\ d.epoch = epoch /\ where[d.msg] = "unacked"

\* losing the channel puts every unsettled message back in the queue
Requeued == [m \in Msg |-> IF where[m] = "unacked" THEN "ready" ELSE where[m]]

LoseChannel ==
  /\ where' = Requeued
  /\ epoch' = epoch + 1

-----------------------------------------------------------------------------
(* Buffering: process_message, _enqueue_item and the flush timer.          *)

\* mutation of TakeBatch: the buffer is copied and not cleared
TakeBatchLeavesBuffer(f, items, trigger) ==
  /\ flush[f].pc = "idle"
  /\ flush' = [flush EXCEPT ![f] =
       [pc |-> "persist", items |-> items, attempt |-> 1, next |-> 1, trigger |-> trigger]]
  /\ buffer' = items
  /\ timer' = FALSE

\* The critical sections of _enqueue_item and _flush_batch hold no await, and
\* nothing is awaited between them: taking the batch is part of the same step.
TakeBatch(f, items, trigger) ==
  /\ flush[f].pc = "idle"
  /\ flush' = [flush EXCEPT ![f] =
       [pc |-> "persist", items |-> items, attempt |-> 1, next |-> 1, trigger |-> trigger]]
  /\ buffer' = <<>>
  /\ timer' = FALSE

\* process_message, a body that does not parse or validate: straight to the DLQ
RejectInvalid(m) ==
  /\ m \in Bad
  /\ Deliverable(m)
  /\ where' = [where EXCEPT ![m] = "dead"]
  /\ UNCHANGED <<epoch, mode, buffer, timer, flush, db>>

\* mutation of EnqueueAndWait: the timer is not restarted
EnqueueWithoutTimer(m) ==
  /\ m \notin Bad
  /\ Deliverable(m)
  /\ Len(buffer) + 1 < BatchSize
  /\ where' = [where EXCEPT ![m] = "unacked"]
  /\ buffer' = Append(buffer, [msg |-> m, epoch |-> epoch])
  /\ UNCHANGED <<epoch, mode, timer, flush, db>>

\* process_message, a valid body, the batch still short of BatchSize
EnqueueAndWait(m) ==
  /\ m \notin Bad
  /\ Deliverable(m)
  /\ Len(buffer) + 1 < BatchSize
  /\ where' = [where EXCEPT ![m] = "unacked"]
  /\ buffer' = Append(buffer, [msg |-> m, epoch |-> epoch])
  /\ timer' = TRUE
  /\ UNCHANGED <<epoch, mode, flush, db>>

\* mutation of EnqueueAndFlush: the batch is taken before the message joins it
FlushBeforeEnqueue(m, f) ==
  /\ m \notin Bad
  /\ Deliverable(m)
  /\ Len(buffer) + 1 >= BatchSize
  /\ where' = [where EXCEPT ![m] = "unacked"]
  /\ TakeBatch(f, buffer, "size")
  /\ UNCHANGED <<epoch, mode, db>>

\* process_message, the message that fills the batch: its handler flushes
EnqueueAndFlush(m, f) ==
  /\ m \notin Bad
  /\ Deliverable(m)
  /\ Len(buffer) + 1 >= BatchSize
  /\ where' = [where EXCEPT ![m] = "unacked"]
  /\ TakeBatch(f, Append(buffer, [msg |-> m, epoch |-> epoch]), "size")
  /\ UNCHANGED <<epoch, mode, db>>

\* mutation of TimerFires: a lone message is no batch
TimerNeedsTwo(f) ==
  /\ timer
  /\ Len(buffer) > 1
  /\ TakeBatch(f, buffer, "timeout")
  /\ UNCHANGED <<broker, mode, db>>

\* _flush_after_timeout: the sleep is over
TimerFires(f) ==
  /\ timer
  /\ buffer # <<>>
  /\ TakeBatch(f, buffer, "timeout")
  /\ UNCHANGED <<broker, mode, db>>

-----------------------------------------------------------------------------
(* The retry loop of _flush_batch.                                         *)

ItemMsgs(items) == {items[i].msg : i \in DOMAIN items}

IdsUnlogged(items) ==
  /\ \A i \in DOMAIN items : log[idOf[items[i].msg]] = "none"
  /\ \A i, j \in DOMAIN items : idOf[items[i].msg] = idOf[items[j].msg] => i = j

\* mutation of Writable: message_id is not UNIQUE
WritableAgain(items) ==
  \A i, j \in DOMAIN items : keyOf[items[i].msg] = keyOf[items[j].msg] => i = j

\* One INSERT ... ON CONFLICT DO UPDATE refuses two rows with the same key
\* (the command cannot affect a row twice), and ingestion_log.message_id is UNIQUE.
Writable(items) ==
  /\ IdsUnlogged(items)
  /\ \A i, j \in DOMAIN items : keyOf[items[i].msg] = keyOf[items[j].msg] => i = j

LogRows(items, status) ==
  [i \in MsgId |-> IF i \in {idOf[m] : m \in ItemMsgs(items)} THEN status ELSE log[i]]

\* mutation of Write: the stations are committed and the log rows are not
WriteStations(items) ==
  /\ stations' = [k \in Key |->
       IF k \in {keyOf[m] : m \in ItemMsgs(items)}
       THEN CHOOSE m \in ItemMsgs(items) : keyOf[m] = k
       ELSE stations[k]]
  /\ UNCHANGED log

\* the transaction of _persist_batch, visible at its commit
Write(items) ==
  /\ stations' = [k \in Key |->
       IF k \in {keyOf[m] : m \in ItemMsgs(items)}
       THEN CHOOSE m \in ItemMsgs(items) : keyOf[m] = k
       ELSE stations[k]]
  /\ log' = LogRows(items, "success")

\* mutation of Retried: one attempt too many
RetriedOnceMore(t) ==
  IF t.attempt <= MaxAttempts
  THEN [t EXCEPT !.pc = "persist", !.attempt = t.attempt + 1, !.next = 1]
  ELSE [t EXCEPT !.pc = "record", !.next = 1]

\* except Exception: sleep and try again, or go on to record the failure
Retried(t) ==
  IF t.attempt < MaxAttempts
  THEN [t EXCEPT !.pc = "persist", !.attempt = t.attempt + 1, !.next = 1]
  ELSE [t EXCEPT !.pc = "record", !.next = 1]

Retry(f) == flush' = [flush EXCEPT ![f] = Retried(flush[f])]

CommitBatch(f) ==
  /\ flush[f].pc = "persist"
  /\ Writable(flush[f].items)
  /\ Write(flush[f].items)
  /\ flush' = [flush EXCEPT ![f].pc = "ack"]
  /\ UNCHANGED <<broker, mode, buffer, timer>>

\* wait_for(session.commit(), 30) expires although the server has committed
CommitTimesOut(f) ==
  /\ "db" \in Faults
  /\ flush[f].pc = "persist"
  /\ Writable(flush[f].items)
  /\ Write(flush[f].items)
  /\ Retry(f)
  /\ UNCHANGED <<broker, mode, buffer, timer>>

\* mutation of PersistFails: the error is swallowed and the batch acknowledged
PersistErrorSwallowed(f) ==
  /\ flush[f].pc = "persist"
  /\ ~Writable(flush[f].items) \/ "db" \in Faults
  /\ flush' = [flush EXCEPT ![f].pc = "ack"]
  /\ UNCHANGED <<broker, mode, buffer, timer, db>>

\* a constraint is violated, or the database fails: rollback, and no effect
PersistFails(f) ==
  /\ flush[f].pc = "persist"
  /\ ~Writable(flush[f].items) \/ "db" \in Faults
  /\ Retry(f)
  /\ UNCHANGED <<broker, mode, buffer, timer, db>>

\* mutation of Advanced: the loops stop one item early
AdvancedShort(t) ==
  IF t.next + 1 < Len(t.items) THEN [t EXCEPT !.next = t.next + 1] ELSE Idle

\* the next item of the ack or nack loop, or the end of the task
Advanced(t) ==
  IF t.next < Len(t.items) THEN [t EXCEPT !.next = t.next + 1] ELSE Idle

Advance(f) == flush' = [flush EXCEPT ![f] = Advanced(flush[f])]

AckNext(f) ==
  LET d == flush[f].items[flush[f].next] IN
  /\ flush[f].pc = "ack"
  /\ Settleable(d)
  /\ where' = [where EXCEPT ![d.msg] = "acked"]
  /\ Advance(f)
  /\ UNCHANGED <<epoch, mode, buffer, timer, db>>

\* mutation of AckFails: an ack may raise on an open channel too
AckFailsAnytime(f) ==
  /\ flush[f].pc = "ack"
  /\ Retry(f)
  /\ UNCHANGED <<broker, mode, buffer, timer, db>>

\* an ack that raises is inside the try: the committed batch is persisted again
AckFails(f) ==
  /\ flush[f].pc = "ack"
  /\ ~Settleable(flush[f].items[flush[f].next])
  /\ Retry(f)
  /\ UNCHANGED <<broker, mode, buffer, timer, db>>

\* mutation of RecordFailed: the row of the id is overwritten
RecordOverwrites(f) ==
  /\ flush[f].pc = "record"
  /\ log' = LogRows(flush[f].items, "failed")
  /\ flush' = [flush EXCEPT ![f].pc = "nack"]
  /\ UNCHANGED <<broker, mode, buffer, timer, stations>>

\* _record_failed_batch: written, or an SQLAlchemyError is swallowed
RecordFailed(f) ==
  /\ flush[f].pc = "record"
  /\ \/ /\ IdsUnlogged(flush[f].items)
        /\ log' = LogRows(flush[f].items, "failed")
     \/ /\ ~IdsUnlogged(flush[f].items) \/ "db" \in Faults
        /\ UNCHANGED log
  /\ flush' = [flush EXCEPT ![f].pc = "nack"]
  /\ UNCHANGED <<broker, mode, buffer, timer, stations>>

\* _record_failed_batch: any other exception leaves it
RecordRaises(f) ==
  /\ "rawerror" \in Faults
  /\ flush[f].pc = "record"
  /\ flush' = [flush EXCEPT ![f].pc = "raised"]
  /\ UNCHANGED <<broker, mode, buffer, timer, db>>

NackNext(f) ==
  LET d == flush[f].items[flush[f].next] IN
  /\ flush[f].pc = "nack"
  /\ Settleable(d)
  /\ where' = [where EXCEPT ![d.msg] = "dead"]
  /\ Advance(f)
  /\ UNCHANGED <<epoch, mode, buffer, timer, db>>

\* a nack that raises ends the loop: the items after it are left as they are
NackRaises(f) ==
  /\ flush[f].pc = "nack"
  /\ ~Settleable(flush[f].items[flush[f].next])
  /\ flush' = [flush EXCEPT ![f].pc = "raised"]
  /\ UNCHANGED <<broker, mode, buffer, timer, db>>

-----------------------------------------------------------------------------
(* The life of the process.                                                *)

\* memory is lost and the broker takes back what was not settled
Die ==
  /\ LoseChannel
  /\ mode' = "down"
  /\ buffer' = <<>>
  /\ timer' = FALSE
  /\ flush' = [f \in Flusher |-> Idle]
  /\ UNCHANGED db

\* The exception leaves _flush_batch.  process_message nacks the message whose
\* handler this is, the last of the batch; the timer task just ends; out of
\* stop() it ends the process.
Propagate(f) ==
  LET last == flush[f].items[Len(flush[f].items)] IN
  /\ flush[f].pc = "raised"
  /\ \/ /\ flush[f].trigger = "size"
        /\ where' = IF Settleable(last) THEN [where EXCEPT ![last.msg] = "dead"] ELSE where
        /\ flush' = [flush EXCEPT ![f] = Idle]
        /\ UNCHANGED <<epoch, mode, buffer, timer, db>>
     \/ /\ flush[f].trigger = "timeout"
        /\ flush' = [flush EXCEPT ![f] = Idle]
        /\ UNCHANGED <<broker, mode, buffer, timer, db>>
     \/ /\ flush[f].trigger = "shutdown"
        /\ Die

\* stop(): cancel the timer and flush what is buffered
Stop(f) ==
  /\ "stop" \in Faults
  /\ mode = "up"
  /\ epoch < MaxLosses
  /\ mode' = "draining"
  /\ IF buffer = <<>>
     THEN timer' = FALSE /\ UNCHANGED <<buffer, flush>>
     ELSE TakeBatch(f, buffer, "shutdown")
  /\ UNCHANGED <<broker, db>>

\* stop(), once its own flush is over: the other flush tasks are not awaited
CloseChannel ==
  /\ mode = "draining"
  /\ \A f \in Flusher : flush[f].trigger # "shutdown"
  /\ LoseChannel
  /\ mode' = "closed"
  /\ UNCHANGED <<buffer, timer, flush, db>>

\* main() returns: asyncio.run cancels the tasks that are left
Exit ==
  /\ mode = "closed"
  /\ Die

Crash ==
  /\ "crash" \in Faults
  /\ mode # "down"
  /\ epoch < MaxLosses
  /\ Die

\* connect_robust reopens the channel and consumes again; buffer and tasks live on
ConnectionLost ==
  /\ "reconnect" \in Faults
  /\ ChannelOpen
  /\ epoch < MaxLosses
  /\ LoseChannel
  /\ UNCHANGED <<mode, buffer, timer, flush, db>>

\* start_consuming in a new process
Restart ==
  /\ mode = "down"
  /\ mode' = "up"
  /\ UNCHANGED <<broker, buffer, timer, flush, db>>

-----------------------------------------------------------------------------
Receive(m) == RejectInvalid(m) \/ EnqueueAndWait(m) \/ \E f \in Flusher : EnqueueAndFlush(m, f)

FlushStep(f) ==
  \/ CommitBatch(f) \/ CommitTimesOut(f) \/ PersistFails(f)
  \/ AckNext(f) \/ AckFails(f)
  \/ RecordFailed(f) \/ RecordRaises(f)
  \/ NackNext(f) \/ NackRaises(f)
  \/ Propagate(f)

Next ==
  \/ \E m \in Msg : Receive(m)
  \/ \E f \in Flusher : TimerFires(f) \/ FlushStep(f) \/ Stop(f)
  \/ CloseChannel \/ Exit \/ Crash \/ ConnectionLost \/ Restart

Spec == Init /\ [][Next]_vars

\* The event loop runs every task that can run and fires every timer, the broker
\* delivers while the prefetch window is open, and the container is restarted.
Fairness ==
  /\ WF_vars(\E m \in Msg : Receive(m))
  /\ WF_vars(\E f \in Flusher : TimerFires(f))
  /\ \A f \in Flusher : WF_vars(FlushStep(f))
  /\ WF_vars(CloseChannel) /\ WF_vars(Exit) /\ WF_vars(Restart)

FairSpec == Spec /\ Fairness

-----------------------------------------------------------------------------
(* Properties.                                                             *)

\* An acknowledged message has taken effect: its id is logged as a success and
\* its station has a row (the ack loop of _flush_batch runs after the commit,
\* through retries, concurrent flushes, crashes and reconnections).
AckedIsCommitted ==
  \A m \in Msg : where[m] = "acked" =>
    /\ log[idOf[m]] = "success"
    /\ stations[keyOf[m]] # NoMsg

\* Stations and log are written by one transaction: a row's content always
\* comes from a message of that key that the log calls a success.
RowsAreLogged ==
  \A k \in Key : stations[k] # NoMsg =>
    /\ keyOf[stations[k]] = k
    /\ log[idOf[stations[k]]] = "success"

\* A task that is not idle is at one of its items.
LoopInBounds ==
  \A f \in Flusher : flush[f].pc # "idle" => flush[f].next \in DOMAIN flush[f].items

\* The ack loop runs over a batch whose transaction is committed; with
\* LoopInBounds, what makes AckedIsCommitted inductive.
AckingIsCommitted ==
  \A f \in Flusher : flush[f].pc = "ack" =>
    \A i \in DOMAIN flush[f].items :
      /\ log[idOf[flush[f].items[i].msg]] = "success"
      /\ stations[keyOf[flush[f].items[i].msg]] # NoMsg

CommitInv == LoopInBounds /\ AckingIsCommitted /\ AckedIsCommitted /\ RowsAreLogged

\* a message that is acknowledged, or that a committed batch is about to acknowledge
TakesEffect(m) ==
  \/ where[m] = "acked"
  \/ \E f \in Flusher : flush[f].pc = "ack" /\ m \in ItemMsgs(flush[f].items)

\* Of all the copies of a message id, one at most takes effect: what KeepsContract
\* needs beside CommitInv to allow one acknowledgement for each id.
OneCopyTakesEffect ==
  \A m, n \in Msg : TakesEffect(m) /\ TakesEffect(n) /\ idOf[m] = idOf[n] => m = n

\* The deliveries a task or the buffer holds
HeldBy(f) == {flush[f].items[i] : i \in DOMAIN flush[f].items}
Buffered == {buffer[i] : i \in DOMAIN buffer}

\* A delivery is held once: never in the buffer and in a batch, never in two
\* batches, never twice in one, whatever the size flush, the timer, stop() and a
\* redelivery after a lost channel do to each other.
ExclusiveOwner ==
  /\ \A i, j \in DOMAIN buffer : buffer[i] = buffer[j] => i = j
  /\ \A f \in Flusher : HeldBy(f) \cap Buffered = {}
  /\ \A f \in Flusher : \A i, j \in DOMAIN flush[f].items :
       flush[f].items[i] = flush[f].items[j] => i = j
  /\ \A f, g \in Flusher : f # g => HeldBy(f) \cap HeldBy(g) = {}

\* A held delivery came on this channel or an earlier one, and what came on this
\* channel is not in the queue: with ExclusiveOwner, inductive.
HeldIsDelivered ==
  \A d \in Buffered \cup UNION {HeldBy(f) : f \in Flusher} :
    d.epoch <= epoch /\ (d.epoch = epoch => where[d.msg] # "ready")

OwnerInv == ExclusiveOwner /\ HeldIsDelivered

\* What waits in the buffer is less than a batch and has a timer to flush it;
\* no timer runs over an empty buffer.
BufferIsTimed ==
  /\ Len(buffer) < BatchSize
  /\ timer <=> buffer # <<>>

\* The deliveries of task f that its loops have still to settle
Remaining(f) ==
  {flush[f].items[i] : i \in
     {j \in DOMAIN flush[f].items :
        flush[f].pc \in {"ack", "nack"} => j >= flush[f].next}}

\* Every message the broker waits for is held by somebody who will still settle
\* it.  "Retries exhausted: move the full batch to DLQ" (worker.py:198) promises
\* no less; see the README for the faults under which the code keeps it.
NothingStranded ==
  ChannelOpen => \A m \in Unacked :
    [msg |-> m, epoch |-> epoch] \in Buffered \cup UNION {Remaining(f) : f \in Flusher}

\* A batch has one fate while its channel lives: the ack loop runs over a batch of
\* which nothing is dead-lettered, the nack loop over one of which nothing is acked.
BatchHasOneFate ==
  \A f \in Flusher : \A d \in HeldBy(f) : d.epoch = epoch =>
    /\ flush[f].pc = "ack" => where[d.msg] # "dead"
    /\ flush[f].pc = "nack" => where[d.msg] # "acked"

\* A status in ingestion_log is final: no step rewrites it, and an id takes
\* effect once (a retry or a redelivery finds its row and is refused).
LogIsFinal ==
  [][\A i \in MsgId : log[i] # "none" => log'[i] = log[i]]_vars

\* Later in its task: the next attempt or, in one attempt, the next stage or item.
Stage(pc) ==
  CASE pc = "idle" -> 0 [] pc = "persist" -> 1 [] pc = "ack" -> 2
    [] pc = "record" -> 3 [] pc = "nack" -> 4 [] pc = "raised" -> 5

Later(t, u) ==
  /\ u.items = t.items /\ u.trigger = t.trigger
  /\ \/ u.attempt > t.attempt
     \/ u.attempt = t.attempt /\ Stage(u.pc) > Stage(t.pc)
     \/ u.attempt = t.attempt /\ u.pc = t.pc /\ u.next > t.next

\* the last item is settled, or the exception has left _flush_batch
Ends(t) == t.pc = "raised" \/ (t.pc \in {"ack", "nack"} /\ t.next = Len(t.items))

\* A flush task never turns back: it keeps its batch, each step of it is later, an
\* attempt above MaxAttempts there is none, and short of its end only the death of
\* the process takes it.  What EventuallySettled needs beside fairness: no failing
\* commit or ack keeps the retry loop of _flush_batch running for ever.
FlushesAdvance ==
  [][\A f \in Flusher :
       \/ flush'[f] = flush[f]
       \/ flush[f].pc = "idle" /\ flush'[f].pc = "persist" /\ flush'[f].attempt = 1
       \/ flush'[f] = Idle /\ (Ends(flush[f]) \/ mode' = "down")
       \/ flush[f].pc # "idle" /\ Later(flush[f], flush'[f])]_vars

\* Every message leaves the queue for good, acknowledged or dead-lettered: no
\* partial batch waits for ever, no retry loop or shutdown keeps a message.
EventuallySettled == \A m \in Msg : <>(where[m] \in {"acked", "dead"})

\* nothing has failed so far: one process, one channel, and no second attempt
Undisturbed ==
  /\ mode = "up" /\ epoch = 0
  /\ \A f \in Flusher : flush[f].attempt <= 1 /\ flush[f].pc \in {"idle", "persist", "ack"}

\* As long as nothing fails every valid message of a station of its own is
\* acknowledged and its station stored, an incomplete batch by its timer
\* (worker.py:141-202), whatever else might have failed.
EventuallyStored ==
  []Undisturbed =>
    \A m \in Msg \ Bad : <>[](where[m] = "acked" /\ stations[keyOf[m]] = m)

\* The persister implements DeliveryContract: seen through the queue and the two
\* tables, every step of its tasks is one of the contract's, or no step.
Contract == INSTANCE DeliveryContract
KeepsContract == Contract!Spec

\* A message that took effect is not dead-lettered as well: the claim that the
\* messaging is idempotent (.github/copilot-instructions.md:35).
CommittedIsNotDeadLettered ==
  \A m \in Msg : where[m] = "dead" => log[idOf[m]] # "success"

\* A valid station is not dead-lettered when nothing fails: the upsert absorbs
\* repeated stations (docs/PROJECT_CONTEXT.md:28).
ValidIsNotDeadLettered ==
  \A m \in Msg \ Bad : where[m] # "dead"

=============================================================================
