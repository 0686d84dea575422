--------------------------- MODULE PersisterProofs ---------------------------
(* Theorems about Persister, for every value of its constants. *)
EXTENDS Persister, TLAPS

LEMMA IdleType == Idle \in FlushTask
  BY PersisterAssumption DEF Idle, FlushTask, Delivery

\* What the steps of a flush task are made of: each yields a well-typed task.
LEMMA TaskTypes ==
  ASSUME NEW t \in FlushTask
  PROVE  /\ \A pc \in {"idle", "persist", "ack", "record", "nack", "raised"} :
              [t EXCEPT !.pc = pc] \in FlushTask
         /\ Retried(t) \in FlushTask
         /\ Advanced(t) \in FlushTask
  <1>1. \A pc \in {"idle", "persist", "ack", "record", "nack", "raised"} :
          [t EXCEPT !.pc = pc] \in FlushTask
    BY DEF FlushTask
  <1>2. Retried(t) \in FlushTask
    <2>1. CASE t.attempt < MaxAttempts
      <3>1. t.attempt + 1 \in 0..MaxAttempts
        BY <2>1, PersisterAssumption DEF FlushTask
      <3>2. QED
        BY <2>1, <3>1 DEF FlushTask, Retried
    <2>2. CASE ~(t.attempt < MaxAttempts)
      BY <2>2 DEF FlushTask, Retried
    <2>3. QED
      BY <2>1, <2>2
  <1>3. Advanced(t) \in FlushTask
    <2>1. [t EXCEPT !.next = t.next + 1] \in FlushTask
      BY DEF FlushTask
    <2>2. QED
      BY <2>1, IdleType DEF Advanced
  <1>4. QED
    BY <1>1, <1>2, <1>3

LEMMA FreshTaskType ==
  ASSUME NEW items \in Seq(Delivery),
         NEW trigger \in {"size", "timeout", "shutdown"}
  PROVE  [pc |-> "persist", items |-> items, attempt |-> 1, next |-> 1, trigger |-> trigger]
           \in FlushTask
  BY PersisterAssumption DEF FlushTask

LEMMA RetryType ==
  ASSUME TypeOK, NEW f \in Flusher, Retry(f)
  PROVE  flush' \in [Flusher -> FlushTask]
  <1>1. Retried(flush[f]) \in FlushTask
    BY TaskTypes DEF TypeOK
  <1>2. QED
    BY <1>1 DEF TypeOK, Retry

LEMMA AdvanceType ==
  ASSUME TypeOK, NEW f \in Flusher, Advance(f)
  PROVE  flush' \in [Flusher -> FlushTask]
  <1>1. Advanced(flush[f]) \in FlushTask
    BY TaskTypes DEF TypeOK
  <1>2. QED
    BY <1>1 DEF TypeOK, Advance

LEMMA PcType ==
  ASSUME TypeOK, NEW f \in Flusher,
         NEW pc \in {"idle", "persist", "ack", "record", "nack", "raised"},
         flush' = [flush EXCEPT ![f].pc = pc]
  PROVE  flush' \in [Flusher -> FlushTask]
  <1>1. [flush[f] EXCEPT !.pc = pc] \in FlushTask
    BY TaskTypes DEF TypeOK
  <1>2. QED
    BY <1>1 DEF TypeOK

LEMMA RequeuedType ==
  ASSUME TypeOK
  PROVE  Requeued \in [Msg -> {"ready", "unacked", "acked", "dead"}]
  BY DEF TypeOK, Requeued

LEMMA DieType ==
  ASSUME TypeOK, Die
  PROVE  TypeOK'
  <1>1. /\ where' \in [Msg -> {"ready", "unacked", "acked", "dead"}]
        /\ epoch' \in Nat
    BY RequeuedType DEF TypeOK, Die, LoseChannel
  <1>2. mode' \in {"up", "draining", "closed", "down"} /\ timer' \in BOOLEAN
    BY DEF Die
  <1>3. buffer' \in Seq(Delivery)
    BY DEF Die
  <1>4. flush' \in [Flusher -> FlushTask]
    BY IdleType DEF Die
  <1>5. /\ stations' \in [Key -> Msg \cup {NoMsg}]
        /\ log' \in [MsgId -> {"none", "success", "failed"}]
    BY DEF TypeOK, Die, db
  <1>6. QED
    BY <1>1, <1>2, <1>3, <1>4, <1>5 DEF TypeOK

LEMMA TakeBatchType ==
  ASSUME TypeOK, NEW f \in Flusher, NEW items \in Seq(Delivery),
         NEW trigger \in {"size", "timeout", "shutdown"},
         TakeBatch(f, items, trigger)
  PROVE  /\ flush' \in [Flusher -> FlushTask]
         /\ buffer' \in Seq(Delivery)
         /\ timer' \in BOOLEAN
  <1>1. flush' \in [Flusher -> FlushTask]
    BY FreshTaskType DEF TypeOK, TakeBatch
  <1>2. buffer' \in Seq(Delivery)
    BY DEF TakeBatch
  <1>3. timer' \in BOOLEAN
    BY DEF TakeBatch
  <1>4. QED
    BY <1>1, <1>2, <1>3


\* What a step writes to the two tables has their types.
LEMMA WriteType ==
  ASSUME TypeOK, NEW items \in Seq(Delivery), Write(items)
  PROVE  /\ stations' \in [Key -> Msg \cup {NoMsg}]
         /\ log' \in [MsgId -> {"none", "success", "failed"}]
  <1>1. ItemMsgs(items) \subseteq Msg
    <2>1. \A i \in DOMAIN items : items[i] \in Delivery
      OBVIOUS
    <2>2. \A i \in DOMAIN items : items[i].msg \in Msg
      BY <2>1 DEF Delivery
    <2>3. QED
      BY <2>2 DEF ItemMsgs
  <1>2. ASSUME NEW k \in Key, k \in {keyOf[m] : m \in ItemMsgs(items)}
        PROVE  (CHOOSE m \in ItemMsgs(items) : keyOf[m] = k) \in Msg
    <2>1. \E m \in ItemMsgs(items) : keyOf[m] = k
      BY <1>2
    <2>2. QED
      BY <1>1, <2>1
  <1>3. stations' \in [Key -> Msg \cup {NoMsg}]
    <2>1. stations' = [k \in Key |->
            IF k \in {keyOf[m] : m \in ItemMsgs(items)}
            THEN CHOOSE m \in ItemMsgs(items) : keyOf[m] = k
            ELSE stations[k]]
      BY DEF Write
    <2>2. ASSUME NEW k \in Key
          PROVE  (IF k \in {keyOf[m] : m \in ItemMsgs(items)}
                  THEN CHOOSE m \in ItemMsgs(items) : keyOf[m] = k
                  ELSE stations[k]) \in Msg \cup {NoMsg}
      BY <1>2 DEF TypeOK
    <2>3. QED
      BY <2>1, <2>2
  <1>4. log' \in [MsgId -> {"none", "success", "failed"}]
    BY DEF Write, LogRows, TypeOK
  <1>5. QED
    BY <1>3, <1>4


\* the delivery a loop is at, for a task whose next is within its items
LEMMA EnqueuedType ==
  ASSUME TypeOK, NEW m \in Msg
  PROVE  Append(buffer, [msg |-> m, epoch |-> epoch]) \in Seq(Delivery)
  <1>1. [msg |-> m, epoch |-> epoch] \in Delivery
    BY DEF TypeOK, Delivery
  <1>2. QED
    BY <1>1 DEF TypeOK

\* Settling a message keeps the type of where, be the message in Msg or not.
LEMMA SettleType ==
  ASSUME TypeOK, NEW m, NEW fate \in {"unacked", "acked", "dead"},
         where' = [where EXCEPT ![m] = fate]
  PROVE  where' \in [Msg -> {"ready", "unacked", "acked", "dead"}]
  BY DEF TypeOK

\* What the steps that leave the process alone and touch the task f do.
LEMMA LoopTypes ==
  ASSUME TypeOK, NEW f \in Flusher, FlushStep(f)
  PROVE  TypeOK'
  <1> USE DEF db, broker
  <1>0. flush[f] \in FlushTask /\ flush[f].items \in Seq(Delivery)
    BY DEF TypeOK, FlushTask
  <1>1. CASE CommitBatch(f)
    <2>1. /\ stations' \in [Key -> Msg \cup {NoMsg}]
          /\ log' \in [MsgId -> {"none", "success", "failed"}]
      BY <1>0, <1>1, WriteType DEF CommitBatch
    <2>2. flush' \in [Flusher -> FlushTask]
      BY <1>1, PcType DEF CommitBatch
    <2>3. QED
      BY <1>1, <2>1, <2>2 DEF CommitBatch, TypeOK
  <1>2. CASE CommitTimesOut(f)
    <2>1. /\ stations' \in [Key -> Msg \cup {NoMsg}]
          /\ log' \in [MsgId -> {"none", "success", "failed"}]
      BY <1>0, <1>2, WriteType DEF CommitTimesOut
    <2>2. flush' \in [Flusher -> FlushTask]
      BY <1>2, RetryType DEF CommitTimesOut
    <2>3. QED
      BY <1>2, <2>1, <2>2 DEF CommitTimesOut, TypeOK
  <1>3. CASE PersistFails(f)
    <2>1. flush' \in [Flusher -> FlushTask]
      BY <1>3, RetryType DEF PersistFails
    <2>2. QED
      BY <1>3, <2>1 DEF PersistFails, TypeOK
  <1>4. CASE AckNext(f)
    <2>1. flush' \in [Flusher -> FlushTask]
      BY <1>4, AdvanceType DEF AckNext
    <2>2. where' \in [Msg -> {"ready", "unacked", "acked", "dead"}]
      BY <1>4, SettleType DEF AckNext
    <2>3. QED
      BY <1>4, <2>1, <2>2 DEF AckNext, TypeOK
  <1>5. CASE AckFails(f)
    <2>1. flush' \in [Flusher -> FlushTask]
      BY <1>5, RetryType DEF AckFails
    <2>2. QED
      BY <1>5, <2>1 DEF AckFails, TypeOK
  <1>6. CASE RecordFailed(f)
    <2>1. flush' \in [Flusher -> FlushTask]
      BY <1>6, PcType DEF RecordFailed
    <2>2. log' \in [MsgId -> {"none", "success", "failed"}]
      BY <1>6 DEF RecordFailed, LogRows, TypeOK
    <2>3. QED
      BY <1>6, <2>1, <2>2 DEF RecordFailed, TypeOK
  <1>7. CASE RecordRaises(f)
    <2>1. flush' \in [Flusher -> FlushTask]
      BY <1>7, PcType DEF RecordRaises
    <2>2. QED
      BY <1>7, <2>1 DEF RecordRaises, TypeOK
  <1>8. CASE NackNext(f)
    <2>1. flush' \in [Flusher -> FlushTask]
      BY <1>8, AdvanceType DEF NackNext
    <2>2. where' \in [Msg -> {"ready", "unacked", "acked", "dead"}]
      BY <1>8, SettleType DEF NackNext
    <2>3. QED
      BY <1>8, <2>1, <2>2 DEF NackNext, TypeOK
  <1>9. CASE NackRaises(f)
    <2>1. flush' \in [Flusher -> FlushTask]
      BY <1>9, PcType DEF NackRaises
    <2>2. QED
      BY <1>9, <2>1 DEF NackRaises, TypeOK
  <1>10. CASE Propagate(f)
    <2>1. CASE Die
      BY <2>1, DieType
    <2>2. CASE flush[f].trigger = "size" /\ ~Die
      <3> DEFINE last == flush[f].items[Len(flush[f].items)]
      <3>1. /\ where' = IF Settleable(last) THEN [where EXCEPT ![last.msg] = "dead"] ELSE where
            /\ flush' = [flush EXCEPT ![f] = Idle]
            /\ UNCHANGED <<epoch, mode, buffer, timer, db>>
        BY <1>10, <2>2 DEF Propagate
      <3>2. flush' \in [Flusher -> FlushTask]
        BY <3>1, IdleType DEF TypeOK
      <3>3. where' \in [Msg -> {"ready", "unacked", "acked", "dead"}]
        <4>1. CASE Settleable(last)
          BY <3>1, <4>1, SettleType
        <4>2. CASE ~Settleable(last)
          BY <3>1, <4>2 DEF TypeOK
        <4>3. QED
          BY <4>1, <4>2
      <3>4. QED
        BY <3>1, <3>2, <3>3 DEF TypeOK
    <2>3. CASE flush[f].trigger = "timeout" /\ ~Die
      <3>1. flush' = [flush EXCEPT ![f] = Idle] /\ UNCHANGED <<broker, mode, buffer, timer, db>>
        BY <1>10, <2>3 DEF Propagate
      <3>2. flush' \in [Flusher -> FlushTask]
        BY <3>1, IdleType DEF TypeOK
      <3>3. QED
        BY <3>1, <3>2 DEF TypeOK
    <2>4. QED
      BY <1>10, <2>1, <2>2, <2>3 DEF Propagate
  <1>11. QED
    BY <1>1, <1>2, <1>3, <1>4, <1>5, <1>6, <1>7, <1>8, <1>9, <1>10 DEF FlushStep


\* Every step keeps the types.
LEMMA TypeStep ==
  ASSUME TypeOK, [Next]_vars
  PROVE  TypeOK'
  <1> USE DEF db, broker
  <1>1. CASE UNCHANGED vars
    BY <1>1 DEF vars, TypeOK
  <1>2. ASSUME NEW m \in Msg, Receive(m)
        PROVE  TypeOK'
    <2>0. Append(buffer, [msg |-> m, epoch |-> epoch]) \in Seq(Delivery)
      BY EnqueuedType
    <2>1. CASE RejectInvalid(m)
      <3>1. where' \in [Msg -> {"ready", "unacked", "acked", "dead"}]
        BY <2>1, SettleType DEF RejectInvalid
      <3>2. QED
        BY <2>1, <3>1 DEF RejectInvalid, TypeOK
    <2>2. CASE EnqueueAndWait(m)
      <3>1. where' \in [Msg -> {"ready", "unacked", "acked", "dead"}]
        BY <2>2, SettleType DEF EnqueueAndWait
      <3>2. QED
        BY <2>0, <2>2, <3>1 DEF EnqueueAndWait, TypeOK
    <2>3. ASSUME NEW f \in Flusher, EnqueueAndFlush(m, f)
          PROVE  TypeOK'
      <3>1. where' \in [Msg -> {"ready", "unacked", "acked", "dead"}]
        BY <2>3, SettleType DEF EnqueueAndFlush
      <3>2. /\ flush' \in [Flusher -> FlushTask]
            /\ buffer' \in Seq(Delivery)
            /\ timer' \in BOOLEAN
        BY <2>0, <2>3, TakeBatchType DEF EnqueueAndFlush
      <3>3. QED
        BY <2>3, <3>1, <3>2 DEF EnqueueAndFlush, TypeOK
    <2>4. QED
      BY <1>2, <2>1, <2>2, <2>3 DEF Receive
  <1>3. ASSUME NEW f \in Flusher, TimerFires(f)
        PROVE  TypeOK'
    <2>1. /\ flush' \in [Flusher -> FlushTask]
          /\ buffer' \in Seq(Delivery)
          /\ timer' \in BOOLEAN
      BY <1>3, TakeBatchType DEF TimerFires, TypeOK
    <2>2. QED
      BY <1>3, <2>1 DEF TimerFires, TypeOK
  <1>4. ASSUME NEW f \in Flusher, Stop(f)
        PROVE  TypeOK'
    <2>1. /\ flush' \in [Flusher -> FlushTask]
          /\ buffer' \in Seq(Delivery)
          /\ timer' \in BOOLEAN
      <3>1. CASE buffer = <<>>
        BY <1>4, <3>1 DEF Stop, TypeOK
      <3>2. CASE buffer # <<>>
        BY <1>4, <3>2, TakeBatchType DEF Stop, TypeOK
      <3>3. QED
        BY <3>1, <3>2
    <2>2. QED
      BY <1>4, <2>1 DEF Stop, TypeOK
  <1>5. CASE CloseChannel
    BY <1>5, RequeuedType DEF CloseChannel, LoseChannel, TypeOK
  <1>6. CASE Exit
    BY <1>6, DieType DEF Exit
  <1>7. CASE Crash
    BY <1>7, DieType DEF Crash
  <1>8. CASE ConnectionLost
    BY <1>8, RequeuedType DEF ConnectionLost, LoseChannel, TypeOK
  <1>9. CASE Restart
    BY <1>9 DEF Restart, TypeOK
  <1>10. QED
    BY <1>1, <1>2, <1>3, <1>4, <1>5, <1>6, <1>7, <1>8, <1>9, LoopTypes DEF Next

\* The state of the worker, the queue and the tables always has its type; in
\* particular a flush is attempted at most PERSISTER_RETRY_MAX_ATTEMPTS times.
THEOREM TypeCorrect == Spec => []TypeOK
  <1>1. Init => TypeOK
    <2>1. ASSUME Init PROVE flush \in [Flusher -> FlushTask] /\ buffer \in Seq(Delivery)
      BY <2>1, IdleType DEF Init
    <2>2. ASSUME Init
          PROVE  /\ where \in [Msg -> {"ready", "unacked", "acked", "dead"}]
                 /\ stations \in [Key -> Msg \cup {NoMsg}]
                 /\ log \in [MsgId -> {"none", "success", "failed"}]
      BY <2>2 DEF Init
    <2>3. ASSUME Init
          PROVE  /\ epoch \in Nat /\ timer \in BOOLEAN
                 /\ mode \in {"up", "draining", "closed", "down"}
      BY <2>3 DEF Init
    <2>4. QED
      BY <2>1, <2>2, <2>3 DEF TypeOK
  <1>2. TypeOK /\ [Next]_vars => TypeOK'
    BY TypeStep
  <1>3. QED
    BY <1>1, <1>2, PTL DEF Spec


-----------------------------------------------------------------------------
(* The two tables.                                                         *)

\* The only steps that touch the tables: the commit of a batch that violates no
\* constraint, and the failure rows of a batch none of whose ids has a row.
LEMMA DbSteps ==
  ASSUME [Next]_vars
  PROVE  \/ UNCHANGED db
         \/ \E f \in Flusher : Writable(flush[f].items) /\ Write(flush[f].items)
         \/ \E f \in Flusher : /\ IdsUnlogged(flush[f].items)
                               /\ log' = LogRows(flush[f].items, "failed")
                               /\ UNCHANGED stations
  <1>1. CASE UNCHANGED vars
    BY <1>1 DEF vars, db
  <1>2. ASSUME NEW m \in Msg, Receive(m)
        PROVE  UNCHANGED db
    BY <1>2 DEF Receive, RejectInvalid, EnqueueAndWait, EnqueueAndFlush, db
  <1>3. ASSUME NEW f \in Flusher, CommitBatch(f) \/ CommitTimesOut(f)
        PROVE  Writable(flush[f].items) /\ Write(flush[f].items)
    BY <1>3 DEF CommitBatch, CommitTimesOut
  <1>4. ASSUME NEW f \in Flusher, RecordFailed(f)
        PROVE  \/ UNCHANGED db
               \/ /\ IdsUnlogged(flush[f].items)
                  /\ log' = LogRows(flush[f].items, "failed")
                  /\ UNCHANGED stations
    BY <1>4 DEF RecordFailed, db
  <1>5. ASSUME NEW f \in Flusher,
               \/ PersistFails(f) \/ AckNext(f) \/ AckFails(f) \/ RecordRaises(f)
               \/ NackNext(f) \/ NackRaises(f) \/ Propagate(f) \/ TimerFires(f) \/ Stop(f)
        PROVE  UNCHANGED db
    BY <1>5 DEF PersistFails, AckNext, AckFails, RecordRaises, NackNext, NackRaises,
                Propagate, Die, TimerFires, Stop, db
  <1>6. CASE CloseChannel \/ Exit \/ Crash \/ ConnectionLost \/ Restart
    BY <1>6 DEF CloseChannel, Exit, Crash, Die, ConnectionLost, Restart, db
  <1>7. QED
    BY <1>1, <1>2, <1>3, <1>4, <1>5, <1>6 DEF Next, FlushStep

\* What a batch of deliveries carries.
LEMMA ItemFacts ==
  ASSUME TypeOK, NEW f \in Flusher
  PROVE  /\ flush[f].items \in Seq(Delivery)
         /\ \A i \in DOMAIN flush[f].items :
              /\ flush[f].items[i].msg \in Msg
              /\ flush[f].items[i].msg \in ItemMsgs(flush[f].items)
         /\ ItemMsgs(flush[f].items) \subseteq Msg
  <1>1. flush[f].items \in Seq(Delivery)
    BY DEF TypeOK, FlushTask
  <1>2. \A i \in DOMAIN flush[f].items : flush[f].items[i] \in Delivery
    BY <1>1
  <1>3. \A i \in DOMAIN flush[f].items : flush[f].items[i].msg \in Msg
    BY <1>2 DEF Delivery
  <1>4. QED
    BY <1>1, <1>3 DEF ItemMsgs

\* A commit logs a success for its ids and writes its stations, from its own
\* messages, and leaves every id that has a row, and every other station, alone.
LEMMA WriteFacts ==
  ASSUME TypeOK, NEW f \in Flusher,
         Writable(flush[f].items), Write(flush[f].items)
  PROVE  /\ \A m \in ItemMsgs(flush[f].items) :
              log'[idOf[m]] = "success" /\ stations'[keyOf[m]] # NoMsg
         /\ \A i \in MsgId : log[i] # "none" => log'[i] = log[i]
         /\ \A k \in Key : \/ stations'[k] = stations[k]
                           \/ /\ stations'[k] \in ItemMsgs(flush[f].items)
                              /\ keyOf[stations'[k]] = k
  <1> DEFINE M == ItemMsgs(flush[f].items)
  <1>0. M \subseteq Msg
    BY ItemFacts
  <1>1. ASSUME NEW m \in M
        PROVE  log'[idOf[m]] = "success"
    <2>1. idOf[m] \in MsgId
      BY <1>0, PersisterAssumption
    <2>2. QED
      BY <2>1 DEF Write, LogRows
  <1>2. ASSUME NEW k \in Key
        PROVE  \/ stations'[k] = stations[k] /\ k \notin {keyOf[m] : m \in M}
               \/ stations'[k] \in M /\ keyOf[stations'[k]] = k
    <2>1. CASE k \in {keyOf[m] : m \in M}
      <3>1. \E m \in M : keyOf[m] = k
        BY <2>1
      <3>2. stations'[k] = CHOOSE m \in M : keyOf[m] = k
        BY <2>1 DEF Write
      <3>3. QED
        BY <3>1, <3>2
    <2>2. CASE k \notin {keyOf[m] : m \in M}
      BY <2>2 DEF Write
    <2>3. QED
      BY <2>1, <2>2
  <1>3. ASSUME NEW m \in M
        PROVE  stations'[keyOf[m]] # NoMsg
    <2>1. keyOf[m] \in Key
      BY <1>0, PersisterAssumption
    <2>2. stations'[keyOf[m]] \in M
      BY <1>2, <2>1
    <2>3. QED
      BY <2>2, <1>0, PersisterAssumption
  <1>4. ASSUME NEW i \in MsgId, log[i] # "none"
        PROVE  log'[i] = log[i]
    <2>1. i \notin {idOf[m] : m \in M}
      BY <1>4 DEF Writable, IdsUnlogged, ItemMsgs
    <2>2. QED
      BY <2>1 DEF Write, LogRows
  <1>5. QED
    BY <1>1, <1>2, <1>3, <1>4

\* No step rewrites the status of an id or removes a station.
LEMMA TablesGrow ==
  ASSUME TypeOK, [Next]_vars
  PROVE  /\ \A i \in MsgId : log[i] # "none" => log'[i] = log[i]
         /\ \A k \in Key : stations[k] # NoMsg => stations'[k] # NoMsg
  <1>1. CASE UNCHANGED db
    BY <1>1 DEF db
  <1>2. ASSUME NEW f \in Flusher, Writable(flush[f].items), Write(flush[f].items)
        PROVE  /\ \A i \in MsgId : log[i] # "none" => log'[i] = log[i]
               /\ \A k \in Key : stations[k] # NoMsg => stations'[k] # NoMsg
    BY <1>2, WriteFacts, ItemFacts, PersisterAssumption
  <1>3. ASSUME NEW f \in Flusher, IdsUnlogged(flush[f].items),
               log' = LogRows(flush[f].items, "failed"), UNCHANGED stations
        PROVE  /\ \A i \in MsgId : log[i] # "none" => log'[i] = log[i]
               /\ \A k \in Key : stations[k] # NoMsg => stations'[k] # NoMsg
    <2>1. \A i \in MsgId : log[i] # "none" =>
            i \notin {idOf[m] : m \in ItemMsgs(flush[f].items)}
      BY <1>3 DEF IdsUnlogged, ItemMsgs
    <2>2. QED
      BY <1>3, <2>1 DEF LogRows
  <1>4. QED
    BY <1>1, <1>2, <1>3, DbSteps

\* The status recorded for a message id is final, whatever is retried,
\* redelivered or flushed at the same time.
THEOREM LogNeverRewritten == Spec => LogIsFinal
  <1>1. TypeOK /\ [Next]_vars => [\A i \in MsgId : log[i] # "none" => log'[i] = log[i]]_vars
    BY TablesGrow
  <1>2. QED
    BY <1>1, TypeCorrect, PTL DEF Spec, LogIsFinal


-----------------------------------------------------------------------------
(* The ack loop.                                                           *)

\* How a step may change a task: not at all, to idle, to a new non-empty batch,
\* by moving within its own batch; and it enters the ack loop by a commit only.
TaskMoves(t, u) ==
  \/ u = t \/ u = Idle
  \/ u.pc = "persist" /\ u.next = 1 /\ Len(u.items) > 0
  \/ /\ u.items = t.items
     /\ t.pc # "idle"
     /\ u.next \in {1, t.next} \/ (u.next = t.next + 1 /\ t.next < Len(t.items))
     /\ u.pc = "ack" => t.pc = "ack"

LEMMA RetriedMoves ==
  ASSUME NEW t \in FlushTask, t.pc # "idle"
  PROVE  TaskMoves(t, Retried(t))
  BY DEF TaskMoves, Retried, FlushTask

LEMMA AdvancedMoves ==
  ASSUME NEW t \in FlushTask, t.pc # "idle"
  PROVE  TaskMoves(t, Advanced(t))
  BY DEF TaskMoves, Advanced, FlushTask

LEMMA PcMoves ==
  ASSUME NEW t \in FlushTask, t.pc # "idle", NEW pc \in {"record", "nack", "raised"}
  PROVE  TaskMoves(t, [t EXCEPT !.pc = pc])
  BY DEF TaskMoves, FlushTask

LEMMA TaskSteps ==
  ASSUME TypeOK, [Next]_vars, NEW g \in Flusher
  PROVE  TaskMoves(flush[g], flush'[g]) \/ CommitBatch(g)
  <1> DEFINE Goal == TaskMoves(flush[g], flush'[g]) \/ CommitBatch(g)
  <1>0. flush \in [Flusher -> FlushTask] /\ flush[g] \in FlushTask
    BY DEF TypeOK
  <1>1. CASE UNCHANGED flush
    BY <1>1 DEF TaskMoves
  <1>2. CASE flush' = [f \in Flusher |-> Idle]
    BY <1>2 DEF TaskMoves
  <1>3. ASSUME NEW f \in Flusher, NEW items \in Seq(Delivery), Len(items) > 0,
               NEW trigger, TakeBatch(f, items, trigger)
        PROVE  Goal
    BY <1>0, <1>3 DEF TakeBatch, TaskMoves
  <1>4. ASSUME NEW f \in Flusher, NEW u, flush' = [flush EXCEPT ![f] = u],
               TaskMoves(flush[f], u)
        PROVE  Goal
    <2>1. CASE f = g
      BY <1>0, <1>4, <2>1
    <2>2. CASE f # g
      BY <1>0, <1>4, <2>2 DEF TaskMoves
    <2>3. QED
      BY <2>1, <2>2
  <1>5. ASSUME NEW m \in Msg, Receive(m)
        PROVE  Goal
    <2>1. CASE RejectInvalid(m) \/ EnqueueAndWait(m)
      BY <1>1, <2>1 DEF RejectInvalid, EnqueueAndWait
    <2>2. ASSUME NEW f \in Flusher, EnqueueAndFlush(m, f)
          PROVE  Goal
      <3> DEFINE items == Append(buffer, [msg |-> m, epoch |-> epoch])
      <3>1. items \in Seq(Delivery)
        BY EnqueuedType
      <3>2. Len(items) > 0
        BY DEF TypeOK
      <3>3. TakeBatch(f, items, "size")
        BY <2>2 DEF EnqueueAndFlush
      <3>4. QED
        BY <1>3, <3>1, <3>2, <3>3
    <2>3. QED
      BY <1>5, <2>1, <2>2 DEF Receive
  <1>6. ASSUME NEW f \in Flusher, TimerFires(f) \/ Stop(f)
        PROVE  Goal
    <2>1. CASE UNCHANGED flush
      BY <1>1, <2>1
    <2>2. CASE buffer # <<>> /\ \E trigger \in {"timeout", "shutdown"} : TakeBatch(f, buffer, trigger)
      <3>1. buffer \in Seq(Delivery) /\ Len(buffer) > 0
        BY <2>2 DEF TypeOK
      <3>2. QED
        BY <1>3, <2>2, <3>1
    <2>3. QED
      BY <1>6, <2>1, <2>2 DEF TimerFires, Stop
  <1>7. ASSUME NEW f \in Flusher, FlushStep(f)
        PROVE  Goal
    <2>0. flush[f] \in FlushTask
      BY <1>0
    <2>1. CASE CommitBatch(f)
      <3>1. CASE f = g
        BY <2>1, <3>1
      <3>2. CASE f # g
        BY <1>0, <2>1, <3>2 DEF CommitBatch, TaskMoves
      <3>3. QED
        BY <3>1, <3>2
    <2>2. CASE flush[f].pc # "idle" /\ Retry(f)
      BY <1>4, <2>0, <2>2, RetriedMoves DEF Retry
    <2>3. CASE flush[f].pc # "idle" /\ Advance(f)
      BY <1>4, <2>0, <2>3, AdvancedMoves DEF Advance
    <2>4. CASE /\ flush[f].pc # "idle"
               /\ \E pc \in {"record", "nack", "raised"} : flush' = [flush EXCEPT ![f].pc = pc]
      <3>1. PICK pc \in {"record", "nack", "raised"} : flush' = [flush EXCEPT ![f].pc = pc]
        BY <2>4
      <3>2. flush' = [flush EXCEPT ![f] = [flush[f] EXCEPT !.pc = pc]]
        BY <1>0, <3>1
      <3>3. QED
        BY <1>4, <2>0, <2>4, <3>2, PcMoves
    <2>5. CASE flush' = [flush EXCEPT ![f] = Idle]
      BY <1>4, <2>5 DEF TaskMoves
    <2>6. CASE Die
      BY <1>2, <2>6 DEF Die
    <2>7. CASE CommitTimesOut(f) \/ PersistFails(f) \/ AckFails(f)
      BY <2>2, <2>7 DEF CommitTimesOut, PersistFails, AckFails
    <2>8. CASE AckNext(f) \/ NackNext(f)
      BY <2>3, <2>8 DEF AckNext, NackNext
    <2>9. CASE RecordFailed(f) \/ RecordRaises(f) \/ NackRaises(f)
      BY <2>4, <2>9 DEF RecordFailed, RecordRaises, NackRaises
    <2>10. CASE Propagate(f)
      BY <2>5, <2>6, <2>10 DEF Propagate
    <2>11. QED
      BY <1>7, <2>1, <2>7, <2>8, <2>9, <2>10 DEF FlushStep
  <1>8. CASE CloseChannel \/ ConnectionLost \/ Restart
    BY <1>1, <1>8 DEF CloseChannel, ConnectionLost, Restart
  <1>9. CASE Exit \/ Crash
    BY <1>2, <1>9 DEF Exit, Crash, Die
  <1>10. CASE UNCHANGED vars
    BY <1>1, <1>10 DEF vars
  <1>11. QED
    BY <1>5, <1>6, <1>7, <1>8, <1>9, <1>10 DEF Next


\* A message becomes acknowledged only in the ack loop of a batch that holds it.
LEMMA AckSteps ==
  ASSUME TypeOK, LoopInBounds, [Next]_vars, NEW m \in Msg,
         where[m] # "acked", where'[m] = "acked"
  PROVE  \E f \in Flusher : /\ flush[f].pc = "ack"
                            /\ \E i \in DOMAIN flush[f].items : flush[f].items[i].msg = m
                            /\ UNCHANGED db
  <1> DEFINE Goal == \E f \in Flusher :
                        /\ flush[f].pc = "ack"
                        /\ \E i \in DOMAIN flush[f].items : flush[f].items[i].msg = m
                        /\ UNCHANGED db
  <1>0. where \in [Msg -> {"ready", "unacked", "acked", "dead"}]
    BY DEF TypeOK
  <1>1. ASSUME NEW n, NEW fate \in {"unacked", "dead"}, where' = [where EXCEPT ![n] = fate]
        PROVE  FALSE
    BY <1>0, <1>1
  <1>2. ~(where' = Requeued)
    BY <1>0 DEF Requeued
  <1>3. ~(UNCHANGED where)
    OBVIOUS
  <1>4. ASSUME NEW n \in Msg, Receive(n)
        PROVE  FALSE
    BY <1>1, <1>4 DEF Receive, RejectInvalid, EnqueueAndWait, EnqueueAndFlush
  <1>5. ASSUME NEW f \in Flusher, AckNext(f)
        PROVE  Goal
    <2> DEFINE d == flush[f].items[flush[f].next]
    <2>1. flush[f].pc = "ack" /\ where' = [where EXCEPT ![d.msg] = "acked"] /\ UNCHANGED db
      BY <1>5 DEF AckNext
    <2>2. d.msg = m
      BY <1>0, <2>1
    <2>3. flush[f].next \in DOMAIN flush[f].items
      BY <2>1 DEF LoopInBounds
    <2>4. QED
      BY <2>1, <2>2, <2>3
  <1>6. ASSUME NEW f \in Flusher, NackNext(f)
        PROVE  FALSE
    BY <1>1, <1>6 DEF NackNext
  <1>7. ASSUME NEW f \in Flusher, Propagate(f)
        PROVE  FALSE
    BY <1>1, <1>2, <1>3, <1>7 DEF Propagate, Die, LoseChannel, broker
  <1>8. ASSUME NEW f \in Flusher,
               \/ CommitBatch(f) \/ CommitTimesOut(f) \/ PersistFails(f) \/ AckFails(f)
               \/ RecordFailed(f) \/ RecordRaises(f) \/ NackRaises(f)
               \/ TimerFires(f) \/ Stop(f)
        PROVE  FALSE
    BY <1>3, <1>8 DEF CommitBatch, CommitTimesOut, PersistFails, AckFails, RecordFailed,
                      RecordRaises, NackRaises, TimerFires, Stop, broker
  <1>9. CASE CloseChannel \/ Exit \/ Crash \/ ConnectionLost
    BY <1>2, <1>9 DEF CloseChannel, Exit, Crash, ConnectionLost, Die, LoseChannel
  <1>10. CASE Restart \/ UNCHANGED vars
    BY <1>3, <1>10 DEF Restart, vars, broker
  <1>11. QED
    BY <1>4, <1>5, <1>6, <1>7, <1>8, <1>9, <1>10 DEF Next, FlushStep

LEMMA CommitStep ==
  ASSUME TypeOK, CommitInv, [Next]_vars
  PROVE  CommitInv'
  <1> USE DEF CommitInv
  <1>0. TypeOK'
    BY TypeStep
  <1>1. ASSUME NEW g \in Flusher, flush'[g].pc # "idle"
        PROVE  flush'[g].next \in DOMAIN flush'[g].items
    <2>0. flush[g] \in FlushTask /\ flush'[g] \in FlushTask
      BY <1>0 DEF TypeOK
    <2>1. CASE CommitBatch(g)
      BY <2>0, <2>1 DEF CommitBatch, LoopInBounds, FlushTask, TypeOK
    <2>2. CASE TaskMoves(flush[g], flush'[g])
      BY <1>1, <2>0, <2>2 DEF LoopInBounds, TaskMoves, FlushTask, Idle
    <2>3. QED
      BY <2>1, <2>2, TaskSteps
  <1>2. ASSUME NEW g \in Flusher, flush'[g].pc = "ack", NEW i \in DOMAIN flush'[g].items
        PROVE  /\ log'[idOf[flush'[g].items[i].msg]] = "success"
               /\ stations'[keyOf[flush'[g].items[i].msg]] # NoMsg
    <2>0. flush[g] \in FlushTask
      BY DEF TypeOK
    <2>1. CASE CommitBatch(g)
      <3>1. flush'[g].items = flush[g].items
        BY <2>0, <2>1 DEF CommitBatch, FlushTask, TypeOK
      <3>2. flush[g].items[i].msg \in ItemMsgs(flush[g].items)
        BY <1>2, <3>1 DEF ItemMsgs
      <3>3. QED
        BY <2>1, <3>1, <3>2, WriteFacts DEF CommitBatch
    <2>2. CASE TaskMoves(flush[g], flush'[g])
      <3>1. flush[g].pc = "ack" /\ flush'[g].items = flush[g].items
        BY <1>2, <2>2 DEF TaskMoves, Idle
      <3>2. /\ log[idOf[flush[g].items[i].msg]] = "success"
            /\ stations[keyOf[flush[g].items[i].msg]] # NoMsg
        BY <1>2, <3>1 DEF AckingIsCommitted
      <3>3. /\ idOf[flush[g].items[i].msg] \in MsgId
            /\ keyOf[flush[g].items[i].msg] \in Key
        BY <1>2, <3>1, ItemFacts, PersisterAssumption
      <3>4. QED
        BY <3>1, <3>2, <3>3, TablesGrow
    <2>3. QED
      BY <2>1, <2>2, TaskSteps
  <1>3. ASSUME NEW m \in Msg, where'[m] = "acked"
        PROVE  log'[idOf[m]] = "success" /\ stations'[keyOf[m]] # NoMsg
    <2>0. idOf[m] \in MsgId /\ keyOf[m] \in Key
      BY PersisterAssumption
    <2>1. CASE where[m] = "acked"
      BY <2>0, <2>1, TablesGrow DEF AckedIsCommitted
    <2>2. CASE where[m] # "acked"
      <3>1. PICK f \in Flusher : /\ flush[f].pc = "ack"
                                 /\ \E i \in DOMAIN flush[f].items : flush[f].items[i].msg = m
        BY <1>3, <2>2, AckSteps
      <3>2. log[idOf[m]] = "success" /\ stations[keyOf[m]] # NoMsg
        BY <3>1 DEF AckingIsCommitted
      <3>3. QED
        BY <2>0, <3>2, TablesGrow
    <2>3. QED
      BY <2>1, <2>2
  <1>4. ASSUME NEW k \in Key, stations'[k] # NoMsg
        PROVE  keyOf[stations'[k]] = k /\ log'[idOf[stations'[k]]] = "success"
    <2>1. CASE stations'[k] = stations[k]
      <3>1. stations[k] \in Msg
        BY <1>4, <2>1 DEF TypeOK
      <3>2. QED
        BY <1>4, <2>1, <3>1, TablesGrow, PersisterAssumption DEF RowsAreLogged
    <2>2. CASE stations'[k] # stations[k]
      <3>1. PICK f \in Flusher : Writable(flush[f].items) /\ Write(flush[f].items)
        BY <2>2, DbSteps DEF db
      <3>2. stations'[k] \in ItemMsgs(flush[f].items) /\ keyOf[stations'[k]] = k
        BY <2>2, <3>1, WriteFacts
      <3>3. QED
        BY <3>1, <3>2, WriteFacts
    <2>3. QED
      BY <2>1, <2>2
  <1>5. QED
    BY <1>1, <1>2, <1>3, <1>4 DEF LoopInBounds, AckingIsCommitted, AckedIsCommitted, RowsAreLogged

LEMMA CommitInvariant == Spec => []CommitInv
  <1>1. Init => CommitInv
    BY DEF Init, Idle, CommitInv, LoopInBounds, AckingIsCommitted, AckedIsCommitted, RowsAreLogged
  <1>2. TypeOK /\ CommitInv /\ [Next]_vars => CommitInv'
    BY CommitStep
  <1>3. QED
    BY <1>1, <1>2, TypeCorrect, PTL DEF Spec

\* A message that takes effect took it before, or a batch is committed with it.
LEMMA EffectForms ==
  ASSUME TypeOK, CommitInv, [Next]_vars, NEW m \in Msg, TakesEffect(m)'
  PROVE  \/ TakesEffect(m)
         \/ \E f \in Flusher : CommitBatch(f) /\ m \in ItemMsgs(flush[f].items)
  <1>1. CASE where'[m] = "acked"
    <2>1. CASE where[m] = "acked"
      BY <2>1 DEF TakesEffect
    <2>2. CASE where[m] # "acked"
      BY <1>1, <2>2, AckSteps DEF CommitInv, TakesEffect, ItemMsgs
    <2>3. QED
      BY <2>1, <2>2
  <1>2. ASSUME NEW g \in Flusher, flush'[g].pc = "ack", m \in ItemMsgs(flush'[g].items)
        PROVE  \/ TakesEffect(m)
               \/ \E f \in Flusher : CommitBatch(f) /\ m \in ItemMsgs(flush[f].items)
    <2>1. CASE CommitBatch(g)
      <3>1. flush'[g].items = flush[g].items
        BY <2>1 DEF CommitBatch, TypeOK, FlushTask
      <3>2. QED
        BY <1>2, <2>1, <3>1
    <2>2. CASE TaskMoves(flush[g], flush'[g])
      <3>1. flush[g].pc = "ack" /\ flush'[g].items = flush[g].items
        BY <1>2, <2>2 DEF TaskMoves, Idle
      <3>2. QED
        BY <1>2, <3>1 DEF TakesEffect
    <2>3. QED
      BY <2>1, <2>2, TaskSteps
  <1>3. QED
    BY <1>1, <1>2 DEF TakesEffect

\* What takes effect is logged, so a batch with a copy of it is not writable.
LEMMA EffectIsLogged ==
  ASSUME CommitInv, NEW m \in Msg, TakesEffect(m)
  PROVE  log[idOf[m]] = "success"
  BY DEF CommitInv, AckedIsCommitted, AckingIsCommitted, TakesEffect, ItemMsgs

\* The copies a commit writes differ in their ids, and none of them has a row.
LEMMA CommittedIsFresh ==
  ASSUME NEW f \in Flusher, CommitBatch(f)
  PROVE  /\ \A m \in ItemMsgs(flush[f].items) : log[idOf[m]] = "none"
         /\ \A m, n \in ItemMsgs(flush[f].items) : idOf[m] = idOf[n] => m = n
  BY DEF CommitBatch, Writable, IdsUnlogged, ItemMsgs

LEMMA OneBatchCommits ==
  ASSUME TypeOK, NEW f \in Flusher, NEW g \in Flusher, CommitBatch(f), CommitBatch(g)
  PROVE  f = g
  <1>1. flush[g].pc = "persist" /\ flush'[g].pc = "ack"
    BY DEF CommitBatch, TypeOK, FlushTask
  <1>2. f # g => flush'[g] = flush[g]
    BY DEF CommitBatch, TypeOK
  <1>3. QED
    BY <1>1, <1>2

LEMMA OneCopyStep ==
  ASSUME TypeOK, CommitInv, OneCopyTakesEffect, [Next]_vars
  PROVE  OneCopyTakesEffect'
  <1>1. ASSUME NEW m \in Msg, NEW n \in Msg,
               TakesEffect(m)', TakesEffect(n)', idOf[m] = idOf[n]
        PROVE  m = n
    <2>1. CASE TakesEffect(m) /\ TakesEffect(n)
      BY <1>1, <2>1 DEF OneCopyTakesEffect
    <2>2. ASSUME NEW f \in Flusher, CommitBatch(f), m \in ItemMsgs(flush[f].items)
          PROVE  m = n
      <3>1. log[idOf[n]] = "none"
        BY <1>1, <2>2, CommittedIsFresh
      <3>2. ~TakesEffect(n)
        BY <3>1, EffectIsLogged
      <3>3. PICK g \in Flusher : CommitBatch(g) /\ n \in ItemMsgs(flush[g].items)
        BY <1>1, <3>2, EffectForms
      <3>4. f = g
        BY <2>2, <3>3, OneBatchCommits
      <3>5. QED
        BY <1>1, <2>2, <3>3, <3>4, CommittedIsFresh
    <2>3. ASSUME NEW f \in Flusher, CommitBatch(f), n \in ItemMsgs(flush[f].items)
          PROVE  m = n
      <3>1. log[idOf[m]] = "none"
        BY <1>1, <2>3, CommittedIsFresh
      <3>2. ~TakesEffect(m)
        BY <3>1, EffectIsLogged
      <3>3. QED
        BY <1>1, <2>2, <3>2, EffectForms
    <2>4. QED
      BY <1>1, <2>1, <2>2, <2>3, EffectForms
  <1>2. QED
    BY <1>1 DEF OneCopyTakesEffect

\* One effect for each id: of the copies that share a message id, whatever is
\* delivered again, retried or lost, one at most is ever acknowledged.
THEOREM OneEffectPerId == Spec => []OneCopyTakesEffect
  <1>1. Init => OneCopyTakesEffect
    BY DEF Init, Idle, OneCopyTakesEffect, TakesEffect
  <1>2. TypeOK /\ CommitInv /\ OneCopyTakesEffect /\ [Next]_vars => OneCopyTakesEffect'
    BY OneCopyStep
  <1>3. QED
    BY <1>1, <1>2, TypeCorrect, CommitInvariant, PTL DEF Spec

\* No acknowledgement before the effect: for any number of messages, batches,
\* retries, crashes and lost channels, an acknowledged message is in both tables.
THEOREM AckedCommitted == Spec => []AckedIsCommitted
  BY CommitInvariant, PTL DEF CommitInv

\* Every station row was written by a message of that station whose success the
\* log records: the two tables are written together or not at all.
THEOREM RowsLogged == Spec => []RowsAreLogged
  BY CommitInvariant, PTL DEF CommitInv

-----------------------------------------------------------------------------
(* A flush task never turns back.                                          *)

\* What a step may do to a task, but for the death of the process.
GoesOn(t, u) ==
  \/ u = t
  \/ t.pc = "idle" /\ u.pc = "persist" /\ u.attempt = 1
  \/ u = Idle /\ Ends(t)
  \/ t.pc # "idle" /\ Later(t, u)

LEMMA RetriedGoesOn ==
  ASSUME NEW t \in FlushTask, t.pc \in {"persist", "ack"}
  PROVE  GoesOn(t, Retried(t))
  <1>0. t.attempt \in Nat /\ MaxAttempts \in Nat /\ t.attempt <= MaxAttempts
    BY PersisterAssumption DEF FlushTask
  <1>1. CASE t.attempt < MaxAttempts
    <2> DEFINE u == [t EXCEPT !.pc = "persist", !.attempt = t.attempt + 1, !.next = 1]
    <2>1. Retried(t) = u
      BY <1>1 DEF Retried
    <2>2. u.items = t.items /\ u.trigger = t.trigger /\ u.attempt > t.attempt
      BY <1>0 DEF FlushTask
    <2>3. QED
      BY <2>1, <2>2 DEF GoesOn, Later
  <1>2. CASE ~(t.attempt < MaxAttempts)
    <2> DEFINE u == [t EXCEPT !.pc = "record", !.next = 1]
    <2>1. Retried(t) = u
      BY <1>2 DEF Retried
    <2>2. u.items = t.items /\ u.trigger = t.trigger /\ u.attempt = t.attempt /\ u.pc = "record"
      BY DEF FlushTask
    <2>3. Stage("record") > Stage(t.pc)
      BY DEF Stage
    <2>4. QED
      BY <2>1, <2>2, <2>3 DEF GoesOn, Later
  <1>3. QED
    BY <1>1, <1>2

LEMMA AdvancedGoesOn ==
  ASSUME NEW t \in FlushTask, t.pc \in {"ack", "nack"}, t.next \in DOMAIN t.items
  PROVE  GoesOn(t, Advanced(t))
  <1>0. t.next \in Nat /\ Len(t.items) \in Nat /\ t.next <= Len(t.items)
    BY DEF FlushTask
  <1>1. CASE t.next < Len(t.items)
    BY <1>0, <1>1 DEF Advanced, GoesOn, Later, FlushTask
  <1>2. CASE ~(t.next < Len(t.items))
    BY <1>0, <1>2 DEF Advanced, GoesOn, Ends
  <1>3. QED
    BY <1>1, <1>2

LEMMA StageGoesOn ==
  ASSUME NEW t \in FlushTask,
         NEW pc \in {"ack", "nack", "raised"},
         \/ t.pc = "persist" /\ pc = "ack"
         \/ t.pc = "record" /\ pc \in {"nack", "raised"}
         \/ t.pc = "nack" /\ pc = "raised"
  PROVE  GoesOn(t, [t EXCEPT !.pc = pc])
  <1>1. Stage(pc) > Stage(t.pc)
    BY DEF Stage
  <1>2. t.pc # "idle"
    OBVIOUS
  <1>3. QED
    BY <1>1, <1>2 DEF GoesOn, Later, FlushTask

\* Each step of Next on each task: it goes on, or the process dies.
LEMMA TasksGoOn ==
  ASSUME TypeOK, LoopInBounds, [Next]_vars, NEW g \in Flusher
  PROVE  GoesOn(flush[g], flush'[g]) \/ (flush'[g] = Idle /\ mode' = "down")
  <1> DEFINE Goal == GoesOn(flush[g], flush'[g]) \/ (flush'[g] = Idle /\ mode' = "down")
  <1>0. flush \in [Flusher -> FlushTask] /\ flush[g] \in FlushTask
    BY DEF TypeOK
  <1>1. CASE UNCHANGED flush
    BY <1>1 DEF GoesOn
  <1>2. CASE Die
    BY <1>2 DEF Die
  <1>3. ASSUME NEW f \in Flusher, NEW u, flush' = [flush EXCEPT ![f] = u], GoesOn(flush[f], u)
        PROVE  Goal
    <2>1. CASE f = g
      BY <1>0, <1>3, <2>1
    <2>2. CASE f # g
      BY <1>0, <1>3, <2>2 DEF GoesOn
    <2>3. QED
      BY <2>1, <2>2
  <1>4. ASSUME NEW f \in Flusher, NEW items, NEW trigger, TakeBatch(f, items, trigger)
        PROVE  Goal
    <2> DEFINE u == [pc |-> "persist", items |-> items, attempt |-> 1, next |-> 1,
                     trigger |-> trigger]
    <2>1. flush' = [flush EXCEPT ![f] = u] /\ flush[f].pc = "idle"
      BY <1>4 DEF TakeBatch
    <2>2. GoesOn(flush[f], u)
      BY <2>1 DEF GoesOn
    <2>3. QED
      BY <1>3, <2>1, <2>2
  <1>5. ASSUME NEW m \in Msg, Receive(m)
        PROVE  Goal
    BY <1>1, <1>4, <1>5 DEF Receive, RejectInvalid, EnqueueAndWait, EnqueueAndFlush
  <1>6. ASSUME NEW f \in Flusher, TimerFires(f) \/ Stop(f)
        PROVE  Goal
    BY <1>1, <1>4, <1>6 DEF TimerFires, Stop
  <1>7. ASSUME NEW f \in Flusher, FlushStep(f)
        PROVE  Goal
    <2>0. flush[f] \in FlushTask
      BY <1>0
    <2>1. CASE CommitBatch(f)
      <3>1. flush[f].pc = "persist" /\ flush' = [flush EXCEPT ![f] = [flush[f] EXCEPT !.pc = "ack"]]
        BY <1>0, <2>1 DEF CommitBatch
      <3>2. QED
        BY <1>3, <2>0, <3>1, StageGoesOn
    <2>2. CASE CommitTimesOut(f) \/ PersistFails(f) \/ AckFails(f)
      <3>1. flush[f].pc \in {"persist", "ack"} /\ Retry(f)
        BY <2>2 DEF CommitTimesOut, PersistFails, AckFails
      <3>2. QED
        BY <1>3, <2>0, <3>1, RetriedGoesOn DEF Retry
    <2>3. CASE AckNext(f) \/ NackNext(f)
      <3>1. flush[f].pc \in {"ack", "nack"} /\ Advance(f)
        BY <2>3 DEF AckNext, NackNext
      <3>2. flush[f].next \in DOMAIN flush[f].items
        BY <3>1 DEF LoopInBounds
      <3>3. QED
        BY <1>3, <2>0, <3>1, <3>2, AdvancedGoesOn DEF Advance
    <2>4. CASE RecordFailed(f)
      <3>1. flush[f].pc = "record" /\ flush' = [flush EXCEPT ![f] = [flush[f] EXCEPT !.pc = "nack"]]
        BY <1>0, <2>4 DEF RecordFailed
      <3>2. QED
        BY <1>3, <2>0, <3>1, StageGoesOn
    <2>5. CASE RecordRaises(f) \/ NackRaises(f)
      <3>1. /\ flush[f].pc \in {"record", "nack"}
            /\ flush' = [flush EXCEPT ![f] = [flush[f] EXCEPT !.pc = "raised"]]
        BY <1>0, <2>5 DEF RecordRaises, NackRaises
      <3>2. QED
        BY <1>3, <2>0, <3>1, StageGoesOn
    <2>6. CASE Propagate(f)
      <3>1. CASE flush' = [flush EXCEPT ![f] = Idle]
        BY <1>3, <2>6, <3>1 DEF Propagate, GoesOn, Ends
      <3>2. QED
        BY <1>2, <2>6, <3>1 DEF Propagate
    <2>7. QED
      BY <1>7, <2>1, <2>2, <2>3, <2>4, <2>5, <2>6 DEF FlushStep
  <1>8. CASE CloseChannel \/ ConnectionLost \/ Restart
    BY <1>1, <1>8 DEF CloseChannel, ConnectionLost, Restart
  <1>9. CASE Exit \/ Crash
    BY <1>2, <1>9 DEF Exit, Crash
  <1>10. QED
    BY <1>1, <1>5, <1>6, <1>7, <1>8, <1>9 DEF Next, vars

\* The retry loop ends: under every fault a flush task goes through at most
\* MaxAttempts attempts, stage by stage and item by item, and gives its batch up
\* at its end only, or with the process.
THEOREM TasksAdvance == Spec => FlushesAdvance
  <1>1. TypeOK /\ LoopInBounds /\ [Next]_vars =>
          \A f \in Flusher :
            \/ flush'[f] = flush[f]
            \/ flush[f].pc = "idle" /\ flush'[f].pc = "persist" /\ flush'[f].attempt = 1
            \/ flush'[f] = Idle /\ (Ends(flush[f]) \/ mode' = "down")
            \/ flush[f].pc # "idle" /\ Later(flush[f], flush'[f])
    BY TasksGoOn DEF GoesOn
  <1>2. CommitInv => LoopInBounds
    BY DEF CommitInv
  <1>3. QED
    BY <1>1, <1>2, TypeCorrect, CommitInvariant, PTL DEF Spec, FlushesAdvance

-----------------------------------------------------------------------------
(* The persister implements DeliveryContract: each step of Persister is one *)
(* of the contract's, or no step.                                          *)

\* Ids not logged yet and all different: the contract's condition on a batch.
LEMMA FreshBatch ==
  ASSUME TypeOK, NEW f \in Flusher, IdsUnlogged(flush[f].items)
  PROVE  Contract!FreshIds(ItemMsgs(flush[f].items))
  <1>1. ASSUME NEW m \in ItemMsgs(flush[f].items)
        PROVE  log[idOf[m]] = "none"
    BY <1>1 DEF ItemMsgs, IdsUnlogged
  <1>2. ASSUME NEW m \in ItemMsgs(flush[f].items), NEW n \in ItemMsgs(flush[f].items),
               idOf[m] = idOf[n]
        PROVE  m = n
    <2>1. PICK i \in DOMAIN flush[f].items : flush[f].items[i].msg = m
      BY DEF ItemMsgs
    <2>2. PICK j \in DOMAIN flush[f].items : flush[f].items[j].msg = n
      BY DEF ItemMsgs
    <2>3. i = j
      BY <1>2, <2>1, <2>2 DEF IdsUnlogged
    <2>4. QED
      BY <2>1, <2>2, <2>3
  <1>3. QED
    BY <1>1, <1>2 DEF Contract!FreshIds

\* The rows of a batch, as the contract writes them.
LEMMA LoggedRows ==
  ASSUME NEW items, NEW status
  PROVE  LogRows(items, status) = Contract!Logged(ItemMsgs(items), status)
  <1>1. \A i \in MsgId : i \in {idOf[m] : m \in ItemMsgs(items)}
                           <=> \E m \in ItemMsgs(items) : idOf[m] = i
    OBVIOUS
  <1>2. QED
    BY <1>1 DEF LogRows, Contract!Logged

LEMMA CommitMaps ==
  ASSUME TypeOK, NEW f \in Flusher, Writable(flush[f].items), Write(flush[f].items),
         UNCHANGED where
  PROVE  Contract!Next
  <1> DEFINE S == ItemMsgs(flush[f].items)
  <1>1. S \in SUBSET Msg
    BY ItemFacts
  <1>2. Contract!FreshIds(S)
    BY FreshBatch DEF Writable
  <1>3. ASSUME NEW m \in S, NEW n \in S, keyOf[m] = keyOf[n]
        PROVE  m = n
    <2>1. PICK i \in DOMAIN flush[f].items : flush[f].items[i].msg = m
      BY DEF ItemMsgs
    <2>2. PICK j \in DOMAIN flush[f].items : flush[f].items[j].msg = n
      BY DEF ItemMsgs
    <2>3. i = j
      BY <1>3, <2>1, <2>2 DEF Writable
    <2>4. QED
      BY <2>1, <2>2, <2>3
  <1>4. log' = Contract!Logged(S, "success")
    BY LoggedRows DEF Write
  <1>5. stations' = [k \in Key |->
          IF \E m \in S : keyOf[m] = k THEN CHOOSE m \in S : keyOf[m] = k ELSE stations[k]]
    <2>1. \A k \in Key : k \in {keyOf[m] : m \in S} <=> \E m \in S : keyOf[m] = k
      OBVIOUS
    <2>2. stations' = [k \in Key |->
            IF k \in {keyOf[m] : m \in S}
            THEN CHOOSE m \in S : keyOf[m] = k ELSE stations[k]]
      BY DEF Write
    <2>3. QED
      BY <2>1, <2>2
  <1>6. Contract!Commit(S)
    BY <1>2, <1>3, <1>4, <1>5 DEF Contract!Commit
  <1>7. QED
    BY <1>1, <1>6 DEF Contract!Next

LEMMA GiveUpMaps ==
  ASSUME TypeOK, NEW f \in Flusher, IdsUnlogged(flush[f].items),
         log' = LogRows(flush[f].items, "failed"), UNCHANGED <<where, stations>>
  PROVE  Contract!Next
  <1>1. ItemMsgs(flush[f].items) \in SUBSET Msg
    BY ItemFacts
  <1>2. Contract!GiveUp(ItemMsgs(flush[f].items))
    BY FreshBatch, LoggedRows DEF Contract!GiveUp
  <1>3. QED
    BY <1>1, <1>2 DEF Contract!Next

\* Losing the channel, by itself or with the process, is the contract's TakeBack.
LEMMA LossMaps ==
  ASSUME LoseChannel, UNCHANGED db
  PROVE  Contract!Next
  <1>1. Contract!TakeBack
    BY DEF LoseChannel, Requeued, db, Contract!TakeBack
  <1>2. QED
    BY <1>1 DEF Contract!Next

\* A delivery that can be settled, and the message it carries.
LEMMA SettleMaps ==
  ASSUME TypeOK, NEW f \in Flusher, NEW i \in DOMAIN flush[f].items,
         Settleable(flush[f].items[i]), UNCHANGED db,
         \/ where' = [where EXCEPT ![flush[f].items[i].msg] = "dead"]
         \/ /\ where' = [where EXCEPT ![flush[f].items[i].msg] = "acked"]
            /\ CommitInv /\ OneCopyTakesEffect
            /\ flush[f].pc = "ack"
  PROVE  Contract!Next
  <1> DEFINE m == flush[f].items[i].msg
  <1>1. m \in Msg /\ where[m] = "unacked"
    BY ItemFacts DEF Settleable
  <1>2. CASE where' = [where EXCEPT ![m] = "dead"]
    <2>1. Contract!DeadLetter(m)
      BY <1>1, <1>2 DEF db, Contract!DeadLetter
    <2>2. QED
      BY <1>1, <2>1 DEF Contract!Next
  <1>3. CASE /\ where' = [where EXCEPT ![m] = "acked"]
             /\ CommitInv /\ OneCopyTakesEffect
             /\ flush[f].pc = "ack"
    <2>1. TakesEffect(m)
      BY <1>3, ItemFacts DEF TakesEffect
    <2>2. log[idOf[m]] = "success"
      BY <1>1, <1>3, <2>1, EffectIsLogged
    <2>3. ASSUME NEW n \in Msg, idOf[n] = idOf[m]
          PROVE  where[n] # "acked"
      BY <1>1, <1>3, <2>1, <2>3 DEF OneCopyTakesEffect, TakesEffect
    <2>4. Contract!Acknowledge(m)
      BY <1>1, <1>3, <2>2, <2>3 DEF db, Contract!Acknowledge
    <2>5. QED
      BY <1>1, <2>4 DEF Contract!Next
  <1>4. QED
    BY <1>2, <1>3

LEMMA ReceiveMaps ==
  ASSUME TypeOK, NEW m \in Msg, Receive(m)
  PROVE  Contract!Next
  <1>1. CASE RejectInvalid(m)
    <2>1. Contract!DeadLetter(m)
      BY <1>1 DEF RejectInvalid, Deliverable, db, Contract!DeadLetter
    <2>2. QED
      BY <2>1 DEF Contract!Next
  <1>2. CASE EnqueueAndWait(m) \/ \E f \in Flusher : EnqueueAndFlush(m, f)
    <2>1. Contract!Deliver(m)
      BY <1>2 DEF EnqueueAndWait, EnqueueAndFlush, Deliverable, db, Contract!Deliver
    <2>2. QED
      BY <2>1 DEF Contract!Next
  <1>3. QED
    BY <1>1, <1>2 DEF Receive

LEMMA FlushMaps ==
  ASSUME TypeOK, CommitInv, OneCopyTakesEffect, NEW f \in Flusher, FlushStep(f)
  PROVE  [Contract!Next]_(Contract!vars)
  <1> DEFINE items == flush[f].items
             at == flush[f].next
  <1>0. flush[f].pc # "idle" => at \in DOMAIN items
    BY DEF CommitInv, LoopInBounds
  <1>1. CASE CommitBatch(f) \/ CommitTimesOut(f)
    <2>1. Writable(items) /\ Write(items) /\ UNCHANGED where
      BY <1>1 DEF CommitBatch, CommitTimesOut, broker
    <2>2. QED
      BY <2>1, CommitMaps
  <1>2. CASE AckNext(f)
    <2>1. /\ Settleable(items[at]) /\ UNCHANGED db
          /\ where' = [where EXCEPT ![items[at].msg] = "acked"]
          /\ flush[f].pc = "ack"
      BY <1>2 DEF AckNext
    <2>2. QED
      BY <1>0, <2>1, SettleMaps
  <1>3. CASE NackNext(f)
    <2>1. /\ Settleable(items[at]) /\ UNCHANGED db
          /\ where' = [where EXCEPT ![items[at].msg] = "dead"]
          /\ flush[f].pc = "nack"
      BY <1>3 DEF NackNext
    <2>2. QED
      BY <1>0, <2>1, SettleMaps
  <1>4. CASE RecordFailed(f)
    <2>1. UNCHANGED <<where, stations>>
      BY <1>4 DEF RecordFailed, broker
    <2>2. CASE IdsUnlogged(items) /\ log' = LogRows(items, "failed")
      BY <2>1, <2>2, GiveUpMaps
    <2>3. CASE UNCHANGED log
      BY <2>1, <2>3 DEF Contract!vars
    <2>4. QED
      BY <1>4, <2>2, <2>3 DEF RecordFailed
  <1>5. CASE PersistFails(f) \/ AckFails(f) \/ RecordRaises(f) \/ NackRaises(f)
    <2>1. UNCHANGED <<where, stations, log>>
      BY <1>5 DEF PersistFails, AckFails, RecordRaises, NackRaises, broker, db
    <2>2. QED
      BY <2>1 DEF Contract!vars
  <1>6. CASE Propagate(f)
    <2> DEFINE last == Len(items)
    <2>0. last \in DOMAIN items
      <3>1. flush[f].pc # "idle" /\ items \in Seq(Delivery)
        BY <1>6, ItemFacts DEF Propagate
      <3>2. QED
        BY <1>0, <3>1
    <2>1. CASE /\ Settleable(items[last]) /\ UNCHANGED db
               /\ where' = [where EXCEPT ![items[last].msg] = "dead"]
      BY <2>0, <2>1, SettleMaps
    <2>2. CASE UNCHANGED <<where, db>>
      BY <2>2 DEF db, Contract!vars
    <2>3. CASE Die
      BY <2>3, LossMaps DEF Die
    <2>4. QED
      BY <1>6, <2>1, <2>2, <2>3 DEF Propagate, broker
  <1>7. QED
    BY <1>1, <1>2, <1>3, <1>4, <1>5, <1>6 DEF FlushStep

LEMMA StepMaps ==
  ASSUME TypeOK, CommitInv, OneCopyTakesEffect, [Next]_vars
  PROVE  [Contract!Next]_(Contract!vars)
  <1>1. ASSUME NEW m \in Msg, Receive(m)
        PROVE  Contract!Next
    BY <1>1, ReceiveMaps
  <1>2. ASSUME NEW f \in Flusher, TimerFires(f) \/ Stop(f)
        PROVE  UNCHANGED Contract!vars
    BY <1>2 DEF TimerFires, Stop, broker, db, Contract!vars
  <1>3. ASSUME NEW f \in Flusher, FlushStep(f)
        PROVE  [Contract!Next]_(Contract!vars)
    BY <1>3, FlushMaps
  <1>4. CASE CloseChannel \/ Exit \/ Crash \/ ConnectionLost
    <2>1. LoseChannel /\ UNCHANGED db
      BY <1>4 DEF CloseChannel, Exit, Crash, ConnectionLost, Die
    <2>2. QED
      BY <2>1, LossMaps
  <1>5. CASE Restart \/ UNCHANGED vars
    BY <1>5 DEF Restart, vars, broker, db, Contract!vars
  <1>6. QED
    BY <1>1, <1>2, <1>3, <1>4, <1>5 DEF Next

\* The persister implements DeliveryContract: delivery at least once, an effect
\* at most once per id, whole batches, no acknowledgement before the effect and one
\* for each id, for any number of messages, tasks, attempts, crashes and lost channels.
THEOREM ImplementsContract == Spec => KeepsContract
  <1>1. Init => Contract!Init
    BY DEF Init, Contract!Init
  <1>2. TypeOK /\ CommitInv /\ OneCopyTakesEffect /\ [Next]_vars
          => [Contract!Next]_(Contract!vars)
    BY StepMaps
  <1>3. QED
    BY <1>1, <1>2, TypeCorrect, CommitInvariant, OneEffectPerId, PTL
       DEF Spec, KeepsContract, Contract!Spec

-----------------------------------------------------------------------------
(* Ownership.  A delivery has one owner: the buffer or one batch, at one   *)
(* position.  The items of a batch share one fate.  Nobody is left behind  *)
(* unsettled while the process keeps its channel and its driver fails in   *)
(* declared ways.                                                          *)

Once(s) == \A i, j \in DOMAIN s : s[i] = s[j] => i = j
Elements(s) == {s[i] : i \in DOMAIN s}

LEMMA OwnerForms ==
  /\ Buffered = Elements(buffer)
  /\ \A f \in Flusher : HeldBy(f) = Elements(flush[f].items)
  /\ ExclusiveOwner <=>
       /\ Once(buffer)
       /\ \A f \in Flusher : Once(flush[f].items)
       /\ \A f \in Flusher : Elements(flush[f].items) \cap Elements(buffer) = {}
       /\ \A f, g \in Flusher : f # g =>
            Elements(flush[f].items) \cap Elements(flush[g].items) = {}
  BY DEF Buffered, HeldBy, Elements, ExclusiveOwner, Once

LEMMA AppendOnce ==
  ASSUME NEW s \in Seq(Delivery), Once(s), NEW d \in Delivery, d \notin Elements(s)
  PROVE  Once(Append(s, d)) /\ Elements(Append(s, d)) = Elements(s) \cup {d}
  <1>1. /\ DOMAIN Append(s, d) = 1..(Len(s) + 1)
        /\ DOMAIN s = 1..Len(s)
        /\ Append(s, d)[Len(s) + 1] = d
        /\ \A i \in 1..Len(s) : Append(s, d)[i] = s[i]
        /\ Len(s) \in Nat
    OBVIOUS
  <1>2. Once(Append(s, d))
    BY <1>1 DEF Once, Elements
  <1>3. Elements(Append(s, d)) = Elements(s) \cup {d}
    BY <1>1 DEF Elements
  <1>4. QED
    BY <1>2, <1>3

\* Nothing is delivered: holders keep what they hold or drop all of it.
LEMMA HoldersShrink ==
  ASSUME TypeOK, OwnerInv,
         buffer' \in {buffer, <<>>},
         \A f \in Flusher : flush'[f].items \in {flush[f].items, <<>>},
         \/ epoch' = epoch /\ \A m \in Msg : where[m] # "ready" => where'[m] # "ready"
         \/ epoch' = epoch + 1
  PROVE  OwnerInv'
  <1>2. /\ Buffered' \subseteq Buffered
        /\ \A f \in Flusher : HeldBy(f)' \subseteq HeldBy(f)
    BY DEF Buffered, HeldBy
  <1>1. ExclusiveOwner'
    <2>1. \A i, j \in DOMAIN buffer' : buffer'[i] = buffer'[j] => i = j
      BY DEF OwnerInv, ExclusiveOwner
    <2>2. \A f \in Flusher : \A i, j \in DOMAIN flush'[f].items :
            flush'[f].items[i] = flush'[f].items[j] => i = j
      BY DEF OwnerInv, ExclusiveOwner
    <2>3. \A f \in Flusher : HeldBy(f)' \cap Buffered' = {}
      BY <1>2 DEF OwnerInv, ExclusiveOwner
    <2>4. \A f, g \in Flusher : f # g => HeldBy(f)' \cap HeldBy(g)' = {}
      BY <1>2 DEF OwnerInv, ExclusiveOwner
    <2>5. QED
      BY <2>1, <2>2, <2>3, <2>4 DEF ExclusiveOwner
  <1>3. ASSUME NEW d \in Buffered \cup UNION {HeldBy(f) : f \in Flusher}
        PROVE  d \in Delivery
    BY DEF TypeOK, FlushTask, Buffered, HeldBy
  <1>4. ASSUME NEW d \in (Buffered \cup UNION {HeldBy(f) : f \in Flusher})'
        PROVE  d.epoch <= epoch' /\ (d.epoch = epoch' => where'[d.msg] # "ready")
    <2>1. d \in Buffered \cup UNION {HeldBy(f) : f \in Flusher}
      BY <1>2
    <2>2. d.epoch <= epoch /\ (d.epoch = epoch => where[d.msg] # "ready")
      BY <2>1 DEF OwnerInv, HeldIsDelivered
    <2>3. d.epoch \in Nat /\ d.msg \in Msg /\ epoch \in Nat
      BY <1>3, <2>1 DEF Delivery, TypeOK
    <2>4. QED
      BY <2>2, <2>3
  <1>5. HeldIsDelivered'
    BY <1>4 DEF HeldIsDelivered
  <1>6. QED
    BY <1>1, <1>5 DEF OwnerInv

\* The task f takes over a whole buffer s, be it the buffer as it was or with a
\* message appended.
LEMMA HolderTakes ==
  ASSUME NEW s, NEW f \in Flusher, flush \in [Flusher -> FlushTask],
         Once(s),
         \A g \in Flusher : Once(flush[g].items) /\ Elements(flush[g].items) \cap Elements(s) = {},
         \A g, h \in Flusher : g # h =>
           Elements(flush[g].items) \cap Elements(flush[h].items) = {},
         flush'[f].items = s,
         \A g \in Flusher : g # f => flush'[g].items = flush[g].items,
         buffer' = <<>>
  PROVE  ExclusiveOwner'
  <1>1. Elements(<<>>) = {} /\ Once(<<>>)
    BY DEF Elements, Once
  <1>2. /\ \A g \in Flusher : Once(flush'[g].items)
        /\ \A g, h \in Flusher : g # h =>
             Elements(flush'[g].items) \cap Elements(flush'[h].items) = {}
    OBVIOUS
  <1>3. \A i, j \in DOMAIN buffer' : buffer'[i] = buffer'[j] => i = j
    BY <1>1 DEF Once
  <1>4. \A g \in Flusher : HeldBy(g)' \cap Buffered' = {}
    BY DEF Buffered
  <1>5. \A g \in Flusher : \A i, j \in DOMAIN flush'[g].items :
          flush'[g].items[i] = flush'[g].items[j] => i = j
    BY <1>2 DEF Once
  <1>6. \A g, h \in Flusher : g # h => HeldBy(g)' \cap HeldBy(h)' = {}
    BY <1>2 DEF HeldBy, Elements
  <1>7. QED
    BY <1>3, <1>4, <1>5, <1>6 DEF ExclusiveOwner


LEMMA FlushStepKeepsItems ==
  ASSUME TypeOK, NEW f \in Flusher, FlushStep(f)
  PROVE  /\ \A g \in Flusher : flush'[g].items \in {flush[g].items, <<>>}
         /\ buffer' \in {buffer, <<>>}
  <1>0. flush \in [Flusher -> FlushTask] /\ flush[f] \in FlushTask
    BY DEF TypeOK
  <1>1. ASSUME NEW u, u.items \in {flush[f].items, <<>>}, flush' = [flush EXCEPT ![f] = u]
        PROVE  \A g \in Flusher : flush'[g].items \in {flush[g].items, <<>>}
    BY <1>0, <1>1
  <1>2. /\ Retried(flush[f]).items = flush[f].items
        /\ Advanced(flush[f]).items \in {flush[f].items, <<>>}
        /\ Idle.items = <<>>
    BY <1>0 DEF Retried, Advanced, Idle, FlushTask
  <1>9. ASSUME NEW pc \in STRING, flush' = [flush EXCEPT ![f].pc = pc]
        PROVE  \A g \in Flusher : flush'[g].items \in {flush[g].items, <<>>}
    <2>1. [flush[f] EXCEPT !.pc = pc].items = flush[f].items
      BY <1>0 DEF FlushTask
    <2>2. flush' = [flush EXCEPT ![f] = [flush[f] EXCEPT !.pc = pc]]
      BY <1>9
    <2>3. QED
      BY <1>1, <2>1, <2>2
  <1>3. CASE CommitBatch(f)
    BY <1>9, <1>3 DEF CommitBatch
  <1>4. CASE CommitTimesOut(f) \/ PersistFails(f) \/ AckFails(f)
    BY <1>1, <1>2, <1>4 DEF CommitTimesOut, PersistFails, AckFails, Retry
  <1>5. CASE AckNext(f) \/ NackNext(f)
    BY <1>1, <1>2, <1>5 DEF AckNext, NackNext, Advance
  <1>6. ASSUME RecordFailed(f) \/ RecordRaises(f) \/ NackRaises(f)
        PROVE  (\A g \in Flusher : flush'[g].items \in {flush[g].items, <<>>})
               /\ buffer' \in {buffer, <<>>}
    <2>1. \/ flush' = [flush EXCEPT ![f].pc = "nack"]
          \/ flush' = [flush EXCEPT ![f].pc = "raised"]
      BY <1>6 DEF RecordFailed, RecordRaises, NackRaises
    <2>2. buffer' = buffer
      BY <1>6 DEF RecordFailed, RecordRaises, NackRaises
    <2>3. CASE flush' = [flush EXCEPT ![f].pc = "nack"]
      BY <1>9, <2>2, <2>3
    <2>4. CASE flush' = [flush EXCEPT ![f].pc = "raised"]
      BY <1>9, <2>2, <2>4
    <2>5. QED
      BY <2>1, <2>3, <2>4
  <1>7. CASE Propagate(f)
    BY <1>1, <1>2, <1>7 DEF Propagate, Die
  <1>8. QED
    BY <1>3, <1>4, <1>5, <1>6, <1>7 DEF FlushStep

\* A message returns to the queue only when its channel is lost.
LEMMA BrokerSteps ==
  ASSUME TypeOK, [Next]_vars
  PROVE  \/ epoch' = epoch /\ \A m \in Msg : where[m] # "ready" => where'[m] # "ready"
         \/ epoch' = epoch + 1
  <1> DEFINE Goal == \/ epoch' = epoch /\ \A m \in Msg : where[m] # "ready" => where'[m] # "ready"
                     \/ epoch' = epoch + 1
  <1>0. where \in [Msg -> {"ready", "unacked", "acked", "dead"}]
    BY DEF TypeOK
  <1>1. CASE UNCHANGED broker
    BY <1>1 DEF broker
  <1>2. ASSUME NEW n, NEW fate \in {"unacked", "acked", "dead"}, UNCHANGED epoch,
               where' = [where EXCEPT ![n] = fate]
        PROVE  Goal
    BY <1>0, <1>2
  <1>3. CASE LoseChannel
    BY <1>3 DEF LoseChannel
  <1>4. ASSUME NEW m \in Msg, Receive(m)
        PROVE  Goal
    BY <1>2, <1>4 DEF Receive, RejectInvalid, EnqueueAndWait, EnqueueAndFlush
  <1>5. ASSUME NEW f \in Flusher, AckNext(f) \/ NackNext(f)
        PROVE  Goal
    BY <1>2, <1>5 DEF AckNext, NackNext
  <1>6. ASSUME NEW f \in Flusher, Propagate(f)
        PROVE  Goal
    BY <1>1, <1>2, <1>3, <1>6 DEF Propagate, Die, broker
  <1>7. ASSUME NEW f \in Flusher,
               \/ CommitBatch(f) \/ CommitTimesOut(f) \/ PersistFails(f) \/ AckFails(f)
               \/ RecordFailed(f) \/ RecordRaises(f) \/ NackRaises(f)
               \/ TimerFires(f) \/ Stop(f)
        PROVE  UNCHANGED broker
    BY <1>7 DEF CommitBatch, CommitTimesOut, PersistFails, AckFails, RecordFailed,
                RecordRaises, NackRaises, TimerFires, Stop
  <1>8. CASE CloseChannel \/ Exit \/ Crash \/ ConnectionLost
    BY <1>3, <1>8 DEF CloseChannel, Exit, Crash, ConnectionLost, Die
  <1>9. CASE Restart \/ UNCHANGED vars
    BY <1>1, <1>9 DEF Restart, vars
  <1>10. QED
    BY <1>1, <1>4, <1>5, <1>6, <1>7, <1>8, <1>9 DEF Next, FlushStep

\* A message that is still in the queue is not held as a delivery of this channel.
LEMMA FreshDelivery ==
  ASSUME TypeOK, OwnerInv, NEW m \in Msg, where[m] = "ready"
  PROVE  /\ [msg |-> m, epoch |-> epoch] \in Delivery
         /\ [msg |-> m, epoch |-> epoch] \notin Elements(buffer)
         /\ \A f \in Flusher : [msg |-> m, epoch |-> epoch] \notin Elements(flush[f].items)
  <1>1. [msg |-> m, epoch |-> epoch] \in Delivery
    BY DEF TypeOK, Delivery
  <1>2. [msg |-> m, epoch |-> epoch] \notin Buffered \cup UNION {HeldBy(f) : f \in Flusher}
    BY DEF OwnerInv, HeldIsDelivered
  <1>3. QED
    BY <1>1, <1>2, OwnerForms

LEMMA OwnerStep ==
  ASSUME TypeOK, OwnerInv, [Next]_vars
  PROVE  OwnerInv'
  <1> DEFINE new(m) == [msg |-> m, epoch |-> epoch]
  <1>0. /\ flush \in [Flusher -> FlushTask]
        /\ buffer \in Seq(Delivery)
        /\ Once(buffer)
        /\ \A f \in Flusher : Once(flush[f].items)
        /\ \A f \in Flusher : Elements(flush[f].items) \cap Elements(buffer) = {}
        /\ \A f, g \in Flusher : f # g =>
             Elements(flush[f].items) \cap Elements(flush[g].items) = {}
    BY OwnerForms DEF TypeOK, OwnerInv
  <1>1. CASE UNCHANGED <<buffer, flush>>
    BY <1>1, HoldersShrink, BrokerSteps
  <1>2. CASE flush' = [f \in Flusher |-> Idle] /\ buffer' = <<>>
    BY <1>2, HoldersShrink, BrokerSteps DEF Idle
  <1>3. ASSUME NEW f \in Flusher, FlushStep(f)
        PROVE  OwnerInv'
    BY <1>3, FlushStepKeepsItems, HoldersShrink, BrokerSteps
  <1>4. ASSUME NEW f \in Flusher, NEW trigger, TakeBatch(f, buffer, trigger), UNCHANGED broker
        PROVE  OwnerInv'
    <2>1. flush'[f].items = buffer /\ \A g \in Flusher : g # f => flush'[g].items = flush[g].items
      BY <1>0, <1>4 DEF TakeBatch
    <2>2. ExclusiveOwner'
      BY <1>0, <1>4, <2>1, HolderTakes DEF TakeBatch
    <2>3. (Buffered \cup UNION {HeldBy(g) : g \in Flusher})'
            \subseteq Buffered \cup UNION {HeldBy(g) : g \in Flusher}
      BY <1>4, <2>1 DEF TakeBatch, Buffered, HeldBy
    <2>4. HeldIsDelivered'
      BY <1>4, <2>3 DEF OwnerInv, HeldIsDelivered, broker
    <2>5. QED
      BY <2>2, <2>4 DEF OwnerInv
  <1>5. ASSUME NEW m \in Msg, EnqueueAndWait(m)
        PROVE  OwnerInv'
    <2>1. /\ where[m] = "ready" /\ where' = [where EXCEPT ![m] = "unacked"]
          /\ buffer' = Append(buffer, new(m))
          /\ UNCHANGED <<flush, epoch>>
      BY <1>5 DEF EnqueueAndWait, Deliverable
    <2>2. /\ Once(buffer')
          /\ Elements(buffer') = Elements(buffer) \cup {new(m)}
      BY <1>0, <2>1, AppendOnce, FreshDelivery
    <2>3. /\ Buffered' = Buffered \cup {new(m)}
          /\ \A f \in Flusher : HeldBy(f)' = HeldBy(f)
      BY <2>1, <2>2 DEF Buffered, HeldBy, Elements
    <2>4. ExclusiveOwner'
      <3>1. \A f \in Flusher : HeldBy(f)' \cap Buffered' = {}
        BY <2>1, <2>3, FreshDelivery, OwnerForms DEF OwnerInv, ExclusiveOwner
      <3>2. \A i, j \in DOMAIN buffer' : buffer'[i] = buffer'[j] => i = j
        BY <2>2 DEF Once
      <3>3. QED
        BY <2>1, <2>3, <3>1, <3>2 DEF OwnerInv, ExclusiveOwner
    <2>5. ASSUME NEW d \in (Buffered \cup UNION {HeldBy(f) : f \in Flusher})'
          PROVE  d.epoch <= epoch' /\ (d.epoch = epoch' => where'[d.msg] # "ready")
      <3>1. CASE d = new(m)
        BY <2>1, <3>1 DEF TypeOK
      <3>2. CASE d \in Buffered \cup UNION {HeldBy(f) : f \in Flusher}
        BY <2>1, <3>2 DEF OwnerInv, HeldIsDelivered, TypeOK
      <3>3. QED
        BY <2>3, <2>5, <3>1, <3>2
    <2>6. QED
      BY <2>4, <2>5 DEF OwnerInv, HeldIsDelivered
  <1>6. ASSUME NEW m \in Msg, NEW f \in Flusher, EnqueueAndFlush(m, f)
        PROVE  OwnerInv'
    <2> DEFINE s == Append(buffer, new(m))
    <2>1. /\ where[m] = "ready" /\ where' = [where EXCEPT ![m] = "unacked"]
          /\ TakeBatch(f, s, "size")
          /\ UNCHANGED epoch
      BY <1>6 DEF EnqueueAndFlush, Deliverable
    <2>2. Once(s) /\ Elements(s) = Elements(buffer) \cup {new(m)}
      BY <1>0, <2>1, AppendOnce, FreshDelivery
    <2>3. /\ flush'[f].items = s
          /\ \A g \in Flusher : g # f => flush'[g].items = flush[g].items
          /\ buffer' = <<>>
      BY <1>0, <2>1 DEF TakeBatch
    <2>4. \A g \in Flusher : Elements(flush[g].items) \cap Elements(s) = {}
      BY <1>0, <2>1, <2>2, FreshDelivery
    <2>5. ExclusiveOwner'
      <3> HIDE DEF s
      <3>1. QED
        BY <1>0, <2>2, <2>3, <2>4, HolderTakes
    <2>6. ASSUME NEW d \in (Buffered \cup UNION {HeldBy(g) : g \in Flusher})'
          PROVE  d.epoch <= epoch' /\ (d.epoch = epoch' => where'[d.msg] # "ready")
      <3>1. CASE d = new(m)
        BY <2>1, <3>1 DEF TypeOK
      <3>2. CASE d \in Buffered \cup UNION {HeldBy(g) : g \in Flusher}
        BY <2>1, <3>2 DEF OwnerInv, HeldIsDelivered, TypeOK
      <3>3. HeldBy(f)' = Elements(s)
        BY <2>3 DEF HeldBy, Elements
      <3>4. \A g \in Flusher : g # f => HeldBy(g)' = HeldBy(g)
        BY <2>3 DEF HeldBy
      <3>5. Buffered' = {}
        BY <2>3 DEF Buffered
      <3>6. Elements(buffer) = Buffered
        BY DEF Elements, Buffered
      <3>7. QED
        BY <2>2, <2>6, <3>1, <3>2, <3>3, <3>4, <3>5, <3>6
    <2>7. QED
      BY <2>5, <2>6 DEF OwnerInv, HeldIsDelivered
  <1>7. ASSUME NEW f \in Flusher, TimerFires(f) \/ Stop(f)
        PROVE  OwnerInv'
    BY <1>1, <1>4, <1>7 DEF TimerFires, Stop
  <1>8. ASSUME NEW m \in Msg, RejectInvalid(m)
        PROVE  OwnerInv'
    BY <1>1, <1>8 DEF RejectInvalid
  <1>9. CASE CloseChannel \/ ConnectionLost \/ Restart \/ UNCHANGED vars
    BY <1>1, <1>9 DEF CloseChannel, ConnectionLost, Restart, vars
  <1>10. CASE Exit \/ Crash
    BY <1>2, <1>10 DEF Exit, Crash, Die
  <1>11. QED
    BY <1>3, <1>5, <1>6, <1>7, <1>8, <1>9, <1>10 DEF Next, Receive

\* A delivery is settled by one task at most: the size flush, the timer, stop()
\* and redeliveries never put it in two places, for any number of tasks.
THEOREM OneOwner == Spec => []ExclusiveOwner
  <1>1. Init => OwnerInv
    BY DEF Init, Idle, OwnerInv, ExclusiveOwner, HeldIsDelivered, HeldBy, Buffered
  <1>2. TypeOK /\ OwnerInv /\ [Next]_vars => OwnerInv'
    BY OwnerStep
  <1>3. OwnerInv => ExclusiveOwner
    BY DEF OwnerInv
  <1>4. QED
    BY <1>1, <1>2, <1>3, TypeCorrect, PTL DEF Spec

-----------------------------------------------------------------------------
(* The buffer and its timer.                                               *)

LEMMA BufferInit == Init => BufferIsTimed
  BY PersisterAssumption DEF Init, BufferIsTimed

LEMMA BufferStep ==
  ASSUME TypeOK, BufferIsTimed, [Next]_vars
  PROVE  BufferIsTimed'
  <1>1. CASE UNCHANGED <<buffer, timer>>
    BY <1>1 DEF BufferIsTimed
  <1>2. CASE buffer' = <<>> /\ timer' = FALSE
    BY <1>2, PersisterAssumption DEF BufferIsTimed
  <1>3. ASSUME NEW m \in Msg, EnqueueAndWait(m)
        PROVE  BufferIsTimed'
    <2> DEFINE d == [msg |-> m, epoch |-> epoch]
    <2>1. buffer \in Seq(Delivery) /\ d \in Delivery
      BY DEF TypeOK, Delivery
    <2>2. buffer' = Append(buffer, d) /\ timer' = TRUE /\ Len(buffer) + 1 < BatchSize
      BY <1>3 DEF EnqueueAndWait
    <2>3. Len(buffer') = Len(buffer) + 1 /\ buffer' # <<>>
      BY <2>1, <2>2
    <2>4. QED
      BY <2>2, <2>3 DEF BufferIsTimed
  <1>4. ASSUME NEW m \in Msg, Receive(m)
        PROVE  BufferIsTimed'
    BY <1>1, <1>2, <1>3, <1>4 DEF Receive, RejectInvalid, EnqueueAndFlush, TakeBatch
  <1>5. ASSUME NEW f \in Flusher, TimerFires(f)
        PROVE  BufferIsTimed'
    BY <1>2, <1>5 DEF TimerFires, TakeBatch
  <1>6. ASSUME NEW f \in Flusher, FlushStep(f)
        PROVE  BufferIsTimed'
    <2>1. UNCHANGED <<buffer, timer>> \/ (buffer' = <<>> /\ timer' = FALSE)
      BY <1>6 DEF FlushStep, CommitBatch, CommitTimesOut, PersistFails, AckNext, AckFails,
                  RecordFailed, RecordRaises, NackNext, NackRaises, Propagate, Die
    <2>2. QED
      BY <1>1, <1>2, <2>1
  <1>7. ASSUME NEW f \in Flusher, Stop(f)
        PROVE  BufferIsTimed'
    <2>1. CASE buffer = <<>>
      BY <1>7, <2>1, PersisterAssumption DEF Stop, BufferIsTimed
    <2>2. CASE buffer # <<>>
      BY <1>2, <1>7, <2>2 DEF Stop, TakeBatch
    <2>3. QED
      BY <2>1, <2>2
  <1>8. CASE CloseChannel \/ Exit \/ Crash \/ ConnectionLost \/ Restart \/ UNCHANGED vars
    BY <1>1, <1>2, <1>8 DEF CloseChannel, Exit, Crash, ConnectionLost, Restart, Die, vars
  <1>9. QED
    BY <1>4, <1>5, <1>6, <1>7, <1>8 DEF Next

\* No batch grows past its size, and no message waits in the buffer without a
\* timer that will flush it.
THEOREM TimedBuffer == Spec => []BufferIsTimed
  BY BufferInit, BufferStep, TypeCorrect, PTL DEF Spec

-----------------------------------------------------------------------------
(* The fate of a batch.                                                    *)

Open(mo) == mo \in {"up", "draining"}

\* what a loop has still to settle
Due(t, i) == t.pc \in {"persist", "record"} \/ (t.pc \in {"ack", "nack"} /\ i >= t.next)

\* On the channel e an item that is due is unsettled, and what a loop has passed was
\* not settled the other way: before the ack loop nothing is settled, and a loop that
\* breaks off has settled nothing of this channel.
Fated(t, e, w, mo) ==
  \A i \in DOMAIN t.items : t.items[i].epoch = e =>
    /\ Open(mo)
    /\ Due(t, i) => w[t.items[i].msg] = "unacked"
    /\ t.pc = "ack" => w[t.items[i].msg] # "dead"
    /\ t.pc = "nack" => w[t.items[i].msg] # "acked"

Waits(s, e, w, mo) ==
  \A i \in DOMAIN s : s[i].epoch = e => Open(mo) /\ w[s[i].msg] = "unacked"

\* Deliveries of a lost channel are in front of those of the next.
Ascending(s) == \A i, j \in DOMAIN s : i <= j => s[i].epoch <= s[j].epoch

Shaped(t) ==
  /\ t.pc = "idle" => t.items = <<>>
  /\ t.pc \in {"persist", "record"} => t.next = 1

FateInv ==
  /\ Ascending(buffer) /\ Waits(buffer, epoch, where, mode)
  /\ \A f \in Flusher :
       Shaped(flush[f]) /\ Ascending(flush[f].items) /\ Fated(flush[f], epoch, where, mode)

LEMMA OtherMessage ==
  ASSUME NEW s \in Seq(Delivery), NEW d \in Delivery, NEW i \in DOMAIN s,
         s[i].epoch = d.epoch, s[i] # d
  PROVE  s[i].msg # d.msg /\ s[i].msg \in Msg
  <1>1. s[i] \in Delivery
    OBVIOUS
  <1>2. s[i].msg \in Msg /\ (s[i].msg = d.msg => s[i] = d)
    BY <1>1 DEF Delivery
  <1>3. QED
    BY <1>2

LEMMA IdleFate ==
  \A e, w, mo : Shaped(Idle) /\ Ascending(Idle.items) /\ Fated(Idle, e, w, mo)
  BY DEF Shaped, Ascending, Fated, Idle

LEMMA EmptyWaits ==
  \A e, w, mo : Ascending(<<>>) /\ Waits(<<>>, e, w, mo)
  BY DEF Ascending, Waits

\* A loop that breaks off at an item of a lost channel has passed no other.
LEMMA RetriedFate ==
  ASSUME NEW t \in FlushTask, NEW e \in Nat, NEW w, NEW mo,
         Ascending(t.items), Fated(t, e, w, mo), t.next \in DOMAIN t.items,
         \A i \in DOMAIN t.items : t.items[i].epoch <= e,
         \/ t.pc = "persist"
         \/ /\ t.pc = "ack"
            /\ ~(/\ Open(mo) /\ t.items[t.next].epoch = e
                 /\ w[t.items[t.next].msg] = "unacked")
  PROVE  /\ Shaped(Retried(t)) /\ Ascending(Retried(t).items)
         /\ Fated(Retried(t), e, w, mo)
  <1>1. /\ Retried(t).items = t.items /\ Retried(t).pc \in {"persist", "record"}
        /\ Retried(t).next = 1
    BY DEF Retried, FlushTask
  <1>2. \A i \in DOMAIN t.items : t.items[i].epoch \in Nat /\ i \in Nat
    <2>1. t.items \in Seq(Delivery)
      BY DEF FlushTask
    <2>2. \A i \in DOMAIN t.items : t.items[i] \in Delivery /\ i \in Nat
      BY <2>1
    <2>3. QED
      BY <2>2 DEF Delivery
  <1>3. ASSUME NEW i \in DOMAIN t.items, t.items[i].epoch = e
        PROVE  Open(mo) /\ w[t.items[i].msg] = "unacked"
    <2>1. CASE t.pc = "persist"
      BY <1>3, <2>1 DEF Fated, Due
    <2>2. CASE t.pc = "ack" /\ i < t.next
      <3>1. t.items[t.next].epoch # e
        BY <1>2, <2>2 DEF Fated, Due
      <3>2. e <= t.items[t.next].epoch /\ t.items[t.next].epoch <= e
        BY <1>2, <1>3, <2>2 DEF Ascending
      <3>3. QED
        BY <1>2, <3>1, <3>2
    <2>3. CASE t.pc = "ack" /\ i >= t.next
      BY <1>3, <2>3 DEF Fated, Due
    <2>4. QED
      BY <1>2, <2>1, <2>2, <2>3
  <1>4. Fated(Retried(t), e, w, mo)
    BY <1>1, <1>3 DEF Fated, Due
  <1>5. QED
    BY <1>1, <1>4 DEF Shaped

\* A message that is settled, or delivered, is none of the items of another holder.
LEMMA OthersFate ==
  ASSUME NEW t \in FlushTask, NEW w \in [Msg -> {"ready", "unacked", "acked", "dead"}],
         NEW mo, NEW d \in Delivery, NEW x,
         d \notin Elements(t.items), Fated(t, d.epoch, w, mo)
  PROVE  Fated(t, d.epoch, [w EXCEPT ![d.msg] = x], mo)
  <1>1. ASSUME NEW i \in DOMAIN t.items, t.items[i].epoch = d.epoch
        PROVE  t.items[i].msg # d.msg /\ t.items[i].msg \in Msg
    BY <1>1, OtherMessage DEF Elements, FlushTask
  <1>2. QED
    BY <1>1 DEF Fated

LEMMA OthersWait ==
  ASSUME NEW s \in Seq(Delivery), NEW w \in [Msg -> {"ready", "unacked", "acked", "dead"}],
         NEW mo, NEW d \in Delivery, NEW x,
         d \notin Elements(s), Waits(s, d.epoch, w, mo)
  PROVE  Waits(s, d.epoch, [w EXCEPT ![d.msg] = x], mo)
  <1>1. ASSUME NEW i \in DOMAIN s, s[i].epoch = d.epoch
        PROVE  s[i].msg # d.msg /\ s[i].msg \in Msg
    BY <1>1, OtherMessage DEF Elements
  <1>2. QED
    BY <1>1 DEF Waits

\* The item at which a loop is gets the fate that the loop gives.
LEMMA SettledFate ==
  ASSUME NEW t \in FlushTask, NEW w \in [Msg -> {"ready", "unacked", "acked", "dead"}],
         NEW e, NEW mo, NEW x,
         \/ t.pc = "ack" /\ x = "acked"
         \/ t.pc = "nack" /\ x = "dead",
         t.next \in DOMAIN t.items, t.items[t.next].epoch = e,
         Once(t.items), Shaped(t), Ascending(t.items), Fated(t, e, w, mo)
  PROVE  /\ Shaped(Advanced(t)) /\ Ascending(Advanced(t).items)
         /\ Fated(Advanced(t), e, [w EXCEPT ![t.items[t.next].msg] = x], mo)
  <1> DEFINE d == t.items[t.next]
             v == [w EXCEPT ![d.msg] = x]
  <1>1. CASE t.next < Len(t.items)
    <2>1. /\ Advanced(t).items = t.items /\ Advanced(t).pc = t.pc
          /\ Advanced(t).next = t.next + 1
      BY <1>1 DEF Advanced, FlushTask
    <2>2. /\ \A i \in DOMAIN t.items : t.items[i] \in Delivery /\ i \in Nat
          /\ d \in Delivery /\ t.next \in Nat
      BY DEF FlushTask
    <2>3. ASSUME NEW i \in DOMAIN t.items, t.items[i].epoch = e, i # t.next
          PROVE  v[t.items[i].msg] = w[t.items[i].msg]
      <3>1. t.items[i] # d
        BY <2>3 DEF Once
      <3>2. t.items[i].msg # d.msg /\ t.items[i].msg \in Msg
        BY <2>2, <2>3, <3>1 DEF Delivery
      <3>3. QED
        BY <3>2
    <2>4. v[d.msg] = x
      BY <2>2 DEF Delivery
    <2>5. Fated(Advanced(t), e, v, mo)
      <3> HIDE DEF v
      <3>1. ASSUME NEW i \in DOMAIN t.items, t.items[i].epoch = e
            PROVE  /\ Open(mo)
                   /\ Due(Advanced(t), i) => v[t.items[i].msg] = "unacked"
                   /\ t.pc = "ack" => v[t.items[i].msg] # "dead"
                   /\ t.pc = "nack" => v[t.items[i].msg] # "acked"
        <4>1. CASE i = t.next
          BY <2>1, <2>2, <2>4, <3>1, <4>1 DEF Fated, Due
        <4>2. CASE i # t.next
          <5>1. Due(Advanced(t), i) => Due(t, i)
            BY <2>1, <2>2, <4>2 DEF Due
          <5>2. QED
            BY <2>3, <3>1, <4>2, <5>1 DEF Fated
        <4>3. QED
          BY <4>1, <4>2
      <3>2. QED
        BY <2>1, <3>1 DEF Fated
    <2>6. QED
      BY <2>1, <2>5 DEF Shaped
  <1>2. CASE ~(t.next < Len(t.items))
    BY <1>2, IdleFate DEF Advanced
  <1>3. QED
    BY <1>1, <1>2

\* A batch that is taken has waited.
LEMMA TakenFate ==
  ASSUME NEW s \in Seq(Delivery), NEW e, NEW w, NEW mo, NEW trigger,
         Ascending(s), Waits(s, e, w, mo)
  PROVE  LET u == [pc |-> "persist", items |-> s, attempt |-> 1, next |-> 1,
                   trigger |-> trigger]
         IN  Shaped(u) /\ Ascending(u.items) /\ Fated(u, e, w, mo)
  BY DEF Shaped, Fated, Waits, Due

LEMMA AppendedWaits ==
  ASSUME NEW s \in Seq(Delivery), NEW w \in [Msg -> {"ready", "unacked", "acked", "dead"}],
         NEW mo, NEW d \in Delivery, Open(mo), d \notin Elements(s),
         \A i \in DOMAIN s : s[i].epoch <= d.epoch,
         Ascending(s), Waits(s, d.epoch, w, mo)
  PROVE  /\ Ascending(Append(s, d))
         /\ Waits(Append(s, d), d.epoch, [w EXCEPT ![d.msg] = "unacked"], mo)
  <1>1. /\ DOMAIN Append(s, d) = 1..(Len(s) + 1)
        /\ DOMAIN s = 1..Len(s)
        /\ Append(s, d)[Len(s) + 1] = d
        /\ \A i \in 1..Len(s) : Append(s, d)[i] = s[i]
        /\ Len(s) \in Nat
    OBVIOUS
  <1>2. Waits(s, d.epoch, [w EXCEPT ![d.msg] = "unacked"], mo)
    BY OthersWait
  <1>3. d.epoch \in Nat /\ d.msg \in Msg
    BY DEF Delivery
  <1>4. QED
    BY <1>1, <1>2, <1>3 DEF Ascending, Waits

\* What is held came on this channel or an earlier one.
LEMMA HeldBound ==
  ASSUME TypeOK, OwnerInv
  PROVE  /\ \A i \in DOMAIN buffer : buffer[i].epoch <= epoch
         /\ \A f \in Flusher : \A i \in DOMAIN flush[f].items : flush[f].items[i].epoch <= epoch
  BY DEF OwnerInv, HeldIsDelivered, Buffered, HeldBy

\* With its channel the fate of a delivery is out of the worker's hands.
LEMMA LostFate ==
  ASSUME TypeOK, OwnerInv, FateInv, epoch' = epoch + 1,
         buffer' \in {buffer, <<>>}, \A f \in Flusher : flush'[f] \in {flush[f], Idle}
  PROVE  FateInv'
  <1>1. ASSUME NEW s \in Seq(Delivery), \A i \in DOMAIN s : s[i].epoch <= epoch
        PROVE  \A i \in DOMAIN s : s[i].epoch # epoch'
    <2>1. \A i \in DOMAIN s : s[i].epoch \in Nat
      <3>1. \A i \in DOMAIN s : s[i] \in Delivery
        OBVIOUS
      <3>2. QED
        BY <3>1 DEF Delivery
    <2>2. epoch \in Nat
      BY DEF TypeOK
    <2>3. QED
      BY <1>1, <2>1, <2>2
  <1>2. Ascending(buffer') /\ Waits(buffer', epoch', where', mode')
    <2>1. CASE buffer' = buffer
      BY <1>1, <2>1, HeldBound DEF TypeOK, FateInv, Waits
    <2>2. CASE buffer' = <<>>
      BY <2>2, EmptyWaits
    <2>3. QED
      BY <2>1, <2>2
  <1>3. ASSUME NEW f \in Flusher
        PROVE  /\ Shaped(flush'[f]) /\ Ascending(flush'[f].items)
               /\ Fated(flush'[f], epoch', where', mode')
    <2>1. CASE flush'[f] = flush[f]
      <3>1. flush[f].items \in Seq(Delivery)
        BY DEF TypeOK, FlushTask
      <3>2. \A i \in DOMAIN flush[f].items : flush[f].items[i].epoch # epoch'
        BY <1>1, <3>1, HeldBound
      <3>3. QED
        BY <2>1, <3>2 DEF FateInv, Fated
    <2>2. CASE flush'[f] = Idle
      BY <2>2, IdleFate
    <2>3. QED
      BY <2>1, <2>2
  <1>4. QED
    BY <1>2, <1>3 DEF FateInv

\* One task moves on, and nothing is settled.
LEMMA MovedFate ==
  ASSUME TypeOK, FateInv, NEW f \in Flusher, NEW u,
         flush' = [flush EXCEPT ![f] = u],
         Shaped(u), Ascending(u.items), Fated(u, epoch, where, mode),
         UNCHANGED <<where, epoch, mode>>, buffer' \in {buffer, <<>>}
  PROVE  FateInv'
  <1>1. Ascending(buffer') /\ Waits(buffer', epoch', where', mode')
    BY EmptyWaits DEF FateInv
  <1>2. ASSUME NEW g \in Flusher
        PROVE  /\ Shaped(flush'[g]) /\ Ascending(flush'[g].items)
               /\ Fated(flush'[g], epoch', where', mode')
    BY DEF TypeOK, FateInv
  <1>3. QED
    BY <1>1, <1>2 DEF FateInv

\* One task moves on, having settled a delivery that it holds.
LEMMA OneSettledFate ==
  ASSUME TypeOK, OwnerInv, FateInv, NEW f \in Flusher, NEW u, NEW d \in HeldBy(f), NEW x,
         d.epoch = epoch, where' = [where EXCEPT ![d.msg] = x],
         flush' = [flush EXCEPT ![f] = u],
         Shaped(u), Ascending(u.items), Fated(u, epoch, where', mode),
         UNCHANGED <<epoch, mode, buffer>>
  PROVE  FateInv'
  <1>0. /\ d \in Delivery /\ buffer \in Seq(Delivery)
        /\ where \in [Msg -> {"ready", "unacked", "acked", "dead"}]
        /\ \A g \in Flusher : flush[g] \in FlushTask
        /\ d \in Elements(flush[f].items)
    BY DEF TypeOK, HeldBy, FlushTask, Elements
  <1>1. /\ d \notin Elements(buffer)
        /\ \A g \in Flusher \ {f} : d \notin Elements(flush[g].items)
    BY <1>0, OwnerForms DEF OwnerInv
  <1>2. Ascending(buffer') /\ Waits(buffer', epoch', where', mode')
    BY <1>0, <1>1, OthersWait DEF FateInv
  <1>3. ASSUME NEW g \in Flusher \ {f}
        PROVE  /\ Shaped(flush'[g]) /\ Ascending(flush'[g].items)
               /\ Fated(flush'[g], epoch', where', mode')
    <2>1. flush'[g] = flush[g]
      BY DEF TypeOK
    <2>2. Fated(flush[g], d.epoch, where, mode) /\ flush[g] \in FlushTask
      BY <1>0 DEF FateInv
    <2>3. Fated(flush[g], d.epoch, [where EXCEPT ![d.msg] = x], mode)
      BY <1>0, <1>1, <2>2, OthersFate
    <2>4. QED
      BY <2>1, <2>3 DEF FateInv
  <1>4. flush'[f] = u
    BY DEF TypeOK
  <1>5. QED
    BY <1>2, <1>3, <1>4 DEF FateInv

\* The steps of a flush task.
LEMMA FlushStepFate ==
  ASSUME TypeOK, OwnerInv, LoopInBounds, FateInv, NEW f \in Flusher, FlushStep(f)
  PROVE  FateInv'
  <1> DEFINE t == flush[f]
             at == t.items[t.next]
  <1>0. /\ t \in FlushTask /\ epoch \in Nat
        /\ Shaped(t) /\ Ascending(t.items) /\ Fated(t, epoch, where, mode)
        /\ \A i \in DOMAIN t.items : t.items[i].epoch <= epoch
        /\ flush \in [Flusher -> FlushTask]
        /\ where \in [Msg -> {"ready", "unacked", "acked", "dead"}]
    BY HeldBound DEF TypeOK, FateInv
  <1>1. t.pc # "idle" => t.next \in DOMAIN t.items /\ at \in HeldBy(f) /\ at \in Delivery
    <2>1. t.pc # "idle" => t.next \in DOMAIN t.items
      BY DEF LoopInBounds
    <2>2. QED
      BY <1>0, <2>1 DEF HeldBy, FlushTask
  <1>2. Once(t.items)
    BY OwnerForms DEF OwnerInv
  <1>3. CASE CommitBatch(f)
    <2>1. t.pc = "persist" /\ flush' = [flush EXCEPT ![f] = [t EXCEPT !.pc = "ack"]]
      BY <1>0, <1>3 DEF CommitBatch
    <2> DEFINE u == [t EXCEPT !.pc = "ack"]
    <2>2. u.items = t.items /\ u.pc = "ack" /\ u.next = t.next
      BY <1>0 DEF FlushTask
    <2>3. Shaped(u) /\ Ascending(u.items) /\ Fated(u, epoch, where, mode)
      BY <1>0, <2>1, <2>2 DEF Shaped, Fated, Due
    <2>4. QED
      BY <1>3, <2>1, <2>3, MovedFate DEF CommitBatch, broker
  <1>4. CASE CommitTimesOut(f) \/ PersistFails(f) \/ AckFails(f)
    <2>1. /\ \/ t.pc = "persist"
             \/ t.pc = "ack" /\ ~Settleable(at)
          /\ flush' = [flush EXCEPT ![f] = Retried(t)]
          /\ UNCHANGED <<where, epoch, mode, buffer>>
      BY <1>4 DEF CommitTimesOut, PersistFails, AckFails, Retry, broker
    <2>2. /\ Shaped(Retried(t)) /\ Ascending(Retried(t).items)
          /\ Fated(Retried(t), epoch, where, mode)
      BY <1>0, <1>1, <2>1, RetriedFate DEF Settleable, ChannelOpen, Open
    <2>3. QED
      BY <2>1, <2>2, MovedFate
  <1>5. CASE AckNext(f) \/ NackNext(f)
    <2> DEFINE x == IF t.pc = "ack" THEN "acked" ELSE "dead"
    <2>1. /\ t.pc \in {"ack", "nack"} /\ Settleable(at)
          /\ where' = [where EXCEPT ![at.msg] = x]
          /\ flush' = [flush EXCEPT ![f] = Advanced(t)]
          /\ UNCHANGED <<epoch, mode, buffer>>
      BY <1>5 DEF AckNext, NackNext, Advance
    <2>2. at.epoch = epoch
      BY <2>1 DEF Settleable
    <2>3. /\ Shaped(Advanced(t)) /\ Ascending(Advanced(t).items)
          /\ Fated(Advanced(t), epoch, where', mode)
      BY <1>0, <1>1, <1>2, <2>1, <2>2, SettledFate
    <2> HIDE DEF x
    <2>4. QED
      BY <1>1, <2>1, <2>2, <2>3, OneSettledFate
  <1>6. CASE RecordFailed(f)
    <2>1. t.pc = "record" /\ flush' = [flush EXCEPT ![f] = [t EXCEPT !.pc = "nack"]]
      BY <1>0, <1>6 DEF RecordFailed
    <2> DEFINE u == [t EXCEPT !.pc = "nack"]
    <2>2. u.items = t.items /\ u.pc = "nack" /\ u.next = t.next
      BY <1>0 DEF FlushTask
    <2>3. Shaped(u) /\ Ascending(u.items) /\ Fated(u, epoch, where, mode)
      BY <1>0, <2>1, <2>2 DEF Shaped, Fated, Due
    <2>4. QED
      BY <1>6, <2>1, <2>3, MovedFate DEF RecordFailed, broker
  <1>7. CASE RecordRaises(f) \/ NackRaises(f)
    <2> DEFINE u == [t EXCEPT !.pc = "raised"]
    <2>1. flush' = [flush EXCEPT ![f] = u] /\ UNCHANGED <<where, epoch, mode, buffer>>
      BY <1>0, <1>7 DEF RecordRaises, NackRaises, broker
    <2>2. u.items = t.items /\ u.pc = "raised"
      BY <1>0 DEF FlushTask
    <2>3. Shaped(u) /\ Ascending(u.items) /\ Fated(u, epoch, where, mode)
      BY <1>0, <2>2 DEF Shaped, Fated, Due
    <2>4. QED
      BY <2>1, <2>3, MovedFate
  <1>8. CASE Propagate(f)
    <2> DEFINE last == t.items[Len(t.items)]
    <2>1. CASE Die
      BY <2>1, LostFate DEF Die, LoseChannel
    <2>2. CASE flush' = [flush EXCEPT ![f] = Idle] /\ UNCHANGED <<where, epoch, mode, buffer>>
      BY <2>2, IdleFate, MovedFate
    <2>3. CASE /\ t.pc = "raised" /\ Settleable(last)
               /\ where' = [where EXCEPT ![last.msg] = "dead"]
               /\ flush' = [flush EXCEPT ![f] = Idle]
               /\ UNCHANGED <<epoch, mode, buffer>>
      <3>1. last \in HeldBy(f)
        BY <1>0, <1>1, <2>3 DEF HeldBy, FlushTask
      <3>2. last.epoch = epoch
        BY <2>3 DEF Settleable
      <3> HIDE DEF last
      <3>3. QED
        BY <2>3, <3>1, <3>2, IdleFate, OneSettledFate
    <2>4. QED
      BY <1>8, <2>1, <2>2, <2>3 DEF Propagate, broker
  <1>9. QED
    BY <1>3, <1>4, <1>5, <1>6, <1>7, <1>8 DEF FlushStep

\* The steps that fill the buffer and take it.
LEMMA TakenBatchFate ==
  ASSUME TypeOK, NEW f \in Flusher, NEW s \in Seq(Delivery), NEW trigger,
         TakeBatch(f, s, trigger), Ascending(s), Waits(s, epoch', where', mode'),
         \A g \in Flusher \ {f} :
           /\ Shaped(flush[g]) /\ Ascending(flush[g].items)
           /\ Fated(flush[g], epoch', where', mode')
  PROVE  FateInv'
  <1>1. /\ Shaped(flush'[f]) /\ Ascending(flush'[f].items)
        /\ Fated(flush'[f], epoch', where', mode')
    <2>1. flush'[f] = [pc |-> "persist", items |-> s, attempt |-> 1, next |-> 1,
                       trigger |-> trigger]
      BY DEF TakeBatch, TypeOK
    <2>2. QED
      BY <2>1, TakenFate
  <1>2. \A g \in Flusher \ {f} : flush'[g] = flush[g]
    BY DEF TakeBatch, TypeOK
  <1>3. Ascending(buffer') /\ Waits(buffer', epoch', where', mode')
    BY EmptyWaits DEF TakeBatch
  <1>4. QED
    BY <1>1, <1>2, <1>3 DEF FateInv

LEMMA ReceiveFate ==
  ASSUME TypeOK, OwnerInv, FateInv, NEW m \in Msg, Receive(m)
  PROVE  FateInv'
  <1> DEFINE d == [msg |-> m, epoch |-> epoch]
  <1>0. /\ where \in [Msg -> {"ready", "unacked", "acked", "dead"}] /\ epoch \in Nat
        /\ buffer \in Seq(Delivery) /\ \A g \in Flusher : flush[g] \in FlushTask
        /\ d.epoch = epoch /\ d.msg = m
    BY DEF TypeOK
  <1>1. /\ where[m] = "ready" /\ Open(mode)
        /\ UNCHANGED <<epoch, mode>>
    BY DEF Receive, RejectInvalid, EnqueueAndWait, EnqueueAndFlush, Deliverable, ChannelOpen, Open
  <1>2. /\ d \in Delivery /\ d \notin Elements(buffer)
        /\ \A g \in Flusher : d \notin Elements(flush[g].items)
    BY <1>1, FreshDelivery
  <1> HIDE DEF d
  <1>3. ASSUME NEW x, NEW g \in Flusher
        PROVE  /\ Shaped(flush[g]) /\ Ascending(flush[g].items)
               /\ Fated(flush[g], epoch, [where EXCEPT ![m] = x], mode)
    <2>1. /\ Shaped(flush[g]) /\ Ascending(flush[g].items)
          /\ Fated(flush[g], d.epoch, where, mode)
      BY <1>0 DEF FateInv
    <2>2. Fated(flush[g], d.epoch, [where EXCEPT ![d.msg] = x], mode)
      BY <1>0, <1>2, <2>1, OthersFate
    <2>3. QED
      BY <1>0, <2>1, <2>2
  <1>4. /\ Ascending(Append(buffer, d)) /\ Append(buffer, d) \in Seq(Delivery)
        /\ Waits(Append(buffer, d), epoch, [where EXCEPT ![m] = "unacked"], mode)
    <2>1. \A i \in DOMAIN buffer : buffer[i].epoch <= d.epoch
      BY <1>0, HeldBound
    <2>2. Ascending(buffer) /\ Waits(buffer, d.epoch, where, mode)
      BY <1>0 DEF FateInv
    <2>3. /\ Ascending(Append(buffer, d))
          /\ Waits(Append(buffer, d), d.epoch, [where EXCEPT ![d.msg] = "unacked"], mode)
      BY <1>0, <1>1, <1>2, <2>1, <2>2, AppendedWaits
    <2>4. QED
      BY <1>0, <1>2, <2>3
  <1>5. CASE RejectInvalid(m)
    <2>1. where' = [where EXCEPT ![m] = "dead"] /\ UNCHANGED <<buffer, flush>>
      BY <1>5 DEF RejectInvalid
    <2>2. Waits(buffer, d.epoch, where, mode)
      BY <1>0 DEF FateInv
    <2>3. Waits(buffer, d.epoch, [where EXCEPT ![d.msg] = "dead"], mode)
      BY <1>0, <1>2, <2>2, OthersWait
    <2>4. Ascending(buffer') /\ Waits(buffer', epoch', where', mode')
      BY <1>0, <1>1, <2>1, <2>3 DEF FateInv
    <2>5. QED
      BY <1>1, <1>3, <2>1, <2>4 DEF FateInv
  <1>6. CASE EnqueueAndWait(m)
    <2>1. /\ where' = [where EXCEPT ![m] = "unacked"] /\ UNCHANGED flush
          /\ buffer' = Append(buffer, d)
      BY <1>6 DEF EnqueueAndWait, d
    <2>2. QED
      BY <1>1, <1>3, <1>4, <2>1 DEF FateInv
  <1>7. ASSUME NEW f \in Flusher, EnqueueAndFlush(m, f)
        PROVE  FateInv'
    <2>1. /\ where' = [where EXCEPT ![m] = "unacked"]
          /\ TakeBatch(f, Append(buffer, d), "size")
      BY <1>7 DEF EnqueueAndFlush, d
    <2>2. QED
      BY <1>1, <1>3, <1>4, <2>1, TakenBatchFate
  <1>8. QED
    BY <1>5, <1>6, <1>7 DEF Receive

LEMMA FateStep ==
  ASSUME TypeOK, OwnerInv, LoopInBounds, FateInv, [Next]_vars
  PROVE  FateInv'
  <1>1. ASSUME NEW f \in Flusher, NEW trigger, TakeBatch(f, buffer, trigger),
               UNCHANGED broker, Open(mode')
        PROVE  FateInv'
    <2>1. buffer \in Seq(Delivery)
      BY DEF TypeOK
    <2>2. Ascending(buffer) /\ Waits(buffer, epoch', where', mode')
      BY <1>1 DEF FateInv, Waits, broker
    <2>3. \A g \in Flusher :
            /\ Shaped(flush[g]) /\ Ascending(flush[g].items)
            /\ Fated(flush[g], epoch', where', mode')
      BY <1>1 DEF FateInv, Fated, broker
    <2>4. QED
      BY <1>1, <2>1, <2>2, <2>3, TakenBatchFate
  <1>2. ASSUME NEW f \in Flusher, TimerFires(f)
        PROVE  FateInv'
    <2>1. TakeBatch(f, buffer, "timeout") /\ UNCHANGED <<broker, mode>>
      BY <1>2 DEF TimerFires
    <2>2. /\ Waits(buffer, epoch', where', mode')
          /\ \A g \in Flusher :
               /\ Shaped(flush[g]) /\ Ascending(flush[g].items)
               /\ Fated(flush[g], epoch', where', mode')
      BY <2>1 DEF FateInv, broker
    <2>3. buffer \in Seq(Delivery) /\ Ascending(buffer)
      BY DEF TypeOK, FateInv
    <2>4. QED
      BY <2>1, <2>2, <2>3, TakenBatchFate
  <1>3. ASSUME NEW f \in Flusher, Stop(f)
        PROVE  FateInv'
    <2>1. mode = "up" /\ mode' = "draining" /\ UNCHANGED broker
      BY <1>3 DEF Stop
    <2>2. CASE TakeBatch(f, buffer, "shutdown")
      BY <1>1, <2>1, <2>2 DEF Open
    <2>3. CASE UNCHANGED <<buffer, flush>>
      BY <2>1, <2>3 DEF FateInv, Fated, Waits, Open, broker
    <2>4. QED
      BY <1>3, <2>2, <2>3 DEF Stop
  <1>4. CASE CloseChannel \/ Exit \/ Crash \/ ConnectionLost
    BY <1>4, LostFate DEF CloseChannel, Exit, Crash, ConnectionLost, Die, LoseChannel
  <1>5. CASE Restart
    <2>1. mode = "down" /\ mode' = "up" /\ UNCHANGED <<broker, buffer, flush>>
      BY <1>5 DEF Restart
    <2>2. QED
      BY <2>1 DEF FateInv, Fated, Waits, Open, broker
  <1>6. CASE UNCHANGED vars
    BY <1>6 DEF FateInv, vars, broker
  <1>7. QED
    BY <1>2, <1>3, <1>4, <1>5, <1>6, ReceiveFate, FlushStepFate DEF Next

LEMMA FateInit == Init => FateInv
  BY EmptyWaits, IdleFate DEF Init, FateInv

LEMMA OwnerInvariant == Spec => []OwnerInv
  <1>1. Init => OwnerInv
    BY DEF Init, Idle, OwnerInv, ExclusiveOwner, HeldIsDelivered, HeldBy, Buffered
  <1>2. TypeOK /\ OwnerInv /\ [Next]_vars => OwnerInv'
    BY OwnerStep
  <1>3. QED
    BY <1>1, <1>2, TypeCorrect, PTL DEF Spec

LEMMA BoundsInvariant == Spec => []LoopInBounds
  BY CommitInvariant, PTL DEF CommitInv

LEMMA FateInvariant == Spec => []FateInv
  BY FateInit, FateStep, TypeCorrect, OwnerInvariant, BoundsInvariant, PTL DEF Spec

\* While its channel lives a batch is acknowledged or dead-lettered, and never in part
\* the one and in part the other, under every fault: whatever ends the ack loop early
\* has taken the channel along, and the batch that is persisted again holds nothing
\* that was acknowledged.
THEOREM OneFate == Spec => []BatchHasOneFate
  <1>1. FateInv => BatchHasOneFate
    BY DEF FateInv, Fated, BatchHasOneFate, HeldBy
  <1>2. QED
    BY <1>1, FateInvariant, PTL

-----------------------------------------------------------------------------
(* Nobody is left behind.                                                  *)

\* Without a driver error out of the error handler, and without a channel that is
\* reopened under the worker, what is held came on the open channel, no task is on
\* its way out with an exception, and a process that is down holds nothing.
Attached ==
  /\ mode = "down" => Unacked = {} /\ buffer = <<>> /\ \A f \in Flusher : flush[f].items = <<>>
  /\ ChannelOpen =>
       /\ \A d \in Buffered \cup UNION {HeldBy(f) : f \in Flusher} : d.epoch = epoch
       /\ \A f \in Flusher : flush[f].pc # "raised"

StrandInv == Attached /\ NothingStranded

Calm == Faults \cap {"rawerror", "reconnect"} = {}

RemainingOf(t) ==
  {t.items[i] : i \in {j \in DOMAIN t.items : t.pc \in {"ack", "nack"} => j >= t.next}}

HeldNow == Buffered \cup UNION {HeldBy(f) : f \in Flusher}
LeftNow == Buffered \cup UNION {Remaining(f) : f \in Flusher}

LEMMA StrandForms ==
  /\ HeldNow = Elements(buffer) \cup UNION {Elements(flush[f].items) : f \in Flusher}
  /\ LeftNow = Elements(buffer) \cup UNION {RemainingOf(flush[f]) : f \in Flusher}
  BY DEF HeldNow, LeftNow, Buffered, HeldBy, Remaining, RemainingOf, Elements

LEMMA StrandKept ==
  ASSUME StrandInv, ChannelOpen, ChannelOpen', epoch' = epoch,
         \A d \in HeldNow' : d \in HeldNow \/ d.epoch = epoch,
         \A f \in Flusher : flush'[f].pc # "raised",
         \A m \in Unacked' : [msg |-> m, epoch |-> epoch] \in LeftNow'
  PROVE  StrandInv'
  BY DEF StrandInv, Attached, NothingStranded, ChannelOpen, HeldNow, LeftNow

\* A task moves on in its batch, which is all still to be settled.
LEMMA MovedStrand ==
  ASSUME TypeOK, StrandInv, ChannelOpen, NEW f \in Flusher, NEW u,
         flush' = [flush EXCEPT ![f] = u], u.items = flush[f].items,
         u.pc # "raised", u.pc \in {"ack", "nack"} => u.next = 1,
         UNCHANGED <<where, epoch, mode, buffer>>
  PROVE  StrandInv'
  <1>0. /\ flush'[f] = u /\ \A g \in Flusher \ {f} : flush'[g] = flush[g]
        /\ flush[f].items \in Seq(Delivery)
    BY DEF TypeOK, FlushTask
  <1>1. HeldNow' = HeldNow
    BY <1>0, StrandForms DEF HeldNow, Buffered, HeldBy
  <1>2. RemainingOf(flush[f]) \subseteq RemainingOf(u)
    BY <1>0 DEF RemainingOf
  <1>3. LeftNow \subseteq LeftNow'
    <2>1. \A g \in Flusher : Remaining(g) \subseteq Remaining(g)'
      BY <1>0, <1>2 DEF Remaining, RemainingOf
    <2>2. QED
      BY <2>1 DEF LeftNow, Buffered
  <1>4. \A m \in Unacked' : [msg |-> m, epoch |-> epoch] \in LeftNow'
    BY <1>3 DEF StrandInv, NothingStranded, Unacked, LeftNow
  <1>5. QED
    BY <1>0, <1>1, <1>4, StrandKept DEF StrandInv, Attached, ChannelOpen

\* A loop settles the item it is at, and has the items behind it left.
LEMMA SettledStrand ==
  ASSUME TypeOK, StrandInv, ChannelOpen, NEW f \in Flusher, NEW x \in {"acked", "dead"},
         flush[f].pc \in {"ack", "nack"}, flush[f].next \in DOMAIN flush[f].items,
         where' = [where EXCEPT ![flush[f].items[flush[f].next].msg] = x],
         flush' = [flush EXCEPT ![f] = Advanced(flush[f])],
         UNCHANGED <<epoch, mode, buffer>>
  PROVE  StrandInv'
  <1> DEFINE t == flush[f]
             at == t.items[t.next]
             u == Advanced(t)
  <1>0. /\ flush'[f] = u /\ \A g \in Flusher \ {f} : flush'[g] = flush[g]
        /\ t \in FlushTask
    BY DEF TypeOK
  <1>1. /\ u.items \in {t.items, <<>>} /\ u.pc # "raised"
        /\ t.next < Len(t.items) => u.items = t.items /\ u.next = t.next + 1
    BY <1>0 DEF Advanced, Idle, FlushTask
  <1>2. HeldNow' \subseteq HeldNow
    <2>1. \A g \in Flusher : HeldBy(g)' \subseteq HeldBy(g)
      BY <1>0, <1>1 DEF HeldBy
    <2>2. QED
      BY <2>1 DEF HeldNow, Buffered
  <1>3. \A d \in RemainingOf(t) : d = at \/ d \in RemainingOf(u)
    <2>1. /\ DOMAIN t.items = 1..Len(t.items) /\ t.next \in Nat /\ Len(t.items) \in Nat
          /\ t.pc \in {"ack", "nack"}
      BY <1>0 DEF FlushTask
    <2>2. ASSUME NEW j \in DOMAIN t.items, j >= t.next, j # t.next
          PROVE  t.items[j] \in RemainingOf(u)
      <3>1. u.items = t.items /\ u.next = t.next + 1 /\ j >= u.next
        BY <1>1, <2>1, <2>2
      <3>2. QED
        BY <3>1 DEF RemainingOf
    <2>3. QED
      BY <2>1, <2>2 DEF RemainingOf
  <1>4. ASSUME NEW m \in Unacked'
        PROVE  [msg |-> m, epoch |-> epoch] \in LeftNow'
    <2>1. m \in Unacked /\ m # at.msg
      <3>1. at.msg \in Msg
        <4>1. at \in Delivery
          BY <1>0 DEF FlushTask
        <4>2. QED
          BY <4>1 DEF Delivery
      <3>2. QED
        BY <3>1 DEF Unacked, TypeOK
    <2>2. [msg |-> m, epoch |-> epoch] \in LeftNow
      BY <2>1 DEF StrandInv, NothingStranded, LeftNow
    <2>3. CASE [msg |-> m, epoch |-> epoch] \in Buffered
      BY <2>3 DEF LeftNow, Buffered
    <2>4. ASSUME NEW g \in Flusher, [msg |-> m, epoch |-> epoch] \in Remaining(g)
          PROVE  [msg |-> m, epoch |-> epoch] \in Remaining(g)'
      <3>1. CASE g = f
        BY <1>0, <1>3, <2>1, <2>4, <3>1 DEF Remaining, RemainingOf
      <3>2. CASE g # f
        BY <1>0, <2>4, <3>2 DEF Remaining
      <3>3. QED
        BY <3>1, <3>2
    <2>5. QED
      BY <2>2, <2>3, <2>4 DEF LeftNow
  <1>5. \A g \in Flusher : flush'[g].pc # "raised"
    BY <1>0, <1>1 DEF StrandInv, Attached
  <1> HIDE DEF u, at, t
  <1>6. QED
    BY <1>2, <1>4, <1>5, StrandKept DEF ChannelOpen

\* A task takes the buffer, with what came last.
LEMMA TakenStrand ==
  ASSUME TypeOK, StrandInv, FateInv, ChannelOpen, ChannelOpen', epoch' = epoch,
         NEW f \in Flusher, NEW s \in Seq(Delivery), NEW trigger,
         TakeBatch(f, s, trigger), Elements(buffer) \subseteq Elements(s),
         \A d \in Elements(s) : d \in Buffered \/ d.epoch = epoch,
         \A m \in Unacked' : m \in Unacked \/ [msg |-> m, epoch |-> epoch] \in Elements(s)
  PROVE  StrandInv'
  <1> DEFINE u == [pc |-> "persist", items |-> s, attempt |-> 1, next |-> 1,
                   trigger |-> trigger]
  <1>0. /\ flush'[f] = u /\ \A g \in Flusher \ {f} : flush'[g] = flush[g]
        /\ flush[f].items = <<>> /\ buffer' = <<>>
    BY DEF TypeOK, TakeBatch, FateInv, Shaped
  <1>1. /\ HeldBy(f)' = Elements(s) /\ Remaining(f)' = Elements(s)
        /\ Remaining(f) = {} /\ Buffered' = {}
        /\ \A g \in Flusher \ {f} : HeldBy(g)' = HeldBy(g) /\ Remaining(g)' = Remaining(g)
    BY <1>0 DEF HeldBy, Remaining, Elements, Buffered
  <1>2. Buffered = Elements(buffer)
    BY DEF Buffered, Elements
  <1>3. \A d \in HeldNow' : d \in HeldNow \/ d.epoch = epoch
    BY <1>1 DEF HeldNow
  <1>4. LeftNow \subseteq LeftNow' /\ Elements(s) \subseteq LeftNow'
    BY <1>1, <1>2 DEF LeftNow
  <1>5. \A m \in Unacked' : [msg |-> m, epoch |-> epoch] \in LeftNow'
    BY <1>4 DEF StrandInv, NothingStranded, LeftNow
  <1>6. \A g \in Flusher : flush'[g].pc # "raised"
    BY <1>0 DEF StrandInv, Attached
  <1>7. QED
    BY <1>3, <1>5, <1>6, StrandKept

\* On the open channel the item a loop is at can be settled.
LEMMA LoopSettles ==
  ASSUME TypeOK, LoopInBounds, FateInv, StrandInv, ChannelOpen,
         NEW f \in Flusher, flush[f].pc # "idle"
  PROVE  /\ flush[f].pc # "raised"
         /\ flush[f].pc \in {"ack", "nack"} => Settleable(flush[f].items[flush[f].next])
  <1> DEFINE t == flush[f]
             at == t.items[t.next]
  <1>1. t \in FlushTask /\ t.next \in DOMAIN t.items
    BY DEF TypeOK, LoopInBounds
  <1>2. at \in HeldBy(f)
    BY <1>1 DEF HeldBy
  <1>3. at.epoch = epoch /\ t.pc # "raised"
    BY <1>2 DEF StrandInv, Attached
  <1>4. t.next \in Nat /\ Fated(t, epoch, where, mode)
    BY <1>1 DEF FateInv, FlushTask
  <1>5. t.pc \in {"ack", "nack"} => where[at.msg] = "unacked"
    BY <1>1, <1>3, <1>4 DEF Fated, Due
  <1>6. QED
    BY <1>3, <1>5 DEF Settleable

LEMMA FlushStepStrand ==
  ASSUME TypeOK, OwnerInv, LoopInBounds, FateInv, StrandInv, Calm,
         NEW f \in Flusher, FlushStep(f)
  PROVE  StrandInv'
  <1> DEFINE t == flush[f]
             at == t.items[t.next]
  <1>0. t \in FlushTask /\ t.pc # "idle" /\ t.next \in DOMAIN t.items
    BY DEF TypeOK, FlushStep, LoopInBounds, CommitBatch, CommitTimesOut, PersistFails, AckNext,
       AckFails, RecordFailed, RecordRaises, NackNext, NackRaises, Propagate
  <1>1. mode # "down"
    BY <1>0 DEF StrandInv, Attached
  <1>2. CASE Die
    BY <1>2 DEF Die, StrandInv, Attached, NothingStranded, ChannelOpen, LoseChannel, Requeued,
       Unacked, TypeOK, Idle
  <1>3. CASE ~ChannelOpen /\ mode' = mode
    BY <1>1, <1>3 DEF StrandInv, Attached, NothingStranded, ChannelOpen
  <1>4. ASSUME ChannelOpen, mode' = mode
        PROVE  StrandInv'
    <2>1. t.pc # "raised" /\ (t.pc \in {"ack", "nack"} => Settleable(at))
      BY <1>0, <1>4, LoopSettles
    <2>2. t.pc \in {"persist", "record"} => t.next = 1
      BY DEF FateInv, Shaped
    <2>3. CASE CommitBatch(f)
      <3>1. t.pc = "persist" /\ flush' = [flush EXCEPT ![f] = [t EXCEPT !.pc = "ack"]]
        BY <2>3 DEF CommitBatch, TypeOK
      <3> DEFINE u == [t EXCEPT !.pc = "ack"]
      <3>2. u.items = t.items /\ u.pc = "ack" /\ u.next = 1
        BY <1>0, <2>2, <3>1 DEF FlushTask
      <3> HIDE DEF u
      <3>3. QED
        BY <1>4, <2>3, <3>1, <3>2, MovedStrand DEF CommitBatch, broker, u
    <2>4. CASE CommitTimesOut(f) \/ PersistFails(f)
      <3>1. Retried(t).items = t.items /\ Retried(t).pc \in {"persist", "record"}
        BY <1>0 DEF Retried, FlushTask
      <3>2. /\ flush' = [flush EXCEPT ![f] = Retried(t)]
            /\ UNCHANGED <<where, epoch, mode, buffer>>
        BY <2>4 DEF CommitTimesOut, PersistFails, Retry, broker
      <3>3. QED
        BY <1>4, <3>1, <3>2, MovedStrand
    <2>5. CASE AckNext(f) \/ NackNext(f)
      <3>1. /\ t.pc \in {"ack", "nack"}
            /\ flush' = [flush EXCEPT ![f] = Advanced(t)]
            /\ UNCHANGED <<epoch, mode, buffer>>
            /\ \/ where' = [where EXCEPT ![at.msg] = "acked"]
               \/ where' = [where EXCEPT ![at.msg] = "dead"]
        BY <2>5 DEF AckNext, NackNext, Advance
      <3>2. QED
        BY <1>0, <1>4, <3>1, SettledStrand
    <2>6. CASE RecordFailed(f)
      <3>1. t.pc = "record" /\ flush' = [flush EXCEPT ![f] = [t EXCEPT !.pc = "nack"]]
        BY <2>6 DEF RecordFailed, TypeOK
      <3> DEFINE u == [t EXCEPT !.pc = "nack"]
      <3>2. u.items = t.items /\ u.pc = "nack" /\ u.next = 1
        BY <1>0, <2>2, <3>1 DEF FlushTask
      <3> HIDE DEF u
      <3>3. QED
        BY <1>4, <2>6, <3>1, <3>2, MovedStrand DEF RecordFailed, broker, u
    <2>7. ~AckFails(f) /\ ~NackRaises(f) /\ ~RecordRaises(f) /\ ~Propagate(f)
      BY <2>1 DEF AckFails, NackRaises, RecordRaises, Propagate, Calm
    <2>8. QED
      BY <2>3, <2>4, <2>5, <2>6, <2>7 DEF FlushStep
  <1>5. mode' = mode \/ Die
    BY DEF FlushStep, CommitBatch, CommitTimesOut, PersistFails, AckNext,
       AckFails, RecordFailed, RecordRaises, NackNext, NackRaises, Propagate
  <1>6. QED
    BY <1>2, <1>3, <1>4, <1>5

LEMMA ReceiveStrand ==
  ASSUME TypeOK, FateInv, StrandInv, NEW m \in Msg, Receive(m)
  PROVE  StrandInv'
  <1> DEFINE d == [msg |-> m, epoch |-> epoch]
  <1>0. ChannelOpen /\ ChannelOpen' /\ epoch' = epoch /\ d.epoch = epoch
    BY DEF Receive, RejectInvalid, EnqueueAndWait, EnqueueAndFlush, Deliverable, ChannelOpen
  <1>1. d \in Delivery
    BY DEF TypeOK, Delivery
  <1>2. CASE RejectInvalid(m)
    <2>1. Unacked' \subseteq Unacked /\ UNCHANGED <<buffer, flush>>
      BY <1>2 DEF RejectInvalid, Unacked, TypeOK
    <2>2. HeldNow' = HeldNow /\ LeftNow' = LeftNow
      BY <2>1 DEF HeldNow, LeftNow, Buffered, HeldBy, Remaining
    <2>3. QED
      BY <1>0, <2>1, <2>2, StrandKept DEF StrandInv, Attached, NothingStranded, LeftNow
  <1>3. ASSUME where' = [where EXCEPT ![m] = "unacked"]
        PROVE  \A x \in Unacked' : x \in Unacked \/ x = m
    BY <1>3 DEF Unacked, TypeOK
  <1>4. Elements(Append(buffer, d)) = Buffered \cup {d} /\ Append(buffer, d) \in Seq(Delivery)
    <2>1. buffer \in Seq(Delivery)
      BY DEF TypeOK
    <2>2. /\ DOMAIN Append(buffer, d) = 1..(Len(buffer) + 1)
          /\ DOMAIN buffer = 1..Len(buffer)
          /\ Append(buffer, d)[Len(buffer) + 1] = d
          /\ \A i \in 1..Len(buffer) : Append(buffer, d)[i] = buffer[i]
          /\ Len(buffer) \in Nat
      BY <1>1, <2>1
    <2>3. Elements(Append(buffer, d)) = Buffered \cup {d}
      BY <2>2 DEF Elements, Buffered
    <2>4. QED
      BY <1>1, <2>1, <2>3
  <1>5. CASE EnqueueAndWait(m)
    <2>1. /\ where' = [where EXCEPT ![m] = "unacked"] /\ UNCHANGED flush
          /\ buffer' = Append(buffer, d)
      BY <1>5 DEF EnqueueAndWait
    <2>2. /\ Buffered' = Buffered \cup {d}
          /\ \A f \in Flusher : HeldBy(f)' = HeldBy(f) /\ Remaining(f)' = Remaining(f)
      BY <1>4, <2>1 DEF Buffered, Elements, HeldBy, Remaining
    <2>3. /\ \A x \in HeldNow' : x \in HeldNow \/ x.epoch = epoch
          /\ LeftNow' = LeftNow \cup {d}
      BY <1>0, <2>2 DEF HeldNow, LeftNow
    <2>4. \A x \in Unacked' : [msg |-> x, epoch |-> epoch] \in LeftNow'
      BY <1>0, <1>3, <2>1, <2>3 DEF StrandInv, NothingStranded, LeftNow
    <2>5. \A f \in Flusher : flush'[f].pc # "raised"
      BY <1>0, <2>1 DEF StrandInv, Attached
    <2>6. QED
      BY <1>0, <2>3, <2>4, <2>5, StrandKept
  <1>6. ASSUME NEW f \in Flusher, EnqueueAndFlush(m, f)
        PROVE  StrandInv'
    <2>1. /\ where' = [where EXCEPT ![m] = "unacked"]
          /\ TakeBatch(f, Append(buffer, d), "size")
      BY <1>6 DEF EnqueueAndFlush
    <2>2. Elements(buffer) = Buffered
      BY DEF Elements, Buffered
    <2>3. /\ Elements(buffer) \subseteq Elements(Append(buffer, d))
          /\ \A x \in Elements(Append(buffer, d)) : x \in Buffered \/ x.epoch = epoch
          /\ \A x \in Unacked' :
               x \in Unacked \/ [msg |-> x, epoch |-> epoch] \in Elements(Append(buffer, d))
      BY <1>0, <1>3, <1>4, <2>1, <2>2
    <2>4. QED
      BY <1>0, <1>4, <2>1, <2>3, TakenStrand
  <1>7. QED
    BY <1>2, <1>5, <1>6 DEF Receive

LEMMA StrandStep ==
  ASSUME TypeOK, OwnerInv, LoopInBounds, FateInv, StrandInv, Calm, [Next]_vars
  PROVE  StrandInv'
  <1>1. ASSUME NEW f \in Flusher, NEW trigger, TakeBatch(f, buffer, trigger),
               UNCHANGED broker, ChannelOpen, ChannelOpen'
        PROVE  StrandInv'
    <2>1. Elements(buffer) = Buffered /\ Unacked' = Unacked /\ buffer \in Seq(Delivery)
      BY <1>1 DEF Elements, Buffered, Unacked, broker, TypeOK
    <2>2. QED
      BY <1>1, <2>1, TakenStrand DEF broker
  <1>2. ASSUME NEW f \in Flusher, TimerFires(f)
        PROVE  StrandInv'
    <2>1. /\ TakeBatch(f, buffer, "timeout") /\ UNCHANGED <<broker, mode>> /\ buffer # <<>>
      BY <1>2 DEF TimerFires
    <2>2. CASE ChannelOpen
      BY <1>1, <2>1, <2>2 DEF ChannelOpen
    <2>3. CASE ~ChannelOpen
      BY <2>1, <2>3 DEF StrandInv, Attached, NothingStranded, ChannelOpen
    <2>4. QED
      BY <2>2, <2>3
  <1>3. ASSUME NEW f \in Flusher, Stop(f)
        PROVE  StrandInv'
    <2>1. mode = "up" /\ mode' = "draining" /\ UNCHANGED broker
      BY <1>3 DEF Stop
    <2>2. CASE TakeBatch(f, buffer, "shutdown")
      BY <1>1, <2>1, <2>2 DEF ChannelOpen
    <2>3. CASE UNCHANGED <<buffer, flush>>
      BY <2>1, <2>3 DEF StrandInv, Attached, NothingStranded, ChannelOpen, broker, Unacked,
         Buffered, HeldBy, Remaining
    <2>4. QED
      BY <1>3, <2>2, <2>3 DEF Stop
  <1>4. CASE CloseChannel
    BY <1>4 DEF CloseChannel, StrandInv, Attached, NothingStranded, ChannelOpen
  <1>5. CASE Exit \/ Crash
    BY <1>5 DEF Exit, Crash, Die, StrandInv, Attached, NothingStranded, ChannelOpen, LoseChannel,
       Requeued, Unacked, TypeOK, Idle
  <1>6. CASE ConnectionLost
    BY <1>6 DEF ConnectionLost, Calm
  <1>7. CASE Restart
    <2>1. /\ mode = "down" /\ mode' = "up" /\ UNCHANGED <<broker, buffer, flush>>
          /\ Unacked = {} /\ buffer = <<>> /\ \A f \in Flusher : flush[f].items = <<>>
      BY <1>7 DEF Restart, StrandInv, Attached
    <2>2. \A f \in Flusher : flush[f].pc # "raised"
      BY <2>1 DEF LoopInBounds
    <2>3. Unacked' = {} /\ HeldNow' = {}
      BY <2>1 DEF Unacked, broker, HeldNow, Buffered, HeldBy
    <2>4. QED
      BY <2>1, <2>2, <2>3 DEF StrandInv, Attached, NothingStranded, HeldNow
  <1>8. CASE UNCHANGED vars
    BY <1>8 DEF StrandInv, Attached, NothingStranded, ChannelOpen, vars, broker, Unacked,
       Buffered, HeldBy, Remaining
  <1>9. QED
    BY <1>2, <1>3, <1>4, <1>5, <1>6, <1>7, <1>8, ReceiveStrand, FlushStepStrand DEF Next

\* While the channel is open every message the broker waits for is held by somebody who
\* will still settle it, as long as no driver error leaves the error handler and no
\* channel is reopened under the worker: with any failure of the database, any stop and
\* any crash.
THEOREM NobodyStranded ==
  ASSUME Faults \cap {"rawerror", "reconnect"} = {}
  PROVE  Spec => []NothingStranded
  <1>1. Calm
    BY DEF Calm
  <1>2. Init => StrandInv
    BY DEF Init, Idle, StrandInv, Attached, NothingStranded, Unacked, Buffered, HeldBy
  <1>3. TypeOK /\ OwnerInv /\ LoopInBounds /\ FateInv /\ StrandInv /\ [Next]_vars => StrandInv'
    BY <1>1, StrandStep
  <1>4. StrandInv => NothingStranded
    BY DEF StrandInv
  <1>5. QED
    BY <1>2, <1>3, <1>4, TypeCorrect, OwnerInvariant, BoundsInvariant, FateInvariant, PTL DEF Spec

-----------------------------------------------------------------------------
(* What is valid survives, when nothing fails.                             *)

\* Nothing fails, and every message has an id and a station of its own.
Serene ==
  /\ Faults = {}
  /\ \A m, n \in Msg : idOf[m] = idOf[n] \/ keyOf[m] = keyOf[n] => m = n

Fresh(d) == log[idOf[d.msg]] = "none"

\* What no task has committed has no row yet, so that the only attempt succeeds.
FreshInv ==
  /\ ValidIsNotDeadLettered
  /\ mode = "up"
  /\ \A m \in Msg : where[m] = "ready" => log[idOf[m]] = "none"
  /\ \A d \in Buffered : Fresh(d)
  /\ \A f \in Flusher :
       /\ flush[f].pc \in {"idle", "persist", "ack"}
       /\ flush[f].trigger # "shutdown"
       /\ flush[f].pc = "persist" => \A d \in HeldBy(f) : Fresh(d)

\* What is held belongs to messages of the open channel, each held once.
LEMMA HeldApart ==
  ASSUME TypeOK, OwnerInv, StrandInv, FreshInv
  PROVE  /\ \A d \in HeldNow : d \in Delivery /\ d.epoch = epoch /\ where[d.msg] # "ready"
         /\ \A d, e \in HeldNow : d.msg = e.msg => d = e
  <1>1. \A d \in HeldNow : d \in Delivery
    BY DEF TypeOK, FlushTask, HeldNow, Buffered, HeldBy
  <1>2. \A d \in HeldNow : d.epoch = epoch
    BY DEF StrandInv, Attached, FreshInv, ChannelOpen, HeldNow
  <1>3. \A d \in HeldNow : where[d.msg] # "ready"
    BY <1>2 DEF OwnerInv, HeldIsDelivered, HeldNow
  <1>4. \A d \in HeldNow : d = [msg |-> d.msg, epoch |-> d.epoch]
    BY <1>1 DEF Delivery
  <1>5. \A d, e \in HeldNow : d.msg = e.msg => d = e
    BY <1>2, <1>4
  <1>6. QED
    BY <1>1, <1>2, <1>3, <1>5

LEMMA FreshIsWritable ==
  ASSUME TypeOK, OwnerInv, StrandInv, FreshInv, Serene,
         NEW f \in Flusher, flush[f].pc = "persist"
  PROVE  Writable(flush[f].items)
  <1> DEFINE s == flush[f].items
  <1>1. \A i \in DOMAIN s : s[i] \in HeldBy(f) /\ s[i] \in HeldNow /\ s[i].msg \in Msg
    BY HeldApart DEF HeldBy, HeldNow, Delivery
  <1>2. \A i \in DOMAIN s : log[idOf[s[i].msg]] = "none"
    BY <1>1 DEF FreshInv, Fresh
  <1>3. \A i, j \in DOMAIN s : s[i].msg = s[j].msg => i = j
    BY <1>1, HeldApart DEF OwnerInv, ExclusiveOwner
  <1>4. \A i, j \in DOMAIN s :
          idOf[s[i].msg] = idOf[s[j].msg] \/ keyOf[s[i].msg] = keyOf[s[j].msg] => i = j
    BY <1>1, <1>3 DEF Serene
  <1>5. QED
    BY <1>2, <1>4 DEF Writable, IdsUnlogged

\* A commit gives rows to the ids of its batch, which nobody else is waiting to write.
LEMMA CommitFresh ==
  ASSUME TypeOK, OwnerInv, StrandInv, FreshInv, Serene, NEW f \in Flusher, CommitBatch(f)
  PROVE  FreshInv'
  <1> DEFINE s == flush[f].items
  <1>1. /\ log' = LogRows(s, "success")
        /\ UNCHANGED <<where, mode, buffer>>
        /\ \A g \in Flusher : flush'[g].items = flush[g].items
                           /\ flush'[g].trigger = flush[g].trigger
        /\ flush'[f].pc = "ack" /\ \A g \in Flusher \ {f} : flush'[g].pc = flush[g].pc
    BY DEF CommitBatch, Write, broker, TypeOK, FlushTask
  <1>2. \A i \in DOMAIN s : s[i] \in HeldBy(f) /\ s[i] \in HeldNow /\ s[i].msg \in Msg
    BY HeldApart DEF HeldBy, HeldNow, Delivery
  <1>3. ASSUME NEW m \in Msg, \A i \in DOMAIN s : s[i].msg # m
        PROVE  log'[idOf[m]] = log[idOf[m]]
    <2>1. idOf[m] \in MsgId
      BY PersisterAssumption
    <2>2. idOf[m] \notin {idOf[n] : n \in ItemMsgs(s)}
      BY <1>2, <1>3 DEF Serene, ItemMsgs
    <2>3. QED
      BY <1>1, <2>1, <2>2 DEF LogRows
  <1>4. ASSUME NEW d \in HeldNow, d \notin HeldBy(f), Fresh(d)
        PROVE  Fresh(d)'
    <2>1. \A i \in DOMAIN s : s[i].msg # d.msg
      BY <1>2, <1>4, HeldApart
    <2>2. d.msg \in Msg
      BY HeldApart DEF Delivery
    <2>3. QED
      BY <1>3, <1>4, <2>1, <2>2 DEF Fresh
  <1>5. \A d \in Buffered' : Fresh(d)'
    <2>1. Buffered' = Buffered /\ Buffered \subseteq HeldNow /\ HeldBy(f) \cap Buffered = {}
      BY <1>1 DEF Buffered, HeldNow, OwnerInv, ExclusiveOwner
    <2>2. QED
      BY <1>4, <2>1 DEF FreshInv
  <1>6. ASSUME NEW g \in Flusher, flush'[g].pc = "persist", NEW d \in HeldBy(g)'
        PROVE  Fresh(d)'
    <2>1. g # f /\ flush[g].pc = "persist" /\ d \in HeldBy(g) /\ d \in HeldNow
      BY <1>1, <1>6 DEF HeldBy, HeldNow
    <2>2. d \notin HeldBy(f) /\ Fresh(d)
      BY <2>1 DEF OwnerInv, ExclusiveOwner, FreshInv
    <2>3. QED
      BY <1>4, <2>1, <2>2
  <1>7. \A m \in Msg : where'[m] = "ready" => log'[idOf[m]] = "none"
    BY <1>1, <1>2, <1>3, HeldApart DEF FreshInv
  <1>8. \A g \in Flusher : flush'[g].pc \in {"idle", "persist", "ack"}
                        /\ flush'[g].trigger # "shutdown"
    BY <1>1 DEF FreshInv
  <1>9. ValidIsNotDeadLettered' /\ mode' = "up"
    BY <1>1 DEF FreshInv, ValidIsNotDeadLettered
  <1>10. QED
    BY <1>5, <1>6, <1>7, <1>8, <1>9 DEF FreshInv

\* A batch is taken: what was fresh in the buffer is fresh in the task.
LEMMA TakenFresh ==
  ASSUME TypeOK, FreshInv, NEW f \in Flusher, NEW s, NEW trigger, trigger # "shutdown",
         TakeBatch(f, s, trigger), UNCHANGED <<mode, log>>,
         \A d \in Elements(s) : Fresh(d),
         \A m \in Msg : where'[m] \in {where[m], "unacked"}
  PROVE  FreshInv'
  <1>1. /\ flush'[f].pc = "persist" /\ flush'[f].items = s /\ flush'[f].trigger = trigger
        /\ \A g \in Flusher \ {f} : flush'[g] = flush[g]
        /\ buffer' = <<>>
    BY DEF TakeBatch, TypeOK
  <1>2. Buffered' = {} /\ HeldBy(f)' = Elements(s)
        /\ \A g \in Flusher \ {f} : HeldBy(g)' = HeldBy(g)
    BY <1>1 DEF Buffered, HeldBy, Elements
  <1>3. \A d : Fresh(d) <=> Fresh(d)'
    BY DEF Fresh
  <1>4. ASSUME NEW g \in Flusher
        PROVE  /\ flush'[g].pc \in {"idle", "persist", "ack"}
               /\ flush'[g].trigger # "shutdown"
               /\ flush'[g].pc = "persist" => \A d \in HeldBy(g)' : Fresh(d)'
    <2>1. CASE g = f
      BY <1>1, <1>2, <1>3, <2>1
    <2>2. CASE g # f
      BY <1>1, <1>2, <1>3, <2>2 DEF FreshInv
    <2>3. QED
      BY <2>1, <2>2
  <1>5. \A m \in Msg : where'[m] = "ready" => log'[idOf[m]] = "none"
    BY DEF FreshInv
  <1>6. ValidIsNotDeadLettered' /\ mode' = "up"
    BY DEF FreshInv, ValidIsNotDeadLettered
  <1>7. QED
    BY <1>2, <1>4, <1>5, <1>6 DEF FreshInv

LEMMA ReceiveFresh ==
  ASSUME TypeOK, FreshInv, NEW m \in Msg, Receive(m)
  PROVE  FreshInv'
  <1> DEFINE d == [msg |-> m, epoch |-> epoch]
  <1>0. log[idOf[m]] = "none" /\ UNCHANGED <<mode, log>>
    BY DEF Receive, RejectInvalid, EnqueueAndWait, EnqueueAndFlush, Deliverable, FreshInv, db
  <1>1. \A x \in Elements(Append(buffer, d)) : Fresh(x)
    <2>1. buffer \in Seq(Delivery) /\ d \in Delivery
      BY DEF TypeOK, Delivery
    <2>2. \A x \in Elements(Append(buffer, d)) : x \in Buffered \/ x = d
      <3>1. /\ DOMAIN Append(buffer, d) = 1..(Len(buffer) + 1)
            /\ DOMAIN buffer = 1..Len(buffer)
            /\ Append(buffer, d)[Len(buffer) + 1] = d
            /\ \A i \in 1..Len(buffer) : Append(buffer, d)[i] = buffer[i]
            /\ Len(buffer) \in Nat
        BY <2>1
      <3>2. QED
        BY <3>1 DEF Elements, Buffered
    <2>3. QED
      BY <1>0, <2>2 DEF FreshInv, Fresh
  <1>2. CASE RejectInvalid(m)
    <2>1. m \in Bad /\ where' = [where EXCEPT ![m] = "dead"] /\ UNCHANGED <<buffer, flush>>
      BY <1>2 DEF RejectInvalid
    <2>2. /\ \A n \in Msg \ Bad : where'[n] = where[n]
          /\ \A n \in Msg : where'[n] = "ready" => where[n] = "ready"
      BY <2>1 DEF TypeOK
    <2>3. QED
      BY <1>0, <2>1, <2>2 DEF FreshInv, ValidIsNotDeadLettered, Buffered, HeldBy, Fresh
  <1>3. ASSUME where' = [where EXCEPT ![m] = "unacked"]
        PROVE  \A n \in Msg : where'[n] \in {where[n], "unacked"}
    BY <1>3 DEF TypeOK
  <1>4. CASE EnqueueAndWait(m)
    <2>1. /\ where' = [where EXCEPT ![m] = "unacked"] /\ UNCHANGED flush
          /\ buffer' = Append(buffer, d)
      BY <1>4 DEF EnqueueAndWait
    <2>2. \A x \in Buffered' : Fresh(x)'
      BY <1>0, <1>1, <2>1 DEF Buffered, Elements, Fresh
    <2>3. \A f \in Flusher : HeldBy(f)' = HeldBy(f)
      BY <2>1 DEF HeldBy
    <2>4. \A x : Fresh(x) <=> Fresh(x)'
      BY <1>0 DEF Fresh
    <2>5. ValidIsNotDeadLettered' /\ \A n \in Msg : where'[n] = "ready" => where[n] = "ready"
      BY <1>3, <2>1 DEF FreshInv, ValidIsNotDeadLettered
    <2>6. QED
      BY <1>0, <2>1, <2>2, <2>3, <2>4, <2>5 DEF FreshInv
  <1>5. ASSUME NEW f \in Flusher, EnqueueAndFlush(m, f)
        PROVE  FreshInv'
    <2>1. /\ where' = [where EXCEPT ![m] = "unacked"]
          /\ TakeBatch(f, Append(buffer, d), "size")
      BY <1>5 DEF EnqueueAndFlush
    <2>2. QED
      BY <1>0, <1>1, <1>3, <2>1, TakenFresh
  <1>6. QED
    BY <1>2, <1>4, <1>5 DEF Receive

LEMMA FreshStep ==
  ASSUME TypeOK, OwnerInv, LoopInBounds, FateInv, StrandInv, FreshInv, Serene, [Next]_vars
  PROVE  FreshInv'
  <1>1. ChannelOpen /\ mode = "up" /\ Faults = {}
    BY DEF FreshInv, ChannelOpen, Serene
  <1>2. ASSUME NEW f \in Flusher, TimerFires(f)
        PROVE  FreshInv'
    <2>1. /\ TakeBatch(f, buffer, "timeout") /\ UNCHANGED <<where, mode, log>>
      BY <1>2 DEF TimerFires, broker, db
    <2>2. \A d \in Elements(buffer) : Fresh(d)
      BY DEF FreshInv, Elements, Buffered
    <2>3. QED
      BY <2>1, <2>2, TakenFresh
  <1>3. ASSUME NEW f \in Flusher, AckNext(f)
        PROVE  FreshInv'
    <2>1. /\ where' = [where EXCEPT ![flush[f].items[flush[f].next].msg] = "acked"]
          /\ flush' = [flush EXCEPT ![f] = Advanced(flush[f])]
          /\ flush[f].pc = "ack" /\ UNCHANGED <<mode, buffer, log>>
      BY <1>3 DEF AckNext, Advance, db
    <2>2. /\ Advanced(flush[f]).pc \in {"idle", "ack"}
          /\ Advanced(flush[f]).trigger \in {"none", flush[f].trigger}
      BY <2>1 DEF Advanced, Idle, TypeOK, FlushTask
    <2>3. /\ \A g \in Flusher \ {f} : flush'[g] = flush[g] /\ HeldBy(g)' = HeldBy(g)
          /\ flush'[f].pc \in {"idle", "ack"} /\ flush'[f].trigger # "shutdown"
          /\ Buffered' = Buffered
      BY <2>1, <2>2 DEF TypeOK, FreshInv, Buffered, HeldBy
    <2>4. \A n \in Msg : where'[n] \in {where[n], "acked"}
      BY <2>1 DEF TypeOK
    <2>5. \A d : Fresh(d) <=> Fresh(d)'
      BY <2>1 DEF Fresh
    <2>6. ValidIsNotDeadLettered' /\ mode' = "up"
      BY <2>1, <2>4 DEF FreshInv, ValidIsNotDeadLettered
    <2>7. QED
      BY <2>1, <2>3, <2>4, <2>5, <2>6 DEF FreshInv
  <1>4. ASSUME NEW f \in Flusher, FlushStep(f)
        PROVE  CommitBatch(f) \/ AckNext(f)
    <2>1. flush[f].pc \in {"idle", "persist", "ack"}
      BY DEF FreshInv
    <2>2. ~CommitTimesOut(f) /\ ~RecordFailed(f) /\ ~RecordRaises(f) /\ ~NackNext(f)
          /\ ~NackRaises(f) /\ ~Propagate(f)
      BY <1>1, <2>1 DEF CommitTimesOut, RecordFailed, RecordRaises, NackNext, NackRaises,
         Propagate
    <2>3. ~PersistFails(f)
      BY <1>1, FreshIsWritable DEF PersistFails
    <2>4. ~AckFails(f)
      BY <1>1, LoopSettles DEF AckFails
    <2>5. QED
      BY <1>4, <2>2, <2>3, <2>4 DEF FlushStep
  <1>5. ~CloseChannel /\ ~Exit /\ ~Crash /\ ~ConnectionLost /\ ~Restart
        /\ \A f \in Flusher : ~Stop(f)
    BY <1>1 DEF CloseChannel, Exit, Crash, ConnectionLost, Restart, Stop
  <1>6. CASE UNCHANGED vars
    BY <1>6 DEF FreshInv, ValidIsNotDeadLettered, Fresh, Buffered, HeldBy, vars, broker, db
  <1>7. QED
    BY <1>2, <1>3, <1>4, <1>5, <1>6, ReceiveFresh, CommitFresh DEF Next

\* When nothing fails and every message has an id and a station of its own, no valid
\* station is dead-lettered: size flushes and timers that overlap, for any number of
\* tasks and any batch size, never make each other's transaction fail.
THEOREM ValidSurvives ==
  ASSUME Faults = {}, \A m, n \in Msg : idOf[m] = idOf[n] \/ keyOf[m] = keyOf[n] => m = n
  PROVE  Spec => []ValidIsNotDeadLettered
  <1>1. Serene /\ Calm
    BY DEF Serene, Calm
  <1>2. Init => StrandInv
    BY DEF Init, Idle, StrandInv, Attached, NothingStranded, Unacked, Buffered, HeldBy
  <1>3. TypeOK /\ OwnerInv /\ LoopInBounds /\ FateInv /\ StrandInv /\ [Next]_vars => StrandInv'
    BY <1>1, StrandStep
  <1>4. Init => FreshInv
    BY PersisterAssumption DEF Init, Idle, FreshInv, ValidIsNotDeadLettered, Fresh, Buffered,
       HeldBy
  <1>5. TypeOK /\ OwnerInv /\ LoopInBounds /\ FateInv /\ StrandInv /\ FreshInv /\ [Next]_vars
        => FreshInv'
    BY <1>1, FreshStep
  <1>6. FreshInv => ValidIsNotDeadLettered
    BY DEF FreshInv
  <1>7. QED
    BY <1>2, <1>3, <1>4, <1>5, <1>6, TypeCorrect, OwnerInvariant, BoundsInvariant,
       FateInvariant, PTL DEF Spec
=============================================================================
