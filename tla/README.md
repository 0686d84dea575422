# Formal models of the ITV ingestion pipeline

The repository moves records of vehicle-inspection stations (ITV) from three
regional sources through RabbitMQ into PostgreSQL:

```
client -> gateway -> [raw_data.itv_stations] -> normalizer -> [normalized_data.itv_stations] -> persister -> PostgreSQL
                                                    \-> [rejected_data.itv_stations]
```

Every queue has a dead-letter queue (DLQ). The workers are asyncio programs that
buffer messages, acknowledge them by hand and retry. What can go wrong lies
between their awaits, and that is what these modules are about: when a message
is acknowledged, who still holds it, what was written when it was, and whether
it is ever settled.

## 1. Inventory

| Component | Source | State | Operations | Model |
|---|---|---|---|---|
| Persister worker | `apps/persister/worker.py` | buffer, flush timer, flush tasks under way; tables `estaciones_itv`, `ingestion_log` | enqueue, flush by size / timer / shutdown, persist with retries, ack, record failure, nack, stop | `Persister`, `DeliveryContract` |
| Normalizer worker | `apps/normalizer/worker.py` | batch buffer, batch timer, batches under way; what was published | handle one message (RULES, FUZZY), buffer and map a batch (LLM), fall back to one by one, publish, refuse, ack, reject, shut down | `Normalizer`, `ForwardContract` |
| Consumer wrapper | `core/messaging/consumer.py` | channel, prefetch | `consume_raw` (sequential), its error branches | inside `Normalizer`; `consume` has no caller |
| Messaging client | `core/messaging/__init__.py` | singleton connection, `is_connected` | connect, declare topology, publish, disconnect | inside `Gateway` and `Normalizer`; the topology is start-up I/O |
| Gateway ingestion and upload | `apps/gateway/` | handlers under way, the client of the process | fan out a payload, publish one message per station, two synthetic injections, file upload, start and shutdown | `FanOut`, `Gateway`, `IntakeContract` |
| Monitoring and queries | `apps/gateway/routers/monitoring.py`, `core/database/queries.py` | reads the tables, empties them, switches rules off | status of a message, metrics, percentiles, timing breakdown, truncate, learned rules | `Pipeline`, `Metrics`, `LLMRules` |
| LLM clients | `.../transformers/llm_client.py`, `core/messaging/rate_limiter.py` | semaphore, time of the last request | one request at a time, minimum delay, attempts on 429 | `LLMRules`, `LearnContract` |
| LLM transformer, rule cache | `.../transformers/llm_transformer.py`, `core/database/queries.py`, migration 003 | per call; table of rules | look for a rule, ask, store what was learned | `LLMRules`, `LearnContract`; what it may return, in `Normalizer` |
| Transformers and rules | `domain/itv_stations/transformers/`, `rules.py`, `models.py` | per call | look up fields by name or by similarity, clean, validate, deduplicate in two passes | `StationRules`, `Transformers` |
| Synthetic data, load generator | `domain/synthetic_data_generator.py`, `scripts/load_generator.py` | semaphore of the client | make valid, spoilt and invalid stations; send with a bound on what is in flight | `Synthetic`; the client in `Pipeline` |
| Schema | `alembic/versions/`, `domain/itv_stations/models.py` | unique constraints | – | the constraints that matter, in `Persister` and `LLMRules` |
| Mappers | `domain/itv_stations/mappers.py` | – | copy fields | not modelled |
| Configuration, logging, other scripts | `core/config.py`, `scripts/` | – | – | not modelled |

How they interact: only by messages, except that gateway and persister share the
tables. A component owes the next one *at least once*: it acknowledges a message
after it has handed it on. The persister turns that into *at most one effect per
message id* through the unique `ingestion_log.message_id`.

What makes each part correct:

* **Gateway** – each station of a payload is queued once, in order, whatever other
  handlers publish in between; a client that is told of success has all of them in
  the queue, and one that is blamed for its request has none; every client is
  answered.
* **Normalizer** – a station is published under its own message's id, at most
  once per delivery; an acknowledged message left a station or a rejection; every
  message is settled in the end.
* **Persister** – an acknowledged message is committed; stations and log are
  written together; a delivery is in one place; a short batch is timed; every
  message is settled in the end; a batch has one fate; a status is final.
* **LLM and rules** – one call at a time, the pauses of its retries included; two
  requests are a minimum delay apart; a key has one active rule; a rule that was
  switched off stays off; a call that returns leaves no lock behind; every call comes
  back.
* **Transformers** – every item is kept or rejected, and once, but for two kinds that are
  known to be passed over; a duplicate is dropped only with an earlier twin; both modes
  agree where they can be compared; what the generators make is judged as they mean it.
* **Report** – counts, percentiles and breakdown agree with each other and the rows.

The list of what is hard to test, each at its line, is in `PROJECT.json` under
`hazards`.

How the modules build on each other (`EXTENDS`, unless marked):

```
Selections <- FanOut <- Gateway <- Pipeline <- MCPipeline        Persister  <- MCPersister
                          |           +- INSTANCE DeliveryContract   +- INSTANCE DeliveryContract
                          +- INSTANCE IntakeContract
Selections <- Normalizer <- MCNormalizer                          LLMRules <- MCLLMRules
                +- INSTANCE ForwardContract                         +- INSTANCE LearnContract
StationRules <- Transformers <- Synthetic <- MCSequential -> Metrics -> Selections
```

## 2. `Persister`

State and code:

| Variable | Code |
|---|---|
| `where`, `epoch` | the queue and the channel: a message is ready, unacked, acked or dead; a delivery can be settled on the channel it came on |
| `mode` | the process: up, draining (`stop()`), closed (channel), down |
| `buffer`, `timer` | `_buffer`, `_flush_timer_task` asleep |
| `flush[f]` | a call of `_flush_batch`: its items, attempt, position in the ack or nack loop, and what triggered it |
| `stations`, `log` | the two tables, as the message each row was last written from and the status of each id |

A step is what runs between two awaits. The sections under `_buffer_lock` hold no
await, so `EnqueueAndFlush` (the message that fills the batch) enqueues and takes
the batch in one step, and so do `TimerFires` and `Stop`. Then each flush goes its
own way: `CommitBatch`, or `PersistFails` (a constraint or a fault; rolled back),
or `CommitTimesOut` (committed, but the client sees a timeout); `AckNext` and
`AckFails`; after the last attempt `RecordFailed` or `RecordRaises`; `NackNext`
and `NackRaises`; `Propagate` is an exception on its way out of `_flush_batch`.
The constant `Faults` says what the environment does: `db` (statements fail or
time out), `rawerror` (a driver error that is no `SQLAlchemyError`), `reconnect`
(the robust connection reopens its channel), `crash`, `stop`.

Abstracted: the contents of rows (a row is the message it came from; the upsert
overwrites all but the key), delays (a retry just happens later), logging.
`LogRows` and `Writable` hold the two constraints: ids are unique for ever, and
one `INSERT ... ON CONFLICT DO UPDATE` refuses two rows with one key.

`DeliveryContract` is what the persister promises without its machinery: deliver, commit
a whole set of messages with fresh ids, give up, acknowledge what took effect (one
message of each id), dead-letter, take back. `KeepsContract` says that every step of the
worker is one of these or none, whatever fails.

## 3. `Normalizer`

`task[Main]` is `main()`: the consumer's loop with the handler it runs (one at a
time), and afterwards `shutdown()`, which a Ctrl+C starts by cancelling the
handler. `task[t]` for `t` in `Timers` are batches flushed by the timer. A task
walks a batch: malformed items are rejected first, then each source's group is
mapped (`MapGroup`), and the loop over the group is one of three (`how`): `refuse`
(an empty answer: publish a rejection and ack each), `single` (the answer has
another length: each message by itself, through `process_message`), `zip` (pair
stations and messages). In the modes RULES and FUZZY the handler of a message is
a `single` of one. `Resume` and `Advanced` say what comes next.

`sent[m]` records the stations published under the id of `m`, by the message whose
content each has; `refused[m]` whether a rejection was published. `setting` is
drawn once from `Settings`: the mode and the faults of the behaviour, so one run
covers both modes. What a transformer makes of a payload is chosen freely: for a
group, any selection of it in order (`Answers`, validation and deduplication drop
stations), with the fault `answer` any list up to the group's length; for a single
message, none, one, or several stations (or an exception), with or without
rejected parts. An exception with nobody to settle the rest of the batch is
`Abandon`: the consumer runs with `auto_ack=True`, whose branch only logs.

`ForwardContract` is what the normalizer promises without modes, batches, timers,
tasks or answers: a message is delivered, its station published under its own id, a
rejection published for it; it is acknowledged when one of the two happened, dead-lettered,
or goes back to the queue. Of each message the contract knows how many publications are
`due`: a delivery adds one, a publication takes one, and any step may give some up, as
the worker does when a message has no station, when an exception abandons a batch, or
when the process dies. `KeepsContract` maps the worker to it: `due` is the number
of channels on which the message was delivered and whose copy is still held with its
station unpublished (`Owed`), in the buffer, in a batch or in a group. A copy that is
being acknowledged or rejected owes nothing any more (`Open`). Every step of the
worker is then one of the contract's, or none.

Abstracted: how many rejections a message has, counters, metrics. Bodies are one of five kinds
(`BodyKinds`), after the branches of `_process_raw_message`, `_process_batch` and
`process_message`; the `empty` payload passes the first validation and not the
second. Longer LLM answers than the group lead to the fallback like shorter ones.

## 4. `FanOut`, `Gateway`, `IntakeContract`

`FanOut` is `apps/gateway/fanout.py`: a payload is a format, whether it came as
text, a shape (which decides the cut) and its items; `Split` gives one payload per
station, in the form its transformer expects, and `Raises` the payloads that make
the function raise. `Selections` defines `Pick`, a list comprehension with a
condition, without recursion, so that `FanOut` and `Normalizer` can be proved
about.

`Gateway` is the process around it:

| Variable | Code |
|---|---|
| `setting` | drawn once: which requests come, which faults happen, whether workers run |
| `app`, `connected`, `faults` | `main.lifespan`; `rabbitmq_client.is_connected`; losses so far |
| `handler[r]` | the coroutine of a request: `reading` (an upload awaits the file), `publishing` with the parts and the next one to publish |
| `answer[r]` | the status code sent, or `lost` with the process |
| `raw[r]` | the messages published under the request's id, with `station_sequence` and `total_stations` |

The four endpoints are told apart in `workOf`. A handler's step runs up to its next
await: `Receive` makes the tests in front of the `try` block (`EarlyRefusal`), then
`Handle` those inside it (`LateRefusal`), where an exception is answered by the
`except` branch (`FailureCode`; an `HTTPException` raised inside is caught by it in
`ingest` and in the injections). Then one message is published per step, so that
handlers interleave; the publish that raises ends the loop, and the answer with it.
An acceptance is 202 from `/ingest`, which declares it, and 200 from the injections
and the upload, which do not (`Success`, `SuccessCode`). `raw` is kept per request:
what lies between two stations of one request in the queue matters to nothing
downstream, so the alternation itself is not in the model, only its cause.
The faults are a publish that raises with or without effect, a lost connection that
comes back, a crash, and a SIGTERM that lets the handlers finish.

`IntakeContract` says what this is for, without endpoints, tests or processes:
stations are queued one by one; a request is accepted with its last station and
only then; after its verdict nothing more of it is queued. `KeepsIntakeContract`
maps the gateway to it (`queued` is the length of `raw[r]`, `verdict` comes from
`answer[r]`).

## 5. `Pipeline`

From the client to the tables. The client is `send_request` of the load generator: a
semaphore, and a wait that may time out while the handler goes on. The gateway is the
one above, handler by handler. The normalizer is reduced to the mode RULES: `Normalize`
publishes, then acknowledges, and again if the worker dies in between; `DeadLetterRaw`
is any exception of `process_message`, from a part that the transformer cannot read as
from a publish that raises, whether or not the broker has the station; `RejectStation`
publishes a rejection and acknowledges, also if that publish fails. Which parts a
transformer cannot read at all (`Unreadable`, `Garbled`) comes from what each source's
parser does with a part that `Split` makes of a format other than its own. The persister
is reduced to `DeliveryContract` (instance `Store`), which `Persister` is shown to
implement; batches are any set of held copies, and `fate` is what was decided about a
copy before it is settled, so that a worker can die in between. A commit whose answer
comes too late leads to a nack of what was committed, and a failure record may itself
fail, as in `Persister`. `TruncateStorage` is the endpoint that empties both tables,
`StatusOf` the one that looks a message up.

`EndToEnd` is what the tables promise of the whole way, in three parts: a station's
row is there only with the successful status of its message (`RowsKeepTheirLog`);
every status and every row is that of a message which the gateway queued, whose station
the transformer keeps, and which the normalizer published (`TablesAreTraced`); and however often
a message is published again by the one worker and taken back by the other, one copy of
it at most is acknowledged, and its status is a success (`OneEffect`; as long as the
tables are not emptied, since the unique id is all that prevents a second effect).

`EveryStationAccounted` says that every published message is settled in the end, with a
row, a rejection or a place in a DLQ. It allows for one exception, which `FilteredIsTraced`
forbids and the run `pipeline_untraced` shows: a rejection that the broker does not take.

## 6. `LLMRules`

Several batches are mapped at once, each by a transformer of its own with its own
database session, or none. `call[t]` is where `transform_batch_async` stands: the
lookup of a rule, the semaphore (`holder`, `queue`, first come first served), the
limiter (`since`: ticks since its stamp), the request, the pause after a 429 that is
spent inside the semaphore, and the storing of the rule. Groq's client makes one attempt;
GitHub's up to `MaxAttempts`, and each request blocks the event loop. Every step may fail
in the ways the code distinguishes, and the semaphore is released as `async with` does.

A call may be cancelled at each of its awaits. At the lookup, at the semaphore and inside
it this is `Cancel`; at the awaits that store the rule it is `CancelStoring`:
`CancelledError` is no `Exception`, so neither the rollback nor the return of the items
runs (`llm_transformer.py:207-211`), the statement that was interrupted may have taken effect,
the commit included, and what is pending stays so until the owner of the session leaves
it (`LeaveSession`). A rollback that raises has the same effect (`PersistFails`, outcome
`raised`). `NothingLocked` is therefore about calls that return, with items or
without.

The table of rules is under PostgreSQL's READ COMMITTED: `Deactivate` takes a snapshot of the
active rows and waits if another transaction has locked one, `Deactivated` looks at
the row again, `Insert` meets the partial unique index of migration 003 (it waits
for an uncommitted rival and fails on a committed one), `CommitRule` makes all of it
visible. `Invalidate`, `Invalidated`, `CloseSession` are the endpoint: its session
commits when FastAPI leaves the dependency, after the handler is done. The workers'
factory passes no session, so that in the deployed system `setting.session` is false;
the rest concerns callers that pass one.

`LearnContract` is what remains when semaphore, limiter, attempts, transactions and locks
are forgotten: a batch waits, asks, has its answer and ends, or loses it while it learns
(`Lose`); one asks at a time; a rule is
used only while its key has one, and learned from an answer only, in the place of the rule the
key had, at once; an invalidation takes a rule away. `KeepsLearnContract` maps each
call to its stage (`stageOf`) and the committed rows to the rules in force. It says more
than `RulesNeverReturn`, which follows: a batch learns once, and nothing else brings a
rule into force.

## 7. The sequential parts

* `StationRules` – the tables of provinces (in the order of their postal prefixes) and
  of boxes, the bounds of the schema, and the rules as a sequence of `Checks` in the
  order `_validate_station` applies them; `Reason` is the first that fails. Coordinates
  are whole tenths of a degree, which is the precision of the tables.
* `Transformers` – an item is the sequence of its names and values. `Transform` runs
  the three loops one item per step: map and judge, then the two passes of
  deduplication (id and name, then phone and email), with the sets each has `seen`.
  RULES looks names up per source in order, with Python's truth in its `or` chains;
  FUZZY scores all names against a target, with aliases. The similarity of two
  names is the constant `similarity`, given in the run with the values of the
  Jaro-Winkler function for the names that occur. In front of the judgement are the
  tests of a part's shape: an object on its own, neither wrapped nor in a list, is a station
  for Valencia if it has `codigo` or `nombre` and for Catalunya if it has `id` or `nom`
  (`shape`, `IsStation`); of any other RULES makes nothing, neither a station
  nor a rejection (`Untold`; `valencia.py:76-82`, `catalunya.py:172-188`). The worker then
  rejects the message as a whole (`normalizer/worker.py:254-266`), so that it is
  accounted for there. Galicia and FUZZY judge any object. A row of CSV has its columns
  and is never empty; an XML node may be, and is recorded as no station by FUZZY
  (`fuzzy.py:286-291`).
* `Synthetic` – what the generators put in a station, by province and kind of error,
  and how many of each a mixed batch has, where the floating-point product may fall on
  either side of a whole number.
* `Metrics` – the report of `/monitoring/metrics` over a growing log: counts,
  latencies, percentiles by interpolation, and the timing breakdown. `sorted` is a
  rearrangement in ascending order (`Sorted`), `sum` a recursive function (`SumOf`).

`MCSequential` puts them together: a behaviour takes one message, made up by
`Synthetic` or by hand, through the transformers, or logs rows and reports them.

## 8. What the environment may do

Modelled from how the code uses aio_pika and PostgreSQL, and marked external:
deliveries within the prefetch window; `ack`, `nack` and `reject` raise when the
channel is not the one the delivery came on, or is closed; losing a channel, or the
process, makes unsettled messages ready again; `publish` may raise with or without
the broker having taken the message; a statement waits for a row that another
transaction has changed, and sees what that one committed.

## 9. Runs

| Run | Expected | What it shows |
|---|---|---|
| `persister_faults` | pass | all faults at once, an invalid body, a repeated id and a repeated station: the safety properties, one fate per batch, and `KeepsContract` |
| `persister_settles` | pass | with `db`, `crash`, `stop`: nothing stranded, everything settled; as long as nothing fails, everything stored, the odd one out by its timer |
| `persister_same_station` | violation | two messages of one station in a batch dead-letter the batch |
| `persister_redelivery` | violation | a crash after the commit dead-letters what was committed |
| `persister_stranded` | violation | a driver error in `_record_failed_batch` skips the nack loop |
| `normalizer_faults` | pass | all faults but `answer` and `refusal`, both modes, four messages of two sources, one of them no JSON object: the safety properties, and `KeepsContract` |
| `normalizer_settles` | pass | the faults under which all messages must be settled: in LLM mode `refusal`, `answer`, `crash`, `stop`; in RULES also `publish` |
| `normalizer_stalled` | violation | a failing publish in a mapped batch leaves the rest of it unacknowledged |
| `pipeline` | pass | client, gateway, workers and tables together: what is answered agrees with what is queued, what is queued is accounted for (but for a rejection the broker refuses), what the tables say traces back to the request and stays true |
| `pipeline_untraced` | violation | a rejection that cannot be published: the message is acknowledged and nothing is left of the station |
| `llm_rules` | pass | three batches and the endpoint, both providers, with and without sessions, cancelled at any await: exclusion, spacing, one active rule, termination, and `KeepsLearnContract` |
| `sequential` | pass | generated and hand-made messages through both kinds of transformers, and reports |

**Bounds.** Persister: three or four messages, batches of two, two attempts, two flush
tasks, a prefetch of four, at most one lost channel (`MaxLosses`). Two tasks and a
buffer are enough for a size flush to meet a timer flush and a `stop()`; two items per
batch for a loop that breaks in the middle; two attempts for a retry after each kind of
failure; one loss for every use of a stale delivery and one redelivery. So few messages
never fill the window; a fifth one multiplies the states beyond reach. That a full
window opens again follows from what is proved for any number of messages: while the
worker is up, each message in the window is held by the timed buffer or by a task
(`NothingStranded`), and each step of a task brings it nearer to its end
(`FlushesAdvance`); `persister_stranded` shows the message that keeps its place for
good. Normalizer: three or four messages of two sources, batches of three (two items of
one source and one of the other), one or two timers, one loss. `MaxLosses` guards
`Crash`, `Stop` and `ConnectionLost` only: it makes the environment calm down, which
liveness needs.

Pipeline: nineteen requests, one for each endpoint, format, shape and refusal, in the
groups of `Scenarios`. Two requests at once are enough for their stations to
alternate; two stations per request for a loop that fails half way; two losses
(`MaxFaults`) for a connection that is lost and a process that then ends, or the
reverse; two copies (`MaxCopies`) for one message twice in a batch, or one after
the other; `workers` is off in the scenarios about the gateway alone. A publish that fails
downstream is tried with the parts that are read, filtered and not read at all; the database
fails with one message of each kind. LLMRules: two
tasks share the endpoint's key and a third has another, so that both a rival and
an innocent neighbour exist; cancellation with a session as well as without, alone and
together with a database that fails; a delay of two ticks, so that it can be half over; three
attempts, as in the code. Sequential: messages of up to five items (the smallest
mixed batches with each rounding), three stations for a twin of a twin, all
provinces and corners for the valid ones; reports over up to four rows, which is
enough for two sources, both statuses, dropped latencies and percentiles between two
different ranks.

`CHECK_DEADLOCK FALSE` in all runs: when all messages are settled, all calls are
back or the message is transformed, there is nothing to do.

**Fairness.** Weak fairness for receiving, for timers, for each task's next step,
for the end of a shutdown and for the restart: the event loop runs what can run,
`asyncio.sleep` ends, the broker delivers while the window is open, and
`docker-compose.yml` restarts the containers. In `Pipeline` the same for the
handlers as a whole, the clients, the reconnection of the robust connection, the
normalizer, and the persister's deliveries and decisions; in `LLMRules` for each
transformer, for time, and for the transactions whose end others wait for: the
endpoint's, and the one that a cancelled batch leaves to the owner of its session, as
every session of the repository is opened in an `async with`
(`core/database/__init__.py:47`, `persister/worker.py:232`).
No fairness is assumed for faults, and none for a database, a broker or an LLM that
works: retries are bounded, so the persister settles its messages even if the
database fails every time, and a call comes back even if every request fails.

**What must be left out, and why.** `NothingStranded` is false with `rawerror` and
with `reconnect` (persister), and with `publish` in LLM mode, `setup`,
`reconnect` or a scalar body (normalizer): the violation runs show one case each.
`StationsKeepTheirId` is false when the LLM answers with the right number of the
wrong items (`answer`); the code compares lengths only.
`AckedIsTraced` is false when publishing a rejection fails (`refusal`): the failure
is swallowed and the message acknowledged (`normalizer/worker.py:643`);
`pipeline_untraced` shows the case from end to end.

## 10. Findings

1. Two messages of one station in a batch: the upsert is refused, retried, and
   the whole batch goes to the DLQ (`worker.py:235`), against "UPSERT ... para evitar
   duplicados" (`docs/PROJECT_CONTEXT.md:28`).
2. A crash between commit and acknowledgement: the redelivered batch is refused by
   the unique id, and committed messages land in the DLQ along with innocent ones,
   against the idempotence asked for in `.github/copilot-instructions.md:35`.
3. `_record_failed_batch` catches `SQLAlchemyError` only: another error skips
   "move the full batch to DLQ" (`worker.py:198`).
4. `raise  # Re-raise to send to DLQ` (`normalizer/worker.py:594`) sends nothing to
   the DLQ, as the consumer runs with `auto_ack=True`; with a prefetch of one batch
   the worker can come to a halt.
5. A rejection that cannot be published is given up without a word
   (`normalizer/worker.py:643`), its message acknowledged, against "evita pérdida
   silenciosa de datos filtrados" (`docs/DATA_CONTRACTS.md:77`).

Observed while modelling, with no run of their own:

* **Tracking.** The id a client is given is the parent's (`ingest.py:150`); no message
  and so no row of `ingestion_log` has it, and the status endpoint answers 404.
  A rejected station has no log row either. `Pipeline` has this in `StatusOf`.
* **Status codes.** The 400 for an empty payload is raised inside the `try` block and
  comes out as 503 from `/ingest` (`ingest.py:119-171`) and as 500 from the
  injections; an unknown error type in a mixed injection is a 400
  (`upload.py:250`), in the plain one it is tested beforehand. The docstring of the
  upload lists 202 for an accepted file (`upload.py:387`); it answers 200.
* **Formats.** A part in a format that its source's transformer does not take (XML for
  Valencia or Galicia, CSV for Catalunya) is accepted by the gateway; it is
  dead-lettered as a whole, or rejected, though the client was told of success.
* **Timing context.** `injection_type` is read in the loop over a mapped batch and not
  handed on (`normalizer/worker.py:528-529`).
* **Cancelled while storing.** A batch that is cancelled while it stores its rule neither
  rolls back nor returns the items that were paid for (`llm_transformer.py:207`); its
  row locks stay until its session is left. Only callers with a session are exposed.
* **Objects on their own.** A station sent by itself with names other than the two its
  source looks for yields nothing in RULES, where FUZZY maps it; the rejection of the
  message says `no_stations_extracted`, not what was wrong with it.
* **Rules learned.** The constraint of the model, `UniqueConstraint(source, province,
  is_active)` (`models.py:297-302`), is not the partial index of migration 003: it
  would also allow only one inactive rule. Nothing writes the rejection summary, so
  `top_rejection_reasons` is always empty.
* **Duplicates.** "keep first" (`base.py:319`) does not hold for phones: a station
  dropped for its email leaves its phone among those seen (`base.py:341-360`).
  `DuplicatesAreExact` states what does hold. Through the pipeline no message has
  two stations, so neither pass ever drops one.
* **Provinces.** The box of "A CORUÑA" is never used, as the province is called "LA
  CORUÑA" in the official list; stations in Las Palmas, Melilla and at the southern edges of
  Ceuta and Cádiz lie outside the schema's bounds for Spain; Asturias and Tenerife
  are missing from the official provinces; a longitude of 0.0 skips the province's box.
* **Similarity.** With English names, an item without a phone gets its province for
  one, and an item without a latitude its longitude.
* **Generators.** `undersized_station_id` is made valid by its prefix, and
  `malformed_phone` and some `invalid_email` pass the rules; in a mixed batch valid
  and invalid stations are numbered from 1 alike, so an "invalid" one that passes
  overwrites a valid row. `SyntheticIsJudged` lists the kinds it can be stated for.
* **Report.** A latency of zero is dropped, a negative one counted.

## 11. What is proved

With TLAPS, for every value of the constants that satisfies the module's
assumption (any number of messages, tasks, attempts, requests, losses, any set
of faults, items and messages of any length):

| Theorem | Statement | Module |
|---|---|---|
| `TypeCorrect` | `Spec => []TypeOK` | `PersisterProofs` |
| `LogNeverRewritten` | `Spec => LogIsFinal` | `PersisterProofs` |
| `AckedCommitted` | `Spec => []AckedIsCommitted` | `PersisterProofs` |
| `RowsLogged` | `Spec => []RowsAreLogged` | `PersisterProofs` |
| `OneOwner` | `Spec => []ExclusiveOwner` | `PersisterProofs` |
| `TimedBuffer` | `Spec => []BufferIsTimed` | `PersisterProofs` |
| `OneFate` | `Spec => []BatchHasOneFate` | `PersisterProofs` |
| `NobodyStranded` | `Spec => []NothingStranded`, without `rawerror` and `reconnect` | `PersisterProofs` |
| `ValidSurvives` | `Spec => []ValidIsNotDeadLettered`, if nothing fails and ids and stations are distinct | `PersisterProofs` |
| `OneEffectPerId` | `Spec => []OneCopyTakesEffect` | `PersisterProofs` |
| `ImplementsContract` | `Spec => KeepsContract` | `PersisterProofs` |
| `TasksAdvance` | `Spec => FlushesAdvance` | `PersisterProofs` |
| `TypeCorrect` | `Spec => []TypeOK` | `NormalizerProofs` |
| `OneOwner` | `Spec => []ExclusiveOwner` | `NormalizerProofs` |
| `OneCopyPerDelivery` | `Spec => []OncePerDelivery` | `NormalizerProofs` |
| `NothingDisappears` | `Spec => []AckedIsTraced`, if rejections can be published | `NormalizerProofs` |
| `IdsAreKept` | `Spec => []StationsKeepTheirId`, if answers keep their order | `NormalizerProofs` |
| `NobodyIsStranded` | `Spec => []NothingStranded`, under `Benign` (below) | `NormalizerProofs` |
| `ImplementsForwarding` | `Spec => KeepsContract`, if rejections can be published and answers keep their order | `NormalizerProofs` |
| `PipelineTypes` | `Spec => []TypeOK` | `PipelineProofs` |
| `QueuesInOrder` | `Spec => []PublishedInOrder` | `PipelineProofs` |
| `AcceptedInFull` | `Spec => []AcceptedIsComplete` | `PipelineProofs` |
| `BadRequestsAreClean` | `Spec => []BadRequestsLeaveNothing` | `PipelineProofs` |
| `ImplementsIntake` | `Spec => KeepsIntakeContract` | `PipelineProofs` |
| `RowsAreOfSuccesses` | `Spec => []RowsKeepTheirLog` | `PipelineProofs` |
| `StatusIsStable` | `Spec => StatusNeverTurns` | `PipelineProofs` |
| `TablesTraceBack` | `Spec => []TablesAreTraced` | `PipelineProofs` |
| `EffectIsSingle` | `Spec => []OneEffect` | `PipelineProofs` |
| `TrueFromEndToEnd` | `Spec => []EndToEnd` | `PipelineProofs` |
| `PersistsByContract` | `Spec => Store!Spec`, as long as nobody truncates the tables | `PipelineProofs` |
| `TypeCorrect` | `Spec => []TypeOK` | `LLMRulesProofs` |
| `SemaphoreIsExclusive` | `Spec => []OneCallAtATime` | `LLMRulesProofs` |
| `RuleIsUnique` | `Spec => []OneActiveRule` | `LLMRulesProofs` |
| `RulesComeOnce` | `Spec => RulesNeverReturn` | `LLMRulesProofs` |
| `ImplementsLearning` | `Spec => KeepsLearnContract` | `LLMRulesProofs` |
| `CallsMoveOn` | `Spec => CallsAdvance` | `LLMRulesProofs` |
| `TransactionsEnd` | `Spec => []NothingLocked` (of calls that return) | `LLMRulesProofs` |
| `RequestsApart` | `Spec => RequestsAreSpaced` | `LLMRulesProofs` |
| `EachItemAccounted` | `TransformSpec => []EveryItemAccounted` | `TransformersProofs` |
| `DuplicatesExact` | `TransformSpec => []DuplicatesAreExact` | `TransformersProofs` |
| `BothModesAgree` | `TransformSpec => []ModesAgree`, under `SimilarityApart` (below) | `TransformersProofs` |
| `ReportCoherent` | `RowsSpec => []ReportIsCoherent` | `MetricsProofs` |

`GatewayProofs` and `SelectionLemmas` hold the lemmas that the others rest on: each
step of the gateway keeps its invariant, what `Pick` returns (its length, its
items, that it keeps an injective list injective), and `SetInduction`, which is induction
for a set of numbers. `TransformSpec` is the transformers' `Init` with the steps of
`Transform`, and `RowsSpec` the log's `InitRows` with `LogRow`, as `MCSequential` takes
them.

**Persister.** `AckedIsCommitted` is not inductive: an ack step has to know that
the batch it works through is committed. `CommitInv` adds that (`AckingIsCommitted`)
and that a loop's position is inside the batch (`LoopInBounds`). It is preserved
because the tables only grow (`TablesGrow`: a write needs ids without a row, so it
keeps every status) and because only a commit lets a task enter the ack loop
(`TaskSteps`). `ExclusiveOwner` needs `HeldIsDelivered`: a delivery of the current
channel that somebody holds is not in the queue, so a new delivery is new; together
they are `OwnerInv`. The refinement uses more than the shape of the actions for one
step only, the ack, which the contract allows only for a message that took effect and
has no copy that was acknowledged. The first is in `CommitInv`. The second is not about
what is acknowledged alone: two tasks might be at work on batches with one copy each.
`OneCopyTakesEffect` counts the copies in committed batches in; a batch that is committed
has ids without a row (`CommittedIsFresh`), what takes effect has one
(`EffectIsLogged`), and two batches are not committed by one step (`OneBatchCommits`).
`BatchHasOneFate` is not inductive either: an ack that raises sends the batch back to
be persisted, recorded and nacked, and nothing in the property says that none of it
was acknowledged. `FateInv` does: what a loop has still to settle is unsettled on its
channel (`Fated`), and the deliveries of a lost channel are in front of those of the
next (`Ascending`), so a loop that breaks off has settled nothing of the current
channel. With it `StrandInv` adds to `NothingStranded` that what is held came on the
open channel and that no task is on its way out with an exception (`Attached`); it
needs the assumption on the faults, since the run `persister_stranded` shows that the
code keeps the property no further. `ValidSurvives` builds on both: `FreshInv` says
that what no task has committed has no row yet, so the only attempt of each batch
succeeds; `persister_same_station` shows what happens without distinct stations.

**Normalizer.** A task's record has a different shape in each loop; `ShapeInv` states
them (`Shaped`), and every action's effect is summed up once: it moves one task on
(`Moves`), hands deliveries between queue, buffer and a task (`Passes`), or loses the
process (`Loses`). From these facts each further invariant is short.
`OwnerInv` is `ExclusiveOwner` with `HeldIsDelivered`, as above. `OncePerDelivery` bounds
what was published of a message by the channels there were, which is not inductive as
a held message may still be published: `BudgetInv` counts both, the
stations sent and the channels on which one is still due (`Due`), and a publish
moves one from the second to the first. `TraceInv` adds to `AckedIsTraced` that a
task about to acknowledge has published (`AckKnown`); `IdentityInv` adds to
`StationsKeepTheirId` that stations and messages are paired in the loop over a mapped group
(`Zipped`). The last two assume that no setting has the fault `refusal`, or `answer`:
with these the properties are false, as section 9 says.
`NothingStranded` speaks of one task at a time and of no other fact about it; `StrandInv`
makes it an equation: while the process is up, what is held is exactly what the
broker waits for, and nothing is held when it is down; in the modes RULES and FUZZY
the only holder is the task that handles one message (`Plain`), which is what lets a publish
fail there. `Benign` says where it holds: no body is a scalar, no setting has
`reconnect`, and those in LLM mode have neither `publish` nor `setup`. The run
`normalizer_settles` is one such instance, `normalizer_stalled` shows the property
false with `publish`.
The refinement needs all of them. A delivery raises `Owed` by one because its channel
is new to the message, and a publication lowers it by one because nobody else
holds that delivery: both come from `OwnerInv`, and a batch that is picked apart into
malformed items, groups and rest owes no more than before. That the contract's
`Acknowledge` is allowed comes from `TraceInv`, that `Forward` appends the message's own
station from `IdentityInv`; hence its two hypotheses.

**Gateway and pipeline.** `Consistent` ties the three views of a request together: a
handler's position, what is in `raw`, and the answer. It gives the order of the queue,
the completeness of what was accepted, and that a refusal for the client's fault comes
before the first publish. The refinement follows step by step: a publish is `Queue`, an
answer `Refuse` or the end of `Queue`, a crash a `Refuse` of all requests under way. The
steps of the other parts leave the gateway alone. `RowsKeepTheirLog` and
`StatusNeverTurns` come from the contract's operations: a commit needs fresh ids and so
overwrites no status, and a truncation empties both tables. `TablesAreTraced` says
nothing of where the raw message went: one whose publish took effect and raised is in
the DLQ, and its station is stored all the same. Nor is it inductive, as it says nothing
of what is on the way: `ChainInv` follows a message through the queues, from published
parts that the transformer takes (`ForwardedIsSorted`) over copies that are forwarded
before they are delivered (`TakenIsForwarded`) to logged ids (`LoggedIsForwarded`) and
rows (`RowsAreForwarded`); it is preserved because the gateway's queue only grows
(`QueuesGrow`) and a published part never changes (`SortedIsFixed`). `OneEffect` is
about decisions, not acknowledgements: `EffectInv` says that what is acknowledged was
decided so (`AckedIsDecided`), that what is decided is logged (`DecidedIsLogged`), and
that one copy is (`DecidedOnce`). The last two are exactly what `PersistsByContract`
needs to allow an acknowledgement; with `ImplementsContract` the persister of the
pipeline and the worker itself meet in `DeliveryContract`.

**LLM and rules.** The type invariant needs `Attempts`: a call that pauses has an
attempt left, or the count would run away. `OneCallAtATime` is inductive with it;
`RequestsAreSpaced` says of each step that leaves the limiter that the stamp is old
enough. `OneActiveRule` rests on `IndexInv`: a transaction that has inserted its rule
and not committed has the index entry of its key to itself, and has switched off all
that is active under it. The refinement needs both: that nobody asks when the semaphore
is free comes from the first, that a commit leaves the new rule alone in force, and that
an invalidation leaves none or changes nothing, from the second. `IndexInv` covers a
batch that was cancelled before its commit as well: until its session is left, its entry
keeps rivals out, as it would in PostgreSQL. `NothingLocked` needs `NothingPending`: a
session has changes only while its batch stores a rule, or after the batch was cancelled
there or its rollback failed.

**Transformers.** `EveryItemAccounted` counts, which no prover likes; `LineInv` and
`RecordInv` say the same with orders and sets: the places kept and those still to be
looked at ascend, the one before the other; no two records are equal; an item in the
line has no verdict and one that left it has exactly one, or was passed over, which is
said of two kinds of items by name (`PassedOver`): what is no object, by FUZZY, and an
object on its own that its source does not take for a station, by RULES. The counts
follow at the end (`Accounting`). `DuplicatesAreExact` is about what is left when all is
done, and needs what the passes know on the way. `SeenInv`: while a pass is at work,
what it has `seen` are the values of what it kept and nothing else, and no two are the
same; only the phones may include those of items dropped for their email
(`base.py:341-360`), each with such an item to show. `TwinInv`: each drop has its cause,
and the cause `Remains`: it is in the line, or left it in the last pass. `ModesAgree`
rests on what both lookups do with an item that has one name for each target: RULES
meets one of the names it tries (`FieldGiven`), FUZZY scores that name with 100 and
every other one below the threshold. The latter is `SimilarityApart`, a statement about
the constant `similarity`: a name that is an alias of one target is no near match of
another. What the two make of an item differs in one case, and the theorem says which:
`Untold`. The highest that Jaro-Winkler gives for the pairs in the tables is 79 percent
(`province` and `phone`), `FUZZY_THRESHOLD_HIGH` is 85.

**Report.** `ReportIsCoherent` is a statement about each list of rows, so the invariant
is the type of `rows`, and the only hypothesis `MetricsAssumption`; the work is in what
summing, sorting and interpolating yield. The library's induction theorem takes a predicate,
which the provers cannot instantiate; `SetInduction` takes a set, and each claim
about the first `k` items is the set of the `k` for which it holds. In this way:
a sum is unfolded (`SumFacts`) and stays between its length times the least and the
greatest item (`SumBetween`); a list has an order that sorts it (`SortingExists`: the largest is
exchanged with the last, the rest is sorted before), so that `Sorted` is a rearrangement in
ascending order (`SortedFacts`); what is counted class by class is counted once
(`SumOfClasses`). A percentile is a weighted mean of two neighbours (`PercentileForm`),
between them (`PercentileFacts`); a higher rank has either a later pair or more weight
in the same pair (`PercentilesAscend`), and the items up to the lower neighbour are
its share (`ShareWithin`). The sum by source agrees because a status that is no success
is `failed`: the persister, the only writer of `ingestion_log`, writes no other
(`persister/worker.py:270, 339`), though its check constraint would allow `processing`.

**Loops that end.** Two theorems are the safety half of liveness: what a task does
under way always brings it nearer to its end, by a measure that is bounded below.
`FlushesAdvance`: attempt, stage and item of a flush task grow, in this order of
importance, and the attempts are bounded by `TypeOK`; a task ends at its last item, by its
exception or with the process, never with items left to settle. An ack that raises does not
break this though it leads back to the commit (`RetriedGoesOn`), because the attempt
counts. `LoopInBounds` is needed for the end: a task whose position were past its items
would end without having been at the last. `CallsAdvance`: the same for an LLM call, whose
pauses shrink with each tick and never below zero; `Attempts` tells that a call has counted no
attempt before it is inside the semaphore. Fairness turns both into an end, and with
TLC into `EventuallySettled` and `EveryCallReturns`. These two properties,
`OneCopyTakesEffect` and `RulesNeverReturn` are proved and listed in no run.

**Only model-checked.** Liveness under fairness is out of the prover's reach:
`EventuallySettled` (both workers), `EventuallyStored`, `EveryCallReturns`,
`EveryClientAnswered`, `EveryStationAccounted`. Of the safety properties one stays
with TLC: `SyntheticIsJudged` is about particular texts that the generators put together
(concatenation and `ToString`, which mean nothing to the provers) and about every entry of
the tables: a finite question, and TLC answers all of it.

## 12. Not modelled

* **Mappers, configuration, logging, other scripts**: no state, or none that the
  pipeline shares.
* **Listings and health checks** (`stations.py`, `list_llm_mapping_rules`, `/health`):
  they read and format.
* **The declaration of exchanges and queues**: its one outcome is failing at the start.
* **Parsing of JSON, XML and CSV text**: a payload comes with its shape and items;
  whether a transformer can read it is in `Pipeline`.
* **The numbers of the similarity**: a constant, see section 7.
* **`malformed_coordinates`**: a NaN, whose fate is decided inside pydantic.
* **Which columns a learned rule renames, prompts, the text of answers**: the control
  does not depend on them.
* **Row contents** but the key: the upsert overwrites them all.
* **Consumer.consume**: has no caller.

## 13. Plan

1. *Done*: `Persister`, `DeliveryContract`, `Normalizer`, their runs and proofs.
2. *Done*: `FanOut`, `Gateway`, `IntakeContract`, `Pipeline`, with the refinement proved.
3. *Done*: `LLMRules` and its proofs; `StationRules`, `Transformers`, `Synthetic`,
   `Metrics` and their run.
4. *Done*: `ForwardContract`, which `Normalizer` is proved to implement; the proof of its
   `NothingStranded`; the proofs about `Transformers` and `Metrics`.
5. *Done*: `LearnContract`, which `LLMRules` is proved to implement; `EndToEnd` and its
   proof; one acknowledgement per id in `DeliveryContract`, which both `Persister` and the
   persister of `Pipeline` are proved to implement; `FlushesAdvance` and `CallsAdvance`.
6. Open: the normalizer of `Pipeline` against `ForwardContract`. Its one step `Normalize`
   stands for a delivery, a publication and an acknowledgement of the contract, so no
   refinement mapping takes it to a single step; it would take the step apart first.
