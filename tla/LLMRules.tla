------------------------------- MODULE LLMRules -------------------------------
(***************************************************************************)
(* Batches mapped by the LLM at the same time: the transformer that looks  *)
(* for a learned rule, asks the LLM when there is none, and stores what it *)
(* learns (transformers/llm_transformer.py); the clients of two providers  *)
(* behind a semaphore and a rate limiter (llm_client.py, rate_limiter.py); *)
(* the table of rules (core/database/queries.py, migration 003) and the    *)
(* endpoint that invalidates a rule (gateway/routers/monitoring.py).       *)
(*                                                                         *)
(* Time is counted in ticks.  A step is what runs between two awaits; the  *)
(* client of GitHub Models blocks the loop, so its request is one step.    *)
(***************************************************************************)
EXTENDS Integers, Sequences, FiniteSets

CONSTANTS
  Task,        \* batches being mapped, each by a transformer of its own
  Admin,       \* a call of DELETE /monitoring/llm-rules
  Key,         \* pairs of source system and province type
  keyOf,       \* the key of each batch, and of what Admin invalidates
  Old,         \* a rule learned earlier
  NoTask,      \* nobody: the holder of a free semaphore
  MinDelay,    \* LLM_*_MIN_DELAY_MS, in ticks
  MaxAttempts, \* of GitHub Models on 429: 3 in the code
  Settings     \* providers, faults and rules at the start: see Setting

FaultKinds == {
  "http",       \* a request fails, times out, or is answered with another code
  "limit",      \* it is answered with 429
  "garbage",    \* the answer is no JSON array of objects
  "key",        \* no API key: Groq's client finds out when it is called
  "database",   \* a statement or a commit fails
  "rule",       \* a stored mapping cannot be applied
  "cancel" }    \* the worker shuts down and cancels the call

\* session: the transformer was given a database session
Setting ==
  [provider: {"groq", "github"}, session: BOOLEAN, faults: SUBSET FaultKinds,
   known: SUBSET Key]

Session == Task \cup {Admin}
Rule == Task \cup {Old}

ASSUME LLMRulesAssumption ==
  /\ Admin \notin Task /\ Old \notin Task /\ NoTask \notin Task
  /\ keyOf \in [Session -> Key]
  /\ MinDelay \in Nat
  /\ MaxAttempts \in Nat \ {0}
  /\ Settings \subseteq Setting

VARIABLES
  setting,  \* the configuration and the environment of this behaviour
  call,     \* what each batch is doing
  holder,   \* who is inside the semaphore
  queue,    \* who waits for it
  since,    \* ticks since the limiter's last stamp, MinDelay for long enough
  active,   \* the committed active rules of each key; a task's rule is named after it
  session   \* what each session has pending: see SessionState

gate == <<holder, queue, since>>
vars == <<setting, call, gate, active, session>>

Fresh == [pc |-> "idle", attempt |-> 0, wait |-> 0, outcome |-> "none"]

CallState ==
  [pc: {"idle", "acquire", "limiter", "posted", "backoff", "persist", "insert",
        "commit", "done"},
   attempt: 0..MaxAttempts, wait: Int,
   outcome: {"none", "rule", "items", "nothing", "raised", "cancelled"}]

NoChange == [state |-> "clean", seen |-> {}, locked |-> {}]

\* seen: the snapshot of an UPDATE; locked: the rows it has deactivated
SessionState ==
  [state: {"clean", "aborted", "updating", "updated", "inserted", "closed"},
   seen: SUBSET Rule, locked: SUBSET Rule]

TypeOK ==
  /\ setting \in Settings
  /\ call \in [Task -> CallState]
  /\ holder \in Task \cup {NoTask}
  /\ queue \in Seq(Task)
  /\ since \in 0..MinDelay
  /\ active \in [Key -> SUBSET Rule]
  /\ session \in [Session -> SessionState]

Init ==
  /\ setting \in Settings
  /\ call = [t \in Task |-> Fresh]
  /\ holder = NoTask
  /\ queue = <<>>
  /\ since = MinDelay
  /\ active = [k \in Key |-> IF k \in setting.known THEN {Old} ELSE {}]
  /\ session = [s \in Session |-> NoChange]

Fault(kind) == kind \in setting.faults

ActiveOf(s) == active[keyOf[s]]

At(t, pc) == call[t].pc = pc

Return(t, outcome) == call' = [call EXCEPT ![t] = [@ EXCEPT !.pc = "done", !.outcome = outcome]]

-----------------------------------------------------------------------------
(* The transformer: a rule, or the LLM.                                    *)

\* get_normalized_mapping up to the semaphore, which is first come, first served
AskLLM(t) ==
  \/ /\ setting.provider = "groq" /\ Fault("key")
     /\ Return(t, "nothing")
     /\ UNCHANGED gate
  \/ /\ ~(setting.provider = "groq" /\ Fault("key"))
     /\ call' = [call EXCEPT ![t].pc = "acquire"]
     /\ queue' = Append(queue, t)
     /\ UNCHANGED <<holder, since>>

RuleFound(t) ==
  /\ At(t, "idle")
  /\ setting.session
  /\ Cardinality(ActiveOf(t)) = 1
  /\ \/ ~Fault("rule") /\ Return(t, "rule") /\ UNCHANGED gate
     \/ Fault("rule") /\ AskLLM(t)
  /\ UNCHANGED <<setting, active, session>>

NoRule(t) ==
  /\ At(t, "idle")
  /\ ~setting.session \/ Cardinality(ActiveOf(t)) # 1  \* several: MultipleResultsFound
  /\ AskLLM(t)
  /\ UNCHANGED <<setting, active, session>>

\* a miss too, but the transaction of the session stays aborted
LookupFails(t) ==
  /\ At(t, "idle")
  /\ setting.session
  /\ Fault("database")
  /\ AskLLM(t)
  /\ session' = [session EXCEPT ![t].state = "aborted"]
  /\ UNCHANGED <<setting, active>>

-----------------------------------------------------------------------------
(* The clients.                                                            *)

StartAttempt(t, n) ==
  call' = [call EXCEPT ![t] = [@ EXCEPT !.pc = "limiter", !.attempt = n]]

\* the exponential backoff after a 429
Pause(t) ==
  call' = [call EXCEPT ![t] = [@ EXCEPT !.pc = "backoff", !.wait = 2^(call[t].attempt - 1)]]

Acquire(t) ==
  /\ At(t, "acquire")
  /\ holder = NoTask
  /\ queue # <<>> /\ Head(queue) = t
  /\ holder' = t
  /\ queue' = Tail(queue)
  /\ StartAttempt(t, 1)
  /\ UNCHANGED <<setting, since, active, session>>

\* mutation of MayStart: the limiter is passed once, before the loop of attempts
MayRetryAtOnce(t) == At(t, "limiter") /\ (since >= MinDelay \/ call[t].attempt > 1)

\* the limiter stamps when it lets a request go
MayStart(t) == At(t, "limiter") /\ since >= MinDelay

\* an answer that can be used is stored if there is a session, else just returned
TakeAnswer(t, items) ==
  IF items /\ setting.session
  THEN call' = [call EXCEPT ![t].pc = "persist"]
  ELSE Return(t, IF items THEN "items" ELSE "nothing")

\* what becomes of a request that is not answered with 429: all errors end as a
\* rejection, and the semaphore is released before anything is parsed
Answered(t) ==
  /\ holder' = NoTask
  /\ \/ TakeAnswer(t, TRUE)
     \/ (Fault("http") \/ Fault("garbage")) /\ TakeAnswer(t, FALSE)
  /\ UNCHANGED queue

Post(t) ==
  /\ setting.provider = "groq"
  /\ MayStart(t)
  /\ since' = 0
  /\ call' = [call EXCEPT ![t].pc = "posted"]
  /\ UNCHANGED <<setting, holder, queue, active, session>>

\* Groq: a 429 is an error like others
PostAnswered(t) ==
  /\ At(t, "posted")
  /\ Answered(t) \/ (Fault("limit") /\ TakeAnswer(t, FALSE) /\ holder' = NoTask /\ UNCHANGED queue)
  /\ UNCHANGED <<setting, since, active, session>>

\* GitHub Models: blocking, so time passes within the step
Complete(t) ==
  /\ setting.provider = "github"
  /\ MayStart(t)
  /\ since' \in 0..MinDelay
  /\ Answered(t)
  /\ UNCHANGED <<setting, active, session>>

\* mutation of Limited: one attempt too many
LimitedOnceMore(t) ==
  /\ setting.provider = "github"
  /\ Fault("limit")
  /\ MayStart(t)
  /\ since' \in 0..MinDelay
  /\ IF call[t].attempt <= MaxAttempts
     THEN /\ Pause(t)
          /\ UNCHANGED holder
     ELSE Return(t, "nothing") /\ holder' = NoTask
  /\ UNCHANGED <<setting, queue, active, session>>

\* mutation of Limited: the pause is outside the semaphore
LimitedOutside(t) ==
  /\ setting.provider = "github"
  /\ Fault("limit")
  /\ MayStart(t)
  /\ since' \in 0..MinDelay
  /\ holder' = NoTask
  /\ IF call[t].attempt < MaxAttempts
     THEN Pause(t)
     ELSE Return(t, "nothing")
  /\ UNCHANGED <<setting, queue, active, session>>

\* 2^(attempt-1) ticks of sleep inside the semaphore, or the end of the attempts
Limited(t) ==
  /\ setting.provider = "github"
  /\ Fault("limit")
  /\ MayStart(t)
  /\ since' \in 0..MinDelay
  /\ IF call[t].attempt < MaxAttempts
     THEN /\ Pause(t)
          /\ UNCHANGED holder
     ELSE Return(t, "nothing") /\ holder' = NoTask
  /\ UNCHANGED <<setting, queue, active, session>>

Retry(t) ==
  /\ At(t, "backoff")
  /\ call[t].wait = 0
  /\ StartAttempt(t, call[t].attempt + 1)
  /\ UNCHANGED <<setting, gate, active, session>>

Inside(t) == call[t].pc \in {"limiter", "posted", "backoff"}

LeaveQueue(t) ==
  \E i \in DOMAIN queue :
    queue[i] = t /\ queue' = SubSeq(queue, 1, i - 1) \o SubSeq(queue, i + 1, Len(queue))

\* mutation of Cancel: acquired by hand, the semaphore is not released
CancelHolds(t) ==
  /\ Fault("cancel")
  /\ \/ At(t, "idle") /\ setting.session /\ UNCHANGED queue
     \/ At(t, "acquire") /\ LeaveQueue(t)
     \/ Inside(t) /\ UNCHANGED queue
  /\ Return(t, "cancelled")
  /\ UNCHANGED <<setting, holder, since, active, session>>

\* while the rule is looked up, or before the answer: CancelledError leaves the queue,
\* or the semaphore, on its way out
Cancel(t) ==
  /\ Fault("cancel")
  /\ \/ At(t, "idle") /\ setting.session /\ UNCHANGED <<holder, queue>>
     \/ At(t, "acquire") /\ LeaveQueue(t) /\ UNCHANGED holder
     \/ Inside(t) /\ holder' = NoTask /\ UNCHANGED queue
  /\ Return(t, "cancelled")
  /\ UNCHANGED <<setting, since, active, session>>

Ticking == {t \in Task : call[t].wait > 0 /\ At(t, "backoff")}

Tick ==
  /\ since < MinDelay \/ Ticking # {}
  /\ since' = IF since < MinDelay THEN since + 1 ELSE since
  /\ call' = [t \in Task |->
       IF t \in Ticking THEN [call[t] EXCEPT !.wait = @ - 1] ELSE call[t]]
  /\ UNCHANGED <<setting, holder, queue, active, session>>

-----------------------------------------------------------------------------
(* The table of rules, under READ COMMITTED and a partial unique index.    *)

Others(s) == {o \in Session \ {s} : keyOf[o] = keyOf[s]}

\* an UPDATE waits for whoever updated its rows before, then looks at them again;
\* rows that were inserted since its snapshot it does not see
StartUpdate(s) ==
  session' = [session EXCEPT ![s] = [state |-> "updating", seen |-> ActiveOf(s), locked |-> {}]]

UpdateEnds(s) ==
  /\ session[s].state = "updating"
  /\ \A o \in Others(s) : session[o].locked \cap session[s].seen = {}
  /\ session' = [session EXCEPT ![s].state = "updated",
                                ![s].locked = session[s].seen \cap ActiveOf(s)]

Rollback(s) == session' = [session EXCEPT ![s] = NoChange]

Failing(s) == session[s].state = "aborted" \/ Fault("database")

\* deactivate_llm_mapping_rule_by_key
Deactivate(t) ==
  /\ At(t, "persist")
  /\ session[t].state = "clean"
  /\ StartUpdate(t)
  /\ UNCHANGED <<setting, call, gate, active>>

Deactivated(t) ==
  /\ At(t, "persist")
  /\ UpdateEnds(t)
  /\ call' = [call EXCEPT ![t].pc = "insert"]
  /\ UNCHANGED <<setting, gate, active>>

\* nobody has an insert pending under the key, or has deactivated one of its rows
IndexFree(t) ==
  \A o \in Others(t) : session[o].state # "inserted" /\ session[o].locked = {}

\* the new row is flushed
Inserts(t) ==
  /\ IndexFree(t)
  /\ ActiveOf(t) \subseteq session[t].locked
  /\ session' = [session EXCEPT ![t].state = "inserted"]

\* mutation of Insert: a migration without the unique index
InsertUnchecked(t) ==
  /\ At(t, "insert")
  /\ session' = [session EXCEPT ![t].state = "inserted"]
  /\ call' = [call EXCEPT ![t].pc = "commit"]
  /\ UNCHANGED <<setting, gate, active>>

Insert(t) ==
  /\ At(t, "insert")
  /\ Inserts(t)
  /\ call' = [call EXCEPT ![t].pc = "commit"]
  /\ UNCHANGED <<setting, gate, active>>

Storing(t) == call[t].pc \in {"persist", "insert", "commit"}

\* a statement of the transaction fails, or the row breaks the unique index
StatementFails(t) ==
  \/ Storing(t) /\ Failing(t)
  \/ At(t, "insert") /\ IndexFree(t) /\ ~(ActiveOf(t) \subseteq session[t].locked)

\* mutation of PersistFails: no rollback
PersistFailsOpen(t) ==
  /\ StatementFails(t)
  /\ Return(t, "items")
  /\ UNCHANGED <<setting, gate, active, session>>

\* rolled back, and the mapped items are returned all the same; a rollback that fails
\* too raises from the handler of the first error, and nothing is returned
PersistFails(t) ==
  /\ StatementFails(t)
  /\ \/ Rollback(t) /\ Return(t, "items")
     \/ Fault("database") /\ Return(t, "raised") /\ UNCHANGED session
  /\ UNCHANGED <<setting, gate, active>>

Commits(t) ==
  /\ active' = [active EXCEPT ![keyOf[t]] = (@ \ session[t].locked) \cup {t}]
  /\ Rollback(t)

CommitRule(t) ==
  /\ At(t, "commit")
  /\ Commits(t)
  /\ Return(t, "items")
  /\ UNCHANGED <<setting, gate>>

\* CancelledError passes the handler: no rollback, no items.  The statement it
\* interrupts may have reached the database
CancelStoring(t) ==
  /\ Fault("cancel")
  /\ \/ Storing(t) /\ UNCHANGED <<active, session>>
     \/ At(t, "persist") /\ UpdateEnds(t) /\ UNCHANGED active
     \/ At(t, "insert") /\ Inserts(t) /\ UNCHANGED active
     \/ At(t, "commit") /\ Commits(t)
  /\ Return(t, "cancelled")
  /\ UNCHANGED <<setting, gate>>

\* the call is over and its caller leaves the session, which ends what is pending
LeaveSession(t) ==
  /\ At(t, "done")
  /\ session[t] # NoChange
  /\ Rollback(t)
  /\ UNCHANGED <<setting, call, gate, active>>

\* the endpoint: the same update, committed when its session is left
Invalidate ==
  /\ session[Admin] = NoChange
  /\ StartUpdate(Admin)
  /\ UNCHANGED <<setting, call, gate, active>>

Invalidated ==
  /\ UpdateEnds(Admin)
  /\ UNCHANGED <<setting, call, gate, active>>

\* mutation of CloseSession: the rows are written back as they were read
CloseSessionRestores ==
  /\ session[Admin].state = "updated"
  /\ active' = [active EXCEPT ![keyOf[Admin]] = session[Admin].seen]
  /\ session' = [session EXCEPT ![Admin] = [NoChange EXCEPT !.state = "closed"]]
  /\ UNCHANGED <<setting, call, gate>>

CloseSession ==
  /\ session[Admin].state = "updated"
  /\ \/ active' = [active EXCEPT ![keyOf[Admin]] = @ \ session[Admin].locked]
     \/ Fault("database") /\ UNCHANGED active
  /\ session' = [session EXCEPT ![Admin] = [NoChange EXCEPT !.state = "closed"]]
  /\ UNCHANGED <<setting, call, gate>>

-----------------------------------------------------------------------------
Transform(t) ==
  \/ RuleFound(t) \/ NoRule(t) \/ LookupFails(t)
  \/ Acquire(t) \/ Post(t) \/ PostAnswered(t) \/ Complete(t) \/ Limited(t) \/ Retry(t)
  \/ Deactivate(t) \/ Deactivated(t) \/ Insert(t) \/ PersistFails(t) \/ CommitRule(t)

Next ==
  \/ \E t \in Task : Transform(t) \/ Cancel(t) \/ CancelStoring(t) \/ LeaveSession(t)
  \/ Tick
  \/ Invalidate \/ Invalidated \/ CloseSession

\* the event loop goes on, time passes, sessions are left by whoever opened them, and
\* the database answers the endpoint
Fairness ==
  /\ \A t \in Task : WF_vars(Transform(t)) /\ WF_vars(LeaveSession(t))
  /\ WF_vars(Tick)
  /\ WF_vars(Invalidated \/ CloseSession)

Spec == Init /\ [][Next]_vars /\ Fairness

-----------------------------------------------------------------------------
(* Properties.                                                             *)

\* "serialize outbound LLM requests" (llm_client.py:21): between its first attempt
\* and the end of its last a call has the semaphore to itself, the pauses after a
\* 429 included, and the semaphore is never left with a call that is over.
OneCallAtATime ==
  \A t \in Task : Inside(t) <=> holder = t

\* "Ensure a minimum delay between calls across concurrent tasks"
\* (rate_limiter.py:10): a request starts MinDelay after the one before, whether
\* that was another call's or an attempt of the same call.
RequestsAreSpaced ==
  [][\A t \in Task : At(t, "limiter") /\ call'[t].pc \notin {"limiter", "done"}
       => since = MinDelay]_vars

\* "una sola regla activa por clave" (queries.py:419-420), whatever workers that
\* learn the same key and the endpoint do at the same time.
OneActiveRule == \A k \in Key : Cardinality(active[k]) <= 1

\* A rule comes into force once, by the commit of the batch that learned it: one
\* that was invalidated or replaced never returns (monitoring.py:155-158).
RulesNeverReturn ==
  [][\A k \in Key : \A r \in active'[k] \ active[k] :
       r \in Task /\ keyOf[r] = k /\ At(r, "commit")]_vars

\* A call that returns, mapped or not, leaves no statement, row or index entry pending
\* in its session, so that nobody waits for a batch that is through; only one that is
\* cancelled, or whose rollback fails, leaves its transaction to the owner of the
\* session (llm_transformer.py:184-211).
NothingLocked ==
  \A t \in Task :
    At(t, "done") /\ call[t].outcome \notin {"cancelled", "raised"}
      => session[t].locked = {} /\ session[t].state \notin {"updating", "inserted"}

stageOf == [t \in Task |->
  CASE At(t, "done") -> call[t].outcome
    [] Inside(t) -> "asking"
    [] Storing(t) -> "answered"
    [] OTHER -> "waiting"]

Learning == INSTANCE LearnContract WITH stage <- stageOf, rules <- active

\* The calls and the table implement LearnContract: the provider has one call at a
\* time, and a rule replaces its predecessor in one step, although the one is two
\* statements and a commit, the other a loop of attempts, and either may fail, be
\* cancelled at each of its awaits or wait for somebody else's rows; a batch cancelled
\* while it stores has learned its rule or not (llm_transformer.py:86-211,
\* queries.py:351-441).
KeepsLearnContract == Learning!Spec

\* the order of the stages within one attempt
Phase(pc) ==
  CASE pc = "idle" -> 0 [] pc = "acquire" -> 1 [] pc = "limiter" -> 2 [] pc = "posted" -> 3
    [] pc = "backoff" -> 4 [] pc = "persist" -> 5 [] pc = "insert" -> 6
    [] pc = "commit" -> 7 [] pc = "done" -> 8

\* A call never turns back: a step of it begins a later attempt, reaches a later
\* stage or shortens its pause, down to zero; attempts above MaxAttempts there are
\* none, and a call that is over stays so.  What EveryCallReturns needs beside
\* fairness.
CallsAdvance ==
  [][\A t \in Task :
       \/ call'[t] = call[t]
       \/ call'[t].attempt > call[t].attempt /\ ~At(t, "done")
       \/ /\ call'[t].attempt = call[t].attempt
          /\ \/ Phase(call'[t].pc) > Phase(call[t].pc)
             \/ call'[t].pc = call[t].pc /\ call'[t].wait \in 0..(call[t].wait - 1)]_vars

\* Every call comes back, behind 429s, pauses, cancelled neighbours and sessions
\* that wait for each other's rows, those of a neighbour that was cancelled in the
\* middle of its transaction included.
EveryCallReturns == \A t \in Task : <>At(t, "done")
=============================================================================
