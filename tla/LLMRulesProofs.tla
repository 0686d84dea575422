---------------------------- MODULE LLMRulesProofs ----------------------------
(* Theorems about LLMRules, for every number of batches, keys and sessions,   *)
(* every provider and every fault.                                            *)
EXTENDS LLMRules, TLAPS, FiniteSetTheorems

-----------------------------------------------------------------------------
(* Types.                                                                  *)

LEMMA FreshTypes == Fresh \in CallState /\ NoChange \in SessionState
  BY LLMRulesAssumption DEF Fresh, CallState, NoChange, SessionState

LEMMA InitType ==
  ASSUME Init
  PROVE  TypeOK
  <1>1. \A k \in Key : (IF k \in setting.known THEN {Old} ELSE {}) \in SUBSET Rule
    BY DEF Rule
  <1>2. QED
    BY <1>1, FreshTypes, LLMRulesAssumption DEF Init, TypeOK

LEMMA ReturnType ==
  ASSUME TypeOK, NEW t \in Task,
         NEW outcome \in {"rule", "items", "nothing", "raised", "cancelled"},
         Return(t, outcome)
  PROVE  call' \in [Task -> CallState]
  BY DEF TypeOK, Return, CallState

LEMMA PcType ==
  ASSUME TypeOK, NEW t \in Task,
         NEW pc \in {"acquire", "posted", "persist", "insert", "commit"},
         call' = [call EXCEPT ![t].pc = pc]
  PROVE  call' \in [Task -> CallState]
  BY DEF TypeOK, CallState

LEMMA AskLLMType ==
  ASSUME TypeOK, NEW t \in Task, AskLLM(t)
  PROVE  /\ call' \in [Task -> CallState]
         /\ holder' = holder /\ since' = since
         /\ queue' \in Seq(Task)
  <1>1. CASE Return(t, "nothing") /\ UNCHANGED gate
    BY <1>1, ReturnType DEF TypeOK, gate
  <1>2. CASE /\ call' = [call EXCEPT ![t].pc = "acquire"]
             /\ queue' = Append(queue, t)
             /\ UNCHANGED <<holder, since>>
    <2>1. call' \in [Task -> CallState]
      BY <1>2, PcType
    <2>2. queue' \in Seq(Task)
      BY <1>2 DEF TypeOK
    <2>3. QED
      BY <1>2, <2>1, <2>2
  <1>3. QED
    BY <1>1, <1>2 DEF AskLLM

LEMMA TakeAnswerType ==
  ASSUME TypeOK, NEW t \in Task, NEW items \in BOOLEAN, TakeAnswer(t, items)
  PROVE  call' \in [Task -> CallState]
  BY ReturnType, PcType DEF TakeAnswer

LEMMA AnsweredType ==
  ASSUME TypeOK, NEW t \in Task, Answered(t)
  PROVE  call' \in [Task -> CallState] /\ holder' = NoTask /\ queue' = queue
  BY TakeAnswerType DEF Answered

LEMMA RollbackType ==
  ASSUME TypeOK, NEW s \in Session, Rollback(s)
  PROVE  session' \in [Session -> SessionState]
  BY FreshTypes DEF TypeOK, Rollback

LEMMA StartUpdateType ==
  ASSUME TypeOK, NEW s \in Session, StartUpdate(s)
  PROVE  session' \in [Session -> SessionState]
  BY LLMRulesAssumption DEF TypeOK, StartUpdate, ActiveOf, SessionState

LEMMA UpdateEndsType ==
  ASSUME TypeOK, NEW s \in Session, UpdateEnds(s)
  PROVE  session' \in [Session -> SessionState]
  BY LLMRulesAssumption DEF TypeOK, UpdateEnds, ActiveOf, SessionState

LEMMA InsertsType ==
  ASSUME TypeOK, NEW t \in Task, Inserts(t)
  PROVE  session' \in [Session -> SessionState]
  BY DEF TypeOK, Inserts, SessionState, Session

LEMMA CommitsType ==
  ASSUME TypeOK, NEW t \in Task, Commits(t)
  PROVE  active' \in [Key -> SUBSET Rule] /\ session' \in [Session -> SessionState]
  <1>1. t \in Session
    BY DEF Session
  <1>2. active' \in [Key -> SUBSET Rule]
    BY <1>1 DEF TypeOK, Commits, Rule, SessionState
  <1>3. QED
    BY <1>1, <1>2, RollbackType DEF Commits

LEMMA PauseType ==
  ASSUME TypeOK, NEW t \in Task, call[t].attempt >= 1, Pause(t)
  PROVE  call' \in [Task -> CallState]
  <1>1. 2^(call[t].attempt - 1) \in Int
    BY DEF TypeOK, CallState
  <1>2. [call[t] EXCEPT !.pc = "backoff", !.wait = 2^(call[t].attempt - 1)] \in CallState
    BY <1>1 DEF TypeOK, CallState
  <1>3. QED
    BY <1>2 DEF TypeOK, Pause

LEMMA AttemptType ==
  ASSUME TypeOK, NEW t \in Task, NEW n \in 1..MaxAttempts, StartAttempt(t, n)
  PROVE  call' \in [Task -> CallState]
  <1>1. n \in 0..MaxAttempts
    BY LLMRulesAssumption
  <1>2. [call[t] EXCEPT !.pc = "limiter", !.attempt = n] \in CallState
    BY <1>1 DEF TypeOK, CallState
  <1>3. QED
    BY <1>2 DEF TypeOK, StartAttempt

LEMMA TickType ==
  ASSUME TypeOK, Tick
  PROVE  call' \in [Task -> CallState] /\ since' \in 0..MinDelay
  <1>1. ASSUME NEW t \in Task
        PROVE  [call[t] EXCEPT !.wait = @ - 1] \in CallState
    <2>1. call[t].wait - 1 \in Int
      BY DEF TypeOK, CallState
    <2>2. QED
      BY <2>1 DEF TypeOK, CallState
  <1>2. call' \in [Task -> CallState]
    BY <1>1 DEF TypeOK, Tick
  <1>3. since' \in 0..MinDelay
    BY LLMRulesAssumption DEF TypeOK, Tick
  <1>4. QED
    BY <1>2, <1>3

LEMMA LeaveQueueType ==
  ASSUME TypeOK, NEW t \in Task, LeaveQueue(t)
  PROVE  queue' \in Seq(Task)
  BY DEF TypeOK, LeaveQueue

\* A call inside has begun an attempt, one in front has not, and one that pauses has an
\* attempt left: without it Retry could count too far, and the pause be no whole number
\* of ticks.
AttemptCounted(t) ==
  /\ At(t, "idle") \/ At(t, "acquire") => call[t].attempt = 0
  /\ At(t, "limiter") => call[t].attempt >= 1
  /\ At(t, "backoff") => call[t].attempt >= 1 /\ call[t].attempt < MaxAttempts

Attempts == \A t \in Task : AttemptCounted(t)

LEMMA LimitedType ==
  ASSUME TypeOK, Attempts, NEW t \in Task, Limited(t)
  PROVE  call' \in [Task -> CallState]
  <1>1. CASE call[t].attempt < MaxAttempts
    BY <1>1, PauseType DEF Limited, MayStart, Attempts, AttemptCounted
  <1>2. CASE ~(call[t].attempt < MaxAttempts)
    BY <1>2, ReturnType DEF Limited
  <1>3. QED
    BY <1>1, <1>2

LEMMA RetryType ==
  ASSUME TypeOK, Attempts, NEW t \in Task, Retry(t)
  PROVE  call' \in [Task -> CallState]
  <1>1. call[t].attempt + 1 \in 1..MaxAttempts
    BY LLMRulesAssumption DEF TypeOK, CallState, Attempts, AttemptCounted, Retry
  <1>2. QED
    BY <1>1, AttemptType DEF Retry

LEMMA TransformType ==
  ASSUME TypeOK, Attempts, NEW t \in Task, Transform(t)
  PROVE  TypeOK'
  <1> t \in Session
    BY DEF Session
  <1>1. CASE RuleFound(t)
    <2>1. CASE Return(t, "rule") /\ UNCHANGED gate
      BY <1>1, <2>1, ReturnType DEF TypeOK, RuleFound, gate
    <2>2. CASE AskLLM(t)
      BY <1>1, <2>2, AskLLMType DEF TypeOK, RuleFound
    <2>3. QED
      BY <1>1, <2>1, <2>2 DEF RuleFound
  <1>2. CASE NoRule(t)
    BY <1>2, AskLLMType DEF TypeOK, NoRule
  <1>3. CASE LookupFails(t)
    <2>1. session' \in [Session -> SessionState]
      BY <1>3 DEF TypeOK, LookupFails, SessionState
    <2>2. QED
      BY <1>3, <2>1, AskLLMType DEF TypeOK, LookupFails
  <1>4. CASE Acquire(t)
    <2>1. call' \in [Task -> CallState]
      BY <1>4, AttemptType, LLMRulesAssumption DEF Acquire
    <2>2. QED
      BY <1>4, <2>1 DEF TypeOK, Acquire
  <1>5. CASE Post(t)
    <2>1. call' \in [Task -> CallState]
      BY <1>5, PcType DEF Post
    <2>2. since' \in 0..MinDelay
      BY <1>5, LLMRulesAssumption DEF Post
    <2>3. QED
      BY <1>5, <2>1, <2>2 DEF TypeOK, Post
  <1>6. CASE PostAnswered(t)
    <2>1. CASE Answered(t)
      BY <1>6, <2>1, AnsweredType DEF TypeOK, PostAnswered
    <2>2. CASE TakeAnswer(t, FALSE) /\ holder' = NoTask /\ UNCHANGED queue
      BY <1>6, <2>2, TakeAnswerType DEF TypeOK, PostAnswered
    <2>3. QED
      BY <1>6, <2>1, <2>2 DEF PostAnswered
  <1>7. CASE Complete(t)
    BY <1>7, AnsweredType DEF TypeOK, Complete
  <1>8. CASE Limited(t)
    BY <1>8, LimitedType DEF TypeOK, Limited
  <1>9. CASE Retry(t)
    BY <1>9, RetryType DEF TypeOK, Retry, gate
  <1>10. CASE Deactivate(t)
    BY <1>10, StartUpdateType DEF TypeOK, Deactivate, gate
  <1>11. CASE Deactivated(t)
    BY <1>11, UpdateEndsType, PcType DEF TypeOK, Deactivated, gate
  <1>12. CASE Insert(t)
    BY <1>12, InsertsType, PcType DEF TypeOK, Insert, gate
  <1>13. CASE PersistFails(t)
    BY <1>13, RollbackType, ReturnType DEF TypeOK, PersistFails, gate
  <1>14. CASE CommitRule(t)
    BY <1>14, CommitsType, ReturnType DEF TypeOK, CommitRule, gate
  <1>15. QED
    BY <1>1, <1>2, <1>3, <1>4, <1>5, <1>6, <1>7, <1>8, <1>9, <1>10, <1>11, <1>12, <1>13,
       <1>14 DEF Transform

LEMMA CancelStoringType ==
  ASSUME TypeOK, NEW t \in Task, CancelStoring(t)
  PROVE  TypeOK'
  <1>1. call' \in [Task -> CallState]
    BY ReturnType DEF CancelStoring
  <1>2. active' \in [Key -> SUBSET Rule] /\ session' \in [Session -> SessionState]
    BY UpdateEndsType, InsertsType, CommitsType DEF CancelStoring, TypeOK, Session
  <1>3. QED
    BY <1>1, <1>2 DEF TypeOK, CancelStoring, gate

LEMMA NextType ==
  ASSUME TypeOK, Attempts, [Next]_vars
  PROVE  TypeOK'
  <1> Task \subseteq Session /\ Admin \in Session
    BY DEF Session
  <1>1. CASE \E t \in Task : Transform(t)
    BY <1>1, TransformType
  <1>2. ASSUME NEW t \in Task, Cancel(t)
        PROVE  TypeOK'
    BY <1>2, ReturnType, LeaveQueueType DEF TypeOK, Cancel
  <1>3. CASE Tick
    BY <1>3, TickType DEF TypeOK, Tick
  <1>4. CASE Invalidate
    BY <1>4, StartUpdateType DEF TypeOK, Invalidate, gate
  <1>5. CASE Invalidated
    BY <1>5, UpdateEndsType DEF TypeOK, Invalidated, gate
  <1>6. CASE CloseSession
    <2>1. session' \in [Session -> SessionState]
      BY <1>6 DEF TypeOK, CloseSession, NoChange, SessionState
    <2>2. active' \in [Key -> SUBSET Rule]
      BY <1>6 DEF TypeOK, CloseSession
    <2>3. QED
      BY <1>6, <2>1, <2>2 DEF TypeOK, CloseSession, gate
  <1>7. CASE UNCHANGED vars
    BY <1>7 DEF TypeOK, vars, gate
  <1>8. ASSUME NEW t \in Task, LeaveSession(t)
        PROVE  TypeOK'
    BY <1>8, RollbackType DEF TypeOK, LeaveSession, gate
  <1>9. QED
    BY <1>1, <1>2, <1>3, <1>4, <1>5, <1>6, <1>7, <1>8, CancelStoringType DEF Next

-----------------------------------------------------------------------------
(* The semaphore and its calls.                                            *)

\* The one argument on which the invariants of a call rest: a step changes the calls
\* of nobody but one batch, and Tick only what is left of their pauses.
Moves(t) ==
  RuleFound(t) \/ NoRule(t) \/ LookupFails(t) \/ Acquire(t) \/ Post(t) \/ PostAnswered(t)
    \/ Complete(t) \/ Limited(t) \/ Retry(t) \/ Cancel(t)

Stores(t) ==
  Deactivate(t) \/ Deactivated(t) \/ Insert(t) \/ PersistFails(t) \/ CommitRule(t)
    \/ CancelStoring(t)

\* sessions that no call is using
Elsewhere == Invalidate \/ Invalidated \/ CloseSession \/ \E t \in Task : LeaveSession(t)

LEMMA Steps ==
  ASSUME [Next]_vars
  PROVE  \/ \E t \in Task : Moves(t) \/ Stores(t)
         \/ Tick
         \/ Elsewhere
         \/ UNCHANGED vars
  BY DEF Next, Transform, Moves, Stores, Elsewhere

\* What the parts of a step do to the calls.
Becomes(t, pc) == call'[t].pc = pc /\ call'[t].attempt = call[t].attempt

LEMMA Effects ==
  ASSUME TypeOK, NEW t \in Task
  PROVE  /\ \A outcome :
              Return(t, outcome) => Becomes(t, "done") /\ call'[t].outcome = outcome
         /\ \A pc : call' = [call EXCEPT ![t].pc = pc] => Becomes(t, pc)
         /\ \A n : StartAttempt(t, n) => call'[t].pc = "limiter" /\ call'[t].attempt = n
         /\ Pause(t) => Becomes(t, "backoff")
  <1>1. \A outcome :
          Return(t, outcome) => Becomes(t, "done") /\ call'[t].outcome = outcome
    BY DEF TypeOK, CallState, Return, Becomes
  <1>2. \A pc : call' = [call EXCEPT ![t].pc = pc] => Becomes(t, pc)
    BY DEF TypeOK, CallState, Becomes
  <1>3. \A n : StartAttempt(t, n) => call'[t].pc = "limiter" /\ call'[t].attempt = n
    BY DEF TypeOK, CallState, StartAttempt
  <1>4. Pause(t) => Becomes(t, "backoff")
    BY DEF TypeOK, CallState, Pause, Becomes
  <1>5. QED
    BY <1>1, <1>2, <1>3, <1>4

LEMMA MovesEffects ==
  ASSUME TypeOK, NEW t \in Task
  PROVE  /\ RuleFound(t) \/ NoRule(t) \/ LookupFails(t) =>
              /\ At(t, "idle") /\ (Becomes(t, "done") \/ Becomes(t, "acquire"))
              /\ holder' = holder
         /\ Acquire(t) => At(t, "acquire") /\ call'[t].pc = "limiter" /\ call'[t].attempt = 1
         /\ Post(t) => At(t, "limiter") /\ Becomes(t, "posted") /\ holder' = holder
         /\ PostAnswered(t) \/ Complete(t) =>
              /\ At(t, "limiter") \/ At(t, "posted")
              /\ Becomes(t, "done") \/ Becomes(t, "persist")
              /\ holder' = NoTask
         /\ Limited(t) =>
              /\ At(t, "limiter")
              /\ \/ Becomes(t, "backoff") /\ holder' = holder /\ call[t].attempt < MaxAttempts
                 \/ Becomes(t, "done") /\ holder' = NoTask
         /\ Retry(t) =>
              /\ At(t, "backoff") /\ holder' = holder
              /\ call'[t].pc = "limiter" /\ call'[t].attempt = call[t].attempt + 1
         /\ Cancel(t) =>
              /\ Becomes(t, "done")
              /\ \/ (At(t, "idle") \/ At(t, "acquire")) /\ holder' = holder
                 \/ Inside(t) /\ holder' = NoTask
         /\ Stores(t) =>
              /\ At(t, "persist") \/ At(t, "insert") \/ At(t, "commit")
              /\ \/ Becomes(t, "persist") \/ Becomes(t, "insert") \/ Becomes(t, "commit")
                 \/ Becomes(t, "done")
              /\ holder' = holder
  <1>1. RuleFound(t) \/ NoRule(t) \/ LookupFails(t) =>
          /\ At(t, "idle") /\ (Becomes(t, "done") \/ Becomes(t, "acquire"))
          /\ holder' = holder
    BY Effects DEF RuleFound, NoRule, LookupFails, AskLLM, gate
  <1>2. Acquire(t) => At(t, "acquire") /\ call'[t].pc = "limiter" /\ call'[t].attempt = 1
    BY Effects DEF Acquire
  <1>3. Post(t) => At(t, "limiter") /\ Becomes(t, "posted") /\ holder' = holder
    BY Effects DEF Post, MayStart
  <1>4. \A items : TakeAnswer(t, items) => Becomes(t, "done") \/ Becomes(t, "persist")
    BY Effects DEF TakeAnswer
  <1>5. PostAnswered(t) \/ Complete(t) =>
          /\ At(t, "limiter") \/ At(t, "posted")
          /\ Becomes(t, "done") \/ Becomes(t, "persist")
          /\ holder' = NoTask
    BY <1>4 DEF PostAnswered, Complete, Answered, MayStart
  <1>6. Limited(t) =>
          /\ At(t, "limiter")
          /\ \/ Becomes(t, "backoff") /\ holder' = holder /\ call[t].attempt < MaxAttempts
             \/ Becomes(t, "done") /\ holder' = NoTask
    BY Effects DEF Limited, MayStart
  <1>7. Retry(t) =>
          /\ At(t, "backoff") /\ holder' = holder
          /\ call'[t].pc = "limiter" /\ call'[t].attempt = call[t].attempt + 1
    BY Effects DEF Retry, gate
  <1>8. Cancel(t) =>
          /\ Becomes(t, "done")
          /\ \/ (At(t, "idle") \/ At(t, "acquire")) /\ holder' = holder
             \/ Inside(t) /\ holder' = NoTask
    BY Effects DEF Cancel
  <1>9. Stores(t) =>
          /\ At(t, "persist") \/ At(t, "insert") \/ At(t, "commit")
          /\ \/ Becomes(t, "persist") \/ Becomes(t, "insert") \/ Becomes(t, "commit")
             \/ Becomes(t, "done")
          /\ holder' = holder
    <2>1. Deactivate(t) => At(t, "persist") /\ Becomes(t, "persist") /\ holder' = holder
      BY DEF Deactivate, At, Becomes, gate
    <2>2. Deactivated(t) => At(t, "persist") /\ Becomes(t, "insert") /\ holder' = holder
      BY Effects DEF Deactivated, gate
    <2>3. Insert(t) => At(t, "insert") /\ Becomes(t, "commit") /\ holder' = holder
      BY Effects DEF Insert, gate
    <2>4. PersistFails(t) =>
            /\ At(t, "persist") \/ At(t, "insert") \/ At(t, "commit")
            /\ Becomes(t, "done") /\ holder' = holder
      BY Effects DEF PersistFails, StatementFails, Storing, gate, At
    <2>5. CommitRule(t) => At(t, "commit") /\ Becomes(t, "done") /\ holder' = holder
      BY Effects DEF CommitRule, gate
    <2>6. CancelStoring(t) =>
            /\ At(t, "persist") \/ At(t, "insert") \/ At(t, "commit")
            /\ Becomes(t, "done") /\ holder' = holder
      BY Effects DEF CancelStoring, Storing, gate, At
    <2>7. QED
      BY <2>1, <2>2, <2>3, <2>4, <2>5, <2>6 DEF Stores
  <1>10. QED
    BY <1>1, <1>2, <1>3, <1>5, <1>6, <1>7, <1>8, <1>9

\* A step leaves the calls of other batches alone.
LEMMA OneCallMoves ==
  ASSUME TypeOK, NEW t \in Task, Moves(t) \/ Stores(t)
  PROVE  \A u \in Task \ {t} : call'[u] = call[u]
  <1>1. CASE Moves(t)
    BY <1>1 DEF TypeOK, Moves, RuleFound, NoRule, LookupFails, Acquire, Post, PostAnswered,
       Complete, Limited, Retry, Cancel, AskLLM, Answered, TakeAnswer, Return, StartAttempt,
       Pause
  <1>2. CASE Stores(t)
    BY <1>2 DEF TypeOK, Stores, Deactivate, Deactivated, Insert, PersistFails, CommitRule,
       CancelStoring, Return
  <1>3. QED
    BY <1>1, <1>2

LEMMA AttemptsKept ==
  ASSUME TypeOK, Attempts, [Next]_vars
  PROVE  Attempts'
  <1>1. ASSUME NEW t \in Task, Moves(t) \/ Stores(t)
        PROVE  AttemptCounted(t)'
    <2>1. call[t].attempt \in Nat
      BY LLMRulesAssumption DEF TypeOK, CallState
    <2>2. AttemptCounted(t)
      BY DEF Attempts
    <2>3. QED
      BY <1>1, <2>1, <2>2, MovesEffects DEF Moves, Becomes, AttemptCounted, At
  <1>2. ASSUME NEW t \in Task, Moves(t) \/ Stores(t)
        PROVE  Attempts'
    BY <1>1, <1>2, OneCallMoves DEF Attempts, AttemptCounted, At
  <1>3. CASE Tick
    BY <1>3 DEF TypeOK, CallState, Attempts, AttemptCounted, Tick, At
  <1>4. CASE Elsewhere \/ UNCHANGED vars
    BY <1>4 DEF Attempts, AttemptCounted, Elsewhere, Invalidate, Invalidated, CloseSession,
       LeaveSession, vars, At
  <1>5. QED
    BY <1>2, <1>3, <1>4, Steps

LEMMA AttemptsCounted == Spec => [](TypeOK /\ Attempts)
  <1>1. Init => TypeOK /\ Attempts
    BY InitType DEF Init, Attempts, AttemptCounted, Fresh, At
  <1>2. TypeOK /\ Attempts /\ [Next]_vars => (TypeOK /\ Attempts)'
    BY NextType, AttemptsKept
  <1>3. QED
    BY <1>1, <1>2, PTL DEF Spec

\* Every variable of LLMRules keeps its type, however often a request is refused.
THEOREM TypeCorrect == Spec => []TypeOK
  BY AttemptsCounted, PTL

LEMMA GateKept ==
  ASSUME TypeOK, OneCallAtATime, [Next]_vars
  PROVE  OneCallAtATime'
  <1> USE LLMRulesAssumption
  <1>1. ASSUME NEW t \in Task, Moves(t) \/ Stores(t)
        PROVE  \/ holder' = holder /\ (Inside(t)' <=> Inside(t))
               \/ holder = NoTask /\ holder' = t /\ Inside(t)'
               \/ Inside(t) /\ holder' = NoTask /\ ~Inside(t)'
    <2>1. CASE Acquire(t)
      BY <2>1, MovesEffects DEF Acquire, Inside
    <2>2. CASE ~Acquire(t)
      BY <1>1, <2>2, MovesEffects DEF Moves, Becomes, At, Inside
    <2>3. QED
      BY <2>1, <2>2
  <1>2. ASSUME NEW t \in Task, Moves(t) \/ Stores(t)
        PROVE  OneCallAtATime'
    <2>1. \A u \in Task \ {t} : Inside(u)' <=> Inside(u)
      BY <1>2, OneCallMoves DEF Inside
    <2>2. QED
      BY <1>1, <1>2, <2>1 DEF OneCallAtATime
  <1>3. CASE Tick
    BY <1>3 DEF TypeOK, CallState, OneCallAtATime, Tick, Inside
  <1>4. CASE Elsewhere \/ UNCHANGED vars
    BY <1>4 DEF OneCallAtATime, Elsewhere, Invalidate, Invalidated, CloseSession,
       LeaveSession, vars, Inside, gate
  <1>5. QED
    BY <1>2, <1>3, <1>4, Steps

\* Between the first attempt of a call and the end of its last, pauses included, the
\* semaphore is its own, and it is never left with a call that is over.
THEOREM SemaphoreIsExclusive == Spec => []OneCallAtATime
  <1>1. Init => OneCallAtATime
    BY LLMRulesAssumption DEF Init, OneCallAtATime, Fresh, Inside
  <1>2. TypeOK /\ OneCallAtATime /\ [Next]_vars => OneCallAtATime'
    BY GateKept
  <1>3. QED
    BY <1>1, <1>2, TypeCorrect, PTL DEF Spec

-----------------------------------------------------------------------------
(* The table of rules.                                                     *)

\* A pending insert belongs to a batch about to commit, or over and not yet rolled back,
\* which has deactivated whatever is active under its key; the index lets one in at a
\* time; so that a commit leaves its own rule only.
Inserted(s) == session[s].state = "inserted"

AtMostOne(rules) == \A r, q \in rules : r = q

IndexInv ==
  /\ \A s \in Session : Inserted(s) =>
       /\ s \in Task /\ (At(s, "commit") \/ At(s, "done"))
       /\ ActiveOf(s) \subseteq session[s].locked
  /\ \A t \in Task : At(t, "commit") => Inserted(t)
  /\ \A s, o \in Session : Inserted(s) /\ Inserted(o) /\ keyOf[s] = keyOf[o] => s = o
  /\ \A k \in Key : AtMostOne(active[k])

\* Outside the storing of a rule a batch has no change pending, unless it was cancelled
\* or its rollback failed.
NothingPending(t) ==
  \/ At(t, "persist") \/ At(t, "insert") \/ At(t, "commit")
  \/ At(t, "done") /\ call[t].outcome \in {"cancelled", "raised"}
  \/ session[t].locked = {} /\ session[t].state \in {"clean", "aborted"}

\* Before the answer is there a step leaves the table alone, and of the sessions at
\* most aborts its own.
LEMMA MovesSessions ==
  ASSUME TypeOK, NEW t \in Task, Moves(t)
  PROVE  /\ active' = active
         /\ \A s \in Session \ {t} : session'[s] = session[s]
         /\ \/ session'[t] = session[t]
            \/ session'[t].state = "aborted" /\ session'[t].locked = session[t].locked
         /\ ~At(t, "commit") /\ ~At(t, "persist") /\ ~At(t, "insert") /\ ~At(t, "done")
         /\ ~At(t, "commit")' /\ ~At(t, "insert")'
  <1> t \in Session
    BY DEF Session
  <1>1. CASE LookupFails(t)
    <2>1. /\ active' = active
          /\ \A s \in Session \ {t} : session'[s] = session[s]
          /\ session'[t].state = "aborted" /\ session'[t].locked = session[t].locked
      BY <1>1 DEF TypeOK, SessionState, LookupFails
    <2>2. QED
      BY <1>1, <2>1, MovesEffects DEF Becomes, At
  <1>2. CASE ~LookupFails(t)
    <2>1. active' = active /\ session' = session
      BY <1>2 DEF Moves, RuleFound, NoRule, Acquire, Post, PostAnswered, Complete, Limited,
         Retry, Cancel
    <2>2. QED
      BY <1>2, <2>1, MovesEffects DEF Moves, Becomes, At, Inside
  <1>3. QED
    BY <1>1, <1>2

\* What a step that touches the table does to the session it runs in.
LEMMA SessionEffects ==
  ASSUME TypeOK, NEW s \in Session
  PROVE  /\ StartUpdate(s) => session'[s].state = "updating"
         /\ UpdateEnds(s) => session'[s].state = "updated"
         /\ Rollback(s) => session'[s].state = "clean" /\ session'[s].locked = {}
         /\ StartUpdate(s) \/ UpdateEnds(s) \/ Rollback(s) =>
              \A o \in Session \ {s} : session'[o] = session[o]
  BY DEF TypeOK, SessionState, StartUpdate, UpdateEnds, Rollback, NoChange

LEMMA InsertsEffects ==
  ASSUME TypeOK, NEW t \in Task, Inserts(t)
  PROVE  /\ session'[t].state = "inserted" /\ session'[t].locked = session[t].locked
         /\ \A s \in Session \ {t} : session'[s] = session[s]
         /\ ActiveOf(t) \subseteq session[t].locked
         /\ \A o \in Session \ {t} : keyOf[o] = keyOf[t] => session[o].state # "inserted"
  BY DEF TypeOK, SessionState, Session, Inserts, IndexFree, Others

LEMMA StoresSessions ==
  ASSUME TypeOK, NEW t \in Task, Stores(t)
  PROVE  \A s \in Session \ {t} : session'[s] = session[s]
  <1> t \in Session
    BY DEF Session
  <1>1. Deactivate(t) \/ Deactivated(t) \/ PersistFails(t) \/ CommitRule(t) =>
          \A s \in Session \ {t} : session'[s] = session[s]
    BY SessionEffects DEF Deactivate, Deactivated, PersistFails, CommitRule, Commits
  <1>2. Insert(t) \/ CancelStoring(t) => \A s \in Session \ {t} : session'[s] = session[s]
    BY SessionEffects, InsertsEffects DEF Insert, CancelStoring, Commits
  <1>3. QED
    BY <1>1, <1>2 DEF Stores

LEMMA ElsewhereEffects ==
  ASSUME TypeOK, Elsewhere
  PROVE  /\ call' = call
         /\ \A s \in Session :
              \/ session'[s] = session[s]
              \/ s = Admin /\ session'[s].state # "inserted"
              \/ /\ s \in Task /\ At(s, "done")
                 /\ session'[s].state = "clean" /\ session'[s].locked = {}
         /\ \A k \in Key : active'[k] \subseteq active[k]
  <1> Task \subseteq Session /\ Admin \in Session
    BY DEF Session
  <1>1. CASE Invalidate \/ Invalidated
    BY <1>1, SessionEffects DEF Invalidate, Invalidated
  <1>2. CASE CloseSession
    BY <1>2 DEF TypeOK, SessionState, CloseSession, NoChange
  <1>3. CASE \E t \in Task : LeaveSession(t)
    BY <1>3, SessionEffects DEF LeaveSession
  <1>4. QED
    BY <1>1, <1>2, <1>3 DEF Elsewhere

LEMMA KeysExist ==
  ASSUME NEW s \in Session
  PROVE  keyOf[s] \in Key
  BY LLMRulesAssumption

LEMMA IndexKept ==
  ASSUME TypeOK, IndexInv, [Next]_vars
  PROVE  IndexInv'
  <1> USE KeysExist DEF Inserted, ActiveOf
  <1> Task \subseteq Session /\ Admin \in Session /\ Admin \notin Task
    BY LLMRulesAssumption DEF Session
  <1>1. ASSUME NEW t \in Task, Moves(t)
        PROVE  IndexInv'
    <2>1. ~Inserted(t) /\ ~Inserted(t)'
      BY <1>1, MovesSessions DEF IndexInv
    <2>2. QED
      BY <1>1, <2>1, MovesSessions, OneCallMoves DEF IndexInv, At, AtMostOne
  <1>2. ASSUME NEW t \in Task, Stores(t), active' = active, ~At(t, "commit")',
               ~Inserted(t)' \/ (session' = session /\ At(t, "done")')
        PROVE  IndexInv'
    BY <1>2, StoresSessions, OneCallMoves DEF IndexInv, At, AtMostOne
  <1>3. ASSUME NEW t \in Task, Stores(t), Inserts(t), active' = active,
               At(t, "commit")' \/ At(t, "done")'
        PROVE  IndexInv'
    <2>1. \A o \in Session \ {t} : keyOf[o] = keyOf[t] => ~Inserted(o)
      BY <1>3, InsertsEffects
    <2>2. QED
      BY <1>3, <2>1, InsertsEffects, OneCallMoves DEF IndexInv, At, AtMostOne
  <1>4. ASSUME NEW t \in Task, Stores(t), Commits(t), At(t, "commit"), ~At(t, "commit")'
        PROVE  IndexInv'
    <2>1. ~Inserted(t)'
      BY <1>4, SessionEffects DEF Commits
    <2>2. Inserted(t) /\ ActiveOf(t) \subseteq session[t].locked
      BY <1>4 DEF IndexInv
    <2>3. /\ active'[keyOf[t]] = {t}
          /\ \A k \in Key \ {keyOf[t]} : active'[k] = active[k]
      BY <1>4, <2>2 DEF TypeOK, Commits
    <2>4. \A o \in Session \ {t} : Inserted(o) => keyOf[o] # keyOf[t]
      BY <2>2 DEF IndexInv
    <2>5. QED
      BY <1>4, <2>1, <2>3, <2>4, StoresSessions, OneCallMoves DEF IndexInv, At, AtMostOne
  <1>5. CASE Elsewhere
    <2>1. \A s \in Session : Inserted(s)' => Inserted(s) /\ session'[s] = session[s]
      BY <1>5, ElsewhereEffects DEF IndexInv
    <2>2. \A t \in Task : At(t, "commit")' => Inserted(t)'
      BY <1>5, ElsewhereEffects DEF IndexInv, At
    <2>3. QED
      BY <1>5, <2>1, <2>2, ElsewhereEffects DEF IndexInv, At, AtMostOne
  <1>6. CASE Tick
    <2>1. \A t \in Task : call'[t].pc = call[t].pc
      BY <1>6 DEF TypeOK, CallState, Tick
    <2>2. QED
      BY <1>6, <2>1 DEF IndexInv, At, AtMostOne, Tick
  <1>7. CASE UNCHANGED vars
    BY <1>7 DEF IndexInv, At, AtMostOne, vars
  <1>8. ASSUME NEW t \in Task, Stores(t)
        PROVE  IndexInv'
    <2>1. CASE Deactivate(t) \/ Deactivated(t)
      <3>1. active' = active /\ ~Inserted(t)'
        BY <2>1, SessionEffects DEF Deactivate, Deactivated
      <3>2. ~At(t, "commit")'
        <4>1. CASE Deactivate(t)
          BY <4>1 DEF Deactivate, At
        <4>2. CASE Deactivated(t)
          BY <4>2, Effects DEF Deactivated, Becomes, At
        <4>3. QED
          BY <2>1, <4>1, <4>2
      <3>3. QED
        BY <1>2, <1>8, <3>1, <3>2
    <2>2. CASE Insert(t)
      <3>1. Inserts(t) /\ active' = active /\ At(t, "commit")'
        BY <2>2, Effects DEF Insert, Becomes, At
      <3>2. QED
        BY <1>3, <1>8, <3>1
    <2>3. CASE PersistFails(t)
      <3>1. active' = active /\ ~At(t, "commit")' /\ At(t, "done")'
        BY <2>3, Effects DEF PersistFails, Becomes, At
      <3>2. ~Inserted(t)' \/ session' = session
        BY <2>3, SessionEffects DEF PersistFails
      <3>3. QED
        BY <1>2, <1>8, <3>1, <3>2
    <2>4. CASE CommitRule(t)
      <3>1. Commits(t) /\ At(t, "commit") /\ ~At(t, "commit")'
        BY <2>4, Effects DEF CommitRule, Becomes, At
      <3>2. QED
        BY <1>4, <1>8, <3>1
    <2>5. CASE CancelStoring(t)
      <3>1. At(t, "done")' /\ ~At(t, "commit")'
        BY <2>5, Effects DEF CancelStoring, Becomes, At
      <3>2. CASE UpdateEnds(t) /\ UNCHANGED active
        <4>1. ~Inserted(t)'
          BY <3>2, SessionEffects
        <4>2. QED
          BY <1>2, <1>8, <3>1, <3>2, <4>1
      <3>3. QED
        BY <1>2, <1>3, <1>4, <1>8, <2>5, <3>1, <3>2 DEF CancelStoring
    <2>6. QED
      BY <1>8, <2>1, <2>2, <2>3, <2>4, <2>5 DEF Stores
  <1>9. QED
    BY <1>1, <1>5, <1>6, <1>7, <1>8, Steps

LEMMA IndexHolds == Spec => []IndexInv
  <1>1. Init => IndexInv
    BY DEF Init, IndexInv, Inserted, AtMostOne, NoChange, Fresh, At
  <1>2. TypeOK /\ IndexInv /\ [Next]_vars => IndexInv'
    BY IndexKept
  <1>3. QED
    BY <1>1, <1>2, TypeCorrect, PTL DEF Spec

\* However many workers learn a key at the same time and whenever the endpoint
\* invalidates it, at most one committed rule of the key is active.
THEOREM RuleIsUnique == Spec => []OneActiveRule
  <1>1. ASSUME IndexInv, NEW k \in Key
        PROVE  Cardinality(active[k]) <= 1
    <2>1. CASE active[k] = {}
      BY <2>1, FS_EmptySet
    <2>2. CASE active[k] # {}
      <3>1. PICK r \in active[k] : active[k] = {r}
        BY <1>1, <2>2 DEF IndexInv, AtMostOne
      <3>2. QED
        BY <3>1, FS_Singleton
    <2>3. QED
      BY <2>1, <2>2
  <1>2. IndexInv => OneActiveRule
    BY <1>1 DEF OneActiveRule
  <1>3. QED
    BY <1>2, IndexHolds, PTL

\* A rule becomes active by the commit of the batch that learned it, and never again.
THEOREM RulesComeOnce == Spec => RulesNeverReturn
  <1>1. ASSUME TypeOK, [Next]_vars, NEW k \in Key, NEW r \in active'[k] \ active[k]
        PROVE  r \in Task /\ keyOf[r] = k /\ At(r, "commit")
    <2>1. ASSUME NEW t \in Task, Moves(t)
          PROVE  FALSE
      BY <1>1, <2>1, MovesSessions
    <2>2. ASSUME NEW t \in Task, Stores(t)
          PROVE  At(t, "commit") /\ Commits(t)
      BY <1>1, <2>2 DEF Stores, Deactivate, Deactivated, Insert, PersistFails, CommitRule,
         CancelStoring
    <2>3. ASSUME NEW t \in Task, At(t, "commit"), Commits(t)
          PROVE  r = t /\ keyOf[r] = k /\ At(r, "commit")
      <3>1. keyOf[t] \in Key
        BY KeysExist DEF Session
      <3>2. QED
        BY <1>1, <2>3, <3>1 DEF TypeOK, Commits
    <2>4. CASE Elsewhere
      BY <1>1, <2>4, ElsewhereEffects
    <2>5. CASE Tick \/ UNCHANGED vars
      BY <1>1, <2>5 DEF Tick, vars
    <2>6. QED
      BY <1>1, <2>1, <2>2, <2>3, <2>4, <2>5, Steps
  <1>2. TypeOK /\ [Next]_vars =>
          [\A k \in Key : \A r \in active'[k] \ active[k] :
             r \in Task /\ keyOf[r] = k /\ At(r, "commit")]_vars
    BY <1>1
  <1>3. QED
    BY <1>2, TypeCorrect, PTL DEF Spec, RulesNeverReturn

LEMMA PendingKept ==
  ASSUME TypeOK, \A t \in Task : NothingPending(t), [Next]_vars
  PROVE  (\A t \in Task : NothingPending(t))'
  <1> Task \subseteq Session /\ Admin \in Session /\ Admin \notin Task
    BY LLMRulesAssumption DEF Session
  <1>1. ASSUME NEW t \in Task, Moves(t)
        PROVE  \A u \in Task : NothingPending(u)'
    BY <1>1, MovesSessions, OneCallMoves DEF NothingPending, At
  <1>2. ASSUME NEW t \in Task, Stores(t)
        PROVE  \A u \in Task : NothingPending(u)'
    <2>1. NothingPending(t)'
      <3>1. CASE Deactivate(t)
        BY <3>1 DEF Deactivate, NothingPending, At
      <3>2. CASE Deactivated(t) \/ Insert(t)
        BY <3>2, Effects DEF Deactivated, Insert, Becomes, NothingPending, At
      <3>3. CASE PersistFails(t) \/ CommitRule(t)
        BY <3>3, Effects, SessionEffects
           DEF PersistFails, CommitRule, Commits, Becomes, NothingPending, At
      <3>4. CASE CancelStoring(t)
        BY <3>4, Effects DEF CancelStoring, Becomes, NothingPending, At
      <3>5. QED
        BY <1>2, <3>1, <3>2, <3>3, <3>4 DEF Stores
    <2>2. QED
      BY <1>2, <2>1, StoresSessions, OneCallMoves DEF NothingPending, At
  <1>3. CASE Elsewhere
    BY <1>3, ElsewhereEffects DEF NothingPending, At
  <1>4. CASE Tick
    <2>1. \A t \in Task : call'[t].pc = call[t].pc /\ call'[t].outcome = call[t].outcome
      BY <1>4 DEF TypeOK, CallState, Tick
    <2>2. QED
      BY <1>4, <2>1 DEF NothingPending, At, Tick
  <1>5. CASE UNCHANGED vars
    BY <1>5 DEF NothingPending, At, vars
  <1>6. QED
    BY <1>1, <1>2, <1>3, <1>4, <1>5, Steps

\* A call that returns has ended its transaction, however the storing of its rule went;
\* what is left pending is that of a cancelled call or of a failed rollback.
THEOREM TransactionsEnd == Spec => []NothingLocked
  <1>1. Init => \A t \in Task : NothingPending(t)
    BY DEF Init, NothingPending, NoChange, Session
  <1>2. /\ TypeOK /\ (\A t \in Task : NothingPending(t)) /\ [Next]_vars
        => (\A t \in Task : NothingPending(t))'
    BY PendingKept
  <1>3. (\A t \in Task : NothingPending(t)) => NothingLocked
    BY DEF NothingPending, NothingLocked, At
  <1>4. QED
    BY <1>1, <1>2, <1>3, TypeCorrect, PTL DEF Spec

\* Requests are apart by the limiter's delay, whoever makes them.
THEOREM RequestsApart == Spec => RequestsAreSpaced
  <1>1. ASSUME TypeOK, [Next]_vars, NEW t \in Task, At(t, "limiter"),
               call'[t].pc \notin {"limiter", "done"}
        PROVE  since = MinDelay
    <2>1. Moves(t)
      <3>1. ASSUME NEW u \in Task, u # t, Moves(u) \/ Stores(u)
            PROVE  FALSE
        BY <1>1, <3>1, OneCallMoves DEF At
      <3>2. CASE Tick
        <4>1. call'[t].pc = call[t].pc
          BY <3>2 DEF TypeOK, CallState, Tick
        <4>2. QED
          BY <1>1, <4>1 DEF At
      <3>3. CASE Elsewhere \/ UNCHANGED vars
        <4>1. call' = call
          BY <1>1, <3>3, ElsewhereEffects DEF vars
        <4>2. QED
          BY <1>1, <4>1 DEF At
      <3>4. CASE Stores(t)
        BY <1>1, <3>4, MovesEffects DEF At
      <3>5. QED
        BY <1>1, <3>1, <3>2, <3>3, <3>4, Steps
    <2>2. MayStart(t)
      BY <1>1, <2>1, MovesEffects DEF Moves, Becomes, At, Inside, Post, PostAnswered,
         Complete, Limited
    <2>3. QED
      BY <1>1, <2>2, LLMRulesAssumption DEF MayStart, TypeOK
  <1>2. TypeOK /\ [Next]_vars =>
          [\A t \in Task : At(t, "limiter") /\ call'[t].pc \notin {"limiter", "done"}
             => since = MinDelay]_vars
    BY <1>1
  <1>3. QED
    BY <1>2, TypeCorrect, PTL DEF Spec, RequestsAreSpaced

-----------------------------------------------------------------------------
(* A call never turns back.                                                *)

\* What a step may do to a call: nothing, or what brings it nearer to its end.
GoesOn(c, d) ==
  \/ d = c
  \/ d.attempt > c.attempt /\ c.pc # "done"
  \/ /\ d.attempt = c.attempt
     /\ \/ Phase(d.pc) > Phase(c.pc)
        \/ d.pc = c.pc /\ d.wait \in 0..(c.wait - 1)

LEMMA OwnStepGoesOn ==
  ASSUME TypeOK, Attempts, NEW t \in Task, Moves(t) \/ Stores(t)
  PROVE  GoesOn(call[t], call'[t])
  <1>0. call[t].attempt \in Nat /\ AttemptCounted(t)
    BY LLMRulesAssumption DEF TypeOK, CallState, Attempts
  <1>1. ASSUME NEW pc, Becomes(t, pc), Phase(pc) > Phase(call[t].pc)
        PROVE  GoesOn(call[t], call'[t])
    BY <1>1 DEF Becomes, GoesOn
  <1>2. CASE RuleFound(t) \/ NoRule(t) \/ LookupFails(t)
    <2>1. At(t, "idle") /\ (Becomes(t, "done") \/ Becomes(t, "acquire"))
      BY <1>2, MovesEffects
    <2>2. QED
      BY <1>1, <2>1 DEF At, Phase
  <1>3. CASE Acquire(t)
    <2>1. At(t, "acquire") /\ call'[t].attempt = 1
      BY <1>3, MovesEffects
    <2>2. call[t].attempt = 0
      BY <1>0, <2>1 DEF AttemptCounted, At
    <2>3. QED
      BY <2>1, <2>2 DEF At, GoesOn
  <1>4. CASE Post(t)
    <2>1. At(t, "limiter") /\ Becomes(t, "posted")
      BY <1>4, MovesEffects
    <2>2. QED
      BY <1>1, <2>1 DEF At, Phase
  <1>5. CASE PostAnswered(t) \/ Complete(t)
    <2>1. /\ At(t, "limiter") \/ At(t, "posted")
          /\ Becomes(t, "done") \/ Becomes(t, "persist")
      BY <1>5, MovesEffects
    <2>2. QED
      BY <1>1, <2>1 DEF At, Phase
  <1>6. CASE Limited(t)
    <2>1. At(t, "limiter") /\ (Becomes(t, "backoff") \/ Becomes(t, "done"))
      BY <1>6, MovesEffects
    <2>2. QED
      BY <1>1, <2>1 DEF At, Phase
  <1>7. CASE Retry(t)
    <2>1. At(t, "backoff") /\ call'[t].attempt = call[t].attempt + 1
      BY <1>7, MovesEffects
    <2>2. QED
      BY <1>0, <2>1 DEF At, GoesOn
  <1>8. CASE Cancel(t)
    <2>1. Becomes(t, "done") /\ (At(t, "idle") \/ At(t, "acquire") \/ Inside(t))
      BY <1>8, MovesEffects
    <2>2. QED
      BY <1>1, <2>1 DEF At, Inside, Phase
  <1>9. CASE Stores(t)
    <2>1. CASE Deactivate(t)
      BY <2>1 DEF Deactivate, GoesOn
    <2>2. CASE Deactivated(t)
      <3>1. At(t, "persist") /\ Becomes(t, "insert")
        BY <2>2, Effects DEF Deactivated
      <3>2. QED
        BY <1>1, <3>1 DEF At, Phase
    <2>3. CASE Insert(t)
      <3>1. At(t, "insert") /\ Becomes(t, "commit")
        BY <2>3, Effects DEF Insert
      <3>2. QED
        BY <1>1, <3>1 DEF At, Phase
    <2>4. CASE PersistFails(t) \/ CommitRule(t) \/ CancelStoring(t)
      <3>1. /\ At(t, "persist") \/ At(t, "insert") \/ At(t, "commit")
            /\ Becomes(t, "done")
        BY <1>9, <2>4, Effects, MovesEffects DEF PersistFails, CommitRule, CancelStoring
      <3>2. QED
        BY <1>1, <3>1 DEF At, Phase
    <2>5. QED
      BY <1>9, <2>1, <2>2, <2>3, <2>4 DEF Stores
  <1>10. QED
    BY <1>2, <1>3, <1>4, <1>5, <1>6, <1>7, <1>8, <1>9 DEF Moves

LEMMA CallsGoOn ==
  ASSUME TypeOK, Attempts, [Next]_vars, NEW t \in Task
  PROVE  GoesOn(call[t], call'[t])
  <1>1. ASSUME NEW u \in Task, Moves(u) \/ Stores(u)
        PROVE  GoesOn(call[t], call'[t])
    <2>1. CASE u = t
      BY <1>1, <2>1, OwnStepGoesOn
    <2>2. CASE u # t
      BY <1>1, <2>2, OneCallMoves DEF GoesOn
    <2>3. QED
      BY <2>1, <2>2
  <1>2. CASE Tick
    <2>1. CASE t \in Ticking
      <3>1. call[t].wait \in Int /\ call[t].wait > 0
        BY <2>1 DEF TypeOK, CallState, Ticking
      <3>2. call'[t] = [call[t] EXCEPT !.wait = call[t].wait - 1]
        BY <1>2, <2>1 DEF Tick
      <3>3. call'[t].pc = call[t].pc /\ call'[t].attempt = call[t].attempt
            /\ call'[t].wait = call[t].wait - 1
        BY <3>2 DEF TypeOK, CallState
      <3>4. QED
        BY <3>1, <3>3 DEF GoesOn
    <2>2. CASE t \notin Ticking
      BY <1>2, <2>2 DEF Tick, GoesOn
    <2>3. QED
      BY <2>1, <2>2
  <1>3. CASE Elsewhere \/ UNCHANGED vars
    BY <1>3, ElsewhereEffects DEF vars, GoesOn
  <1>4. QED
    BY <1>1, <1>2, <1>3, Steps

\* The loop of attempts ends: whatever the provider answers, whoever is cancelled and
\* whatever the database does, each step of a call brings it nearer to its end, and
\* one that is over does nothing more.
THEOREM CallsMoveOn == Spec => CallsAdvance
  <1>1. TypeOK /\ Attempts /\ [Next]_vars =>
          \A t \in Task :
            \/ call'[t] = call[t]
            \/ call'[t].attempt > call[t].attempt /\ ~At(t, "done")
            \/ /\ call'[t].attempt = call[t].attempt
               /\ \/ Phase(call'[t].pc) > Phase(call[t].pc)
                  \/ call'[t].pc = call[t].pc /\ call'[t].wait \in 0..(call[t].wait - 1)
    BY CallsGoOn DEF GoesOn, At
  <1>2. QED
    BY <1>1, AttemptsCounted, PTL DEF Spec, CallsAdvance

-----------------------------------------------------------------------------
(* The calls and the table implement LearnContract.                        *)

\* Where a call stands, as the contract sees it.
StageOf(c) ==
  CASE c.pc = "done" -> c.outcome
    [] c.pc \in {"limiter", "posted", "backoff"} -> "asking"
    [] c.pc \in {"persist", "insert", "commit"} -> "answered"
    [] OTHER -> "waiting"

LEMMA StageForms ==
  /\ stageOf = [t \in Task |-> StageOf(call[t])]
  /\ stageOf' = [t \in Task |-> StageOf(call'[t])]
  BY DEF stageOf, StageOf, At, Inside

\* What the parts of a step make of the stage of its batch.
LEMMA StageEffects ==
  ASSUME TypeOK, NEW t \in Task
  PROVE  /\ \A outcome : Return(t, outcome) => StageOf(call'[t]) = outcome
         /\ AskLLM(t) /\ At(t, "idle") => StageOf(call'[t]) \in {"nothing", "waiting"}
         /\ \A items \in BOOLEAN :
              TakeAnswer(t, items) => StageOf(call'[t]) \in {"answered", "items", "nothing"}
  <1>1. \A outcome : Return(t, outcome) => StageOf(call'[t]) = outcome
    BY DEF TypeOK, CallState, Return, StageOf
  <1>2. \A pc : call' = [call EXCEPT ![t].pc = pc] => call'[t].pc = pc
    BY DEF TypeOK, CallState
  <1>3. AskLLM(t) /\ At(t, "idle") => StageOf(call'[t]) \in {"nothing", "waiting"}
    BY <1>1, <1>2 DEF AskLLM, StageOf
  <1>4. \A items \in BOOLEAN :
          TakeAnswer(t, items) => StageOf(call'[t]) \in {"answered", "items", "nothing"}
    BY <1>1, <1>2 DEF TakeAnswer, StageOf
  <1>5. QED
    BY <1>1, <1>3, <1>4

\* The stages a step of each kind starts from and leads to.
LEMMA StageSteps ==
  ASSUME TypeOK, NEW t \in Task
  PROVE  /\ RuleFound(t) \/ NoRule(t) \/ LookupFails(t) =>
              /\ StageOf(call[t]) = "waiting"
              /\ \/ StageOf(call'[t]) \in {"nothing", "waiting"}
                 \/ StageOf(call'[t]) = "rule" /\ Cardinality(ActiveOf(t)) = 1
         /\ Acquire(t) =>
              StageOf(call[t]) = "waiting" /\ StageOf(call'[t]) = "asking" /\ holder = NoTask
         /\ Post(t) \/ Retry(t) =>
              StageOf(call[t]) = "asking" /\ StageOf(call'[t]) = "asking"
         /\ PostAnswered(t) \/ Complete(t) \/ Limited(t) =>
              /\ StageOf(call[t]) = "asking"
              /\ StageOf(call'[t]) \in {"asking", "answered", "items", "nothing"}
         /\ Cancel(t) =>
              StageOf(call[t]) \in {"waiting", "asking"} /\ StageOf(call'[t]) = "cancelled"
         /\ Deactivate(t) \/ Deactivated(t) \/ Insert(t) =>
              StageOf(call[t]) = "answered" /\ StageOf(call'[t]) = "answered"
         /\ PersistFails(t) \/ CommitRule(t) \/ CancelStoring(t) =>
              StageOf(call[t]) = "answered"
         /\ PersistFails(t) => StageOf(call'[t]) \in {"items", "raised"}
         /\ CommitRule(t) => StageOf(call'[t]) = "items"
         /\ CancelStoring(t) => StageOf(call'[t]) = "cancelled"
  <1>1. RuleFound(t) \/ NoRule(t) \/ LookupFails(t) =>
          /\ StageOf(call[t]) = "waiting"
          /\ \/ StageOf(call'[t]) \in {"nothing", "waiting"}
             \/ StageOf(call'[t]) = "rule" /\ Cardinality(ActiveOf(t)) = 1
    <2>1. At(t, "idle") => StageOf(call[t]) = "waiting"
      BY DEF At, StageOf
    <2>2. QED
      BY <2>1, StageEffects DEF RuleFound, NoRule, LookupFails
  <1>2. Acquire(t) =>
          StageOf(call[t]) = "waiting" /\ StageOf(call'[t]) = "asking" /\ holder = NoTask
    BY MovesEffects DEF Acquire, At, StageOf
  <1>3. Post(t) \/ Retry(t) =>
          StageOf(call[t]) = "asking" /\ StageOf(call'[t]) = "asking"
    BY MovesEffects DEF Becomes, At, StageOf
  <1>4. PostAnswered(t) \/ Complete(t) \/ Limited(t) =>
          /\ StageOf(call[t]) = "asking"
          /\ StageOf(call'[t]) \in {"asking", "answered", "items", "nothing"}
    <2>1. PostAnswered(t) \/ Complete(t) =>
            StageOf(call'[t]) \in {"asking", "answered", "items", "nothing"}
      BY StageEffects DEF PostAnswered, Complete, Answered
    <2>2. Limited(t) => StageOf(call'[t]) \in {"asking", "answered", "items", "nothing"}
      <3>1. Pause(t) => StageOf(call'[t]) = "asking"
        BY Effects DEF Becomes, StageOf
      <3>2. QED
        BY <3>1, StageEffects DEF Limited
    <2>3. PostAnswered(t) \/ Complete(t) \/ Limited(t) => StageOf(call[t]) = "asking"
      BY MovesEffects DEF At, StageOf
    <2>4. QED
      BY <2>1, <2>2, <2>3
  <1>5. Cancel(t) =>
          StageOf(call[t]) \in {"waiting", "asking"} /\ StageOf(call'[t]) = "cancelled"
    BY StageEffects DEF Cancel, At, Inside, StageOf
  <1>6. Deactivate(t) \/ Deactivated(t) \/ Insert(t) =>
          StageOf(call[t]) = "answered" /\ StageOf(call'[t]) = "answered"
    BY Effects DEF Deactivate, Deactivated, Insert, Becomes, At, StageOf
  <1>7. PersistFails(t) \/ CommitRule(t) \/ CancelStoring(t) => StageOf(call[t]) = "answered"
    BY MovesEffects DEF Stores, At, StageOf
  <1>8. /\ PersistFails(t) => StageOf(call'[t]) \in {"items", "raised"}
        /\ CommitRule(t) => StageOf(call'[t]) = "items"
        /\ CancelStoring(t) => StageOf(call'[t]) = "cancelled"
    BY StageEffects DEF PersistFails, CommitRule, CancelStoring
  <1>9. QED
    BY <1>1, <1>2, <1>3, <1>4, <1>5, <1>6, <1>7, <1>8

\* When nobody is inside the semaphore nobody is asking.
LEMMA NobodyAsks ==
  ASSUME TypeOK, OneCallAtATime, holder = NoTask, NEW u \in Task
  PROVE  StageOf(call[u]) # "asking"
  <1>1. ~Inside(u)
    BY LLMRulesAssumption DEF OneCallAtATime
  <1>2. QED
    BY <1>1 DEF TypeOK, CallState, Inside, StageOf

LEMMA MovesMap ==
  ASSUME TypeOK, OneCallAtATime, NEW t \in Task, Moves(t)
  PROVE  Learning!Next \/ UNCHANGED Learning!vars
  <1> DEFINE old == StageOf(call[t])
             new == StageOf(call'[t])
  <1>1. active' = active
    BY MovesSessions
  <1>2. stageOf' = [stageOf EXCEPT ![t] = new] /\ stageOf[t] = old
    BY OneCallMoves, StageForms
  <1>3. CASE new = old
    <2>1. stageOf' = stageOf
      BY <1>2, <1>3, StageForms
    <2>2. QED
      BY <1>1, <2>1 DEF Learning!vars
  <1>4. CASE old = "waiting" /\ new = "rule" /\ Cardinality(ActiveOf(t)) = 1
    <2>1. active[keyOf[t]] # {}
      BY <1>4, FS_EmptySet DEF ActiveOf
    <2>2. Learning!UseRule(t)
      BY <1>1, <1>2, <1>4, <2>1 DEF Learning!UseRule, Learning!Becomes
    <2>3. QED
      BY <2>2 DEF Learning!Next
  <1>5. CASE old = "waiting" /\ new = "asking" /\ holder = NoTask
    <2>1. \A u \in Task : stageOf[u] # "asking"
      BY <1>5, NobodyAsks, StageForms
    <2>2. Learning!Ask(t)
      BY <1>1, <1>2, <1>5, <2>1 DEF Learning!Ask, Learning!Becomes
    <2>3. QED
      BY <2>2 DEF Learning!Next
  <1>6. CASE old = "asking" /\ new = "answered"
    <2>1. Learning!Answer(t)
      BY <1>1, <1>2, <1>6 DEF Learning!Answer, Learning!Becomes
    <2>2. QED
      BY <2>1 DEF Learning!Next
  <1>7. CASE old = "asking" /\ new = "items"
    <2>1. Learning!Return(t)
      BY <1>1, <1>2, <1>7 DEF Learning!Return, Learning!Becomes
    <2>2. QED
      BY <2>1 DEF Learning!Next
  <1>8. CASE old \in {"waiting", "asking"} /\ new \in {"nothing", "cancelled"}
    <2>1. Learning!GiveUp(t)
      BY <1>1, <1>2, <1>8 DEF Learning!GiveUp, Learning!Becomes
    <2>2. QED
      BY <2>1 DEF Learning!Next
  <1>9. QED
    BY <1>3, <1>4, <1>5, <1>6, <1>7, <1>8, StageSteps DEF Moves

LEMMA StoresMap ==
  ASSUME TypeOK, IndexInv, NEW t \in Task, Stores(t)
  PROVE  Learning!Next \/ UNCHANGED Learning!vars
  <1>1. /\ stageOf' = [stageOf EXCEPT ![t] = StageOf(call'[t])]
        /\ stageOf[t] = StageOf(call[t])
    BY OneCallMoves, StageForms
  <1>2. CASE Deactivate(t) \/ Deactivated(t) \/ Insert(t)
    <2>1. stageOf' = stageOf
      BY <1>1, <1>2, StageSteps, StageForms
    <2>2. QED
      BY <1>2, <2>1 DEF Deactivate, Deactivated, Insert, Learning!vars
  <1>3. CASE StageOf(call[t]) = "answered" /\ active' = active
    <2>1. CASE StageOf(call'[t]) = "items"
      <3>1. Learning!Return(t)
        BY <1>1, <1>3, <2>1 DEF Learning!Return, Learning!Becomes
      <3>2. QED
        BY <3>1 DEF Learning!Next
    <2>2. CASE StageOf(call'[t]) \in {"cancelled", "raised"}
      <3>1. Learning!Lose(t)
        BY <1>1, <1>3, <2>2 DEF Learning!Lose, Learning!Becomes
      <3>2. QED
        BY <3>1 DEF Learning!Next
    <2>3. QED
      BY <1>2, <2>1, <2>2, StageSteps DEF Stores, CommitRule, PersistFails, CancelStoring
  <1>4. CASE Commits(t) /\ (CommitRule(t) \/ (CancelStoring(t) /\ At(t, "commit")))
    <2>1. ActiveOf(t) \subseteq session[t].locked
      BY <1>4 DEF IndexInv, CommitRule, Session
    <2>2. active' = [active EXCEPT ![keyOf[t]] = {t}]
      BY <1>4, <2>1, KeysExist DEF TypeOK, Commits, ActiveOf, Session
    <2>3. Learning!Learn(t)
      BY <1>1, <1>4, <2>2, StageSteps DEF Learning!Learn, Learning!Becomes
    <2>4. QED
      BY <2>3 DEF Learning!Next
  <1>5. CASE PersistFails(t)
    BY <1>3, <1>5, StageSteps DEF PersistFails
  <1>6. CASE CommitRule(t)
    BY <1>4, <1>6 DEF CommitRule
  <1>7. CASE CancelStoring(t)
    BY <1>3, <1>4, <1>7, StageSteps DEF CancelStoring
  <1>8. QED
    BY <1>2, <1>5, <1>6, <1>7 DEF Stores

LEMMA ElsewhereMaps ==
  ASSUME TypeOK, IndexInv, Elsewhere
  PROVE  Learning!Next \/ UNCHANGED Learning!vars
  <1> DEFINE k == keyOf[Admin]
  <1>1. k \in Key
    BY KeysExist DEF Session
  <1>2. stageOf' = stageOf
    BY ElsewhereEffects, StageForms
  <1>3. CASE active' = active
    BY <1>2, <1>3 DEF Learning!vars
  <1>4. CASE CloseSession /\ active' # active
    <2>1. active' = [active EXCEPT ![k] = @ \ session[Admin].locked]
      BY <1>4 DEF CloseSession
    <2>2. active[k] \ session[Admin].locked # active[k]
      BY <1>1, <1>4, <2>1 DEF TypeOK
    <2>3. active[k] \ session[Admin].locked = {}
      BY <1>1, <2>2 DEF IndexInv, AtMostOne
    <2>4. Learning!Invalidate(k)
      BY <1>2, <2>1, <2>3 DEF Learning!Invalidate
    <2>5. QED
      BY <1>1, <2>4 DEF Learning!Next
  <1>5. QED
    BY <1>3, <1>4 DEF Elsewhere, Invalidate, Invalidated, LeaveSession

\* The calls of all batches and the table implement LearnContract, for any number of
\* batches, keys, attempts and faults: the loop of attempts behind the semaphore is one
\* call, and the two statements and the commit are one replacement of the rule.
THEOREM ImplementsLearning == Spec => KeepsLearnContract
  <1>1. Init => Learning!Init
    <2>1. Init => stageOf = [t \in Task |-> "waiting"]
      BY StageForms DEF Init, Fresh, StageOf
    <2>2. Init => active \in [Key -> {{}, {Old}}]
      BY DEF Init
    <2>3. QED
      BY <2>1, <2>2 DEF Learning!Init
  <1>2. ASSUME TypeOK, OneCallAtATime, IndexInv, [Next]_vars
        PROVE  Learning!Next \/ UNCHANGED Learning!vars
    <2>1. CASE Tick
      <3>1. ASSUME NEW t \in Task
            PROVE  StageOf(call'[t]) = StageOf(call[t])
        BY <1>2, <2>1 DEF TypeOK, CallState, Tick, StageOf
      <3>2. stageOf' = stageOf
        BY <3>1, StageForms
      <3>3. QED
        BY <2>1, <3>2 DEF Tick, Learning!vars
    <2>2. CASE UNCHANGED vars
      <3>1. stageOf' = stageOf
        BY <2>2, StageForms DEF vars
      <3>2. QED
        BY <2>2, <3>1 DEF vars, Learning!vars
    <2>3. QED
      BY <1>2, <2>1, <2>2, Steps, MovesMap, StoresMap, ElsewhereMaps
  <1>3. /\ TypeOK /\ OneCallAtATime /\ IndexInv /\ [Next]_vars
        => [Learning!Next]_(Learning!vars)
    BY <1>2
  <1>4. QED
    BY <1>1, <1>3, TypeCorrect, SemaphoreIsExclusive, IndexHolds, PTL
       DEF Spec, KeepsLearnContract, Learning!Spec
=============================================================================
