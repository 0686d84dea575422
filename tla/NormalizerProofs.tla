--------------------------- MODULE NormalizerProofs ---------------------------
(* Theorems about Normalizer, for any number of messages, sources, timers, *)
(* lost channels and any batch size, in both modes.                        *)
EXTENDS Normalizer, SelectionLemmas

-----------------------------------------------------------------------------
(* The shape of a task: which loop it is in, and that the loop has an item. *)

Fits(pc, how) ==
  /\ pc \in {"map", "choose", "refuse", "station", "ack", "reject"}
  /\ pc = "map" => how = "none"
  /\ pc = "choose" => how = "single"
  /\ pc = "refuse" => how \in {"refuse", "single"}
  /\ pc = "station" => how \in {"single", "zip"}
  /\ pc = "ack" => how \in {"refuse", "single", "zip"}
  /\ pc = "reject" => how \in {"triage", "single"}

Shaped(u) ==
  /\ u \in TaskState
  /\ IF u.pc = "idle" THEN u = Idle ELSE u.group # <<>> /\ Fits(u.pc, u.how)
  /\ u.how = "triage" => Len(u.group) = 1
  /\ u.how = "zip" => Len(u.stations) = Len(u.group)

LEMMA IdleShaped ==
  /\ Idle \in TaskState
  /\ Shaped(Idle)
  /\ HeldBy(Idle) = <<>>
  <1>1. <<>> \in Seq(Delivery) /\ <<>> \in Seq(Msg)
    OBVIOUS
  <1>2. QED
    BY <1>1 DEF Idle, TaskState, Shaped, Fits, HeldBy

LEMMA ResumeFacts ==
  ASSUME NEW u \in TaskState, NEW r, r = Resume(u)
  PROVE  /\ Shaped(r)
         /\ r.pc \in {"idle", "map", "reject"}
         /\ r.how # "zip"
         /\ Range(HeldBy(r)) = Range(u.todo)
         /\ IsInjective(u.todo) => IsInjective(HeldBy(r))
  <1> DEFINE todo == u.todo
             bad == Bad(todo)
             first == OfFirst(todo)
  <1>1. todo \in Seq(Delivery) /\ bad \in SUBSET DOMAIN todo /\ first \in SUBSET DOMAIN todo
    BY DEF TaskState, Bad, OfFirst
  <1>2. CASE bad # {}
    <2> DEFINE p == Pick(todo, bad)
               q == Pick(todo, DOMAIN todo \ bad)
    <2>1. /\ p \in Seq(Delivery) /\ q \in Seq(Delivery)
          /\ Range(p \o q) = Range(todo)
          /\ IsInjective(todo) => IsInjective(p \o q)
      BY <1>1, SplitFacts
    <2>2. p # <<>>
      <3>1. \A i \in bad : todo[i] \in Delivery
        BY <1>1
      <3>2. QED
        BY <1>1, <1>2, <3>1, PickFacts
    <2>3. r = [u EXCEPT !.pc = "reject", !.how = "triage", !.group = <<Head(p)>>,
                        !.todo = Tail(p) \o q]
      BY <1>2 DEF Resume
    <2> HIDE DEF todo, bad, first, p, q
    <2>4. /\ Head(p) \in Delivery /\ Tail(p) \in Seq(Delivery)
          /\ <<Head(p)>> \o (Tail(p) \o q) = p \o q
      BY <2>1, <2>2
    <2>5. /\ r.pc = "reject" /\ r.how = "triage" /\ r.group = <<Head(p)>>
          /\ r.todo = Tail(p) \o q
          /\ r \in TaskState
      <3>1. <<Head(p)>> \in Seq(Delivery) /\ Tail(p) \o q \in Seq(Delivery)
        BY <2>1, <2>4
      <3>2. QED
        BY <2>3, <3>1 DEF TaskState
    <2>6. HeldBy(r) = p \o q
      <3>1. HeldBy(r) = <<Head(p)>> \o (Tail(p) \o q)
        BY <2>5 DEF HeldBy
      <3>2. QED
        BY <2>4, <3>1
    <2>7. Shaped(r)
      BY <2>5 DEF Shaped, Fits
    <2>8. QED
      BY <2>1, <2>5, <2>6, <2>7 DEF todo
  <1>3. CASE bad = {} /\ todo # <<>>
    <2> DEFINE p == Pick(todo, first)
               q == Pick(todo, DOMAIN todo \ first)
    <2>1. /\ p \in Seq(Delivery) /\ q \in Seq(Delivery)
          /\ Range(p \o q) = Range(todo)
          /\ IsInjective(todo) => IsInjective(p \o q)
      BY <1>1, SplitFacts
    <2>2. p # <<>>
      <3>1. \A i \in first : todo[i] \in Delivery
        BY <1>1
      <3>2. 1 \in first
        BY <1>1, <1>3 DEF OfFirst
      <3>3. QED
        BY <1>1, <3>1, <3>2, PickFacts
    <2>3. r = [u EXCEPT !.pc = "map", !.how = "none", !.group = p, !.todo = q]
      BY <1>3 DEF Resume
    <2> HIDE DEF todo, bad, first, p, q
    <2>4. r.pc = "map" /\ r.how = "none" /\ r.group = p /\ r.todo = q /\ r \in TaskState
      BY <2>1, <2>3 DEF TaskState
    <2>5. Shaped(r)
      BY <2>2, <2>4 DEF Shaped, Fits
    <2>6. QED
      BY <2>1, <2>4, <2>5 DEF todo, HeldBy
  <1>4. CASE bad = {} /\ todo = <<>>
    <2>1. r = Idle
      BY <1>4 DEF Resume
    <2>2. Idle.pc = "idle" /\ Idle.how = "none"
      BY DEF Idle
    <2>3. QED
      BY <1>4, <2>1, <2>2, IdleShaped, EmptyFacts
  <1>5. QED
    BY <1>2, <1>3, <1>4

LEMMA StartFacts ==
  ASSUME NEW items \in Seq(Delivery), NEW trigger \in {"size", "timeout", "shutdown"},
         NEW r, r = StartBatch(items, trigger)
  PROVE  /\ Shaped(r)
         /\ r.pc \in {"idle", "map", "reject"}
         /\ r.how # "zip"
         /\ Range(HeldBy(r)) = Range(items)
         /\ IsInjective(items) => IsInjective(HeldBy(r))
  <1> DEFINE u == [Idle EXCEPT !.todo = items, !.trigger = trigger]
  <1>1. u \in TaskState /\ u.todo = items
    BY IdleShaped DEF TaskState, Idle
  <1>2. r = Resume(u)
    BY DEF StartBatch
  <1> HIDE DEF u
  <1>3. QED
    BY <1>1, <1>2, ResumeFacts

LEMMA AdvancedFacts ==
  ASSUME NEW u, Shaped(u), u.pc \in {"ack", "reject"}, NEW v, v = Advanced(u)
  PROVE  /\ Shaped(v)
         /\ v.pc # "ack"
         /\ Range(HeldBy(v)) = Range(Tail(u.group) \o u.todo)
         /\ IsInjective(HeldBy(u)) => IsInjective(HeldBy(v)) /\ u.group[1] \notin Range(HeldBy(v))
         /\ v.how = "zip" =>
              u.how = "zip" /\ v.group = Tail(u.group) /\ v.stations = Tail(u.stations)
  <1> DEFINE w == [u EXCEPT !.group = Tail(u.group), !.found = 0,
                            !.stations = IF u.how = "zip" THEN Tail(u.stations) ELSE <<>>]
  <1>1. /\ u \in TaskState /\ u.group \in Seq(Delivery) /\ u.todo \in Seq(Delivery)
        /\ u.stations \in Seq(Msg)
        /\ u.group # <<>>
        /\ u.how \in {"refuse", "single", "zip", "triage"}
    BY DEF Shaped, Fits, TaskState
  <1>2. /\ Tail(u.group) \in Seq(Delivery) /\ Len(Tail(u.group)) = Len(u.group) - 1
        /\ u.group = <<u.group[1]>> \o Tail(u.group)
        /\ u.group[1] \in Delivery
    BY <1>1, TailFacts
  <1>3. /\ (IF u.how = "zip" THEN Tail(u.stations) ELSE <<>>) \in Seq(Msg)
        /\ u.how = "zip" => Len(Tail(u.stations)) = Len(Tail(u.group))
    <2>1. CASE u.how = "zip"
      <3>1. Len(u.stations) = Len(u.group) /\ u.stations # <<>>
        BY <1>1, <2>1 DEF Shaped, Fits
      <3>2. Tail(u.stations) \in Seq(Msg) /\ Len(Tail(u.stations)) = Len(u.stations) - 1
        BY <1>1, <3>1, TailFacts
      <3>3. QED
        BY <1>2, <2>1, <3>1, <3>2
    <2>2. CASE u.how # "zip"
      BY <2>2
    <2>3. QED
      BY <2>1, <2>2
  <1>4. /\ w \in TaskState /\ w.group = Tail(u.group) /\ w.todo = u.todo
        /\ w.how = u.how
        /\ w.stations = IF u.how = "zip" THEN Tail(u.stations) ELSE <<>>
    <2> DEFINE g == Tail(u.group)
               st == IF u.how = "zip" THEN Tail(u.stations) ELSE <<>>
    <2>1. g \in Seq(Delivery) /\ st \in Seq(Msg) /\ u \in TaskState
      BY <1>1, <1>2, <1>3
    <2>2. w = [u EXCEPT !.group = g, !.found = 0, !.stations = st]
      OBVIOUS
    <2> HIDE DEF g, st, w
    <2>3. w \in TaskState /\ w.group = g /\ w.todo = u.todo /\ w.how = u.how /\ w.stations = st
      <3>1. w = [pc |-> u.pc, how |-> u.how, group |-> g, todo |-> u.todo,
                 stations |-> st, found |-> 0, trigger |-> u.trigger]
        BY <2>1, <2>2 DEF TaskState
      <3>2. QED
        BY <2>1, <3>1 DEF TaskState
    <2>4. QED
      BY <2>3 DEF g, st
  <1>5. v = IF w.group = <<>> THEN Resume(w) ELSE [w EXCEPT !.pc = FirstOf(u.how)]
    BY DEF Advanced
  <1> HIDE DEF w
  <1>6. IsInjective(HeldBy(u)) =>
          /\ IsInjective(Tail(u.group) \o u.todo)
          /\ u.group[1] \notin Range(Tail(u.group) \o u.todo)
    <2> DEFINE g == u.group
               d == u.todo
    <2>0. HeldBy(u) = g \o d
      BY DEF HeldBy
    <2>1. g \in Seq(Delivery) /\ d \in Seq(Delivery) /\ g # <<>>
      BY <1>1
    <2> HIDE DEF g, d
    <2>2. /\ g \o d \in Seq(Delivery) /\ g \o d # <<>>
          /\ (g \o d)[1] = g[1] /\ Tail(g \o d) = Tail(g) \o d
      BY <2>1
    <2>3. IsInjective(g \o d) =>
            IsInjective(Tail(g \o d)) /\ (g \o d)[1] \notin Range(Tail(g \o d))
      BY <2>2, TailFacts
    <2>4. QED
      BY <2>0, <2>2, <2>3 DEF g, d
  <1>7. CASE w.group = <<>>
    <2>1. /\ Shaped(v) /\ v.pc \in {"idle", "map", "reject"} /\ v.how # "zip"
          /\ Range(HeldBy(v)) = Range(u.todo)
          /\ IsInjective(u.todo) => IsInjective(HeldBy(v))
      BY <1>4, <1>5, <1>7, ResumeFacts
    <2>2. Tail(u.group) \o u.todo = u.todo
      <3>1. Tail(u.group) = <<>> /\ u.todo \in Seq(Delivery)
        BY <1>1, <1>4, <1>7
      <3>2. <<>> \o u.todo = u.todo
        BY <3>1
      <3>3. QED
        BY <3>1, <3>2
    <2>3. QED
      BY <1>6, <2>1, <2>2
  <1>8. CASE w.group # <<>>
    <2>1. u.how \in {"refuse", "single", "zip"}
      BY <1>1, <1>2, <1>4, <1>8 DEF Shaped, Fits
    <2>2. /\ u.how = "refuse" => FirstOf(u.how) = "refuse"
          /\ u.how = "single" => FirstOf(u.how) = "choose"
          /\ u.how = "zip" => FirstOf(u.how) = "station"
      BY DEF FirstOf
    <2>3. FirstOf(u.how) \in {"refuse", "choose", "station"}
      BY <2>1, <2>2
    <2>4. /\ v \in TaskState /\ v.pc = FirstOf(u.how)
          /\ v.group = w.group /\ v.todo = w.todo /\ v.how = w.how /\ v.stations = w.stations
      BY <1>4, <1>5, <1>8, <2>3 DEF TaskState
    <2>5. Shaped(v)
      BY <1>3, <1>4, <1>8, <2>1, <2>2, <2>4 DEF Shaped, Fits
    <2>6. HeldBy(v) = Tail(u.group) \o u.todo
      BY <1>4, <2>4 DEF HeldBy
    <2>7. QED
      BY <1>4, <1>6, <2>3, <2>4, <2>5, <2>6
  <1>9. QED
    BY <1>7, <1>8

-----------------------------------------------------------------------------
(* A step of a task, whatever it is: either the task goes on with what it  *)
(* holds or less, or the process dies.                                     *)

ShapeInv == TypeOK /\ \A t \in Task : Shaped(task[t])

Follows(u, v) ==
  /\ Shaped(v)
  /\ Range(HeldBy(v)) \subseteq Range(HeldBy(u))
  /\ IsInjective(HeldBy(u)) => IsInjective(HeldBy(v))
  /\ Open(v) \subseteq Open(u)

\* who is in the queue stays there
SameQueue ==
  /\ where' \in [Msg -> {"ready", "unacked", "acked", "dead"}]
  /\ \A m \in Msg : (where[m] = "ready") <=> (where'[m] = "ready")

Moves(t) ==
  /\ \E v : task' = [task EXCEPT ![t] = v] /\ Follows(task[t], v)
  /\ UNCHANGED <<epoch, mode, buffer, timer>>
  /\ SameQueue

LEMMA OpenFacts ==
  ASSUME NEW u, Shaped(u)
  PROVE  /\ HeldBy(u) \in Seq(Delivery)
         /\ Range(HeldBy(u)) \subseteq Delivery
         /\ Open(u) \subseteq Range(HeldBy(u))
         /\ u.pc # "idle" =>
              /\ u.group[1] \in Delivery
              /\ u.group[1] \in Range(HeldBy(u))
              /\ Tail(u.group) \o u.todo \in Seq(Delivery)
              /\ Range(Tail(u.group) \o u.todo) \subseteq Range(HeldBy(u))
              /\ IsInjective(HeldBy(u)) => u.group[1] \notin Range(Tail(u.group) \o u.todo)
  <1>1. u.group \in Seq(Delivery) /\ u.todo \in Seq(Delivery)
    BY DEF Shaped, TaskState
  <1>2. HeldBy(u) \in Seq(Delivery) /\ Range(HeldBy(u)) \subseteq Delivery
    <2>1. HeldBy(u) \in Seq(Delivery)
      BY <1>1 DEF HeldBy
    <2>2. QED
      BY <2>1, RangeType
  <1>3. CASE u.pc = "idle"
    BY <1>2, <1>3 DEF Open
  <1>4. CASE u.pc # "idle"
    <2> DEFINE g == u.group
               d == u.todo
    <2>1. g # <<>> /\ g \in Seq(Delivery) /\ d \in Seq(Delivery)
      BY <1>1, <1>4 DEF Shaped
    <2>2. HeldBy(u) = g \o d
      BY DEF HeldBy
    <2> HIDE DEF g, d
    <2>3. /\ g[1] \in Delivery
          /\ g \o d \in Seq(Delivery) /\ g \o d # <<>>
          /\ (g \o d)[1] = g[1] /\ Tail(g \o d) = Tail(g) \o d
          /\ Tail(g) \o d \in Seq(Delivery)
      BY <2>1
    <2>4. /\ Range(g \o d) = {(g \o d)[1]} \cup Range(Tail(g \o d))
          /\ IsInjective(g \o d) => (g \o d)[1] \notin Range(Tail(g \o d))
      BY <2>3, TailFacts
    <2>5. QED
      BY <1>2, <2>2, <2>3, <2>4 DEF Open, g, d
  <1>5. QED
    BY <1>3, <1>4

\* only the place in the loop changes
GoneTo(u, pc, found) == [u EXCEPT !.pc = pc, !.found = found]

LEMMA GoToFacts ==
  ASSUME NEW u, Shaped(u), u.pc # "idle", NEW pc, Fits(pc, u.how),
         NEW found \in 0..2, u.pc \in {"ack", "reject"} => pc \in {"ack", "reject"},
         NEW v, v = GoneTo(u, pc, found)
  PROVE  /\ Follows(u, v)
         /\ v.pc = pc /\ v.how = u.how /\ v.group = u.group /\ v.todo = u.todo
         /\ v.stations = u.stations
  <1>1. v = [pc |-> pc, how |-> u.how, group |-> u.group, todo |-> u.todo,
             stations |-> u.stations, found |-> found, trigger |-> u.trigger]
    BY DEF Shaped, TaskState, GoneTo
  <1>2. v.pc = pc /\ v.how = u.how /\ v.group = u.group /\ v.todo = u.todo
        /\ v.stations = u.stations /\ v.trigger = u.trigger /\ v.found = found
    BY <1>1
  <1>3. Shaped(v)
    <2>1. v \in TaskState
      BY <1>1 DEF Shaped, TaskState, Fits
    <2>2. u.group # <<>>
      BY DEF Shaped
    <2>3. QED
      BY <1>2, <2>1, <2>2 DEF Shaped, Fits
  <1>4. HeldBy(v) = HeldBy(u)
    BY <1>2 DEF HeldBy
  <1>5. Open(v) \subseteq Open(u)
    BY <1>2, <1>4, OpenFacts DEF Open
  <1>6. QED
    BY <1>2, <1>3, <1>4, <1>5 DEF Follows

LEMMA IdleFollows ==
  ASSUME NEW u, Shaped(u)
  PROVE  Follows(u, Idle) /\ Open(Idle) = {}
  <1>1. Shaped(Idle) /\ HeldBy(Idle) = <<>> /\ Range(<<>>) = {} /\ IsInjective(<<>>)
    BY IdleShaped, EmptyFacts
  <1>2. Idle.pc = "idle"
    BY DEF Idle
  <1>3. QED
    BY <1>1, <1>2 DEF Follows, Open

LEMMA AdvancedFollows ==
  ASSUME NEW u, Shaped(u), u.pc \in {"ack", "reject"}
  PROVE  Follows(u, Advanced(u))
  <1> DEFINE v == Advanced(u)
  <1>1. /\ Shaped(v) /\ v.pc # "ack"
        /\ Range(HeldBy(v)) = Range(Tail(u.group) \o u.todo)
        /\ IsInjective(HeldBy(u)) => IsInjective(HeldBy(v))
    BY AdvancedFacts
  <1>2. Range(Tail(u.group) \o u.todo) \subseteq Range(HeldBy(u))
    BY OpenFacts
  <1>3. Open(u) = Range(Tail(u.group) \o u.todo)
    BY DEF Open
  <1>4. Open(v) \subseteq Range(HeldBy(v))
    BY <1>1, OpenFacts
  <1> HIDE DEF v
  <1>5. Follows(u, v)
    BY <1>1, <1>2, <1>3, <1>4 DEF Follows
  <1>6. QED
    BY <1>5 DEF v

LEMMA AnswersFacts ==
  ASSUME NEW group \in Seq(Delivery), NEW answer
  PROVE  /\ answer \in Answers(group) => answer \in Seq(Msg)
         /\ answer \in LooseAnswers(group) => answer \in Seq(Msg)
         /\ answer \in Answers(group) /\ Len(answer) = Len(group) =>
              \A i \in DOMAIN group : answer[i] = group[i].msg
  <1> DEFINE msgs == [i \in DOMAIN group |-> group[i].msg]
  <1>1. /\ msgs \in Seq(Msg) /\ Len(msgs) = Len(group) /\ DOMAIN msgs = DOMAIN group
        /\ \A i \in DOMAIN msgs : msgs[i] \in Msg
        /\ {group[i].msg : i \in DOMAIN group} \subseteq Msg
    <2>1. DOMAIN group = 1..Len(group) /\ Len(group) \in Nat
      OBVIOUS
    <2>2. \A i \in 1..Len(group) : group[i].msg \in Msg
      <3>1. \A i \in 1..Len(group) : group[i] \in Delivery
        OBVIOUS
      <3>2. QED
        BY <3>1 DEF Delivery
    <2>3. msgs = [i \in 1..Len(group) |-> group[i].msg]
      BY <2>1
    <2>4. msgs \in [1..Len(group) -> Msg]
      BY <2>2, <2>3
    <2>5. msgs \in Seq(Msg) /\ Len(msgs) = Len(group)
      BY <2>1, <2>4
    <2>6. QED
      BY <2>1, <2>2, <2>3, <2>5
  <1>2. ASSUME NEW S \in SUBSET DOMAIN group, answer = Pick(msgs, S)
        PROVE  answer \in Seq(Msg) /\ (Len(answer) = Len(group) => answer = msgs)
    BY <1>1, <1>2, PickFacts
  <1>3. answer \in Answers(group) => \E S \in SUBSET DOMAIN group : answer = Pick(msgs, S)
    BY DEF Answers
  <1>4. answer \in LooseAnswers(group) => answer \in Seq(Msg)
    <2>1. ASSUME answer \in LooseAnswers(group)
          PROVE  \E n \in Nat : answer \in [1..n -> Msg]
      <3>1. PICK n \in 0..Len(group) : answer \in [1..n -> {group[i].msg : i \in DOMAIN group}]
        BY <2>1 DEF LooseAnswers
      <3>2. answer \in [1..n -> Msg] /\ n \in Nat
        BY <1>1, <3>1
      <3>3. QED
        BY <3>2
    <2>2. QED
      BY <2>1
  <1>5. QED
    BY <1>1, <1>2, <1>3, <1>4

\* the message a task is at
LEMMA CurrentFacts ==
  ASSUME ShapeInv, NEW t \in Task, task[t].pc # "idle"
  PROVE  /\ Current(t) \in Delivery /\ Current(t).msg \in Msg /\ Current(t).epoch \in Nat
         /\ Current(t) = task[t].group[1]
         /\ task[t].how = "zip" => task[t].stations[1] \in Msg
  <1> DEFINE u == task[t]
  <1>1. Shaped(u)
    BY DEF ShapeInv
  <1>2. u.group[1] \in Delivery /\ Current(t) = u.group[1]
    BY <1>1, OpenFacts DEF Current
  <1>3. ASSUME u.how = "zip" PROVE u.stations[1] \in Msg
    <2>1. /\ u.stations \in Seq(Msg) /\ Len(u.stations) = Len(u.group)
          /\ u.group \in Seq(Delivery) /\ u.group # <<>>
      BY <1>1, <1>3 DEF Shaped, TaskState
    <2>2. QED
      BY <2>1
  <1>4. QED
    BY <1>2, <1>3 DEF Delivery

\* What a publishing task appends is a message, under the current id.
LEMMA StationSentFacts ==
  ASSUME ShapeInv, NEW t \in Task, task[t].pc = "station"
  PROVE  /\ StationSent(t) \in [Msg -> Seq(Msg)]
         /\ \E x \in Msg :
              /\ StationSent(t) = [sent EXCEPT ![Current(t).msg] = Append(sent[Current(t).msg], x)]
              /\ x = IF task[t].how = "zip" THEN task[t].stations[1] ELSE Current(t).msg
  <1> DEFINE m == Current(t).msg
             x == IF task[t].how = "zip" THEN task[t].stations[1] ELSE m
  <1>1. m \in Msg /\ x \in Msg
    BY CurrentFacts
  <1>2. StationSent(t) = [sent EXCEPT ![m] = Append(sent[m], x)]
    BY DEF StationSent
  <1>3. sent \in [Msg -> Seq(Msg)]
    BY DEF ShapeInv, TypeOK
  <1> HIDE DEF m, x
  <1>4. Append(sent[m], x) \in Seq(Msg)
    BY <1>1, <1>3
  <1>5. StationSent(t) \in [Msg -> Seq(Msg)]
    BY <1>1, <1>2, <1>3, <1>4
  <1>6. QED
    BY <1>1, <1>2, <1>5 DEF m, x

LEMMA AbandonFacts ==
  ASSUME ShapeInv, NEW t \in Task, Abandon(t)
  PROVE  ((Moves(t) /\ where' = where) \/ Die) /\ task'[t] = Idle
  <1>1. CASE Die
    BY <1>1 DEF Die
  <1>2. CASE task' = [task EXCEPT ![t] = Idle] /\ UNCHANGED <<broker, mode, buffer, timer>>
    <2>1. Follows(task[t], Idle) /\ task'[t] = Idle
      BY <1>2, IdleFollows DEF ShapeInv, TypeOK
    <2>2. SameQueue /\ where' = where
      BY <1>2 DEF ShapeInv, TypeOK, SameQueue, broker
    <2>3. QED
      BY <1>2, <2>1, <2>2 DEF Moves, broker
  <1>3. QED
    BY <1>1, <1>2 DEF Abandon

\* GoTo is a move to another place of the same loop.
LEMMA GoToMoves ==
  ASSUME ShapeInv, NEW t \in Task, task[t].pc # "idle", NEW pc, Fits(pc, task[t].how),
         NEW found \in 0..2, pc \notin {"map", "choose"},
         task[t].pc \in {"ack", "reject"} => pc \in {"ack", "reject"},
         task' = [task EXCEPT ![t] = GoneTo(task[t], pc, found)],
         UNCHANGED <<broker, mode, buffer, timer>>
  PROVE  /\ Moves(t) /\ where' = where
         /\ task'[t].pc = pc /\ task'[t].how = task[t].how
         /\ task'[t].group = task[t].group /\ task'[t].todo = task[t].todo
         /\ task'[t].stations = task[t].stations
  <1> DEFINE u == task[t]
             v == GoneTo(u, pc, found)
  <1>1. /\ Shaped(u) /\ u.pc # "idle" /\ Fits(pc, u.how)
        /\ u.pc \in {"ack", "reject"} => pc \in {"ack", "reject"}
        /\ v = GoneTo(u, pc, found)
    BY DEF ShapeInv
  <1>2. task' = [task EXCEPT ![t] = v] /\ task'[t] = v /\ u = task[t]
    BY DEF ShapeInv, TypeOK
  <1> HIDE DEF u, v
  <1>3. /\ Follows(u, v)
        /\ v.pc = pc /\ v.how = u.how /\ v.group = u.group /\ v.todo = u.todo
        /\ v.stations = u.stations
    BY <1>1, GoToFacts
  <1>4. SameQueue
    BY DEF ShapeInv, TypeOK, SameQueue, broker
  <1>5. QED
    BY <1>2, <1>3, <1>4 DEF Moves, broker

\* What a step of task t does to the exchanges, and what it may then acknowledge
\* or publish.
Accounts(t) ==
  /\ setting' = setting
  /\ refused' \in [Msg -> BOOLEAN]
  /\ \A m \in Msg : refused[m] => refused'[m]
  /\ \/ sent' = sent
     \/ /\ task[t].pc = "station"
        /\ sent' = StationSent(t)
        /\ IsInjective(HeldBy(task[t])) => Current(t) \notin Open(task'[t])
  /\ \A m \in Msg : where'[m] = "acked" =>
       where[m] = "acked" \/ (task[t].pc = "ack" /\ Current(t).msg = m /\ mode # "closed")
  /\ task'[t].pc = "ack" =>
       /\ task[t].pc \in {"station", "refuse"}
       /\ task'[t].group = task[t].group
       /\ \/ sent' = StationSent(t)
          \/ refused'[Current(t).msg]
          \/ Fault("refusal") \/ mode = "closed"
  /\ task'[t].how = "zip" =>
       \/ /\ task[t].how = "zip"
          /\ \/ task'[t].group = task[t].group /\ task'[t].stations = task[t].stations
             \/ /\ task'[t].group = Tail(task[t].group)
                /\ task'[t].stations = Tail(task[t].stations)
       \/ Fault("answer")
       \/ \A i \in DOMAIN task'[t].group : task'[t].stations[i] = task'[t].group[i].msg

\* A task that gives up, for whatever reason.
LEMMA LeaveFacts ==
  ASSUME ShapeInv, NEW t \in Task, Abandon(t), UNCHANGED <<setting, refused>>,
         sent' = sent \/ (task[t].pc = "station" /\ sent' = StationSent(t))
  PROVE  (Moves(t) \/ Die) /\ Accounts(t)
  <1>1. ((Moves(t) /\ where' = where) \/ Die) /\ task'[t] = Idle
    BY AbandonFacts
  <1>2. Open(Idle) = {} /\ Idle.pc = "idle" /\ Idle.how = "none"
    BY IdleShaped, IdleFollows DEF Idle
  <1>3. \A m \in Msg : where'[m] = "acked" => where[m] = "acked"
    BY <1>1 DEF Die, LoseChannel
  <1>4. Accounts(t)
    BY <1>1, <1>2, <1>3 DEF Accounts, ShapeInv, TypeOK
  <1>5. QED
    BY <1>1, <1>4

\* The steps that only go to another place of the loop: all but MapGroup, Ack, Reject.
LEMMA GoneFacts ==
  ASSUME ShapeInv, NEW t \in Task, task[t].pc # "idle", NEW pc, Fits(pc, task[t].how),
         NEW found \in 0..2, pc \notin {"map", "choose"},
         task[t].pc \in {"ack", "reject"} => pc = "reject",
         task' = [task EXCEPT ![t] = GoneTo(task[t], pc, found)],
         UNCHANGED <<broker, setting, mode, buffer, timer>>,
         refused' \in [Msg -> BOOLEAN], \A m \in Msg : refused[m] => refused'[m],
         sent' = sent \/ (task[t].pc = "station" /\ sent' = StationSent(t) /\ pc \in {"ack", "reject"}),
         pc = "ack" =>
           /\ task[t].pc \in {"station", "refuse"}
           /\ \/ sent' = StationSent(t)
              \/ refused'[Current(t).msg]
              \/ Fault("refusal") \/ mode = "closed"
  PROVE  Moves(t) /\ Accounts(t)
  <1>1. /\ Moves(t) /\ where' = where
        /\ task'[t].pc = pc /\ task'[t].how = task[t].how
        /\ task'[t].group = task[t].group /\ task'[t].todo = task[t].todo
        /\ task'[t].stations = task[t].stations
    BY GoToMoves
  <1>2. ASSUME pc \in {"ack", "reject"}, IsInjective(HeldBy(task[t]))
        PROVE  Current(t) \notin Open(task'[t])
    <2>1. Open(task'[t]) = Range(Tail(task[t].group) \o task[t].todo)
      BY <1>1, <1>2 DEF Open
    <2>2. Shaped(task[t])
      BY DEF ShapeInv
    <2>3. task[t].group[1] \notin Range(Tail(task[t].group) \o task[t].todo)
      BY <1>2, <2>2, OpenFacts
    <2>4. QED
      BY <2>1, <2>3 DEF Current
  <1>3. Accounts(t)
    BY <1>1, <1>2 DEF Accounts
  <1>4. QED
    BY <1>1, <1>3

\* the group of u is mapped, and the loop h over it begins
Mapped(u, h, st) == [u EXCEPT !.how = h, !.pc = FirstOf(h), !.stations = st]

LEMMA MappedFacts ==
  ASSUME NEW u, Shaped(u), u.pc = "map", NEW h \in {"refuse", "single", "zip"},
         NEW st \in Seq(Msg), h = "zip" => Len(st) = Len(u.group),
         NEW v, v = Mapped(u, h, st)
  PROVE  /\ Follows(u, v)
         /\ v.pc \in {"refuse", "choose", "station"}
         /\ v.how = h /\ v.group = u.group /\ v.todo = u.todo /\ v.stations = st
  <1>1. u \in TaskState /\ u.group # <<>>
    BY DEF Shaped
  <1> DEFINE pc == FirstOf(h)
  <1>2. /\ h = "refuse" => pc = "refuse"
        /\ h = "single" => pc = "choose"
        /\ h = "zip" => pc = "station"
    BY DEF FirstOf
  <1>3. v = [u EXCEPT !.how = h, !.pc = pc, !.stations = st]
    BY DEF Mapped
  <1> HIDE DEF pc
  <1>4. v = [pc |-> pc, how |-> h, group |-> u.group, todo |-> u.todo,
             stations |-> st, found |-> u.found, trigger |-> u.trigger]
    BY <1>1, <1>3 DEF TaskState
  <1>5. /\ v.pc = pc /\ v.how = h /\ v.group = u.group /\ v.todo = u.todo
        /\ v.stations = st
    BY <1>4
  <1>6. v \in TaskState
    BY <1>1, <1>2, <1>4 DEF TaskState
  <1>7. Shaped(v)
    BY <1>1, <1>2, <1>5, <1>6 DEF Shaped, Fits
  <1>8. HeldBy(v) = HeldBy(u) /\ Open(v) = Open(u)
    BY <1>2, <1>5 DEF HeldBy, Open
  <1>9. QED
    BY <1>2, <1>5, <1>7, <1>8 DEF Follows

LEMMA MapGroupFacts ==
  ASSUME ShapeInv, NEW t \in Task, MapGroup(t)
  PROVE  Moves(t) /\ Accounts(t)
  <1> DEFINE u == task[t]
  <1>1. Shaped(u) /\ u.pc = "map" /\ u.group \in Seq(Delivery)
    BY DEF ShapeInv, MapGroup, Shaped, TaskState
  <1>2. \E answer \in Seq(Msg), h \in {"refuse", "single", "zip"}, st \in Seq(Msg) :
          /\ h = "zip" => st = answer /\ Len(answer) = Len(u.group)
          /\ h = "zip" => Fault("answer") \/ \A i \in DOMAIN u.group : answer[i] = u.group[i].msg
          /\ task' = [task EXCEPT ![t] = Mapped(u, h, st)]
    <2>1. PICK answer \in Answers(u.group)
                          \cup (IF Fault("answer") THEN LooseAnswers(u.group) ELSE {}) :
            LET how == LoopOver(u.group, answer) IN
            task' = [task EXCEPT ![t] =
              [@ EXCEPT !.how = how, !.pc = FirstOf(how),
                        !.stations = IF how = "zip" THEN answer ELSE <<>>]]
      BY DEF MapGroup
    <2> DEFINE h == LoopOver(u.group, answer)
               st == IF h = "zip" THEN answer ELSE <<>>
    <2>2. /\ h \in {"refuse", "single", "zip"}
          /\ h = "zip" => Len(answer) = Len(u.group)
      BY DEF LoopOver
    <2>3. /\ answer \in Seq(Msg)
          /\ Len(answer) = Len(u.group) =>
               Fault("answer") \/ \A i \in DOMAIN u.group : answer[i] = u.group[i].msg
      BY <1>1, <2>1, AnswersFacts
    <2>4. task' = [task EXCEPT ![t] = Mapped(u, h, st)]
      BY <2>1 DEF Mapped
    <2>5. st \in Seq(Msg) /\ (h = "zip" => st = answer)
      <3>1. <<>> \in Seq(Msg)
        OBVIOUS
      <3> HIDE DEF h
      <3>2. QED
        BY <2>3, <3>1
    <2> HIDE DEF h, st
    <2>6. QED
      BY <2>2, <2>3, <2>4, <2>5
  <1>3. PICK answer \in Seq(Msg), h \in {"refuse", "single", "zip"}, st \in Seq(Msg) :
          /\ h = "zip" => st = answer /\ Len(answer) = Len(u.group)
          /\ h = "zip" => Fault("answer") \/ \A i \in DOMAIN u.group : answer[i] = u.group[i].msg
          /\ task' = [task EXCEPT ![t] = Mapped(u, h, st)]
    BY <1>2
  <1> DEFINE v == Mapped(u, h, st)
  <1>4. task' = [task EXCEPT ![t] = v] /\ task'[t] = v
    BY <1>3 DEF ShapeInv, TypeOK
  <1>5. UNCHANGED <<where, epoch, setting, mode, buffer, timer, sent, refused>>
    BY DEF MapGroup, broker, exchanges
  <1> HIDE DEF u, v
  <1>6. /\ Follows(u, v)
        /\ v.pc \in {"refuse", "choose", "station"}
        /\ v.how = h /\ v.group = u.group /\ v.stations = st
    BY <1>1, <1>3, MappedFacts DEF v
  <1>7. SameQueue
    BY <1>5 DEF ShapeInv, TypeOK, SameQueue
  <1>8. Moves(t)
    BY <1>4, <1>5, <1>6, <1>7 DEF Moves, u
  <1>9. v.how = "zip" => Fault("answer") \/ \A i \in DOMAIN v.group : v.stations[i] = v.group[i].msg
    BY <1>3, <1>6
  <1>10. Accounts(t)
    BY <1>4, <1>5, <1>6, <1>9 DEF Accounts, ShapeInv, TypeOK
  <1>11. QED
    BY <1>8, <1>10

LEMMA SettleFacts ==
  ASSUME ShapeInv, NEW t \in Task, NEW fate \in {"acked", "dead"}, Settle(t, fate),
         task[t].pc \in {"ack", "reject"}, fate = "acked" => task[t].pc = "ack"
  PROVE  Moves(t) /\ Accounts(t)
  <1> DEFINE u == task[t]
             v == Advanced(u)
             m == Current(t).msg
  <1>1. Shaped(u) /\ u.pc \in {"ack", "reject"}
    BY DEF ShapeInv
  <1>2. m \in Msg /\ where[m] = "unacked" /\ mode # "closed" /\ where' = [where EXCEPT ![m] = fate]
    BY <1>1, CurrentFacts DEF Settle, Settleable, ChannelOpen
  <1>3. task' = [task EXCEPT ![t] = v] /\ task'[t] = v
    BY DEF Settle, ShapeInv, TypeOK
  <1>4. Follows(u, v)
    BY <1>1, AdvancedFollows
  <1>5. /\ v.pc # "ack"
        /\ v.how = "zip" =>
              u.how = "zip" /\ v.group = Tail(u.group) /\ v.stations = Tail(u.stations)
    BY <1>1, AdvancedFacts
  <1>6. UNCHANGED <<epoch, setting, mode, buffer, timer, sent, refused>>
    BY DEF Settle, exchanges
  <1> HIDE DEF u, v, m
  <1>7. SameQueue
    BY <1>2 DEF SameQueue, ShapeInv, TypeOK
  <1>8. Moves(t)
    BY <1>3, <1>4, <1>6, <1>7 DEF Moves, u
  <1>9. \A n \in Msg : where'[n] = "acked" =>
          where[n] = "acked" \/ (u.pc = "ack" /\ m = n /\ mode # "closed")
    BY <1>1, <1>2 DEF ShapeInv, TypeOK, u
  <1>10. Accounts(t)
    BY <1>3, <1>5, <1>6, <1>9 DEF Accounts, ShapeInv, TypeOK, u, m
  <1>11. QED
    BY <1>8, <1>10

\* GoTo, as GoneTo
LEMMA GoToIsGoneTo ==
  ASSUME ShapeInv, NEW t \in Task, NEW pc, GoTo(t, pc)
  PROVE  task' = [task EXCEPT ![t] = GoneTo(task[t], pc, task[t].found)]
         /\ task[t].found \in 0..2
  <1> DEFINE u == task[t]
  <1>1. u \in TaskState
    BY DEF ShapeInv, Shaped
  <1>2. task' = [task EXCEPT ![t] = [u EXCEPT !.pc = pc]]
    BY DEF GoTo
  <1> HIDE DEF u
  <1>3. [u EXCEPT !.pc = pc] = GoneTo(u, pc, u.found)
    BY <1>1 DEF GoneTo, TaskState
  <1>4. QED
    BY <1>1, <1>2, <1>3 DEF u, TaskState

LEMMA ChooseFacts ==
  ASSUME ShapeInv, NEW t \in Task, Choose(t)
  PROVE  Moves(t) /\ Accounts(t)
  <1>1. /\ task[t].pc = "choose" /\ task[t].how = "single"
        /\ UNCHANGED <<broker, setting, mode, buffer, timer, sent, refused>>
    BY DEF Choose, exchanges, ShapeInv, Shaped, Fits
  <1>2. refused' \in [Msg -> BOOLEAN] /\ \A m \in Msg : refused[m] => refused'[m]
    BY <1>1 DEF ShapeInv, TypeOK
  <1>3. \E pc \in {"refuse", "station", "reject"}, found \in 0..2 :
          task' = [task EXCEPT ![t] = GoneTo(task[t], pc, found)]
    <2>1. CASE GoTo(t, "reject")
      BY <2>1, GoToIsGoneTo
    <2>2. CASE \E found \in 0..2, partly \in BOOLEAN :
                 task' = [task EXCEPT ![t] =
                   [@ EXCEPT !.found = found, !.pc = AfterChoice(found, partly)]]
      <3>1. PICK found \in 0..2, partly \in BOOLEAN :
                 task' = [task EXCEPT ![t] =
                   [task[t] EXCEPT !.found = found, !.pc = AfterChoice(found, partly)]]
        BY <2>2
      <3> DEFINE u == task[t]
                 pc == AfterChoice(found, partly)
      <3>2. pc \in {"refuse", "station", "reject"}
        BY DEF AfterChoice
      <3>3. u \in TaskState
        BY DEF ShapeInv, Shaped
      <3> HIDE DEF u, pc
      <3>4. [u EXCEPT !.found = found, !.pc = pc] = GoneTo(u, pc, found)
        BY <3>3 DEF GoneTo, TaskState
      <3>5. task' = [task EXCEPT ![t] = GoneTo(u, pc, found)]
        BY <3>1, <3>4 DEF u, pc
      <3>6. QED
        BY <3>2, <3>5 DEF u
    <2>3. QED
      BY <2>1, <2>2 DEF Choose
  <1>4. PICK pc \in {"refuse", "station", "reject"}, found \in 0..2 :
          task' = [task EXCEPT ![t] = GoneTo(task[t], pc, found)]
    BY <1>3
  <1>5. Fits(pc, task[t].how)
    BY <1>1 DEF Fits
  <1>6. QED
    BY <1>1, <1>2, <1>4, <1>5, GoneFacts

LEMMA RefuseFacts ==
  ASSUME ShapeInv, NEW t \in Task, Refuse(t)
  PROVE  Moves(t) /\ Accounts(t)
  <1> DEFINE pc == AfterRefusal(task[t])
  <1>1. /\ task[t].pc = "refuse" /\ task[t].how \in {"refuse", "single"}
        /\ task[t].found \in 0..2 /\ Current(t).msg \in Msg
        /\ UNCHANGED <<broker, setting, mode, buffer, timer, sent>>
    BY CurrentFacts DEF Refuse, ShapeInv, Shaped, Fits, TaskState
  <1>2. /\ refused' \in [Msg -> BOOLEAN] /\ \A m \in Msg : refused[m] => refused'[m]
        /\ refused'[Current(t).msg] \/ Fault("refusal") \/ mode = "closed"
    BY <1>1 DEF Refuse, ShapeInv, TypeOK
  <1>3. pc \in {"ack", "station", "reject"} /\ Fits(pc, task[t].how)
    BY <1>1 DEF AfterRefusal, Fits
  <1>4. GoTo(t, pc)
    BY DEF Refuse
  <1> HIDE DEF pc
  <1>5. task' = [task EXCEPT ![t] = GoneTo(task[t], pc, task[t].found)]
    BY <1>4, GoToIsGoneTo
  <1>6. QED
    BY <1>1, <1>2, <1>3, <1>5, GoneFacts

LEMMA PublishFacts ==
  ASSUME ShapeInv, NEW t \in Task, Publish(t)
  PROVE  Moves(t) /\ Accounts(t)
  <1>1. /\ task[t].pc = "station" /\ task[t].how \in {"single", "zip"}
        /\ UNCHANGED <<broker, setting, mode, buffer, timer, refused>>
        /\ sent' = StationSent(t) /\ GoTo(t, "ack")
    BY DEF Publish, ShapeInv, Shaped, Fits
  <1>2. refused' \in [Msg -> BOOLEAN] /\ \A m \in Msg : refused[m] => refused'[m]
    BY <1>1 DEF ShapeInv, TypeOK
  <1> DEFINE pc == "ack"
  <1>3. pc = "ack" /\ Fits(pc, task[t].how) /\ GoTo(t, pc)
    BY <1>1 DEF Fits
  <1> HIDE DEF pc
  <1>4. /\ task' = [task EXCEPT ![t] = GoneTo(task[t], pc, task[t].found)]
        /\ task[t].found \in 0..2
    BY <1>3, GoToIsGoneTo
  <1>5. /\ task[t].pc # "idle" /\ pc \notin {"map", "choose"}
        /\ task[t].pc \in {"ack", "reject"} => pc = "reject"
    BY <1>1, <1>3
  <1>6. sent' = sent \/ (task[t].pc = "station" /\ sent' = StationSent(t) /\ pc \in {"ack", "reject"})
    BY <1>1, <1>3
  <1>7. pc = "ack" =>
           /\ task[t].pc \in {"station", "refuse"}
           /\ \/ sent' = StationSent(t)
              \/ refused'[Current(t).msg]
              \/ Fault("refusal") \/ mode = "closed"
    BY <1>1
  <1>8. UNCHANGED <<broker, setting, mode, buffer, timer>>
    BY <1>1
  <1>9. QED
    BY <1>2, <1>3, <1>4, <1>5, <1>6, <1>7, <1>8, GoneFacts

\* process_message's caller rejects what could not be published or acknowledged
LEMMA RejectInsteadFacts ==
  ASSUME ShapeInv, NEW t \in Task, task[t].pc \in {"station", "ack"}, task[t].how = "single",
         GoTo(t, "reject"), UNCHANGED <<broker, mode, buffer, timer>>,
         UNCHANGED <<setting, refused>>,
         sent' = sent \/ (task[t].pc = "station" /\ sent' = StationSent(t))
  PROVE  Moves(t) /\ Accounts(t)
  <1>1. refused' \in [Msg -> BOOLEAN] /\ \A m \in Msg : refused[m] => refused'[m]
    BY DEF ShapeInv, TypeOK
  <1> DEFINE pc == "reject"
  <1>2. pc = "reject" /\ Fits(pc, task[t].how) /\ GoTo(t, pc)
    BY DEF Fits
  <1> HIDE DEF pc
  <1>3. /\ task' = [task EXCEPT ![t] = GoneTo(task[t], pc, task[t].found)]
        /\ task[t].found \in 0..2
    BY <1>2, GoToIsGoneTo
  <1>4. /\ task[t].pc # "idle" /\ pc \notin {"map", "choose"}
        /\ task[t].pc \in {"ack", "reject"} => pc = "reject"
    BY <1>2
  <1>5. sent' = sent \/ (task[t].pc = "station" /\ sent' = StationSent(t) /\ pc \in {"ack", "reject"})
    BY <1>2
  <1>6. pc = "ack" =>
           /\ task[t].pc \in {"station", "refuse"}
           /\ \/ sent' = StationSent(t)
              \/ refused'[Current(t).msg]
              \/ Fault("refusal") \/ mode = "closed"
    BY <1>2
  <1>7. UNCHANGED <<broker, setting, mode, buffer, timer>>
    OBVIOUS
  <1>8. QED
    BY <1>1, <1>2, <1>3, <1>4, <1>5, <1>6, <1>7, GoneFacts

LEMMA PublishFailsFacts ==
  ASSUME ShapeInv, NEW t \in Task, PublishFails(t)
  PROVE  (Moves(t) \/ Die) /\ Accounts(t)
  <1>1. /\ task[t].pc = "station"
        /\ UNCHANGED <<setting, refused>>
        /\ sent' = sent \/ (task[t].pc = "station" /\ sent' = StationSent(t))
    BY DEF PublishFails
  <1>2. CASE Abandon(t)
    BY <1>1, <1>2, LeaveFacts
  <1>3. CASE task[t].how = "single" /\ GoTo(t, "reject") /\ UNCHANGED <<broker, mode, buffer, timer>>
    BY <1>1, <1>3, RejectInsteadFacts
  <1>4. QED
    BY <1>2, <1>3 DEF PublishFails

LEMMA AckFailsFacts ==
  ASSUME ShapeInv, NEW t \in Task, AckFails(t)
  PROVE  (Moves(t) \/ Die) /\ Accounts(t)
  <1>1. task[t].pc = "ack" /\ UNCHANGED <<setting, refused>> /\ sent' = sent
    BY DEF AckFails, exchanges
  <1>2. CASE Abandon(t)
    BY <1>1, <1>2, LeaveFacts
  <1>3. CASE task[t].how = "single" /\ GoTo(t, "reject") /\ UNCHANGED <<broker, mode, buffer, timer>>
    BY <1>1, <1>3, RejectInsteadFacts
  <1>4. QED
    BY <1>2, <1>3 DEF AckFails

LEMMA TaskStepFacts ==
  ASSUME ShapeInv, NEW t \in Task, TaskStep(t)
  PROVE  (Moves(t) \/ Die) /\ Accounts(t)
  <1>1. CASE MapGroup(t)
    BY <1>1, MapGroupFacts
  <1>2. CASE MapRaises(t)
    BY <1>2, LeaveFacts DEF MapRaises, exchanges
  <1>3. CASE Choose(t)
    BY <1>3, ChooseFacts
  <1>4. CASE Refuse(t)
    BY <1>4, RefuseFacts
  <1>5. CASE Publish(t)
    BY <1>5, PublishFacts
  <1>6. CASE PublishFails(t)
    BY <1>6, PublishFailsFacts
  <1>7. CASE Ack(t)
    BY <1>7, SettleFacts DEF Ack
  <1>8. CASE AckFails(t)
    BY <1>8, AckFailsFacts
  <1>9. CASE Reject(t)
    BY <1>9, SettleFacts DEF Reject
  <1>10. CASE RejectFails(t)
    BY <1>10, LeaveFacts DEF RejectFails, exchanges
  <1>11. QED
    BY <1>1, <1>2, <1>3, <1>4, <1>5, <1>6, <1>7, <1>8, <1>9, <1>10 DEF TaskStep

-----------------------------------------------------------------------------
(* Every step, as what it does to the deliveries: it passes some on between *)
(* the queue, the buffer and one task, or it loses the channel.            *)

\* the deliveries that leave the queue in this step
New(d) ==
  /\ d \in Delivery /\ d.epoch = epoch
  /\ where[d.msg] = "ready" /\ where'[d.msg] # "ready"

Apart(u, b) ==
  IsInjective(HeldBy(u)) /\ IsInjective(b) /\ Range(HeldBy(u)) \cap Range(b) = {}

\* task t and the buffer become u and b, arrivals being what the step takes from the queue
Passes(t, u, b, arrivals) ==
  /\ task' = [task EXCEPT ![t] = u]
  /\ buffer' = b
  /\ Shaped(u)
  /\ b \in Seq(Delivery)
  /\ Range(HeldBy(u)) \cup Range(b) \subseteq Range(HeldBy(task[t])) \cup Range(buffer) \cup arrivals
  /\ Open(u) \cup Range(b) \subseteq Open(task[t]) \cup Range(buffer) \cup arrivals
  /\ /\ Apart(task[t], buffer)
     /\ arrivals \cap (Range(HeldBy(task[t])) \cup Range(buffer)) = {}
     => Apart(u, b)
  /\ \A d \in arrivals : New(d)
  /\ epoch' = epoch
  /\ where' \in [Msg -> {"ready", "unacked", "acked", "dead"}]
  /\ \A m \in Msg : where'[m] = "ready" => where[m] = "ready"
  /\ mode' \in {"up", "draining", "closed", "down"}
  /\ timer' \in BOOLEAN

Loses ==
  \/ Die
  \/ LoseChannel /\ UNCHANGED <<buffer, task, timer>>
     /\ mode' \in {"up", "draining", "closed", "down"}

\* a step that is no task's
Quiet ==
  /\ UNCHANGED <<setting, sent, refused>>
  /\ \A m \in Msg : where'[m] = "acked" => where[m] = "acked"
  /\ \A t \in Task : task'[t] = task[t] \/ (task'[t].pc # "ack" /\ task'[t].how # "zip")

LEMMA MovesPass ==
  ASSUME ShapeInv, NEW t \in Task, Moves(t)
  PROVE  \E u : Passes(t, u, buffer, {}) /\ u = task'[t]
  <1>1. PICK u : task' = [task EXCEPT ![t] = u] /\ Follows(task[t], u)
    BY DEF Moves
  <1>2. UNCHANGED <<epoch, mode, buffer, timer>> /\ SameQueue
    BY DEF Moves
  <1>3. u = task'[t]
    BY <1>1 DEF ShapeInv, TypeOK
  <1>4. Passes(t, u, buffer, {})
    BY <1>1, <1>2 DEF Passes, Follows, Apart, SameQueue, ShapeInv, TypeOK
  <1>5. QED
    BY <1>3, <1>4

\* a message is taken off the queue, or the process changes its mode
LEMMA QueueOnly ==
  ASSUME ShapeInv, UNCHANGED <<epoch, buffer, timer, task>>,
         where' \in [Msg -> {"ready", "unacked", "acked", "dead"}],
         \A m \in Msg : where'[m] = "ready" => where[m] = "ready",
         mode' \in {"up", "draining", "closed", "down"}
  PROVE  \E t \in Task : \E u, b, arrivals : Passes(t, u, b, arrivals)
  <1>1. Main \in Task
    BY DEF Task
  <1>2. Passes(Main, task[Main], buffer, {})
    BY <1>1 DEF Passes, ShapeInv, TypeOK
  <1>3. QED
    BY <1>1, <1>2

\* an idle task holds nothing
LEMMA IdleHolds ==
  ASSUME ShapeInv, NEW t \in Task, task[t].pc = "idle"
  PROVE  task[t] = Idle /\ HeldBy(task[t]) = <<>> /\ Range(HeldBy(task[t])) = {}
  BY IdleShaped, EmptyFacts DEF ShapeInv, Shaped

LEMMA HandledRecord ==
  ASSUME NEW g
  PROVE  [Idle EXCEPT !.pc = "choose", !.how = "single", !.trigger = "message", !.group = g] =
         [pc |-> "choose", how |-> "single", group |-> g, todo |-> <<>>,
          stations |-> <<>>, found |-> 0, trigger |-> "message"]
  <1> DEFINE empty == <<>>
             a == [pc |-> "choose", how |-> "none", group |-> empty, todo |-> empty,
                   stations |-> empty, found |-> 0, trigger |-> "none"]
             b == [pc |-> "choose", how |-> "single", group |-> empty, todo |-> empty,
                   stations |-> empty, found |-> 0, trigger |-> "none"]
             c == [pc |-> "choose", how |-> "single", group |-> empty, todo |-> empty,
                   stations |-> empty, found |-> 0, trigger |-> "message"]
             d == [pc |-> "choose", how |-> "single", group |-> g, todo |-> empty,
                   stations |-> empty, found |-> 0, trigger |-> "message"]
             i == [pc |-> "idle", how |-> "none", group |-> empty, todo |-> empty,
                   stations |-> empty, found |-> 0, trigger |-> "none"]
  <1>1. Idle = i
    BY DEF Idle
  <1> HIDE DEF empty
  <1>2. [i EXCEPT !.pc = "choose"] = a
    OBVIOUS
  <1>3. [a EXCEPT !.how = "single"] = b
    OBVIOUS
  <1>4. [b EXCEPT !.trigger = "message"] = c
    OBVIOUS
  <1>5. [c EXCEPT !.group = g] = d
    OBVIOUS
  <1> HIDE DEF i, a, b, c, d
  <1>6. [Idle EXCEPT !.pc = "choose", !.how = "single", !.trigger = "message", !.group = g] = d
    BY <1>1, <1>2, <1>3, <1>4, <1>5
  <1>7. QED
    BY <1>6 DEF d, empty

LEMMA HandleMessageFacts ==
  ASSUME ShapeInv, NEW m \in Msg, HandleMessage(m)
  PROVE  Quiet /\ \E t \in Task : \E u, b, arrivals : Passes(t, u, b, arrivals)
  <1> DEFINE d == [msg |-> m, epoch |-> epoch]
             g == <<d>>
             u == [pc |-> "choose", how |-> "single", group |-> g, todo |-> <<>>,
                   stations |-> <<>>, found |-> 0, trigger |-> "message"]
  <1>1. Main \in Task
    BY DEF Task
  <1>2. /\ where[m] = "ready" /\ where' = [where EXCEPT ![m] = "unacked"]
        /\ task[Main].pc = "idle"
        /\ UNCHANGED <<epoch, setting, mode, buffer, timer, sent, refused>>
    BY DEF HandleMessage, Deliverable, exchanges
  <1>3. task' = [task EXCEPT ![Main] = u]
    <2>1. task' = [task EXCEPT ![Main] =
                     [Idle EXCEPT !.pc = "choose", !.how = "single", !.trigger = "message",
                                  !.group = g]]
      BY DEF HandleMessage
    <2> HIDE DEF g
    <2>2. [Idle EXCEPT !.pc = "choose", !.how = "single", !.trigger = "message", !.group = g] = u
      BY HandledRecord
    <2>3. QED
      BY <2>1, <2>2
  <1>4. d \in Delivery /\ d.msg = m /\ d.epoch = epoch
    BY DEF Delivery, ShapeInv, TypeOK
  <1> HIDE DEF d
  <1>5. g \in Seq(Delivery) /\ Range(g) = {d} /\ IsInjective(g) /\ Len(g) = 1
    BY <1>4, SingletonFacts
  <1>6. <<>> \in Seq(Delivery) /\ <<>> \in Seq(Msg) /\ g \o <<>> = g /\ g # <<>>
    BY <1>5
  <1> HIDE DEF g
  <1>7. u \in TaskState
    BY <1>5, <1>6 DEF TaskState
  <1>8. Shaped(u) /\ HeldBy(u) = g /\ Open(u) = {d} /\ u.how # "zip" /\ u.pc # "ack"
    BY <1>5, <1>6, <1>7 DEF Shaped, Fits, HeldBy, Open
  <1> HIDE DEF u
  <1>9. Range(HeldBy(task[Main])) = {}
    BY <1>1, <1>2, IdleHolds
  <1>10. New(d)
    BY <1>2, <1>4 DEF New, ShapeInv, TypeOK
  <1>11. Passes(Main, u, buffer, {d})
    <2>1. Apart(task[Main], buffer) /\ {d} \cap Range(buffer) = {} => Apart(u, buffer)
      BY <1>5, <1>8, <1>9 DEF Apart
    <2>2. where' \in [Msg -> {"ready", "unacked", "acked", "dead"}]
          /\ \A n \in Msg : where'[n] = "ready" => where[n] = "ready"
      BY <1>2 DEF ShapeInv, TypeOK
    <2>3. buffer \in Seq(Delivery) /\ mode \in {"up", "draining", "closed", "down"} /\ timer \in BOOLEAN
      BY DEF ShapeInv, TypeOK
    <2>4. QED
      BY <1>2, <1>3, <1>5, <1>8, <1>9, <1>10, <2>1, <2>2, <2>3 DEF Passes
  <1>12. Quiet
    BY <1>1, <1>2, <1>3, <1>8 DEF Quiet, ShapeInv, TypeOK
  <1>13. QED
    BY <1>1, <1>11, <1>12

LEMMA EnqueueAndWaitFacts ==
  ASSUME ShapeInv, NEW m \in Msg, EnqueueAndWait(m)
  PROVE  Quiet /\ \E t \in Task : \E u, b, arrivals : Passes(t, u, b, arrivals)
  <1> DEFINE d == [msg |-> m, epoch |-> epoch]
             b == Append(buffer, d)
  <1>1. Main \in Task /\ Shaped(task[Main])
    BY DEF Task, ShapeInv
  <1>2. /\ where[m] = "ready" /\ where' = [where EXCEPT ![m] = "unacked"]
        /\ timer' = TRUE /\ buffer' = b
        /\ UNCHANGED <<epoch, setting, mode, task, sent, refused>>
    BY DEF EnqueueAndWait, Deliverable, exchanges
  <1>3. d \in Delivery /\ d.msg = m /\ d.epoch = epoch
    BY DEF Delivery, ShapeInv, TypeOK
  <1>4. New(d)
    BY <1>2, <1>3 DEF New, ShapeInv, TypeOK
  <1> HIDE DEF d
  <1>5. /\ b \in Seq(Delivery) /\ Range(b) = Range(buffer) \cup {d}
        /\ IsInjective(buffer) /\ d \notin Range(buffer) => IsInjective(b)
    BY <1>3, AppendFacts DEF ShapeInv, TypeOK
  <1> HIDE DEF b
  <1>6. task' = [task EXCEPT ![Main] = task[Main]]
    BY <1>2 DEF ShapeInv, TypeOK
  <1>7. Passes(Main, task[Main], b, {d})
    <2>1. /\ Apart(task[Main], buffer)
          /\ {d} \cap (Range(HeldBy(task[Main])) \cup Range(buffer)) = {}
          => Apart(task[Main], b)
      BY <1>5 DEF Apart
    <2>2. where' \in [Msg -> {"ready", "unacked", "acked", "dead"}]
          /\ \A n \in Msg : where'[n] = "ready" => where[n] = "ready"
      BY <1>2 DEF ShapeInv, TypeOK
    <2>3. mode \in {"up", "draining", "closed", "down"}
      BY DEF ShapeInv, TypeOK
    <2>4. QED
      BY <1>1, <1>2, <1>4, <1>5, <1>6, <2>1, <2>2, <2>3 DEF Passes
  <1>8. Quiet
    BY <1>2 DEF Quiet, ShapeInv, TypeOK
  <1>9. QED
    BY <1>1, <1>7, <1>8

\* A batch of the buffer and of arrivals is handed to a task that holds nothing else.
LEMMA HandOverFacts ==
  ASSUME ShapeInv, NEW t \in Task, NEW items \in Seq(Delivery), NEW arrivals,
         NEW trigger \in {"size", "timeout", "shutdown"},
         task' = [task EXCEPT ![t] = StartBatch(items, trigger)],
         buffer' = <<>>, timer' = FALSE,
         Range(items) \subseteq Range(buffer) \cup arrivals,
         IsInjective(buffer) /\ arrivals \cap Range(buffer) = {} => IsInjective(items),
         \A d \in arrivals : New(d),
         UNCHANGED <<epoch, setting, sent, refused>>,
         where' \in [Msg -> {"ready", "unacked", "acked", "dead"}],
         \A m \in Msg : where'[m] = "ready" => where[m] = "ready",
         \A m \in Msg : where'[m] = "acked" => where[m] = "acked",
         mode' \in {"up", "draining", "closed", "down"}
  PROVE  Quiet /\ \E x \in Task : \E u, b, taken : Passes(x, u, b, taken)
  <1> DEFINE u == StartBatch(items, trigger)
  <1>1. /\ Shaped(u) /\ u.pc \in {"idle", "map", "reject"} /\ u.how # "zip"
        /\ Range(HeldBy(u)) = Range(items)
        /\ IsInjective(items) => IsInjective(HeldBy(u))
    BY StartFacts
  <1>2. task' = [task EXCEPT ![t] = u] /\ task \in [Task -> TaskState]
    BY DEF ShapeInv, TypeOK
  <1> HIDE DEF u
  <1>3. Open(u) \subseteq Range(HeldBy(u))
    BY <1>1, OpenFacts
  <1>4. <<>> \in Seq(Delivery) /\ Range(<<>>) = {} /\ IsInjective(<<>>)
    BY EmptyFacts
  <1>5. /\ Apart(task[t], buffer)
        /\ arrivals \cap (Range(HeldBy(task[t])) \cup Range(buffer)) = {}
        => Apart(u, <<>>)
    BY <1>1, <1>4 DEF Apart
  <1>6. Passes(t, u, <<>>, arrivals)
    BY <1>1, <1>2, <1>3, <1>4, <1>5 DEF Passes
  <1>7. Quiet
    BY <1>1, <1>2 DEF Quiet
  <1>8. QED
    BY <1>6, <1>7

LEMMA EnqueueAndProcessFacts ==
  ASSUME ShapeInv, NEW m \in Msg, EnqueueAndProcess(m)
  PROVE  Quiet /\ \E x \in Task : \E u, b, taken : Passes(x, u, b, taken)
  <1> DEFINE d == [msg |-> m, epoch |-> epoch]
             items == Append(buffer, d)
             trigger == "size"
             arrivals == {d}
  <1>1. Main \in Task /\ trigger \in {"size", "timeout", "shutdown"}
    BY DEF Task
  <1>2. /\ where[m] = "ready" /\ where' = [where EXCEPT ![m] = "unacked"]
        /\ task' = [task EXCEPT ![Main] = StartBatch(items, trigger)]
        /\ buffer' = <<>> /\ timer' = FALSE
        /\ UNCHANGED <<epoch, setting, sent, refused>> /\ mode' = mode
    BY DEF EnqueueAndProcess, Deliverable, exchanges
  <1>3. d \in Delivery /\ d.msg = m /\ d.epoch = epoch
    BY DEF Delivery, ShapeInv, TypeOK
  <1>4. \A x \in arrivals : New(x)
    BY <1>2, <1>3 DEF New, ShapeInv, TypeOK
  <1> HIDE DEF d, trigger
  <1>5. /\ items \in Seq(Delivery) /\ Range(items) \subseteq Range(buffer) \cup arrivals
        /\ IsInjective(buffer) /\ arrivals \cap Range(buffer) = {} => IsInjective(items)
    BY <1>3, AppendFacts DEF ShapeInv, TypeOK
  <1>6. /\ where' \in [Msg -> {"ready", "unacked", "acked", "dead"}]
        /\ \A n \in Msg : where'[n] = "ready" => where[n] = "ready"
        /\ \A n \in Msg : where'[n] = "acked" => where[n] = "acked"
        /\ mode' \in {"up", "draining", "closed", "down"}
    BY <1>2 DEF ShapeInv, TypeOK
  <1> HIDE DEF items, arrivals
  <1>7. QED
    BY <1>1, <1>2, <1>4, <1>5, <1>6, HandOverFacts

LEMMA TimerFiresFacts ==
  ASSUME ShapeInv, NEW t \in Timers, TimerFires(t)
  PROVE  Quiet /\ \E x \in Task : \E u, b, taken : Passes(x, u, b, taken)
  <1> DEFINE trigger == "timeout"
             arrivals == {}
  <1>1. /\ t \in Task /\ trigger \in {"size", "timeout", "shutdown"}
        /\ buffer \in Seq(Delivery) /\ Range(buffer) \subseteq Range(buffer) \cup arrivals
        /\ IsInjective(buffer) /\ arrivals \cap Range(buffer) = {} => IsInjective(buffer)
        /\ \A d \in arrivals : New(d)
    BY DEF Task, ShapeInv, TypeOK
  <1>2. /\ task' = [task EXCEPT ![t] = StartBatch(buffer, trigger)]
        /\ buffer' = <<>> /\ timer' = FALSE
        /\ UNCHANGED <<epoch, setting, sent, refused>> /\ mode' = mode /\ where' = where
    BY DEF TimerFires, broker, exchanges
  <1>3. /\ where' \in [Msg -> {"ready", "unacked", "acked", "dead"}]
        /\ \A n \in Msg : where'[n] = "ready" => where[n] = "ready"
        /\ \A n \in Msg : where'[n] = "acked" => where[n] = "acked"
        /\ mode' \in {"up", "draining", "closed", "down"}
    BY <1>2 DEF ShapeInv, TypeOK
  <1> HIDE DEF trigger, arrivals
  <1>4. QED
    BY <1>1, <1>2, <1>3, HandOverFacts

LEMMA StopFacts ==
  ASSUME ShapeInv, Stop
  PROVE  Quiet /\ \E x \in Task : \E u, b, taken : Passes(x, u, b, taken)
  <1> DEFINE trigger == "shutdown"
             arrivals == {}
  <1>1. /\ Main \in Task /\ trigger \in {"size", "timeout", "shutdown"}
        /\ buffer \in Seq(Delivery) /\ Range(buffer) \subseteq Range(buffer) \cup arrivals
        /\ IsInjective(buffer) /\ arrivals \cap Range(buffer) = {} => IsInjective(buffer)
        /\ \A d \in arrivals : New(d)
    BY DEF Task, ShapeInv, TypeOK
  <1>2. /\ task' = [task EXCEPT ![Main] = StartBatch(buffer, trigger)]
        /\ buffer' = <<>> /\ timer' = FALSE
        /\ UNCHANGED <<epoch, setting, sent, refused>> /\ mode' = "draining" /\ where' = where
    BY DEF Stop, broker, exchanges
  <1>3. /\ where' \in [Msg -> {"ready", "unacked", "acked", "dead"}]
        /\ \A n \in Msg : where'[n] = "ready" => where[n] = "ready"
        /\ \A n \in Msg : where'[n] = "acked" => where[n] = "acked"
        /\ mode' \in {"up", "draining", "closed", "down"}
    BY <1>2 DEF ShapeInv, TypeOK
  <1> HIDE DEF trigger, arrivals
  <1>4. QED
    BY <1>1, <1>2, <1>3, HandOverFacts

\* Every step but a task's.
Other ==
  \/ \E m \in Msg : Receive(m)
  \/ \E t \in Timers : TimerFires(t)
  \/ Stop \/ CloseChannel \/ Exit \/ Crash \/ ConnectionLost \/ Restart

LEMMA OtherFacts ==
  ASSUME ShapeInv, Other
  PROVE  Quiet /\ (Loses \/ \E t \in Task : \E u, b, arrivals : Passes(t, u, b, arrivals))
  <1>1. ASSUME NEW m \in Msg, RejectText(m) \/ ForgetScalar(m) PROVE Quiet /\ \E t \in Task : \E u, b, arrivals : Passes(t, u, b, arrivals)
    <2>1. /\ \E fate \in {"dead", "unacked"} : where' = [where EXCEPT ![m] = fate]
          /\ UNCHANGED <<epoch, setting, mode, buffer, timer, task, sent, refused>>
          /\ where[m] = "ready"
      BY <1>1 DEF RejectText, ForgetScalar, exchanges, Deliverable
    <2>2. /\ where' \in [Msg -> {"ready", "unacked", "acked", "dead"}]
          /\ \A n \in Msg : where'[n] = "ready" => where[n] = "ready"
          /\ \A n \in Msg : where'[n] = "acked" => where[n] = "acked"
          /\ mode' \in {"up", "draining", "closed", "down"}
      BY <2>1 DEF ShapeInv, TypeOK
    <2>3. QED
      BY <2>1, <2>2, QueueOnly DEF Quiet
  <1>2. ASSUME NEW m \in Msg, Receive(m) PROVE Quiet /\ \E t \in Task : \E u, b, arrivals : Passes(t, u, b, arrivals)
    BY <1>1, <1>2, HandleMessageFacts, EnqueueAndWaitFacts, EnqueueAndProcessFacts DEF Receive
  <1>3. CASE Restart
    <2>1. /\ UNCHANGED <<where, epoch, setting, buffer, timer, task, sent, refused>>
          /\ mode' = "up"
      BY <1>3 DEF Restart, broker, exchanges
    <2>2. /\ where' \in [Msg -> {"ready", "unacked", "acked", "dead"}]
          /\ \A n \in Msg : where'[n] = "ready" => where[n] = "ready"
          /\ \A n \in Msg : where'[n] = "acked" => where[n] = "acked"
          /\ mode' \in {"up", "draining", "closed", "down"}
      BY <2>1 DEF ShapeInv, TypeOK
    <2>3. QED
      BY <2>1, <2>2, QueueOnly DEF Quiet
  <1>4. ASSUME Exit \/ Crash \/ CloseChannel \/ ConnectionLost PROVE Quiet /\ Loses
    <2>1. UNCHANGED <<setting, sent, refused>> /\ LoseChannel
      BY <1>4 DEF Exit, Crash, CloseChannel, ConnectionLost, Die, exchanges
    <2>2. Loses
      BY <1>4 DEF Exit, Crash, CloseChannel, ConnectionLost, Loses, ShapeInv, TypeOK
    <2>3. \A m \in Msg : where'[m] = "acked" => where[m] = "acked"
      BY <2>1 DEF LoseChannel
    <2>4. \A t \in Task : task'[t] = task[t] \/ (task'[t].pc # "ack" /\ task'[t].how # "zip")
      BY <2>2 DEF Loses, Die, Idle
    <2>5. QED
      BY <2>1, <2>2, <2>3, <2>4 DEF Quiet
  <1>5. QED
    BY <1>2, <1>3, <1>4, TimerFiresFacts, StopFacts DEF Other

-----------------------------------------------------------------------------
(* Type correctness: ShapeInv is inductive.                                *)

\* what a step does to the deliveries
Deals == Loses \/ \E t \in Task : \E u, b, arrivals : Passes(t, u, b, arrivals)

LEMMA StepDeals ==
  ASSUME ShapeInv, Next
  PROVE  /\ Deals
         /\ Quiet \/ \E t \in Task : TaskStep(t) /\ Accounts(t)
  <1>1. CASE Other
    BY <1>1, OtherFacts DEF Deals
  <1>2. ASSUME NEW t \in Task, TaskStep(t)
        PROVE  Deals /\ Accounts(t)
    <2>1. (Moves(t) \/ Die) /\ Accounts(t)
      BY <1>2, TaskStepFacts
    <2>2. Deals
      BY <2>1, MovesPass DEF Deals, Loses
    <2>3. QED
      BY <2>1, <2>2
  <1>3. Other \/ \E t \in Task : TaskStep(t)
    BY DEF Next, Other
  <1>4. QED
    BY <1>1, <1>2, <1>3

LEMMA DealsKeepShape ==
  ASSUME ShapeInv, Deals
  PROVE  /\ where' \in [Msg -> {"ready", "unacked", "acked", "dead"}]
         /\ epoch' \in Nat
         /\ mode' \in {"up", "draining", "closed", "down"}
         /\ buffer' \in Seq(Delivery)
         /\ timer' \in BOOLEAN
         /\ task' \in [Task -> TaskState]
         /\ \A t \in Task : Shaped(task'[t])
  <1>0. <<>> \in Seq(Delivery) /\ Idle \in TaskState /\ Shaped(Idle)
    BY IdleShaped
  <1>1. CASE Loses
    <2>1. LoseChannel
      BY <1>1 DEF Loses, Die
    <2>2. where' \in [Msg -> {"ready", "unacked", "acked", "dead"}] /\ epoch' \in Nat
      BY <2>1 DEF LoseChannel, ShapeInv, TypeOK
    <2>3. CASE Die
      BY <1>0, <2>2, <2>3 DEF Die
    <2>4. CASE UNCHANGED <<buffer, task, timer>>
               /\ mode' \in {"up", "draining", "closed", "down"}
      BY <2>2, <2>4 DEF ShapeInv, TypeOK
    <2>5. QED
      BY <1>1, <2>3, <2>4 DEF Loses
  <1>2. ASSUME NEW t \in Task, NEW u, NEW b, NEW arrivals, Passes(t, u, b, arrivals)
        PROVE  /\ where' \in [Msg -> {"ready", "unacked", "acked", "dead"}]
               /\ epoch' \in Nat
               /\ mode' \in {"up", "draining", "closed", "down"}
               /\ buffer' \in Seq(Delivery)
               /\ timer' \in BOOLEAN
               /\ task' \in [Task -> TaskState]
               /\ \A x \in Task : Shaped(task'[x])
    <2>1. /\ task' = [task EXCEPT ![t] = u] /\ Shaped(u) /\ u \in TaskState
          /\ buffer' = b /\ b \in Seq(Delivery) /\ epoch' = epoch
          /\ where' \in [Msg -> {"ready", "unacked", "acked", "dead"}]
          /\ mode' \in {"up", "draining", "closed", "down"}
          /\ timer' \in BOOLEAN
      BY <1>2 DEF Passes, Shaped
    <2>2. QED
      BY <2>1 DEF ShapeInv, TypeOK
  <1>3. QED
    BY <1>1, <1>2 DEF Deals

\* the records of what was published
LEMMA AccountsKeepTypes ==
  ASSUME ShapeInv, NEW t \in Task, Accounts(t)
  PROVE  sent' \in [Msg -> Seq(Msg)] /\ refused' \in [Msg -> BOOLEAN] /\ setting' = setting
  <1>1. sent' \in [Msg -> Seq(Msg)]
    BY StationSentFacts DEF Accounts, ShapeInv, TypeOK
  <1>2. QED
    BY <1>1 DEF Accounts

LEMMA ShapeInit == Init => ShapeInv
  <1>1. SUFFICES ASSUME Init PROVE ShapeInv
    OBVIOUS
  <1>2. Idle \in TaskState /\ Shaped(Idle) /\ <<>> \in Seq(Delivery) /\ <<>> \in Seq(Msg)
    BY IdleShaped
  <1>3. QED
    BY <1>1, <1>2 DEF Init, ShapeInv, TypeOK

LEMMA ShapeStep == ShapeInv /\ [Next]_vars => ShapeInv'
  <1>1. SUFFICES ASSUME ShapeInv, [Next]_vars PROVE ShapeInv'
    OBVIOUS
  <1>2. CASE Next
    <2>1. Deals
      BY <1>1, <1>2, StepDeals
    <2>2. sent' \in [Msg -> Seq(Msg)] /\ refused' \in [Msg -> BOOLEAN] /\ setting' = setting
      <3>1. CASE Quiet
        BY <1>1, <3>1 DEF Quiet, ShapeInv, TypeOK
      <3>2. QED
        BY <1>1, <1>2, <3>1, StepDeals, AccountsKeepTypes
    <2>3. QED
      BY <1>1, <2>1, <2>2, DealsKeepShape DEF ShapeInv, TypeOK
  <1>3. CASE UNCHANGED vars
    BY <1>1, <1>3 DEF vars, broker, exchanges, ShapeInv, TypeOK, Shaped
  <1>4. QED
    BY <1>1, <1>2, <1>3

LEMMA ShapeAlways == Spec => []ShapeInv
  BY ShapeInit, ShapeStep, PTL DEF Spec

\* Whatever loop a task is in, with whatever answer of the LLM and whatever is
\* left of its batch, its state is one the code can be in (worker.py 400-597).
THEOREM TypeCorrect == Spec => []TypeOK
  <1>1. ShapeInv => TypeOK
    BY DEF ShapeInv
  <1>2. QED
    BY <1>1, ShapeAlways, PTL

-----------------------------------------------------------------------------
(* Ownership.  A delivery that is held was delivered on this channel or on *)
(* an earlier one; on this one, it is not in the queue any more: this is   *)
(* why a delivery that leaves the queue is nobody's yet.                   *)

HeldIsDelivered ==
  \A d \in Held : d.epoch <= epoch /\ (d.epoch = epoch => where[d.msg] # "ready")

OwnerInv == ShapeInv /\ ExclusiveOwner /\ HeldIsDelivered

\* ExclusiveOwner and Held in terms of HeldBy
LEMMA OwnersApart ==
  /\ ExclusiveOwner <=>
       /\ \A t \in Task : Apart(task[t], buffer)
       /\ IsInjective(buffer)
       /\ \A t, u \in Task : t # u => Range(HeldBy(task[t])) \cap Range(HeldBy(task[u])) = {}
  /\ \A d : d \in Held <=> d \in Range(buffer) \/ \E t \in Task : d \in Range(HeldBy(task[t]))
  BY DEF ExclusiveOwner, Held, Apart, HeldBy

LEMMA OwnersApartNext ==
  /\ ExclusiveOwner' <=>
       /\ \A t \in Task : Apart(task'[t], buffer')
       /\ IsInjective(buffer')
       /\ \A t, u \in Task : t # u => Range(HeldBy(task'[t])) \cap Range(HeldBy(task'[u])) = {}
  /\ \A d : d \in Held' <=> d \in Range(buffer') \/ \E t \in Task : d \in Range(HeldBy(task'[t]))
  BY DEF ExclusiveOwner, Held, Apart, HeldBy

LEMMA PassesKeepOwners ==
  ASSUME OwnerInv, NEW t \in Task, NEW u, NEW b, NEW arrivals, Passes(t, u, b, arrivals)
  PROVE  ExclusiveOwner' /\ HeldIsDelivered'
  <1> DEFINE H(x) == Range(HeldBy(task[x]))
             B == Range(buffer)
  <1>1. /\ \A x \in Task : Apart(task[x], buffer)
        /\ IsInjective(buffer)
        /\ \A x, y \in Task : x # y => H(x) \cap H(y) = {}
        /\ \A d : d \in Held <=> d \in B \/ \E x \in Task : d \in H(x)
    BY OwnersApart DEF OwnerInv
  <1>2. \A d \in arrivals : d \notin Held
    BY DEF OwnerInv, HeldIsDelivered, Passes, New
  <1>3. /\ task' = [task EXCEPT ![t] = u] /\ buffer' = b
        /\ task'[t] = u /\ \A x \in Task : x # t => task'[x] = task[x]
    BY DEF Passes, OwnerInv, ShapeInv, TypeOK
  <1>4. Apart(u, b)
    BY <1>1, <1>2 DEF Passes
  <1>5. Range(HeldBy(u)) \cup Range(b) \subseteq H(t) \cup B \cup arrivals
    BY DEF Passes
  <1>6. \A x \in Task : x # t => H(x) \cap (H(t) \cup B \cup arrivals) = {} /\ IsInjective(HeldBy(task[x]))
    BY <1>1, <1>2 DEF Apart
  <1>7. \A x \in Task : Apart(task'[x], buffer')
    BY <1>3, <1>4, <1>5, <1>6 DEF Apart
  <1>8. \A x, y \in Task : x # y => Range(HeldBy(task'[x])) \cap Range(HeldBy(task'[y])) = {}
    <2>1. ASSUME NEW x \in Task, NEW y \in Task, x # y
          PROVE  Range(HeldBy(task'[x])) \cap Range(HeldBy(task'[y])) = {}
      <3>1. CASE x = t
        BY <1>3, <1>5, <1>6, <2>1, <3>1
      <3>2. CASE y = t
        BY <1>3, <1>5, <1>6, <2>1, <3>2
      <3>3. CASE x # t /\ y # t
        BY <1>1, <1>3, <2>1, <3>3
      <3>4. QED
        BY <3>1, <3>2, <3>3
    <2>2. QED
      BY <2>1
  <1>9. ExclusiveOwner'
    BY <1>4, <1>3, <1>7, <1>8, OwnersApartNext DEF Apart
  <1>10. \A d \in Held' : d \in Held \/ d \in arrivals
    <2>1. ASSUME NEW d \in Held' PROVE d \in Held \/ d \in arrivals
      <3>1. CASE d \in Range(buffer')
        BY <1>1, <1>3, <1>5, <3>1
      <3>2. ASSUME NEW x \in Task, d \in Range(HeldBy(task'[x])) PROVE d \in Held \/ d \in arrivals
        <4>1. CASE x = t
          BY <1>1, <1>3, <1>5, <3>2, <4>1
        <4>2. CASE x # t
          BY <1>1, <1>3, <3>2, <4>2
        <4>3. QED
          BY <4>1, <4>2
      <3>3. QED
        BY <2>1, <3>1, <3>2, OwnersApartNext
    <2>2. QED
      BY <2>1
  <1>11. \A d \in Held : d \in Delivery
    <2>1. B \subseteq Delivery
      BY RangeType DEF OwnerInv, ShapeInv, TypeOK
    <2>2. \A x \in Task : H(x) \subseteq Delivery
      BY OpenFacts DEF OwnerInv, ShapeInv
    <2>3. QED
      BY <1>1, <2>1, <2>2
  <1>12. HeldIsDelivered'
    <2>1. ASSUME NEW d \in Held'
          PROVE  d.epoch <= epoch' /\ (d.epoch = epoch' => where'[d.msg] # "ready")
      <3>1. epoch' = epoch /\ epoch \in Nat /\ \A m \in Msg : where'[m] = "ready" => where[m] = "ready"
        BY DEF Passes, OwnerInv, ShapeInv, TypeOK
      <3>2. CASE d \in Held
        <4>1. d.msg \in Msg /\ d.epoch <= epoch /\ (d.epoch = epoch => where[d.msg] # "ready")
          BY <1>11, <3>2 DEF OwnerInv, HeldIsDelivered, Delivery
        <4>2. QED
          BY <3>1, <4>1
      <3>3. CASE d \in arrivals
        BY <3>1, <3>3 DEF Passes, New
      <3>4. QED
        BY <1>10, <2>1, <3>2, <3>3
    <2>2. QED
      BY <2>1 DEF HeldIsDelivered
  <1>13. QED
    BY <1>9, <1>12

LEMMA LosesKeepOwners ==
  ASSUME OwnerInv, Loses
  PROVE  ExclusiveOwner' /\ HeldIsDelivered'
  <1>1. epoch' = epoch + 1 /\ epoch \in Nat
    BY DEF Loses, Die, LoseChannel, OwnerInv, ShapeInv, TypeOK
  <1>2. CASE Die
    <2>1. buffer' = <<>> /\ \A t \in Task : task'[t] = Idle
      BY <1>2 DEF Die
    <2>2. Range(<<>>) = {} /\ IsInjective(<<>>) /\ HeldBy(Idle) = <<>>
      BY EmptyFacts, IdleShaped
    <2>3. ExclusiveOwner' /\ \A d : d \notin Held'
      BY <2>1, <2>2, OwnersApartNext DEF Apart
    <2>4. QED
      BY <2>3 DEF HeldIsDelivered
  <1>3. CASE UNCHANGED <<buffer, task>>
    <2>1. ExclusiveOwner' /\ Held' = Held
      BY <1>3 DEF OwnerInv, ExclusiveOwner, Held
    <2>2. \A d \in Held : d.epoch \in Nat
      <3>1. Range(buffer) \subseteq Delivery /\ \A x \in Task : Range(HeldBy(task[x])) \subseteq Delivery
        BY RangeType, OpenFacts DEF OwnerInv, ShapeInv, TypeOK
      <3>2. QED
        BY <3>1, OwnersApart DEF Delivery
    <2>3. HeldIsDelivered'
      BY <1>1, <2>1, <2>2 DEF OwnerInv, HeldIsDelivered
    <2>4. QED
      BY <2>1, <2>3
  <1>4. QED
    BY <1>2, <1>3 DEF Loses

LEMMA OwnerInit == Init => OwnerInv
  <1>1. SUFFICES ASSUME Init PROVE OwnerInv
    OBVIOUS
  <1>2. buffer = <<>> /\ \A t \in Task : task[t] = Idle
    BY <1>1 DEF Init
  <1>3. Range(<<>>) = {} /\ IsInjective(<<>>) /\ HeldBy(Idle) = <<>>
    BY EmptyFacts, IdleShaped
  <1>4. ExclusiveOwner /\ \A d : d \notin Held
    BY <1>2, <1>3, OwnersApart DEF Apart
  <1>5. QED
    BY <1>1, <1>4, ShapeInit DEF OwnerInv, HeldIsDelivered

LEMMA OwnerStep == OwnerInv /\ [Next]_vars => OwnerInv'
  <1>1. SUFFICES ASSUME OwnerInv, [Next]_vars PROVE OwnerInv'
    OBVIOUS
  <1>2. ShapeInv'
    BY <1>1, ShapeStep DEF OwnerInv
  <1>3. CASE Next
    BY <1>1, <1>2, <1>3, StepDeals, PassesKeepOwners, LosesKeepOwners DEF Deals, OwnerInv
  <1>4. CASE UNCHANGED vars
    BY <1>1, <1>2, <1>4 DEF vars, broker, OwnerInv, ExclusiveOwner, HeldIsDelivered, Held
  <1>5. QED
    BY <1>1, <1>3, <1>4

LEMMA OwnerAlways == Spec => []OwnerInv
  BY OwnerInit, OwnerStep, PTL DEF Spec

\* However many timers flush beside the handler that fills a batch, and whatever
\* connection is lost in between, no two of them hold the same delivery: the
\* buffer is emptied under its lock before the batch is processed.
THEOREM OneOwner == Spec => []ExclusiveOwner
  <1>1. OwnerInv => ExclusiveOwner
    BY DEF OwnerInv
  <1>2. QED
    BY <1>1, OwnerAlways, PTL

-----------------------------------------------------------------------------
(* Publications.  Each is paid for by a delivery: of a message, those still *)
(* to be published and the copies published are no more than the channels  *)
(* there have been.                                                        *)

\* the channels on which m may yet be published: it is held, or in the queue
Due(m) ==
  {e \in 0..epoch : [msg |-> m, epoch |-> e] \in Unsent \/ (e = epoch /\ where[m] = "ready")}

Budget == \A m \in Msg : Len(sent[m]) + Cardinality(Due(m)) <= epoch + 1

BudgetInv == OwnerInv /\ Budget

LEMMA FiniteUpTo ==
  ASSUME NEW n \in Nat, NEW S \in SUBSET (0..n)
  PROVE  IsFiniteSet(S) /\ Cardinality(S) \in Nat
  <1>1. IsFiniteSet(0..n)
    BY FS_Interval
  <1>2. QED
    BY <1>1, FS_Subset, FS_CardinalityType

LEMMA OneMore ==
  ASSUME NEW S, IsFiniteSet(S), NEW x
  PROVE  /\ IsFiniteSet(S \cup {x})
         /\ Cardinality(S \cup {x}) \in Nat
         /\ Cardinality(S \cup {x}) <= Cardinality(S) + 1
  <1>1. Cardinality(S) \in Nat
    BY FS_CardinalityType
  <1>2. /\ IsFiniteSet(S \cup {x})
        /\ Cardinality(S \cup {x}) = IF x \in S THEN Cardinality(S) ELSE Cardinality(S) + 1
    BY FS_AddElement
  <1>3. QED
    BY <1>1, <1>2

LEMMA OneLess ==
  ASSUME NEW S, IsFiniteSet(S), NEW x \in S, NEW T, T \subseteq S, x \notin T
  PROVE  Cardinality(T) + 1 <= Cardinality(S)
  <1>1. /\ IsFiniteSet(S \ {x}) /\ Cardinality(S \ {x}) = Cardinality(S) - 1
        /\ Cardinality(S) \in Nat
    BY FS_RemoveElement, FS_CardinalityType
  <1>2. T \subseteq S \ {x}
    OBVIOUS
  <1>3. Cardinality(T) <= Cardinality(S \ {x}) /\ Cardinality(T) \in Nat
    BY <1>1, <1>2, FS_Subset, FS_CardinalityType
  <1>4. QED
    BY <1>1, <1>3

LEMMA DueIsFinite ==
  ASSUME OwnerInv, NEW m \in Msg
  PROVE  IsFiniteSet(Due(m)) /\ Cardinality(Due(m)) \in Nat /\ epoch \in Nat
  <1>1. epoch \in Nat
    BY DEF OwnerInv, ShapeInv, TypeOK
  <1>2. Due(m) \subseteq 0..epoch
    BY DEF Due
  <1>3. QED
    BY <1>1, <1>2, FiniteUpTo

LEMMA DueShrinks ==
  ASSUME OwnerInv, NEW t \in Task, NEW u, NEW b, NEW arrivals, Passes(t, u, b, arrivals), NEW m \in Msg
  PROVE  Due(m)' \subseteq Due(m)
  <1>1. /\ epoch' = epoch /\ (where'[m] = "ready" => where[m] = "ready")
        /\ task'[t] = u /\ \A x \in Task : x # t => task'[x] = task[x]
        /\ buffer' = b
        /\ Open(u) \cup Range(b) \subseteq Open(task[t]) \cup Range(buffer) \cup arrivals
    BY DEF Passes, OwnerInv, ShapeInv, TypeOK
  <1>2. \A d \in arrivals : d.epoch = epoch /\ where[d.msg] = "ready"
    BY DEF Passes, New
  <1>3. Unsent' \subseteq Unsent \cup arrivals
    BY <1>1 DEF Unsent
  <1>4. ASSUME NEW e \in Due(m)' PROVE e \in Due(m)
    <2>1. /\ e \in 0..epoch
          /\ [msg |-> m, epoch |-> e] \in Unsent' \/ (e = epoch /\ where'[m] = "ready")
      BY <1>1, <1>4 DEF Due
    <2>2. [msg |-> m, epoch |-> e] \in arrivals => e = epoch /\ where[m] = "ready"
      BY <1>2
    <2>3. QED
      BY <1>1, <1>3, <2>1, <2>2 DEF Due
  <1>5. QED
    BY <1>4

LEMMA DueOnLoss ==
  ASSUME OwnerInv, Loses, NEW m \in Msg
  PROVE  /\ Due(m)' \subseteq Due(m) \cup {epoch + 1}
         /\ Die => Due(m)' \subseteq {epoch + 1}
         /\ epoch' = epoch + 1
  <1>1. epoch' = epoch + 1 /\ epoch \in Nat
    BY DEF Loses, Die, LoseChannel, OwnerInv, ShapeInv, TypeOK
  <1>2. Die => Unsent' = {}
    <2>1. Range(<<>>) = {} /\ Open(Idle) = {}
      BY EmptyFacts, IdleShaped, IdleFollows
    <2>2. QED
      BY <2>1 DEF Die, Unsent
  <1>3. Unsent' \subseteq Unsent
    BY <1>2 DEF Loses, Unsent
  <1>4. ASSUME NEW d \in Unsent PROVE d.epoch <= epoch /\ d.epoch \in Nat
    <2>1. d \in Held /\ d \in Delivery
      <3>1. Range(buffer) \subseteq Delivery /\ Range(buffer) \subseteq Held
        BY RangeType, OwnersApart DEF OwnerInv, ShapeInv, TypeOK
      <3>2. \A x \in Task : /\ Open(task[x]) \subseteq Range(HeldBy(task[x]))
                             /\ Range(HeldBy(task[x])) \subseteq Delivery
        BY OpenFacts DEF OwnerInv, ShapeInv
      <3>3. QED
        BY <1>4, <3>1, <3>2, OwnersApart DEF Unsent
    <2>2. QED
      BY <2>1 DEF OwnerInv, HeldIsDelivered, Delivery
  <1>5. ASSUME NEW e \in Due(m)'
        PROVE  (e \in Due(m) \/ e = epoch + 1) /\ (Die => e = epoch + 1)
    <2>1. /\ e \in 0..(epoch + 1)
          /\ [msg |-> m, epoch |-> e] \in Unsent' \/ e = epoch + 1
      BY <1>1, <1>5 DEF Due
    <2>2. [msg |-> m, epoch |-> e] \in Unsent => e \in Due(m)
      BY <1>1, <1>4, <2>1 DEF Due
    <2>3. QED
      BY <1>2, <1>3, <2>1, <2>2
  <1>6. QED
    BY <1>1, <1>5

\* the task that publishes holds a delivery that is due
LEMMA CurrentIsDue ==
  ASSUME OwnerInv, NEW t \in Task, task[t].pc = "station"
  PROVE  Current(t).msg \in Msg /\ Current(t).epoch \in Due(Current(t).msg)
  <1> DEFINE d == Current(t)
  <1>1. Shaped(task[t]) /\ d = task[t].group[1]
    BY DEF OwnerInv, ShapeInv, Current
  <1>2. d \in Delivery /\ d \in Range(HeldBy(task[t]))
    BY <1>1, OpenFacts
  <1>3. d \in Open(task[t])
    BY <1>2 DEF Open
  <1> HIDE DEF d
  <1>4. d.epoch <= epoch /\ d.epoch \in 0..epoch
    <2>1. d \in Held /\ d.epoch \in Nat /\ epoch \in Nat
      BY <1>2, OwnersApart DEF Delivery, OwnerInv, ShapeInv, TypeOK
    <2>2. d.epoch <= epoch
      BY <2>1 DEF OwnerInv, HeldIsDelivered
    <2>3. QED
      BY <2>1, <2>2
  <1>5. [msg |-> d.msg, epoch |-> d.epoch] \in Unsent
    BY <1>2, <1>3 DEF Unsent, Delivery
  <1>6. QED
    BY <1>2, <1>4, <1>5 DEF Due, Delivery, d

\* once published, it is not due any more
LEMMA PublishedIsNotDue ==
  ASSUME OwnerInv, NEW t \in Task, Moves(t), Accounts(t), task[t].pc = "station",
         sent' # sent, NEW d, d = Current(t), NEW m, m = d.msg, NEW e, e = d.epoch
  PROVE  e \notin Due(m)'
  <1>1. Shaped(task[t]) /\ d = task[t].group[1]
    BY DEF OwnerInv, ShapeInv, Current
  <1>2. d \in Delivery /\ d \in Range(HeldBy(task[t])) /\ m \in Msg /\ d = [msg |-> m, epoch |-> e]
    BY <1>1, OpenFacts DEF Delivery
  <1>3. /\ \A x \in Task : Apart(task[x], buffer)
        /\ \A x \in Task : x # t => Range(HeldBy(task[x])) \cap Range(HeldBy(task[t])) = {}
    BY OwnersApart DEF OwnerInv
  <1>4. d \notin Range(buffer) /\ \A x \in Task : x # t => d \notin Open(task[x])
    BY <1>2, <1>3, OpenFacts DEF Apart, OwnerInv, ShapeInv
  <1>5. /\ buffer' = buffer /\ epoch' = epoch
        /\ \A x \in Task : x # t => task'[x] = task[x]
        /\ where'[m] = "ready" => where[m] = "ready"
    BY <1>2 DEF Moves, SameQueue, OwnerInv, ShapeInv, TypeOK
  <1>6. e = epoch => where'[m] # "ready"
    BY <1>2, <1>5, OwnersApart DEF OwnerInv, HeldIsDelivered
  <1>7. d \notin Open(task'[t])
    BY <1>3 DEF Accounts, Apart
  <1>8. d \notin Unsent'
    BY <1>4, <1>5, <1>7 DEF Unsent
  <1>9. QED
    BY <1>2, <1>5, <1>6, <1>8 DEF Due

LEMMA BudgetInit == Init => BudgetInv
  <1>1. SUFFICES ASSUME Init PROVE BudgetInv
    OBVIOUS
  <1>2. OwnerInv
    BY <1>1, OwnerInit
  <1>3. ASSUME NEW m \in Msg PROVE Len(sent[m]) + Cardinality(Due(m)) <= epoch + 1
    <2>1. sent[m] = <<>> /\ epoch = 0 /\ Due(m) \subseteq 0..0
      BY <1>1 DEF Init, Due
    <2>2. IsFiniteSet(0..0) /\ Cardinality(0..0) = 1
      <3>1. 0..0 = {0}
        OBVIOUS
      <3>2. QED
        BY <3>1, FS_Singleton
    <2>3. Cardinality(Due(m)) <= 1
      BY <2>1, <2>2, FS_Subset
    <2>4. Len(sent[m]) = 0
      BY <2>1
    <2>5. Cardinality(Due(m)) \in Nat
      BY <1>2, DueIsFinite
    <2>6. QED
      BY <2>1, <2>3, <2>4, <2>5
  <1>4. QED
    BY <1>2, <1>3 DEF BudgetInv, Budget

\* nothing published
LEMMA BudgetKept ==
  ASSUME BudgetInv, Deals, OwnerInv', NEW m \in Msg, sent'[m] = sent[m]
  PROVE  Len(sent'[m]) + Cardinality(Due(m)') <= epoch' + 1
  <1>1. /\ IsFiniteSet(Due(m)) /\ Cardinality(Due(m)) \in Nat /\ epoch \in Nat
        /\ Len(sent[m]) \in Nat
        /\ Len(sent[m]) + Cardinality(Due(m)) <= epoch + 1
    BY DueIsFinite DEF BudgetInv, Budget, OwnerInv, ShapeInv, TypeOK
  <1>2. IsFiniteSet(Due(m)') /\ Cardinality(Due(m)') \in Nat
    <2>1. epoch' \in Nat
      BY DEF OwnerInv, ShapeInv, TypeOK
    <2>2. Due(m)' \subseteq 0..epoch'
      BY DEF Due
    <2>3. QED
      BY <2>1, <2>2, FiniteUpTo
  <1>3. CASE \E t \in Task : \E u, b, arrivals : Passes(t, u, b, arrivals)
    <2>1. Due(m)' \subseteq Due(m) /\ epoch' = epoch
      BY <1>3, DueShrinks DEF BudgetInv, Passes
    <2>2. Cardinality(Due(m)') <= Cardinality(Due(m))
      BY <1>1, <2>1, FS_Subset
    <2>3. QED
      BY <1>1, <1>2, <2>1, <2>2
  <1>4. CASE Loses
    <2>1. Due(m)' \subseteq Due(m) \cup {epoch + 1} /\ epoch' = epoch + 1
      BY <1>4, DueOnLoss DEF BudgetInv
    <2>2. /\ IsFiniteSet(Due(m) \cup {epoch + 1})
          /\ Cardinality(Due(m) \cup {epoch + 1}) \in Nat
          /\ Cardinality(Due(m) \cup {epoch + 1}) <= Cardinality(Due(m)) + 1
      BY <1>1, OneMore
    <2>3. Cardinality(Due(m)') <= Cardinality(Due(m) \cup {epoch + 1})
      BY <2>1, <2>2, FS_Subset
    <2>4. QED
      BY <1>1, <1>2, <2>1, <2>2, <2>3
  <1>5. QED
    BY <1>3, <1>4 DEF Deals

\* published: a delivery less that is due, or the process dies
LEMMA BudgetSpent ==
  ASSUME BudgetInv, OwnerInv', NEW t \in Task, TaskStep(t), sent' # sent,
         NEW m, m = Current(t).msg
  PROVE  /\ task[t].pc = "station" /\ m \in Msg
         /\ \E x \in Msg : sent' = [sent EXCEPT ![m] = Append(sent[m], x)]
         /\ Len(sent'[m]) + Cardinality(Due(m)') <= epoch' + 1
  <1>1. (Moves(t) \/ Die) /\ Accounts(t)
    BY TaskStepFacts DEF BudgetInv, OwnerInv
  <1>2. task[t].pc = "station" /\ sent' = StationSent(t)
    BY <1>1 DEF Accounts
  <1>3. \E x \in Msg : sent' = [sent EXCEPT ![m] = Append(sent[m], x)]
    BY <1>2, StationSentFacts DEF BudgetInv, OwnerInv
  <1> DEFINE e == Current(t).epoch
             n == Cardinality(Due(m))
  <1>4. m \in Msg /\ e \in Due(m)
    BY <1>2, CurrentIsDue DEF BudgetInv
  <1>5. Len(sent'[m]) = Len(sent[m]) + 1 /\ Len(sent[m]) \in Nat
    BY <1>3, <1>4 DEF BudgetInv, OwnerInv, ShapeInv, TypeOK
  <1>6. /\ IsFiniteSet(Due(m)) /\ n \in Nat /\ epoch \in Nat
        /\ Len(sent[m]) + n <= epoch + 1
    BY <1>4, DueIsFinite DEF BudgetInv, Budget
  <1> DEFINE len == Len(sent'[m])
             due == Cardinality(Due(m)')
  <1> HIDE DEF n
  <1>7. ASSUME Moves(t) PROVE len + due <= epoch' + 1
    <2>1. PICK u : Passes(t, u, buffer, {})
      BY <1>7, MovesPass DEF BudgetInv, OwnerInv
    <2>2. Due(m)' \subseteq Due(m) /\ epoch' = epoch
      BY <1>4, <2>1, DueShrinks DEF BudgetInv, Passes
    <2>3. e \notin Due(m)'
      <3> DEFINE d == Current(t)
      <3>1. d = Current(t) /\ m = d.msg /\ e = d.epoch
        OBVIOUS
      <3> HIDE DEF d, e
      <3>2. QED
        BY <1>1, <1>2, <1>7, <3>1, PublishedIsNotDue DEF BudgetInv
    <2>4. Cardinality(Due(m)') + 1 <= n
      BY <1>4, <1>6, <2>2, <2>3, OneLess DEF n
    <2>5. Cardinality(Due(m)') \in Nat
      BY <1>6, <2>2, FS_Subset, FS_CardinalityType
    <2>6. len = Len(sent[m]) + 1
      BY <1>5
    <2> HIDE DEF len, due
    <2>7. due + 1 <= n /\ due \in Nat
      BY <2>4, <2>5 DEF due
    <2>8. QED
      BY <1>5, <1>6, <2>2, <2>6, <2>7
  <1>8. ASSUME Die PROVE len + due <= epoch' + 1
    <2>1. Due(m)' \subseteq {epoch + 1} /\ epoch' = epoch + 1
      BY <1>4, <1>8, DueOnLoss DEF BudgetInv, Loses
    <2>2. Cardinality(Due(m)') <= 1 /\ Cardinality(Due(m)') \in Nat
      <3>1. IsFiniteSet({epoch + 1}) /\ Cardinality({epoch + 1}) = 1
        BY FS_Singleton
      <3>2. QED
        BY <2>1, <3>1, FS_Subset, FS_CardinalityType
    <2>3. n >= 1
      <3>1. n # 0
        BY <1>4, <1>6, FS_EmptySet DEF n
      <3>2. QED
        BY <1>6, <3>1
    <2>4. len = Len(sent[m]) + 1
      BY <1>5
    <2> HIDE DEF len, due
    <2>5. due <= 1 /\ due \in Nat
      BY <2>2 DEF due
    <2>6. QED
      BY <1>5, <1>6, <2>1, <2>3, <2>4, <2>5
  <1>9. QED
    BY <1>1, <1>2, <1>3, <1>4, <1>7, <1>8

LEMMA BudgetStep == BudgetInv /\ [Next]_vars => BudgetInv'
  <1>1. SUFFICES ASSUME BudgetInv, [Next]_vars PROVE BudgetInv'
    OBVIOUS
  <1>2. OwnerInv'
    BY <1>1, OwnerStep DEF BudgetInv
  <1>3. CASE Next
    <2>1. Deals /\ (Quiet \/ \E t \in Task : TaskStep(t))
      BY <1>1, <1>3, StepDeals DEF BudgetInv, OwnerInv
    <2>2. ASSUME NEW m \in Msg
          PROVE  Len(sent'[m]) + Cardinality(Due(m)') <= epoch' + 1
      <3>1. CASE sent'[m] = sent[m]
        BY <1>1, <1>2, <2>1, <3>1, BudgetKept
      <3>2. CASE sent'[m] # sent[m]
        <4>1. sent' # sent
          BY <3>2
        <4>2. PICK t \in Task : TaskStep(t)
          BY <2>1, <4>1 DEF Quiet
        <4>3. PICK c : c = Current(t).msg
          OBVIOUS
        <4>4. /\ c \in Msg
              /\ \E x \in Msg : sent' = [sent EXCEPT ![c] = Append(sent[c], x)]
              /\ Len(sent'[c]) + Cardinality(Due(c)') <= epoch' + 1
          BY <1>1, <1>2, <4>1, <4>2, <4>3, BudgetSpent
        <4>5. c = m
          BY <3>2, <4>4 DEF BudgetInv, OwnerInv, ShapeInv, TypeOK
        <4>6. QED
          BY <4>4, <4>5
      <3>3. QED
        BY <3>1, <3>2
    <2>3. QED
      BY <1>2, <2>2 DEF BudgetInv, Budget
  <1>4. CASE UNCHANGED vars
    <2>1. UNCHANGED <<where, epoch, sent, buffer, task>>
      BY <1>4 DEF vars, broker, exchanges
    <2>2. \A m \in Msg : Due(m)' = Due(m)
      BY <2>1 DEF Due, Unsent
    <2>3. QED
      BY <1>1, <1>2, <2>1, <2>2 DEF BudgetInv, Budget
  <1>5. QED
    BY <1>1, <1>3, <1>4

LEMMA BudgetAlways == Spec => []BudgetInv
  BY BudgetInit, BudgetStep, PTL DEF Spec

\* The size flush, the timer, the per-message fallback, a failed publish and a
\* shutdown publish a message at most once for each channel it came on.
THEOREM OneCopyPerDelivery == Spec => []OncePerDelivery
  <1>1. BudgetInv => OncePerDelivery
    <2>1. ASSUME BudgetInv, NEW m \in Msg PROVE Len(sent[m]) <= epoch + 1
      <3>1. Cardinality(Due(m)) \in Nat /\ epoch \in Nat
        BY <2>1, DueIsFinite DEF BudgetInv
      <3>2. Len(sent[m]) \in Nat /\ Len(sent[m]) + Cardinality(Due(m)) <= epoch + 1
        BY <2>1 DEF BudgetInv, Budget, OwnerInv, ShapeInv, TypeOK
      <3>3. QED
        BY <3>1, <3>2
    <2>2. QED
      BY <2>1 DEF OncePerDelivery
  <1>2. QED
    BY <1>1, BudgetAlways, PTL

-----------------------------------------------------------------------------
(* Traces.  A message about to be acknowledged has been published, as a     *)
(* station or as a rejection, unless the channel is closed, and then it    *)
(* cannot be acknowledged.                                                 *)

Traced(m) == sent[m] # <<>> \/ refused[m]

AckKnown ==
  \A t \in Task : task[t].pc = "ack" => Traced(task[t].group[1].msg) \/ mode = "closed"

TraceInv == ShapeInv /\ AckedIsTraced /\ AckKnown

\* a closed channel is not reopened in this process
LEMMA ClosedStays ==
  ASSUME ShapeInv, Next, mode = "closed"
  PROVE  mode' = "closed" \/ \A t \in Task : task'[t] = Idle
  <1>1. CASE Other
    BY <1>1 DEF Other, Receive, RejectText, ForgetScalar, HandleMessage, EnqueueAndWait,
       EnqueueAndProcess, Deliverable, TimerFires, Stop, CloseChannel, Exit, Crash,
       ConnectionLost, ChannelOpen, Restart, Die, broker
  <1>2. ASSUME NEW t \in Task, TaskStep(t)
        PROVE  mode' = "closed" \/ \A x \in Task : task'[x] = Idle
    BY <1>2, TaskStepFacts DEF Moves, Die
  <1>3. QED
    BY <1>1, <1>2 DEF Next, Other

LEMMA TracesStay ==
  ASSUME ShapeInv, Quiet \/ \E t \in Task : Accounts(t), NEW m \in Msg, Traced(m)
  PROVE  Traced(m)'
  <1>1. CASE Quiet
    BY <1>1 DEF Quiet, Traced
  <1>2. ASSUME NEW t \in Task, Accounts(t) PROVE Traced(m)'
    <2>1. refused[m] => refused'[m]
      BY <1>2 DEF Accounts
    <2>2. sent[m] # <<>> => sent'[m] # <<>>
      <3>1. CASE sent' = sent
        BY <3>1
      <3>2. CASE task[t].pc = "station" /\ sent' = StationSent(t)
        <4>1. PICK x \in Msg : sent' = [sent EXCEPT ![Current(t).msg] = Append(sent[Current(t).msg], x)]
          BY <3>2, StationSentFacts
        <4>2. sent[m] \in Seq(Msg) /\ sent \in [Msg -> Seq(Msg)]
          BY DEF ShapeInv, TypeOK
        <4>3. Append(sent[m], x) # <<>>
          BY <4>2
        <4>4. QED
          BY <4>1, <4>2, <4>3
      <3>3. QED
        BY <1>2, <3>1, <3>2 DEF Accounts
    <2>3. QED
      BY <2>1, <2>2 DEF Traced
  <1>3. QED
    BY <1>1, <1>2

LEMMA TraceInit == Init => TraceInv
  <1>1. SUFFICES ASSUME Init PROVE TraceInv
    OBVIOUS
  <1>2. ShapeInv
    BY <1>1, ShapeInit
  <1>3. AckedIsTraced /\ AckKnown
    BY <1>1 DEF Init, AckedIsTraced, AckKnown, Idle
  <1>4. QED
    BY <1>2, <1>3 DEF TraceInv

\* the step of a task
LEMMA TaskKeepsTraces ==
  ASSUME \A s \in Settings : "refusal" \notin s.faults,
         TraceInv, NEW t \in Task, TaskStep(t)
  PROVE  AckedIsTraced' /\ AckKnown'
  <1>1. ShapeInv /\ (Moves(t) \/ Die) /\ Accounts(t) /\ ~Fault("refusal")
    BY TaskStepFacts DEF TraceInv, ShapeInv, TypeOK, Fault
  <1>2. \A m \in Msg : Traced(m) => Traced(m)'
    BY <1>1, TracesStay
  <1>3. AckedIsTraced'
    <2>1. ASSUME NEW m \in Msg, where'[m] = "acked" PROVE Traced(m)'
      <3>1. CASE where[m] = "acked"
        BY <1>2, <3>1 DEF TraceInv, AckedIsTraced, Traced
      <3>2. CASE task[t].pc = "ack" /\ Current(t).msg = m /\ mode # "closed"
        BY <1>2, <3>2 DEF TraceInv, AckKnown, Current
      <3>3. QED
        BY <1>1, <2>1, <3>1, <3>2 DEF Accounts
    <2>2. QED
      BY <2>1 DEF AckedIsTraced, Traced
  <1>4. ASSUME NEW x \in Task, task'[x].pc = "ack"
        PROVE  Traced(task[x].group[1].msg)' \/ mode' = "closed"
    <2>1. Moves(t)
      BY <1>1, <1>4 DEF Die, Idle
    <2>2. /\ mode' = mode
          /\ x # t => task'[x] = task[x]
      BY <2>1 DEF Moves, TraceInv, ShapeInv, TypeOK
    <2>3. CASE x # t
      <3>1. PICK m : m = task[x].group[1].msg
        OBVIOUS
      <3>2. m \in Msg /\ (Traced(m) \/ mode = "closed")
        <4>1. task[x].pc = "ack"
          BY <1>4, <2>2, <2>3
        <4>2. QED
          BY <3>1, <4>1, CurrentFacts DEF TraceInv, AckKnown
      <3>3. task'[x].group[1].msg = m
        BY <2>2, <2>3, <3>1
      <3>4. QED
        BY <1>2, <2>2, <3>2, <3>3 DEF Traced
    <2>4. CASE x = t
      <3>1. PICK m : m = Current(t).msg
        OBVIOUS
      <3>2. /\ task[t].pc \in {"station", "refuse"}
            /\ task'[t].group = task[t].group
            /\ sent' = StationSent(t) \/ refused'[m] \/ mode = "closed"
        BY <1>1, <1>4, <2>4, <3>1 DEF Accounts
      <3>3. m \in Msg /\ task'[t].group[1].msg = m
        BY <1>1, <3>1, <3>2, CurrentFacts DEF Current
      <3>4. sent' = StationSent(t) => sent'[m] # <<>>
        <4>1. sent \in [Msg -> Seq(Msg)] /\ sent[m] \in Seq(Msg)
          BY <1>1, <3>3 DEF ShapeInv, TypeOK
        <4>2. \E y : StationSent(t) = [sent EXCEPT ![m] = Append(sent[m], y)]
          BY <3>1 DEF StationSent
        <4>3. PICK y : StationSent(t) = [sent EXCEPT ![m] = Append(sent[m], y)]
          BY <4>2
        <4>4. Append(sent[m], y) # <<>>
          BY <4>1
        <4>5. QED
          BY <3>3, <4>1, <4>3, <4>4
      <3>5. QED
        BY <2>2, <2>4, <3>2, <3>3, <3>4 DEF Traced
    <2>5. QED
      BY <2>3, <2>4
  <1>5. QED
    BY <1>3, <1>4 DEF AckKnown

LEMMA TraceStep ==
  ASSUME \A s \in Settings : "refusal" \notin s.faults
  PROVE  TraceInv /\ [Next]_vars => TraceInv'
  <1>1. SUFFICES ASSUME TraceInv, [Next]_vars PROVE TraceInv'
    OBVIOUS
  <1>2. ShapeInv /\ ShapeInv'
    BY <1>1, ShapeStep DEF TraceInv
  <1>3. CASE Next /\ Quiet
    <2>1. \A m \in Msg : Traced(m) => Traced(m)'
      BY <1>2, <1>3, TracesStay
    <2>2. AckedIsTraced'
      BY <1>1, <1>3, <2>1 DEF Quiet, TraceInv, AckedIsTraced, Traced
    <2>3. ASSUME NEW x \in Task, task'[x].pc = "ack"
          PROVE  Traced(task[x].group[1].msg)' \/ mode' = "closed"
      <3>1. task'[x] = task[x] /\ task[x].pc = "ack"
        BY <1>3, <2>3 DEF Quiet
      <3>2. PICK m : m = task[x].group[1].msg
        OBVIOUS
      <3>3. m \in Msg /\ (Traced(m) \/ mode = "closed")
        BY <1>1, <3>1, <3>2, CurrentFacts DEF TraceInv, AckKnown
      <3>4. mode = "closed" => mode' = "closed"
        BY <1>2, <1>3, <2>3, ClosedStays DEF Idle
      <3>5. QED
        BY <2>1, <3>1, <3>2, <3>3, <3>4 DEF Traced
    <2>4. QED
      BY <1>2, <2>2, <2>3 DEF TraceInv, AckKnown
  <1>4. CASE \E t \in Task : TaskStep(t)
    BY <1>1, <1>2, <1>4, TaskKeepsTraces DEF TraceInv
  <1>5. CASE UNCHANGED vars
    BY <1>1, <1>2, <1>5 DEF vars, broker, exchanges, TraceInv, AckedIsTraced, AckKnown, Traced
  <1>6. QED
    BY <1>1, <1>2, <1>3, <1>4, <1>5, StepDeals

\* No message disappears, as long as rejected_data can be published to: what is
\* acknowledged was published as a station or as a rejection.
THEOREM NothingDisappears ==
  ASSUME \A s \in Settings : "refusal" \notin s.faults
  PROVE  Spec => []AckedIsTraced
  <1>1. TraceInv => AckedIsTraced
    BY DEF TraceInv
  <1>2. QED
    BY <1>1, TraceInit, TraceStep, PTL DEF Spec

-----------------------------------------------------------------------------
(* Identity.  While a loop zips a group with the answer for it, the heads    *)
(* of the two belong together: both lose their first item at once.         *)

Zipped(u) == u.how = "zip" => \A i \in DOMAIN u.group : u.stations[i] = u.group[i].msg

IdentityInv == ShapeInv /\ StationsKeepTheirId /\ \A t \in Task : Zipped(task[t])

LEMMA IdentityInit == Init => IdentityInv
  <1>1. SUFFICES ASSUME Init PROVE IdentityInv
    OBVIOUS
  <1>2. ShapeInv
    BY <1>1, ShapeInit
  <1>3. StationsKeepTheirId /\ \A t \in Task : Zipped(task[t])
    BY <1>1 DEF Init, StationsKeepTheirId, Zipped, Idle
  <1>4. QED
    BY <1>2, <1>3 DEF IdentityInv

\* the rest of a zipped loop is zipped
LEMMA ZippedTail ==
  ASSUME NEW u, Shaped(u), u.pc # "idle", u.how = "zip", Zipped(u), NEW v, v.how = "zip",
         v.group = Tail(u.group), v.stations = Tail(u.stations)
  PROVE  Zipped(v)
  <1> DEFINE g == u.group
             s == u.stations
  <1>1. g \in Seq(Delivery) /\ s \in Seq(Msg) /\ g # <<>> /\ Len(s) = Len(g)
    BY DEF Shaped, TaskState
  <1>2. \A i \in DOMAIN g : s[i] = g[i].msg
    BY DEF Zipped
  <1> HIDE DEF g, s
  <1>3. ASSUME NEW i \in DOMAIN Tail(g) PROVE Tail(s)[i] = Tail(g)[i].msg
    <2>1. /\ i \in 1..(Len(g) - 1) /\ i + 1 \in DOMAIN g /\ s # <<>>
          /\ Tail(g)[i] = g[i + 1] /\ Tail(s)[i] = s[i + 1]
      BY <1>1, <1>3
    <2>2. QED
      BY <1>2, <2>1
  <1>4. QED
    BY <1>3 DEF Zipped, g, s

LEMMA TaskKeepsIdentity ==
  ASSUME \A s \in Settings : "answer" \notin s.faults,
         IdentityInv, NEW t \in Task, TaskStep(t)
  PROVE  StationsKeepTheirId' /\ \A x \in Task : Zipped(task'[x])
  <1>1. ShapeInv /\ (Moves(t) \/ Die) /\ Accounts(t) /\ ~Fault("answer")
    BY TaskStepFacts DEF IdentityInv, ShapeInv, TypeOK, Fault
  <1>2. StationsKeepTheirId'
    <2>1. CASE sent' = sent
      BY <2>1 DEF IdentityInv, StationsKeepTheirId
    <2>2. CASE task[t].pc = "station" /\ sent' = StationSent(t)
      <3> DEFINE m == Current(t).msg
      <3>1. PICK x \in Msg : /\ sent' = [sent EXCEPT ![m] = Append(sent[m], x)]
                             /\ x = IF task[t].how = "zip" THEN task[t].stations[1] ELSE m
        BY <1>1, <2>2, StationSentFacts
      <3>2. m \in Msg /\ sent \in [Msg -> Seq(Msg)] /\ m = task[t].group[1].msg
        BY <1>1, <2>2, CurrentFacts DEF ShapeInv, TypeOK
      <3>3. 1 \in DOMAIN task[t].group
        <4>1. task[t].group \in Seq(Delivery) /\ task[t].group # <<>>
          BY <1>1, <2>2 DEF ShapeInv, Shaped, TaskState
        <4>2. QED
          BY <4>1
      <3>4. x = m
        BY <3>1, <3>2, <3>3 DEF IdentityInv, Zipped
      <3> HIDE DEF m
      <3>5. ASSUME NEW n \in Msg, NEW i \in DOMAIN sent'[n] PROVE sent'[n][i] = n
        <4>1. CASE n # m
          BY <3>1, <3>2, <3>5, <4>1 DEF IdentityInv, StationsKeepTheirId
        <4>2. CASE n = m
          <5> DEFINE s == sent[m]
          <5>1. s \in Seq(Msg) /\ \A j \in DOMAIN s : s[j] = m
            BY <3>2 DEF IdentityInv, StationsKeepTheirId
          <5>2. sent'[n] = Append(s, m)
            BY <3>1, <3>2, <3>4, <4>2
          <5> HIDE DEF s
          <5>3. \A j \in DOMAIN Append(s, m) : Append(s, m)[j] = m
            BY <5>1
          <5>4. QED
            BY <3>5, <4>2, <5>2, <5>3
        <4>3. QED
          BY <4>1, <4>2
      <3>6. QED
        BY <3>5 DEF StationsKeepTheirId
    <2>3. QED
      BY <1>1, <2>1, <2>2 DEF Accounts
  <1>3. ASSUME NEW x \in Task PROVE Zipped(task'[x])
    <2>1. CASE Die
      BY <2>1 DEF Die, Idle, Zipped
    <2>2. CASE Moves(t) /\ x # t
      <3>1. task'[x] = task[x]
        BY <1>1, <2>2 DEF Moves, ShapeInv, TypeOK
      <3>2. QED
        BY <3>1 DEF IdentityInv
    <2>3. CASE x = t
      <3>1. Zipped(task[t]) /\ Shaped(task[t])
        BY DEF IdentityInv, ShapeInv
      <3>2. CASE task'[t].how # "zip"
        BY <2>3, <3>2 DEF Zipped
      <3>3. CASE task'[t].how = "zip"
        <4>1. CASE \A i \in DOMAIN task'[t].group : task'[t].stations[i] = task'[t].group[i].msg
          BY <2>3, <4>1 DEF Zipped
        <4>2. CASE /\ task[t].how = "zip" /\ task'[t].group = task[t].group
                   /\ task'[t].stations = task[t].stations
          BY <2>3, <3>1, <4>2 DEF Zipped
        <4>3. CASE /\ task[t].how = "zip" /\ task'[t].group = Tail(task[t].group)
                   /\ task'[t].stations = Tail(task[t].stations)
          <5>1. task[t].pc # "idle"
            BY <3>1, <4>3 DEF Shaped, Idle
          <5>2. QED
            BY <2>3, <3>1, <3>3, <4>3, <5>1, ZippedTail
        <4>4. QED
          BY <1>1, <3>3, <4>1, <4>2, <4>3 DEF Accounts
      <3>4. QED
        BY <3>2, <3>3
    <2>4. QED
      BY <1>1, <2>1, <2>2, <2>3
  <1>4. QED
    BY <1>2, <1>3

LEMMA IdentityStep ==
  ASSUME \A s \in Settings : "answer" \notin s.faults
  PROVE  IdentityInv /\ [Next]_vars => IdentityInv'
  <1>1. SUFFICES ASSUME IdentityInv, [Next]_vars PROVE IdentityInv'
    OBVIOUS
  <1>2. ShapeInv /\ ShapeInv'
    BY <1>1, ShapeStep DEF IdentityInv
  <1>3. CASE Quiet
    BY <1>1, <1>2, <1>3 DEF Quiet, IdentityInv, StationsKeepTheirId, Zipped
  <1>4. CASE \E t \in Task : TaskStep(t)
    BY <1>1, <1>2, <1>4, TaskKeepsIdentity DEF IdentityInv
  <1>5. CASE UNCHANGED vars
    BY <1>1, <1>2, <1>5 DEF vars, exchanges, IdentityInv, StationsKeepTheirId
  <1>6. QED
    BY <1>1, <1>2, <1>3, <1>4, <1>5, StepDeals

\* The station published under a message's id was made from that message, whatever
\* the answer for its batch leaves out, as long as what the answer holds is in the
\* order of the batch.
THEOREM IdsAreKept ==
  ASSUME \A s \in Settings : "answer" \notin s.faults
  PROVE  Spec => []StationsKeepTheirId
  <1>1. IdentityInv => StationsKeepTheirId
    BY DEF IdentityInv
  <1>2. QED
    BY <1>1, IdentityInit, IdentityStep, PTL DEF Spec

-----------------------------------------------------------------------------
(* Nobody is stranded.  While the process is up, what somebody holds is     *)
(* exactly what the broker waits for: every step that takes a message off   *)
(* the queue takes hold of it, and only a step that settles it lets go.     *)

\* The conditions of it: every body is an object, the connection is not reopened
\* under a living process, and a mapped batch can be forwarded.
Benign ==
  /\ \A m \in Msg : bodyOf[m] # "scalar"
  /\ \A s \in Settings :
       /\ "reconnect" \notin s.faults
       /\ s.llm => s.faults \cap {"publish", "setup"} = {}

Delivered(m) == [msg |-> m, epoch |-> epoch]

\* a task that handles one message, or none
Plain(u) == u.pc # "map" /\ u.how \in {"none", "single"} /\ u.todo = <<>>

StrandInv ==
  /\ mode = "up" => Held = {Delivered(m) : m \in Unacked}
  /\ mode = "down" => Unacked = {} /\ buffer = <<>> /\ \A t \in Task : task[t] = Idle
  /\ ~setting.llm => buffer = <<>> /\ \A t \in Task : Plain(task[t])

LEMMA HoldsNothing ==
  ASSUME NEW u, Shaped(u), Range(HeldBy(u)) = {}
  PROVE  u = Idle /\ Plain(u)
  <1>1. u = Idle
    BY OpenFacts DEF Shaped
  <1>2. QED
    BY <1>1 DEF Plain, Idle

\* A loop over the items of one message stays one.
LEMMA AdvancedPlain ==
  ASSUME NEW u, Shaped(u), u.pc \in {"ack", "reject"}, u.how = "single", u.todo = <<>>
  PROVE  Plain(Advanced(u))
  <1> DEFINE v == Advanced(u)
             w == [u EXCEPT !.group = Tail(u.group), !.found = 0, !.stations = <<>>]
  <1>1. /\ Shaped(v) /\ Range(HeldBy(v)) = Range(Tail(u.group) \o u.todo)
    BY AdvancedFacts
  <1>2. /\ u \in TaskState /\ u.group \in Seq(Delivery) /\ u.group # <<>>
        /\ Tail(u.group) \in Seq(Delivery)
    BY DEF Shaped, TaskState
  <1>3. w.group = Tail(u.group) /\ w.todo = u.todo /\ w.how = u.how
    BY <1>2 DEF TaskState
  <1>4. v = IF w.group = <<>> THEN Resume(w) ELSE [w EXCEPT !.pc = FirstOf(u.how)]
    BY DEF Advanced
  <1>5. CASE Tail(u.group) = <<>>
    <2>1. <<>> \o <<>> = <<>> /\ Range(<<>>) = {}
      BY EmptyFacts
    <2>2. Range(HeldBy(v)) = {}
      BY <1>1, <1>5, <2>1
    <2> HIDE DEF v
    <2>3. QED
      BY <1>1, <2>2, HoldsNothing DEF v
  <1>6. CASE Tail(u.group) # <<>>
    <2>1. FirstOf(u.how) = "choose"
      BY DEF FirstOf
    <2> HIDE DEF w
    <2>2. v = [w EXCEPT !.pc = "choose"] /\ w \in TaskState
      <3> DEFINE g == Tail(u.group)
                 empty == <<>>
      <3>1. g \in Seq(Delivery) /\ empty \in Seq(Msg) /\ u \in TaskState
        BY <1>2
      <3>2. w = [u EXCEPT !.group = g, !.found = 0, !.stations = empty]
        BY DEF w
      <3> HIDE DEF g, empty
      <3>3. w = [pc |-> u.pc, how |-> u.how, group |-> g, todo |-> u.todo,
                 stations |-> empty, found |-> 0, trigger |-> u.trigger]
        BY <3>1, <3>2 DEF TaskState
      <3>4. w \in TaskState
        BY <3>1, <3>3 DEF TaskState
      <3>5. QED
        BY <1>3, <1>4, <1>6, <2>1, <3>4
    <2>3. v.pc = "choose" /\ v.how = u.how /\ v.todo = u.todo
      BY <1>3, <2>2 DEF TaskState
    <2>4. QED
      BY <2>3 DEF Plain
  <1>7. QED
    BY <1>5, <1>6

\* What is held when one task and the buffer change, and take some deliveries.
LEMMA HeldWith ==
  ASSUME ShapeInv, NEW t \in Task, NEW u, NEW arrivals,
         task' = [task EXCEPT ![t] = u],
         Range(HeldBy(u)) \cup Range(buffer') =
           Range(HeldBy(task[t])) \cup Range(buffer) \cup arrivals
  PROVE  Held' = Held \cup arrivals
  <1>1. task'[t] = u /\ \A x \in Task : x # t => task'[x] = task[x]
    BY DEF ShapeInv, TypeOK
  <1>2. \A d : d \in Held' <=> d \in Range(buffer') \/ \E x \in Task : d \in Range(HeldBy(task'[x]))
    BY OwnersApartNext
  <1>3. \A d : d \in Held <=> d \in Range(buffer) \/ \E x \in Task : d \in Range(HeldBy(task[x]))
    BY OwnersApart
  <1>4. \A d : d \in Held' <=>
          \/ d \in Range(HeldBy(u)) \cup Range(buffer')
          \/ \E x \in Task \ {t} : d \in Range(HeldBy(task[x]))
    BY <1>1, <1>2
  <1>5. \A d : d \in Held <=>
          \/ d \in Range(HeldBy(task[t])) \cup Range(buffer)
          \/ \E x \in Task \ {t} : d \in Range(HeldBy(task[x]))
    BY <1>3
  <1>6. \A d : d \in Held' <=> d \in Held \cup arrivals
    BY <1>4, <1>5
  <1>7. QED
    BY <1>6

\* What is held when a task lets go of its current item.
LEMMA HeldWithout ==
  ASSUME OwnerInv, NEW t \in Task, NEW d, d \in Range(HeldBy(task[t])), buffer' = buffer,
         NEW u, task' = [task EXCEPT ![t] = u],
         Range(HeldBy(u)) = Range(HeldBy(task[t])) \ {d}
  PROVE  Held' = Held \ {d}
  <1>1. task'[t] = u /\ \A x \in Task : x # t => task'[x] = task[x]
    BY DEF OwnerInv, ShapeInv, TypeOK
  <1>2. /\ d \notin Range(buffer)
        /\ \A x \in Task : x # t => d \notin Range(HeldBy(task[x]))
    BY OwnersApart DEF OwnerInv, Apart
  <1>3. \A e : e \in Held' <=>
          \/ e \in Range(buffer) \/ e \in Range(HeldBy(u))
          \/ \E x \in Task \ {t} : e \in Range(HeldBy(task[x]))
    BY <1>1, OwnersApartNext
  <1>4. \A e : e \in Held <=>
          \/ e \in Range(buffer) \/ e \in Range(HeldBy(task[t]))
          \/ \E x \in Task \ {t} : e \in Range(HeldBy(task[x]))
    BY OwnersApart
  <1>5. \A e : e \in Held' <=> e \in Held \ {d}
    BY <1>2, <1>3, <1>4
  <1>6. QED
    BY <1>5

\* A task goes on with the items it has.
GoesOn(t) ==
  /\ \E u : /\ task' = [task EXCEPT ![t] = u]
            /\ HeldBy(u) = HeldBy(task[t])
            /\ Plain(task[t]) => Plain(u)
  /\ UNCHANGED <<where, epoch, setting, mode, buffer>>

\* A task gives up, and these are the reasons.
GivesUp(t) ==
  /\ Abandon(t)
  /\ task[t].pc # "idle" /\ setting' = setting
  /\ \/ Fault("setup") /\ task[t].pc = "map"
     \/ (Fault("publish") \/ mode = "closed") /\ task[t].how = "zip"
     \/ ~Settleable(Current(t))

Settles(t) ==
  task[t].pc \in {"ack", "reject"} /\ \E fate \in {"acked", "dead"} : Settle(t, fate)

LEMMA GoingOn ==
  ASSUME ShapeInv, NEW t \in Task, NEW pc, pc # "map", NEW found,
         task' = [task EXCEPT ![t] = GoneTo(task[t], pc, found)],
         UNCHANGED <<where, epoch, setting, mode, buffer>>
  PROVE  GoesOn(t)
  <1> DEFINE u == task[t]
             v == GoneTo(u, pc, found)
  <1>1. u \in TaskState
    BY DEF ShapeInv, TypeOK
  <1>2. v.pc = pc /\ v.group = u.group /\ v.todo = u.todo /\ v.how = u.how
    BY <1>1 DEF GoneTo, TaskState
  <1> HIDE DEF u, v
  <1>3. HeldBy(v) = HeldBy(u) /\ (Plain(u) => Plain(v))
    BY <1>2 DEF HeldBy, Plain
  <1>4. QED
    BY <1>3 DEF GoesOn, u, v

LEMMA MappingGoesOn ==
  ASSUME ShapeInv, NEW t \in Task, MapGroup(t)
  PROVE  GoesOn(t)
  <1> DEFINE u == task[t]
  <1>1. u \in TaskState /\ u.pc = "map"
    BY DEF ShapeInv, TypeOK, MapGroup
  <1>2. PICK h, st : task' = [task EXCEPT ![t] = Mapped(u, h, st)]
    <2>1. \E h, st : task' = [task EXCEPT ![t] = Mapped(u, h, st)]
      BY DEF MapGroup, Mapped
    <2>2. QED
      BY <2>1
  <1>3. Mapped(u, h, st).group = u.group /\ Mapped(u, h, st).todo = u.todo
    BY <1>1 DEF Mapped, TaskState
  <1>4. HeldBy(Mapped(u, h, st)) = HeldBy(u) /\ ~Plain(u)
    BY <1>1, <1>3 DEF HeldBy, Plain
  <1>5. UNCHANGED <<where, epoch, setting, mode, buffer>>
    BY DEF MapGroup, broker
  <1>6. QED
    BY <1>2, <1>4, <1>5 DEF GoesOn

LEMMA ChoosingGoesOn ==
  ASSUME ShapeInv, NEW t \in Task, Choose(t)
  PROVE  GoesOn(t)
  <1> DEFINE u == task[t]
  <1>1. u \in TaskState
    BY DEF ShapeInv, TypeOK
  <1>2. UNCHANGED <<where, epoch, setting, mode, buffer>>
    BY DEF Choose, broker
  <1>3. CASE GoTo(t, "reject")
    BY <1>2, <1>3, GoToIsGoneTo, GoingOn
  <1>4. ASSUME NEW found \in 0..2, NEW partly \in BOOLEAN,
               task' = [task EXCEPT ![t] =
                 [task[t] EXCEPT !.found = found, !.pc = AfterChoice(found, partly)]]
        PROVE  GoesOn(t)
    <2> DEFINE pc == AfterChoice(found, partly)
    <2>1. pc # "map"
      BY DEF AfterChoice
    <2> HIDE DEF u, pc
    <2>2. [u EXCEPT !.found = found, !.pc = pc] = GoneTo(u, pc, found)
      BY <1>1 DEF GoneTo, TaskState
    <2>3. task' = [task EXCEPT ![t] = GoneTo(task[t], pc, found)]
      BY <1>4, <2>2 DEF u, pc
    <2>4. QED
      BY <1>2, <2>1, <2>3, GoingOn
  <1>5. QED
    BY <1>3, <1>4 DEF Choose

\* Every step of a task is one of the three.
LEMMA TaskStepKinds ==
  ASSUME ShapeInv, NEW t \in Task, TaskStep(t)
  PROVE  GoesOn(t) \/ Settles(t) \/ GivesUp(t)
  <1>1. ASSUME NEW pc, pc # "map", GoTo(t, pc),
               UNCHANGED <<where, epoch, setting, mode, buffer>>
        PROVE  GoesOn(t)
    BY <1>1, GoToIsGoneTo, GoingOn
  <1>2. CASE MapGroup(t)
    BY <1>2, MappingGoesOn
  <1>3. CASE Choose(t)
    BY <1>3, ChoosingGoesOn
  <1>4. CASE Refuse(t)
    <2> DEFINE pc == AfterRefusal(task[t])
    <2>1. pc # "map" /\ GoTo(t, pc)
      BY <1>4 DEF Refuse, AfterRefusal
    <2>2. UNCHANGED <<where, epoch, setting, mode, buffer>>
      BY <1>4 DEF Refuse, broker
    <2> HIDE DEF pc
    <2>3. QED
      BY <1>1, <2>1, <2>2
  <1>5. CASE Publish(t)
    BY <1>1, <1>5 DEF Publish, broker
  <1>6. CASE PublishFails(t)
    <2>1. CASE task[t].how = "single" /\ GoTo(t, "reject") /\ UNCHANGED <<broker, mode, buffer, timer>>
      BY <1>1, <1>6, <2>1 DEF PublishFails, broker
    <2>2. CASE task[t].how = "zip" /\ Abandon(t)
      BY <1>6, <2>2 DEF PublishFails, GivesUp
    <2>3. QED
      BY <1>6, <2>1, <2>2 DEF PublishFails
  <1>7. CASE AckFails(t)
    <2>1. CASE task[t].how = "single" /\ GoTo(t, "reject") /\ UNCHANGED <<broker, mode, buffer, timer>>
      BY <1>1, <1>7, <2>1 DEF AckFails, broker
    <2>2. CASE Abandon(t)
      BY <1>7, <2>2 DEF AckFails, GivesUp
    <2>3. QED
      BY <1>7, <2>1, <2>2 DEF AckFails
  <1>8. CASE MapRaises(t) \/ RejectFails(t)
    BY <1>8 DEF MapRaises, RejectFails, GivesUp
  <1>9. CASE Ack(t) \/ Reject(t)
    BY <1>9 DEF Ack, Reject, Settles
  <1>10. QED
    BY <1>2, <1>3, <1>4, <1>5, <1>6, <1>7, <1>8, <1>9 DEF TaskStep

\* A task that handles one message goes on doing that, or is done.
LEMMA PlainStays ==
  ASSUME ShapeInv, NEW t \in Task, TaskStep(t), Plain(task[t])
  PROVE  Plain(task'[t])
  <1>1. task \in [Task -> TaskState] /\ Shaped(task[t])
    BY DEF ShapeInv, TypeOK
  <1>2. CASE GoesOn(t)
    BY <1>1, <1>2 DEF GoesOn
  <1>3. CASE Settles(t)
    <2>1. task' = [task EXCEPT ![t] = Advanced(task[t])] /\ task[t].pc \in {"ack", "reject"}
      BY <1>3 DEF Settles, Settle
    <2>2. task[t].how = "single" /\ task[t].todo = <<>>
      BY <1>1, <2>1 DEF Plain, Shaped, Fits
    <2>3. QED
      BY <1>1, <2>1, <2>2, AdvancedPlain
  <1>4. CASE GivesUp(t)
    BY <1>4, AbandonFacts DEF GivesUp, Plain, Idle
  <1>5. QED
    BY <1>2, <1>3, <1>4, TaskStepKinds

\* While the process is up, no task gives up.
LEMMA HeldGoesOn ==
  ASSUME Benign, OwnerInv, StrandInv, mode = "up", NEW t \in Task, TaskStep(t)
  PROVE  GoesOn(t) \/ Settles(t)
  <1>1. /\ ShapeInv /\ setting \in Settings
        /\ setting.llm => ~Fault("publish") /\ ~Fault("setup")
        /\ ~setting.llm => Plain(task[t])
    BY DEF OwnerInv, ShapeInv, TypeOK, Benign, Fault, StrandInv
  <1>2. ASSUME task[t].pc # "idle" PROVE Settleable(Current(t))
    <2>1. Current(t) \in Range(HeldBy(task[t]))
      BY <1>1, <1>2, OpenFacts DEF ShapeInv, Current
    <2>2. Current(t) \in {Delivered(m) : m \in Unacked}
      BY <2>1, OwnersApart DEF StrandInv
    <2>3. QED
      BY <2>2 DEF Settleable, ChannelOpen, Delivered, Unacked
  <1>3. ~GivesUp(t)
    BY <1>1, <1>2 DEF GivesUp, Plain
  <1>4. QED
    BY <1>1, <1>3, TaskStepKinds

\* A step of a task, while the process is up.
LEMMA TaskStrands ==
  ASSUME Benign, OwnerInv, StrandInv, mode = "up", NEW t \in Task, TaskStep(t)
  PROVE  StrandInv'
  <1>1. ShapeInv /\ task \in [Task -> TaskState] /\ where \in [Msg -> {"ready", "unacked", "acked", "dead"}]
    BY DEF OwnerInv, ShapeInv, TypeOK
  <1>2. CASE GoesOn(t)
    <2>1. PICK u : task' = [task EXCEPT ![t] = u] /\ HeldBy(u) = HeldBy(task[t])
      BY <1>2 DEF GoesOn
    <2>2. UNCHANGED <<where, epoch, setting, mode, buffer>>
      BY <1>2 DEF GoesOn
    <2>3. Held' = Held
      <3>1. Held' = Held \cup {}
        BY <1>1, <2>1, <2>2, HeldWith
      <3>2. QED
        BY <3>1
    <2>4. ~setting.llm => \A x \in Task : Plain(task'[x])
      BY <1>1, <2>1, PlainStays DEF StrandInv
    <2>5. QED
      BY <2>2, <2>3, <2>4 DEF StrandInv, Delivered, Unacked
  <1>3. ASSUME task[t].pc \in {"ack", "reject"}, NEW fate \in {"acked", "dead"}, Settle(t, fate)
        PROVE  StrandInv'
    <2> DEFINE u == task[t]
               v == Advanced(u)
               d == Current(t)
    <2>1. /\ where' = [where EXCEPT ![d.msg] = fate]
          /\ task' = [task EXCEPT ![t] = v]
          /\ UNCHANGED <<epoch, setting, mode, buffer>>
          /\ d.epoch = epoch
      BY <1>3 DEF Settle, Settleable
    <2>2. Shaped(u) /\ d = u.group[1] /\ d \in Delivery /\ d.msg \in Msg /\ IsInjective(HeldBy(u))
      BY <1>1, <1>3, CurrentFacts, OwnersApart DEF ShapeInv, OwnerInv, Apart
    <2>3. /\ Range(HeldBy(v)) = Range(Tail(u.group) \o u.todo)
          /\ d \in Range(HeldBy(u)) /\ d \notin Range(HeldBy(v))
          /\ v.how = "zip" => u.how = "zip"
      BY <1>3, <2>2, AdvancedFacts, OpenFacts
    <2>4. Range(HeldBy(u)) = {d} \cup Range(Tail(u.group) \o u.todo)
      <3> DEFINE g == u.group
                 e == u.todo
      <3>1. g \in Seq(Delivery) /\ e \in Seq(Delivery) /\ g # <<>> /\ HeldBy(u) = g \o e
        BY <1>3, <2>2 DEF Shaped, TaskState, HeldBy
      <3> HIDE DEF g, e
      <3>2. /\ g \o e \in Seq(Delivery) /\ g \o e # <<>>
            /\ (g \o e)[1] = g[1] /\ Tail(g \o e) = Tail(g) \o e
        BY <3>1
      <3>3. Range(g \o e) = {g[1]} \cup Range(Tail(g) \o e)
        BY <3>2, TailFacts
      <3>4. QED
        BY <2>2, <3>1, <3>3 DEF g, e
    <2>5. Range(HeldBy(v)) = Range(HeldBy(u)) \ {d}
      BY <2>3, <2>4
    <2> HIDE DEF u, v, d
    <2>6. Held' = Held \ {d}
      BY <2>1, <2>3, <2>5, HeldWithout DEF u
    <2>7. Unacked' = Unacked \ {d.msg}
      BY <1>1, <2>1, <2>2 DEF Unacked
    <2>8. d = Delivered(d.msg)
      BY <2>1, <2>2 DEF Delivered, Delivery
    <2>9. Held' = {Delivered(m) : m \in Unacked'}
      BY <2>6, <2>7, <2>8 DEF StrandInv, Delivered
    <2>10. ~setting.llm => \A x \in Task : Plain(task'[x])
      BY <1>1, <2>1, PlainStays DEF StrandInv
    <2>11. QED
      BY <2>1, <2>9, <2>10 DEF StrandInv, Delivered
  <1>4. QED
    BY <1>2, <1>3, HeldGoesOn DEF Settles

\* The message that arrives is taken hold of.
LEMMA ReceiveStrands ==
  ASSUME Benign, OwnerInv, StrandInv, NEW m \in Msg, Receive(m)
  PROVE  StrandInv'
  <1> DEFINE d == Delivered(m)
  <1>1. /\ ShapeInv /\ task \in [Task -> TaskState] /\ buffer \in Seq(Delivery)
        /\ where \in [Msg -> {"ready", "unacked", "acked", "dead"}]
        /\ Main \in Task /\ d \in Delivery
    BY DEF OwnerInv, ShapeInv, TypeOK, Task, Delivered, Delivery
  <1>2. /\ mode = "up" /\ mode' = mode /\ epoch' = epoch /\ setting' = setting
        /\ where[m] = "ready" /\ task[Main].pc = "idle"
    BY DEF Receive, RejectText, ForgetScalar, HandleMessage, EnqueueAndWait,
       EnqueueAndProcess, Deliverable
  <1>3. task[Main] = Idle /\ Range(HeldBy(task[Main])) = {}
    BY <1>1, <1>2, IdleHolds
  <1>4. where' = [where EXCEPT ![m] = "unacked"] => Unacked' = Unacked \cup {m}
    BY <1>1 DEF Unacked
  <1>5. ASSUME where' = [where EXCEPT ![m] = "unacked"], Held' = Held \cup {d},
               ~setting.llm => buffer' = <<>> /\ \A x \in Task : Plain(task'[x])
        PROVE  StrandInv'
    BY <1>2, <1>4, <1>5 DEF StrandInv, Delivered
  <1>6. CASE RejectText(m)
    <2>1. Unacked' = Unacked
      BY <1>1, <1>2, <1>6 DEF RejectText, Unacked
    <2>2. UNCHANGED <<buffer, task>>
      BY <1>6 DEF RejectText
    <2>3. Held' = Held
      BY <2>2 DEF Held
    <2>4. QED
      BY <1>2, <2>1, <2>2, <2>3 DEF StrandInv, Delivered
  <1>7. ~ForgetScalar(m)
    BY DEF ForgetScalar, Benign
  <1>8. CASE HandleMessage(m)
    <2> DEFINE g == <<d>>
               u == [pc |-> "choose", how |-> "single", group |-> g, todo |-> <<>>,
                     stations |-> <<>>, found |-> 0, trigger |-> "message"]
    <2>1. /\ where' = [where EXCEPT ![m] = "unacked"] /\ buffer' = buffer
          /\ ~setting.llm
      BY <1>8 DEF HandleMessage
    <2>2. task' = [task EXCEPT ![Main] =
                     [Idle EXCEPT !.pc = "choose", !.how = "single", !.trigger = "message",
                                  !.group = g]]
      BY <1>8 DEF HandleMessage, Delivered
    <2> HIDE DEF d
    <2>3. g \in Seq(Delivery) /\ Range(g) = {d} /\ g \o <<>> = g
      BY <1>1, SingletonFacts
    <2> HIDE DEF g
    <2>4. task' = [task EXCEPT ![Main] = u]
      BY <2>2, HandledRecord
    <2>5. HeldBy(u) = g /\ Plain(u)
      BY <2>3 DEF HeldBy, Plain
    <2> HIDE DEF u
    <2>6. Held' = Held \cup {d}
      BY <1>1, <1>3, <2>1, <2>3, <2>4, <2>5, HeldWith
    <2>7. \A x \in Task : Plain(task'[x])
      BY <1>1, <2>1, <2>4, <2>5 DEF StrandInv
    <2>8. QED
      BY <1>5, <2>1, <2>6, <2>7 DEF StrandInv
  <1>9. CASE EnqueueAndWait(m)
    <2>1. /\ where' = [where EXCEPT ![m] = "unacked"] /\ task' = task
          /\ buffer' = Append(buffer, d) /\ setting.llm
      BY <1>9 DEF EnqueueAndWait, Delivered
    <2> HIDE DEF d
    <2>2. Range(buffer') = Range(buffer) \cup {d}
      BY <1>1, <2>1, AppendFacts
    <2>3. task' = [task EXCEPT ![Main] = task[Main]]
      BY <1>1, <2>1
    <2>4. Held' = Held \cup {d}
      BY <1>1, <2>2, <2>3, HeldWith
    <2>5. QED
      BY <1>5, <2>1, <2>4
  <1>10. CASE EnqueueAndProcess(m)
    <2> DEFINE items == Append(buffer, d)
               trigger == "size"
               u == StartBatch(items, trigger)
    <2>1. /\ where' = [where EXCEPT ![m] = "unacked"] /\ buffer' = <<>>
          /\ task' = [task EXCEPT ![Main] = u] /\ setting.llm
      BY <1>10 DEF EnqueueAndProcess, Delivered
    <2> HIDE DEF d
    <2>2. items \in Seq(Delivery) /\ Range(items) = Range(buffer) \cup {d} /\ Range(<<>>) = {}
      BY <1>1, AppendFacts, EmptyFacts
    <2> HIDE DEF items
    <2>3. Range(HeldBy(u)) = Range(items)
      BY <2>2, StartFacts
    <2> HIDE DEF u
    <2>4. Held' = Held \cup {d}
      BY <1>1, <1>3, <2>1, <2>2, <2>3, HeldWith
    <2>5. QED
      BY <1>5, <2>1, <2>4
  <1>11. QED
    BY <1>6, <1>7, <1>8, <1>9, <1>10 DEF Receive

\* The timer's flush and the shutdown hand the buffer over.
LEMMA FlushStrands ==
  ASSUME OwnerInv, StrandInv, NEW t \in Task, NEW trigger \in {"size", "timeout", "shutdown"},
         task' = [task EXCEPT ![t] = StartBatch(buffer, trigger)], buffer' = <<>>,
         UNCHANGED <<where, epoch, setting>>, mode' # "down",
         mode' = "up" => mode = "up" /\ task[t].pc = "idle"
  PROVE  StrandInv'
  <1> DEFINE u == StartBatch(buffer, trigger)
  <1>1. /\ ShapeInv /\ task \in [Task -> TaskState] /\ buffer \in Seq(Delivery)
    BY DEF OwnerInv, ShapeInv, TypeOK
  <1>2. Shaped(u) /\ Range(HeldBy(u)) = Range(buffer) /\ task' = [task EXCEPT ![t] = u]
    BY <1>1, StartFacts
  <1> HIDE DEF u
  <1>3. Range(<<>>) = {}
    BY EmptyFacts
  <1>4. ASSUME mode' = "up" PROVE Held' = Held
    <2>1. Range(HeldBy(task[t])) = {}
      BY <1>1, <1>4, IdleHolds
    <2>2. Range(HeldBy(u)) \cup Range(buffer') =
            Range(HeldBy(task[t])) \cup Range(buffer) \cup {}
      BY <1>2, <1>3, <2>1
    <2>3. Held' = Held \cup {}
      BY <1>1, <1>2, <2>2, HeldWith
    <2>4. QED
      BY <2>3
  <1>5. ~setting.llm => Plain(u)
    BY <1>2, <1>3, HoldsNothing DEF StrandInv
  <1>6. ~setting.llm => \A x \in Task : Plain(task'[x])
    BY <1>1, <1>2, <1>5 DEF StrandInv
  <1>7. QED
    BY <1>4, <1>6 DEF StrandInv, Delivered, Unacked

LEMMA StrandInit == Init => StrandInv
  <1>1. SUFFICES ASSUME Init PROVE StrandInv
    OBVIOUS
  <1>2. buffer = <<>> /\ mode = "up" /\ \A t \in Task : task[t] = Idle
    BY <1>1 DEF Init
  <1>3. Range(<<>>) = {} /\ HeldBy(Idle) = <<>> /\ Plain(Idle)
    BY EmptyFacts, IdleShaped DEF Plain, Idle
  <1>4. \A d : d \notin Held
    BY <1>2, <1>3, OwnersApart
  <1>5. Unacked = {}
    BY <1>1 DEF Init, Unacked
  <1>6. Held = {Delivered(m) : m \in Unacked}
    BY <1>4, <1>5
  <1>7. QED
    BY <1>2, <1>3, <1>6 DEF StrandInv

LEMMA StrandStep ==
  ASSUME Benign
  PROVE  OwnerInv /\ StrandInv /\ [Next]_vars => StrandInv'
  <1>1. SUFFICES ASSUME OwnerInv, StrandInv, [Next]_vars PROVE StrandInv'
    OBVIOUS
  <1>2. ShapeInv /\ setting \in Settings /\ task \in [Task -> TaskState]
    BY <1>1 DEF OwnerInv, ShapeInv, TypeOK
  <1>3. Plain(Idle)
    BY DEF Plain, Idle
  <1>4. ASSUME Die, setting' = setting PROVE StrandInv'
    <2>1. Unacked' = {}
      BY <1>4 DEF Die, LoseChannel, Unacked
    <2>2. QED
      BY <1>3, <1>4, <2>1 DEF Die, StrandInv
  <1>5. ASSUME NEW t \in Task, TaskStep(t), mode # "up" PROVE StrandInv'
    <2>1. (Moves(t) \/ Die) /\ setting' = setting
      BY <1>2, <1>5, TaskStepFacts DEF Accounts
    <2>2. CASE Moves(t)
      <3>1. task[t].pc # "idle"
        BY <1>5 DEF TaskStep, MapGroup, MapRaises, Choose, Refuse, Publish, PublishFails,
           Ack, AckFails, Reject, RejectFails
      <3>2. mode # "down"
        BY <1>1, <3>1 DEF StrandInv, Idle
      <3>3. mode' = mode /\ buffer' = buffer /\ \A x \in Task : x # t => task'[x] = task[x]
        BY <1>2, <2>2 DEF Moves
      <3>4. ~setting.llm => buffer' = <<>> /\ \A x \in Task : Plain(task'[x])
        BY <1>1, <1>2, <1>5, <3>3, PlainStays DEF StrandInv
      <3>5. QED
        BY <1>5, <2>1, <3>2, <3>3, <3>4 DEF StrandInv
    <2>3. QED
      BY <1>4, <2>1, <2>2
  <1>6. ASSUME NEW t \in Task, TaskStep(t) PROVE StrandInv'
    BY <1>1, <1>5, <1>6, TaskStrands
  <1>7. ASSUME NEW m \in Msg, Receive(m) PROVE StrandInv'
    BY <1>1, <1>7, ReceiveStrands
  <1>8. ASSUME NEW t \in Timers, TimerFires(t) PROVE StrandInv'
    <2> DEFINE trigger == "timeout"
    <2>1. /\ t \in Task /\ trigger \in {"size", "timeout", "shutdown"}
          /\ task' = [task EXCEPT ![t] = StartBatch(buffer, trigger)]
          /\ buffer' = <<>> /\ UNCHANGED <<where, epoch, setting>> /\ mode' = mode
          /\ buffer # <<>> /\ task[t].pc = "idle"
      BY <1>8 DEF TimerFires, broker, Task
    <2>2. mode # "down"
      BY <1>1, <2>1 DEF StrandInv
    <2> HIDE DEF trigger
    <2>3. QED
      BY <1>1, <2>1, <2>2, FlushStrands
  <1>9. CASE Stop
    <2> DEFINE trigger == "shutdown"
    <2>1. /\ Main \in Task /\ trigger \in {"size", "timeout", "shutdown"}
          /\ task' = [task EXCEPT ![Main] = StartBatch(buffer, trigger)]
          /\ buffer' = <<>> /\ UNCHANGED <<where, epoch, setting>> /\ mode' = "draining"
      BY <1>9 DEF Stop, broker, Task
    <2> HIDE DEF trigger
    <2>2. QED
      BY <1>1, <2>1, FlushStrands
  <1>10. CASE CloseChannel
    BY <1>1, <1>10 DEF CloseChannel, StrandInv
  <1>11. CASE Exit \/ Crash
    BY <1>4, <1>11 DEF Exit, Crash
  <1>12. ~ConnectionLost
    BY <1>2 DEF ConnectionLost, Fault, Benign
  <1>13. CASE Restart
    <2>1. /\ mode = "down" /\ mode' = "up"
          /\ UNCHANGED <<where, epoch, setting, buffer, task>>
      BY <1>13 DEF Restart, broker
    <2>2. Range(<<>>) = {} /\ HeldBy(Idle) = <<>>
      BY EmptyFacts, IdleShaped
    <2>3. Unacked = {} /\ \A d : d \notin Held
      BY <1>1, <2>1, <2>2, OwnersApart DEF StrandInv
    <2>4. Unacked' = {} /\ Held' = {}
      BY <2>1, <2>3 DEF Unacked, Held
    <2>5. Held' = {Delivered(m)' : m \in Unacked'}
      BY <2>4
    <2>6. QED
      BY <1>1, <2>1, <2>5 DEF StrandInv
  <1>14. CASE UNCHANGED vars
    BY <1>1, <1>14 DEF vars, broker, StrandInv, Held, Unacked, Delivered
  <1>15. QED
    BY <1>1, <1>6, <1>7, <1>8, <1>9, <1>10, <1>11, <1>12, <1>13, <1>14 DEF Next

\* Nothing is stranded: of every message the broker waits for, somebody in the
\* process still has the delivery to settle.  A timer that flushes beside the
\* handler, a shutdown, a crash, an answer of the wrong length and a rejection
\* that is not published do not change that.  The hypothesis leaves out what
\* does: a body that is no object, a connection reopened under the process, and
\* a mapped batch that cannot be forwarded.
THEOREM NobodyIsStranded ==
  ASSUME Benign
  PROVE  Spec => []NothingStranded
  <1>1. StrandInv => NothingStranded
    BY DEF StrandInv, NothingStranded, Delivered
  <1>2. Spec => []StrandInv
    BY OwnerAlways, StrandInit, StrandStep, PTL DEF Spec
  <1>3. QED
    BY <1>1, <1>2, PTL

-----------------------------------------------------------------------------
(* The contract.  What is owed of a message is one channel more by its     *)
(* delivery and one less by its publication; no other step adds to it.     *)

LEMMA UnsentFacts ==
  ASSUME OwnerInv, NEW d \in Unsent
  PROVE  d \in Delivery /\ d.epoch \in 0..epoch
  <1>1. Range(buffer) \subseteq Delivery /\ Range(buffer) \subseteq Held
    BY RangeType, OwnersApart DEF OwnerInv, ShapeInv, TypeOK
  <1>2. \A x \in Task : /\ Open(task[x]) \subseteq Range(HeldBy(task[x]))
                         /\ Range(HeldBy(task[x])) \subseteq Delivery
    BY OpenFacts DEF OwnerInv, ShapeInv
  <1>3. d \in Held /\ d \in Delivery
    BY <1>1, <1>2, OwnersApart DEF Unsent
  <1>4. d.epoch <= epoch /\ d.epoch \in Nat /\ epoch \in Nat
    BY <1>3 DEF OwnerInv, HeldIsDelivered, ShapeInv, TypeOK, Delivery
  <1>5. QED
    BY <1>3, <1>4

LEMMA OwedFacts ==
  ASSUME OwnerInv, NEW m \in Msg
  PROVE  IsFiniteSet(Owed(m)) /\ Cardinality(Owed(m)) \in Nat /\ Owed(m) \subseteq Due(m)
  <1>1. Owed(m) \subseteq 0..epoch /\ epoch \in Nat
    BY UnsentFacts DEF Owed, OwnerInv, ShapeInv, TypeOK
  <1>2. ASSUME NEW e \in Owed(m) PROVE e \in Due(m)
    <2>1. PICK d \in Unsent : d.msg = m /\ d.epoch = e
      BY DEF Owed
    <2>2. d = [msg |-> m, epoch |-> e]
      BY <2>1, UnsentFacts DEF Delivery
    <2>3. QED
      BY <1>1, <2>1, <2>2 DEF Due
  <1>3. QED
    BY <1>1, <1>2, FiniteUpTo

OwedIsCounted ==
  \A m \in Msg : /\ IsFiniteSet(Owed(m)) /\ Cardinality(Owed(m)) \in Nat
                 /\ Owed(m) \subseteq Due(m)

LEMMA OwedNow == OwnerInv => OwedIsCounted
  BY OwedFacts DEF OwedIsCounted

LEMMA OwedNext == OwnerInv' => OwedIsCounted'
  BY OwedNow, PTL

LEMMA OwedPasses ==
  ASSUME OwnerInv, NEW t \in Task, NEW u, NEW b, NEW arrivals, Passes(t, u, b, arrivals),
         NEW m \in Msg
  PROVE  /\ Owed(m)' \subseteq Owed(m) \cup {epoch}
         /\ ~(where[m] = "ready" /\ where'[m] # "ready") => Owed(m)' \subseteq Owed(m)
  <1>1. /\ task'[t] = u /\ \A x \in Task : x # t => task'[x] = task[x]
        /\ buffer' = b
        /\ Open(u) \cup Range(b) \subseteq Open(task[t]) \cup Range(buffer) \cup arrivals
    BY DEF Passes, OwnerInv, ShapeInv, TypeOK
  <1>2. \A d \in arrivals : d.epoch = epoch /\ where[d.msg] = "ready" /\ where'[d.msg] # "ready"
    BY DEF Passes, New
  <1>3. Unsent' \subseteq Unsent \cup arrivals
    BY <1>1 DEF Unsent
  <1>4. QED
    BY <1>2, <1>3 DEF Owed

LEMMA OwedOnLoss ==
  ASSUME Loses, NEW m \in Msg
  PROVE  Owed(m)' \subseteq Owed(m) /\ (Die => Owed(m)' = {})
  <1>1. Die => Unsent' = {}
    <2>1. Range(<<>>) = {} /\ Open(Idle) = {}
      BY EmptyFacts, IdleShaped, IdleFollows
    <2>2. QED
      BY <2>1 DEF Die, Unsent
  <1>2. Unsent' \subseteq Unsent
    BY <1>1 DEF Loses, Unsent
  <1>3. QED
    BY <1>1, <1>2 DEF Owed

\* what is due in the contract
Dues == [m \in Msg |-> Cardinality(Owed(m))]

LEMMA FewerOwed ==
  ASSUME OwnerInv, OwnerInv', NEW m \in Msg, Owed(m)' \subseteq Owed(m)
  PROVE  Cardinality(Owed(m)') <= Cardinality(Owed(m))
  BY OwedFacts, FS_Subset

LEMMA NoMoreOwed ==
  ASSUME OwnerInv, OwnerInv', \A m \in Msg : Owed(m)' \subseteq Owed(m)
  PROVE  Contract!AtMost(Dues)
  <1>1. \A m \in Msg : Cardinality(Owed(m)') \in Nat
    BY OwedNext DEF OwedIsCounted
  <1>2. \A m \in Msg : Cardinality(Owed(m)') <= Cardinality(Owed(m))
    BY FewerOwed
  <1>3. QED
    BY <1>1, <1>2 DEF Dues, Contract!AtMost

\* A step that is nobody's publication, delivery or verdict.
LEMMA GiveUpMaps ==
  ASSUME OwnerInv, OwnerInv', \A m \in Msg : Owed(m)' \subseteq Owed(m),
         where' = where \/ LoseChannel, UNCHANGED <<sent, refused>>
  PROVE  Contract!Next
  <1>1. Contract!AtMost(Dues)
    BY NoMoreOwed
  <1>2. Contract!GiveUp
    BY <1>1 DEF Dues, LoseChannel, Contract!GiveUp, Contract!Requeued
  <1>3. QED
    BY <1>2 DEF Contract!Next

\* A message is taken off the queue by the step that delivers it.
LEMMA DeliveryMaps ==
  ASSUME OwnerInv, OwnerInv', NEW m \in Msg, bodyOf[m] # "text",
         where[m] = "ready", where' = [where EXCEPT ![m] = "unacked"],
         UNCHANGED <<sent, refused>>,
         \E t \in Task : \E u, b, arrivals : Passes(t, u, b, arrivals)
  PROVE  Contract!Next
  <1>1. \A n \in Msg : /\ Owed(n)' \subseteq Owed(n) \cup {epoch}
                       /\ n # m => Owed(n)' \subseteq Owed(n)
    BY OwedPasses DEF OwnerInv, ShapeInv, TypeOK
  <1>2. \A n \in Msg : Cardinality(Owed(n)') \in Nat /\ IsFiniteSet(Owed(n)')
    BY OwedNext DEF OwedIsCounted
  <1>3. \A n \in Msg : n # m => Cardinality(Owed(n)') <= Cardinality(Owed(n))
    BY <1>1, FewerOwed
  <1>4. Cardinality(Owed(m)') <= Cardinality(Owed(m)) + 1
    <2> DEFINE S == Owed(m)
               T == Owed(m)'
    <2>1. IsFiniteSet(S) /\ Cardinality(S) \in Nat /\ T \subseteq S \cup {epoch}
          /\ Cardinality(T) \in Nat
      BY <1>1, <1>2, OwedFacts
    <2> HIDE DEF S, T
    <2>2. /\ IsFiniteSet(S \cup {epoch}) /\ Cardinality(S \cup {epoch}) \in Nat
          /\ Cardinality(S \cup {epoch}) <= Cardinality(S) + 1
      BY <2>1, OneMore
    <2>3. Cardinality(T) <= Cardinality(S \cup {epoch})
      BY <2>1, <2>2, FS_Subset
    <2>4. Cardinality(T) <= Cardinality(S) + 1
      BY <2>1, <2>2, <2>3
    <2>5. QED
      BY <2>4 DEF S, T
  <1>5. Contract!AtMost([Dues EXCEPT ![m] = @ + 1])
    BY <1>2, <1>3, <1>4 DEF Dues, Contract!AtMost
  <1>6. Contract!Deliver(m)
    BY <1>5 DEF Dues, Contract!Deliver
  <1>7. QED
    BY <1>6 DEF Contract!Next

LEMMA ReceiptMaps ==
  ASSUME OwnerInv, OwnerInv', NEW m \in Msg, Receive(m)
  PROVE  Contract!Next
  <1>1. where[m] = "ready" /\ UNCHANGED <<sent, refused>>
    BY DEF Receive, RejectText, ForgetScalar, HandleMessage, EnqueueAndWait,
       EnqueueAndProcess, Deliverable, exchanges
  <1>2. CASE RejectText(m)
    <2>1. /\ bodyOf[m] = "text" /\ where' = [where EXCEPT ![m] = "dead"]
          /\ UNCHANGED <<epoch, buffer, task>>
      BY <1>2 DEF RejectText
    <2>2. \A n \in Msg : Owed(n)' \subseteq Owed(n)
      BY <2>1 DEF Owed, Unsent
    <2>3. Contract!DeadLetter(m)
      BY <1>1, <2>1, <2>2, NoMoreOwed DEF Dues, Contract!DeadLetter
    <2>4. QED
      BY <2>3 DEF Contract!Next
  <1>3. CASE ~RejectText(m)
    <2>1. bodyOf[m] # "text" /\ where' = [where EXCEPT ![m] = "unacked"]
      BY <1>3 DEF Receive, ForgetScalar, HandleMessage, EnqueueAndWait, EnqueueAndProcess,
         IsObject
    <2>2. \E t \in Task : \E u, b, arrivals : Passes(t, u, b, arrivals)
      <3>1. CASE ForgetScalar(m)
        <4>1. UNCHANGED <<epoch, mode, buffer, timer, task>>
          BY <3>1 DEF ForgetScalar
        <4>2. /\ where' \in [Msg -> {"ready", "unacked", "acked", "dead"}]
              /\ \A n \in Msg : where'[n] = "ready" => where[n] = "ready"
              /\ mode' \in {"up", "draining", "closed", "down"}
          BY <2>1, <4>1 DEF OwnerInv, ShapeInv, TypeOK
        <4>3. QED
          BY <4>1, <4>2, QueueOnly DEF OwnerInv
      <3>2. QED
        BY <1>3, <3>1, HandleMessageFacts, EnqueueAndWaitFacts, EnqueueAndProcessFacts
           DEF Receive, OwnerInv
    <2>3. QED
      BY <1>1, <2>1, <2>2, DeliveryMaps
  <1>4. QED
    BY <1>2, <1>3

\* timers, shutdown, losses
LEMMA LifeMaps ==
  ASSUME OwnerInv, OwnerInv',
         \/ \E t \in Timers : TimerFires(t)
         \/ Stop \/ CloseChannel \/ Exit \/ Crash \/ ConnectionLost \/ Restart
  PROVE  Contract!Next
  <1>1. Quiet /\ (Loses \/ \E t \in Task : \E u, b, arrivals : Passes(t, u, b, arrivals))
    BY OtherFacts DEF Other, OwnerInv
  <1>2. where' = where \/ LoseChannel
    BY DEF TimerFires, Stop, CloseChannel, Exit, Crash, ConnectionLost, Restart, Die, broker
  <1>3. UNCHANGED <<sent, refused>>
    BY <1>1 DEF Quiet
  <1>4. CASE Loses
    BY <1>2, <1>3, <1>4, OwedOnLoss, GiveUpMaps
  <1>5. ASSUME NEW t \in Task, NEW u, NEW b, NEW arrivals, Passes(t, u, b, arrivals)
        PROVE  Contract!Next
    <2>1. epoch' = epoch /\ epoch \in Nat
      BY <1>5 DEF Passes, OwnerInv, ShapeInv, TypeOK
    <2>2. where' = where
      BY <1>2, <2>1 DEF LoseChannel
    <2>3. \A m \in Msg : Owed(m)' \subseteq Owed(m)
      BY <1>5, <2>2, OwedPasses
    <2>4. QED
      BY <1>3, <2>2, <2>3, GiveUpMaps
  <1>6. QED
    BY <1>1, <1>4, <1>5

\* a task that moves on leaves less owed; one that publishes has something to publish
LEMMA OwedMoves ==
  ASSUME OwnerInv, NEW t \in Task, Moves(t), NEW m \in Msg
  PROVE  Owed(m)' \subseteq Owed(m)
  <1>1. PICK u : Passes(t, u, buffer, {})
    BY MovesPass DEF OwnerInv
  <1>2. ~(where[m] = "ready" /\ where'[m] # "ready")
    BY DEF Moves, SameQueue
  <1>3. QED
    BY <1>1, <1>2, OwedPasses

LEMMA CurrentIsOwed ==
  ASSUME OwnerInv, NEW t \in Task, task[t].pc \in {"station", "refuse"}
  PROVE  /\ Current(t).msg \in Msg /\ Current(t).epoch \in Owed(Current(t).msg)
         /\ Cardinality(Owed(Current(t).msg)) > 0
  <1>1. Shaped(task[t]) /\ Current(t) = task[t].group[1]
    BY DEF OwnerInv, ShapeInv, Current
  <1>2. Current(t) \in Delivery /\ Current(t) \in Range(HeldBy(task[t]))
    BY <1>1, OpenFacts
  <1>3. Current(t) \in Unsent
    BY <1>2 DEF Open, Unsent
  <1>4. PICK m : m = Current(t).msg
    OBVIOUS
  <1>5. m \in Msg /\ Current(t).epoch \in Owed(m)
    BY <1>2, <1>3, <1>4 DEF Delivery, Owed
  <1>6. Cardinality(Owed(m)) \in Nat /\ Cardinality(Owed(m)) # 0
    BY <1>5, OwedFacts, FS_EmptySet
  <1>7. QED
    BY <1>4, <1>5, <1>6

\* What a task publishes under a message's id is that message's station.
LEMMA OwnStation ==
  ASSUME IdentityInv, NEW t \in Task, task[t].pc = "station", NEW m, m = Current(t).msg
  PROVE  StationSent(t) = [sent EXCEPT ![m] = Append(@, m)]
  <1>1. PICK x \in Msg : /\ StationSent(t) = [sent EXCEPT ![m] = Append(sent[m], x)]
                         /\ x = IF task[t].how = "zip" THEN task[t].stations[1] ELSE m
    BY StationSentFacts DEF IdentityInv
  <1>2. m = task[t].group[1].msg
    BY DEF Current
  <1>3. 1 \in DOMAIN task[t].group
    <2>1. task[t].group \in Seq(Delivery) /\ task[t].group # <<>>
      BY DEF IdentityInv, ShapeInv, Shaped, TaskState
    <2>2. QED
      BY <2>1
  <1>4. x = m
    BY <1>1, <1>2, <1>3 DEF IdentityInv, Zipped
  <1>5. QED
    BY <1>1, <1>4

\* A publication uses up what it was owed, whether the task goes on or the process ends.
LEMMA PublicationMaps ==
  ASSUME OwnerInv, OwnerInv', IdentityInv, NEW t \in Task, task[t].pc = "station",
         Moves(t) \/ Die, Accounts(t), sent' = StationSent(t),
         where' = where \/ LoseChannel, UNCHANGED refused
  PROVE  Contract!Next
  <1>1. PICK m : m = Current(t).msg
    OBVIOUS
  <1>2. m \in Msg /\ Current(t).epoch \in Owed(m) /\ Cardinality(Owed(m)) > 0
    BY <1>1, CurrentIsOwed
  <1>3. sent' = [sent EXCEPT ![m] = Append(@, m)]
    BY <1>1, OwnStation
  <1>4. sent' # sent
    <2>1. sent \in [Msg -> Seq(Msg)] /\ sent[m] \in Seq(Msg)
      BY <1>2 DEF OwnerInv, ShapeInv, TypeOK
    <2>2. Append(sent[m], m) # sent[m]
      BY <1>2, <2>1
    <2>3. sent'[m] = Append(sent[m], m)
      BY <1>2, <1>3, <2>1
    <2>4. QED
      BY <2>2, <2>3
  <1>5. \A n \in Msg : Owed(n)' \subseteq Owed(n)
    BY OwedMoves, OwedOnLoss DEF Loses
  <1>6. Current(t).epoch \notin Owed(m)'
    <2>1. CASE Die
      BY <1>2, <2>1, OwedOnLoss DEF Loses
    <2>2. CASE Moves(t)
      <3>1. PICK d, e : d = Current(t) /\ e = d.epoch
        OBVIOUS
      <3>2. e \notin Due(m)'
        BY <1>1, <1>4, <2>2, <3>1, PublishedIsNotDue
      <3>3. Owed(m)' \subseteq Due(m)'
        BY <1>2, OwedNext DEF OwedIsCounted
      <3>4. QED
        BY <3>1, <3>2, <3>3
    <2>3. QED
      BY <2>1, <2>2
  <1>7. Cardinality(Owed(m)') + 1 <= Cardinality(Owed(m))
    BY <1>2, <1>5, <1>6, OwedFacts, OneLess
  <1>8. \A n \in Msg : /\ Cardinality(Owed(n)') \in Nat /\ Cardinality(Owed(n)) \in Nat
                       /\ Cardinality(Owed(n)') <= Cardinality(Owed(n))
    BY <1>5, OwedFacts, OwedNext, FewerOwed DEF OwedIsCounted
  <1>9. Contract!AtMost([Dues EXCEPT ![m] = @ - 1])
    BY <1>2, <1>7, <1>8 DEF Dues, Contract!AtMost
  <1>10. Contract!Forward(m)
    BY <1>2, <1>3, <1>9 DEF Dues, LoseChannel, Contract!Forward, Contract!Requeued
  <1>11. QED
    BY <1>2, <1>10 DEF Contract!Next

LEMMA RefusalMaps ==
  ASSUME OwnerInv, OwnerInv', NEW t \in Task, Refuse(t)
  PROVE  Contract!Next
  <1>1. PICK m : m = Current(t).msg
    OBVIOUS
  <1>2. /\ task[t].pc = "refuse" /\ where' = where /\ sent' = sent
        /\ refused' = [refused EXCEPT ![m] = TRUE] \/ refused' = refused
    BY <1>1 DEF Refuse, broker
  <1>3. m \in Msg /\ Cardinality(Owed(m)) > 0
    BY <1>1, <1>2, CurrentIsOwed
  <1>4. \A n \in Msg : Owed(n)' \subseteq Owed(n)
    BY RefuseFacts, OwedMoves DEF OwnerInv
  <1>5. CASE refused' = [refused EXCEPT ![m] = TRUE]
    <2>1. Contract!Refuse(m)
      BY <1>2, <1>3, <1>4, <1>5, NoMoreOwed DEF Dues, Contract!Refuse
    <2>2. QED
      BY <1>3, <2>1 DEF Contract!Next
  <1>6. CASE refused' = refused
    BY <1>2, <1>4, <1>6, GiveUpMaps
  <1>7. QED
    BY <1>2, <1>5, <1>6

\* A verdict on an unsettled message, which has left its trace when it is acknowledged.
LEMMA VerdictMaps ==
  ASSUME OwnerInv, OwnerInv', TraceInv, NEW t \in Task, Ack(t) \/ Reject(t)
  PROVE  Contract!Next
  <1>1. PICK m : m = Current(t).msg
    OBVIOUS
  <1>2. /\ where[m] = "unacked" /\ mode # "closed" /\ UNCHANGED <<sent, refused>>
        /\ task[t].pc \in {"ack", "reject"}
    BY <1>1 DEF Ack, Reject, Settle, Settleable, ChannelOpen, exchanges
  <1>3. m \in Msg
    BY <1>1, <1>2, CurrentFacts DEF TraceInv
  <1>4. \A n \in Msg : Owed(n)' \subseteq Owed(n)
    BY SettleFacts, OwedMoves DEF Ack, Reject, OwnerInv
  <1>5. CASE Ack(t)
    <2>1. where' = [where EXCEPT ![m] = "acked"] /\ task[t].pc = "ack"
      BY <1>1, <1>5 DEF Ack, Settle
    <2>2. sent[m] # <<>> \/ refused[m]
      BY <1>1, <1>2, <2>1 DEF TraceInv, AckKnown, Traced, Current
    <2>3. Contract!Acknowledge(m)
      BY <1>2, <1>4, <2>1, <2>2, NoMoreOwed DEF Dues, Contract!Acknowledge
    <2>4. QED
      BY <1>3, <2>3 DEF Contract!Next
  <1>6. CASE Reject(t)
    <2>1. where' = [where EXCEPT ![m] = "dead"]
      BY <1>1, <1>6 DEF Reject, Settle
    <2>2. Contract!DeadLetter(m)
      BY <1>2, <1>4, <2>1, NoMoreOwed DEF Dues, Contract!DeadLetter
    <2>3. QED
      BY <1>3, <2>2 DEF Contract!Next
  <1>7. QED
    BY <1>5, <1>6

LEMMA TaskMaps ==
  ASSUME OwnerInv, OwnerInv', TraceInv, IdentityInv, NEW t \in Task, TaskStep(t)
  PROVE  Contract!Next
  <1>1. (Moves(t) \/ Die) /\ Accounts(t)
    BY TaskStepFacts DEF OwnerInv
  <1>2. CASE Publish(t) \/ PublishFails(t)
    <2>1. where' = where \/ LoseChannel
      BY <1>2 DEF Publish, PublishFails, Abandon, Die, broker
    <2>2. /\ task[t].pc = "station" /\ UNCHANGED refused
          /\ sent' = StationSent(t) \/ sent' = sent
      BY <1>2 DEF Publish, PublishFails
    <2>3. \A m \in Msg : Owed(m)' \subseteq Owed(m)
      BY <1>1, OwedMoves, OwedOnLoss DEF Loses
    <2>4. QED
      BY <1>1, <2>1, <2>2, <2>3, PublicationMaps, GiveUpMaps
  <1>3. CASE MapGroup(t) \/ MapRaises(t) \/ Choose(t) \/ AckFails(t) \/ RejectFails(t)
    <2>1. where' = where \/ LoseChannel
      BY <1>3 DEF MapGroup, MapRaises, Choose, AckFails, RejectFails, Abandon, Die, broker
    <2>2. UNCHANGED <<sent, refused>>
      BY <1>3 DEF MapGroup, MapRaises, Choose, AckFails, RejectFails, exchanges
    <2>3. \A m \in Msg : Owed(m)' \subseteq Owed(m)
      BY <1>1, OwedMoves, OwedOnLoss DEF Loses
    <2>4. QED
      BY <2>1, <2>2, <2>3, GiveUpMaps
  <1>4. QED
    BY <1>2, <1>3, RefusalMaps, VerdictMaps DEF TaskStep

LEMMA StepMaps ==
  ASSUME OwnerInv, OwnerInv', TraceInv, IdentityInv, [Next]_vars
  PROVE  [Contract!Next]_(Contract!vars)
  <1>1. CASE Next
    BY <1>1, ReceiptMaps, LifeMaps, TaskMaps DEF Next
  <1>2. CASE UNCHANGED vars
    <2>1. UNCHANGED <<where, epoch, buffer, task, sent, refused>>
      BY <1>2 DEF vars, broker, exchanges
    <2>2. \A m \in Msg : Owed(m)' = Owed(m)
      BY <2>1 DEF Owed, Unsent
    <2>3. QED
      BY <2>1, <2>2 DEF Contract!vars
  <1>3. QED
    BY <1>1, <1>2

LEMMA InitMaps == Init => Contract!Init
  <1>1. SUFFICES ASSUME Init PROVE Contract!Init
    OBVIOUS
  <1>2. Unsent = {}
    <2>1. Range(<<>>) = {} /\ Open(Idle) = {}
      BY EmptyFacts, IdleShaped, IdleFollows
    <2>2. QED
      BY <1>1, <2>1 DEF Init, Unsent
  <1>3. \A m \in Msg : Cardinality(Owed(m)) = 0
    <2>1. \A m \in Msg : Owed(m) = {}
      BY <1>2 DEF Owed
    <2>2. QED
      BY <2>1, FS_EmptySet
  <1>4. QED
    BY <1>1, <1>3 DEF Init, Contract!Init

\* The normalizer implements ForwardContract in both modes, for any number of messages,
\* sources, timers, crashes and lost channels: a station under its own id, at most once
\* for each delivery, no acknowledgement without a trace, no settled message taken up
\* again.  As for AckedIsTraced and StationsKeepTheirId, rejected_data takes what is
\* published and answers keep the order of their batch.
THEOREM ImplementsForwarding ==
  ASSUME \A s \in Settings : s.faults \cap {"refusal", "answer"} = {}
  PROVE  Spec => KeepsContract
  <1>1. /\ \A s \in Settings : "refusal" \notin s.faults
        /\ \A s \in Settings : "answer" \notin s.faults
    OBVIOUS
  <1>2. TraceInv /\ [Next]_vars => TraceInv'
    BY <1>1, TraceStep
  <1>3. IdentityInv /\ [Next]_vars => IdentityInv'
    BY <1>1, IdentityStep
  <1>4. OwnerInv /\ OwnerInv' /\ TraceInv /\ IdentityInv /\ [Next]_vars
        => [Contract!Next]_(Contract!vars)
    BY StepMaps
  <1>5. QED
    BY <1>2, <1>3, <1>4, OwnerAlways, TraceInit, IdentityInit, InitMaps, PTL
       DEF Spec, KeepsContract, Contract!Spec

=============================================================================
