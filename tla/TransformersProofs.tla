-------------------------- MODULE TransformersProofs --------------------------
(***************************************************************************)
(* Theorems about Transformers, for every message and source, any tables   *)
(* of upper case, of phone numbers and of similarities, and any            *)
(* thresholds.                                                             *)
(***************************************************************************)
EXTENDS Transformers, SelectionLemmas

LEMMA LeastFacts ==
  ASSUME NEW n \in Nat, NEW S \in SUBSET (1..n), S # {}
  PROVE  /\ Min(S) \in S
         /\ \A i \in S : Min(S) <= i
  BY LeastPlace DEF Min

-----------------------------------------------------------------------------
(* What an item can be found to be.                                        *)

Items == DOMAIN job.items
Low == "fuzzy_low_confidence"

LEMMA ReasonFacts ==
  ASSUME NEW s
  PROVE  /\ Reason(s) \in (Verdicts \ Duplicate) \cup {"none"}
         /\ Reason(s) = "none" <=> Broken(s) = {}
  <1>1. Broken(s) \subseteq 1..5
    BY DEF Broken, Checks
  <1>2. Broken(s) # {} => Min(Broken(s)) \in 1..5
    BY <1>1, LeastFacts
  <1>3. \A k \in 1..5 : Checks(s)[k].reason \in (Verdicts \ Duplicate) \ {"none"}
    BY DEF Checks, Verdicts, Duplicate
  <1>4. QED
    BY <1>2, <1>3 DEF Reason

\* What the loop that judges passes over.
PassedOver(i) == IF job.mode = "fuzzy" THEN job.items[i] = Junk ELSE Untold(i)

LEMMA ReasonsFacts ==
  ASSUME job \in Jobs, NEW i \in Items
  PROVE  /\ reasons[i] \in (Verdicts \ Duplicate) \cup {"none", "skipped"}
         /\ reasons[i] = "skipped" <=> PassedOver(i)
  <1>1. job.mode \in {"rules", "fuzzy"}
    BY TransformersAssumption DEF Job
  <1>2. \A source, text, single, item :
          LET reason == RulesReason(source, text, single, item)
          IN  /\ reason \in (Verdicts \ Duplicate) \cup {"none", "skipped"}
              /\ reason = "skipped" <=> item # Junk /\ single /\ ~IsStation(source, item)
    BY ReasonFacts DEF RulesReason, Verdicts, Duplicate
  <1>3. \A text, item :
          /\ FuzzyReason(text, item) \in (Verdicts \ Duplicate) \cup {"none", "skipped"}
          /\ FuzzyReason(text, item) = "skipped" <=> item = Junk
    BY ReasonFacts DEF FuzzyReason, Verdicts, Duplicate
  <1>4. job.single => job.items[i] # Junk
    BY TransformersAssumption DEF Job, Items
  <1>5. CASE job.mode = "rules"
    BY <1>2, <1>4, <1>5 DEF reasons, ReasonIn, Items, PassedOver, Untold
  <1>6. CASE job.mode = "fuzzy"
    BY <1>3, <1>6 DEF reasons, ReasonIn, Items, PassedOver
  <1>7. QED
    BY <1>1, <1>5, <1>6

-----------------------------------------------------------------------------
(* Sequences that ascend.                                                  *)

Ascending(s) == \A k, l \in DOMAIN s : k < l => s[k] < s[l]

LEMMA AscendingFacts ==
  ASSUME NEW T \in SUBSET Nat, NEW s \in Seq(T), Ascending(s)
  PROVE  IsInjective(s)
  <1> SUFFICES ASSUME NEW k \in DOMAIN s, NEW l \in DOMAIN s, s[k] = s[l] PROVE k = l
    BY DEF IsInjective
  <1>1. k \in Int /\ l \in Int /\ s[k] \in T /\ s[l] \in T
    OBVIOUS
  <1>2. s[k] \in Nat /\ s[l] \in Nat
    BY <1>1
  <1>3. ~(s[k] < s[l]) /\ ~(s[l] < s[k])
    BY <1>2
  <1>4. QED
    BY <1>1, <1>3 DEF Ascending

LEMMA AscendingTail ==
  ASSUME NEW T \in SUBSET Nat, NEW s \in Seq(T), s # <<>>, Ascending(s)
  PROVE  /\ Ascending(Tail(s))
         /\ \A b \in Range(Tail(s)) : s[1] < b
  <1>1. /\ Len(s) \in Nat /\ Len(s) >= 1 /\ DOMAIN s = 1..Len(s)
        /\ DOMAIN Tail(s) = 1..(Len(s) - 1)
        /\ \A k \in 1..(Len(s) - 1) : Tail(s)[k] = s[k + 1]
    OBVIOUS
  <1>2. QED
    BY <1>1 DEF Ascending, Range

LEMMA AscendingAppend ==
  ASSUME NEW T \in SUBSET Nat, NEW s \in Seq(T), Ascending(s), NEW d \in T,
         \A a \in Range(s) : a < d
  PROVE  Ascending(Append(s, d))
  <1>1. /\ Len(s) \in Nat /\ DOMAIN s = 1..Len(s)
        /\ DOMAIN Append(s, d) = 1..(Len(s) + 1)
        /\ \A k \in 1..Len(s) : Append(s, d)[k] = s[k]
        /\ Append(s, d)[Len(s) + 1] = d
    OBVIOUS
  <1>2. \A k \in 1..Len(s) : s[k] \in Range(s)
    BY <1>1 DEF Range
  <1>3. QED
    BY <1>1, <1>2 DEF Ascending

\* How often an element is met in a sequence that has nothing twice.
LEMMA OnceFacts ==
  ASSUME NEW T, NEW s \in Seq(T), IsInjective(s), NEW P, NEW S, S = {k \in DOMAIN s : s[k] \in P}
  PROVE  /\ Range(s) \cap P = {} => Cardinality(S) = 0
         /\ \A d : Range(s) \cap P = {d} => Cardinality(S) = 1
  <1>1. ASSUME Range(s) \cap P = {} PROVE Cardinality(S) = 0
    <2>1. S = {}
      BY <1>1 DEF Range
    <2>2. QED
      BY <2>1, FS_EmptySet
  <1>2. ASSUME NEW d, Range(s) \cap P = {d} PROVE Cardinality(S) = 1
    <2>1. PICK k \in DOMAIN s : s[k] = d
      BY <1>2 DEF Range
    <2>2. \A l \in S : s[l] = d
      BY <1>2 DEF Range
    <2>3. S = {k}
      BY <1>2, <2>1, <2>2 DEF IsInjective
    <2>4. QED
      BY <2>3, FS_Singleton
  <1>3. QED
    BY <1>1, <1>2

-----------------------------------------------------------------------------
(* Every item is accounted for.                                            *)

TransformSpec == Init /\ [][Transform]_vars

\* A record of reason r about the item at i.
Record(i, r) == [at |-> i, reason |-> r]
Has(i, r) == Record(i, r) \in Range(rejected)

Line == Range(out) \cup Range(todo)

\* The places kept and those still to be looked at ascend, the ones before the others.
LineInv ==
  /\ job \in Jobs
  /\ phase \in {"items", "within", "contacts", "done"}
  /\ todo \in Seq(Items) /\ out \in Seq(Items)
  /\ Ascending(todo) /\ Ascending(out)
  /\ \A a \in Range(out), b \in Range(todo) : a < b
  /\ \A a \in Range(out) : reasons[a] = "none"
  /\ phase # "items" => \A a \in Range(todo) : reasons[a] = "none"

\* One verdict about each item that has left the line, unless it was passed over, and
\* none about an item in the line; at most one remark about any.
RecordInv ==
  /\ rejected \in Seq([at : Items, reason : Verdicts \cup {Low}])
  /\ IsInjective(rejected)
  /\ \A i \in Items : \A r, q \in Verdicts : Has(i, r) /\ Has(i, q) => r = q
  /\ \A i \in Line : \A r \in Verdicts : ~Has(i, r)
  /\ \A i \in Items \ Line : reasons[i] = "skipped" \/ \E r \in Verdicts : Has(i, r)
  /\ \A i \in Items : \A r \in Verdicts : Has(i, r) => reasons[i] # "skipped"
  /\ phase = "items" => \A i \in Range(todo) : ~Has(i, Low)

AccountInv == LineInv /\ RecordInv

LEMMA SequenceFacts ==
  ASSUME NEW s, IsSequence(s)
  PROVE  /\ Len(s) \in Nat /\ DOMAIN s = 1..Len(s)
         /\ Len(s) = 0 => s = <<>>
  <1> DEFINE n == Len(s)
  <1>1. n \in Nat /\ s = [k \in 1..n |-> s[k]]
    BY DEF IsSequence
  <1> HIDE DEF n
  <1>2. DOMAIN s = 1..n
    BY <1>1
  <1>3. n = 0 => s = <<>>
    BY <1>1
  <1>4. QED
    BY <1>1, <1>2, <1>3 DEF n

LEMMA JobFacts ==
  ASSUME job \in Jobs
  PROVE  /\ Items \in SUBSET Nat
         /\ Items = 1..Len(job.items) /\ Len(job.items) \in Nat
         /\ job.mode \in {"rules", "fuzzy"}
  <1>1. IsSequence(job.items) /\ job.mode \in {"rules", "fuzzy"}
    BY TransformersAssumption DEF Job
  <1>2. QED
    BY <1>1, SequenceFacts DEF Items

LEMMA JobStays ==
  ASSUME job' = job
  PROVE  Items' = Items /\ reasons' = reasons /\ \A i \in Items : Station(i)' = Station(i)
  BY DEF Items, reasons, ReasonIn, Station

\* What looking at the first of the line does to the line.
LEMMA LookFacts ==
  ASSUME LineInv, todo # <<>>, NEW i, i = Head(todo),
         todo' = Tail(todo), UNCHANGED <<job, phase>>,
         out' = out \/ (out' = Append(out, i) /\ reasons[i] = "none")
  PROVE  /\ LineInv'
         /\ i \in Items
         /\ Range(todo) = {i} \cup Range(todo')
         /\ i \notin Range(todo') /\ i \notin Range(out)
         /\ \A a \in Range(out) : a < i
         /\ \A b \in Range(todo') : i < b
         /\ Range(out') = IF out' = out THEN Range(out) ELSE Range(out) \cup {i}
         /\ out' = Append(out, i) => Range(out') = Range(out) \cup {i}
  <1>1. Items \in SUBSET Nat /\ Items' = Items /\ reasons' = reasons
    BY JobFacts, JobStays DEF LineInv
  <1>2. todo \in Seq(Items) /\ out \in Seq(Items) /\ Ascending(todo) /\ Ascending(out)
    BY DEF LineInv
  <1>3. /\ i \in Items /\ i = todo[1]
        /\ todo' \in Seq(Items)
        /\ Range(todo) = {i} \cup Range(todo')
        /\ Ascending(todo') /\ \A b \in Range(todo') : i < b
    <2>1. /\ todo[1] \in Items /\ Head(todo) = todo[1] /\ Tail(todo) \in Seq(Items)
          /\ Range(todo) = {todo[1]} \cup Range(Tail(todo))
      BY <1>2, TailFacts
    <2>2. Ascending(Tail(todo)) /\ \A b \in Range(Tail(todo)) : todo[1] < b
      BY <1>1, <1>2, AscendingTail
    <2>3. QED
      BY <2>1, <2>2
  <1>4. Range(out) \subseteq Items /\ Range(todo') \subseteq Items
    BY <1>2, <1>3, RangeType
  <1>5. \A a \in Range(out) : a < i
    BY <1>3 DEF LineInv
  <1>6. i \notin Range(todo') /\ i \notin Range(out)
    <2>1. i \in Nat /\ ~(i < i)
      BY <1>1, <1>3
    <2>2. QED
      BY <1>3, <1>5, <2>1
  <1>7. ASSUME out' = Append(out, i)
        PROVE  /\ out' \in Seq(Items) /\ Ascending(out') /\ Range(out') = Range(out) \cup {i}
               /\ out' # out
    <2>1. Append(out, i) \in Seq(Items) /\ Range(Append(out, i)) = Range(out) \cup {i}
      BY <1>2, <1>3, AppendFacts
    <2>2. Ascending(Append(out, i))
      BY <1>1, <1>2, <1>3, <1>5, AscendingAppend
    <2>3. QED
      BY <1>6, <1>7, <2>1, <2>2
  <1>8. Range(out') = IF out' = out THEN Range(out) ELSE Range(out) \cup {i}
    BY <1>7
  <1>9. LineInv'
    <2>1. out' \in Seq(Items) /\ Ascending(out')
      BY <1>2, <1>7
    <2>2. \A a \in Range(out'), b \in Range(todo') : a < b
      BY <1>3, <1>8 DEF LineInv
    <2>3. \A a \in Range(out') : reasons[a] = "none"
      BY <1>7 DEF LineInv
    <2>4. phase # "items" => \A a \in Range(todo') : reasons[a] = "none"
      BY <1>3 DEF LineInv
    <2>5. QED
      BY <1>1, <1>3, <2>1, <2>2, <2>3, <2>4 DEF LineInv
  <1>10. QED
    BY <1>3, <1>5, <1>6, <1>7, <1>8, <1>9

\* The next loop starts on what the last one kept.
LEMMA LoopFacts ==
  ASSUME LineInv, NextLoop
  PROVE  /\ LineInv'
         /\ Range(todo) = {}
         /\ Range(out') \cup Range(todo') = Range(out)
         /\ phase' # "items"
         /\ phase' = "done" => Range(out') = Range(out) /\ Range(todo') = {}
         /\ phase' # "done" => Range(todo') = Range(out) /\ Range(out') = {}
         /\ phase' = "within" => phase = "items"
         /\ phase' = "contacts" => phase = "within"
         /\ phase' = "done" => phase = "contacts" \/ (phase = "items" /\ job.single /\ job.mode = "rules")
         /\ phase' \in {"within", "contacts", "done"}
  <1>1. job' = job /\ Items' = Items /\ reasons' = reasons
    BY JobStays DEF NextLoop
  <1>2. todo = <<>> /\ phase' = PhaseAfter
    BY DEF NextLoop
  <1>3. \/ phase' = "within" /\ phase = "items"
        \/ phase' = "contacts" /\ phase = "within"
        \/ phase' = "done" /\ phase = "contacts"
        \/ phase' = "done" /\ phase = "items" /\ job.single /\ job.mode = "rules"
    <2>1. phase \in {"items", "within", "contacts"}
      BY DEF NextLoop, LineInv
    <2>2. QED
      BY <1>2, <2>1 DEF PhaseAfter
  <1>4. IF phase' = "done" THEN UNCHANGED <<todo, out>> ELSE todo' = out /\ out' = <<>>
    BY <1>2 DEF NextLoop
  <1>5. /\ Range(<<>>) = {} /\ <<>> \in Seq(Items) /\ Ascending(<<>>)
    BY EmptyFacts DEF Ascending
  <1>6. LineInv'
    BY <1>1, <1>2, <1>3, <1>4, <1>5 DEF LineInv
  <1>7. QED
    BY <1>2, <1>3, <1>4, <1>5, <1>6

LEMMA RecordFacts ==
  ASSUME NEW T, NEW U, NEW i \in T, NEW r \in U
  PROVE  /\ Record(i, r) \in [at : T, reason : U]
         /\ Record(i, r).at = i /\ Record(i, r).reason = r
         /\ \A k, q : Record(i, r) = Record(k, q) <=> i = k /\ r = q
  BY DEF Record

LEMMA LowFacts == Low \notin Verdicts
  BY DEF Low, Verdicts, Duplicate

\* A step that records nothing, and loses only what is passed over.
LEMMA NothingRecorded ==
  ASSUME AccountInv, job' = job, rejected' = rejected, Line' \subseteq Line,
         \A i \in Line \ Line' : reasons[i] = "skipped",
         phase' = "items" => phase = "items" /\ Range(todo') \subseteq Range(todo)
  PROVE  RecordInv'
  <1>1. Items' = Items /\ reasons' = reasons
    BY JobStays
  <1>2. \A i, r : Has(i, r)' = Has(i, r)
    BY DEF Has, Record
  <1>3. \A i \in Items \ Line' : reasons[i] = "skipped" \/ \E r \in Verdicts : Has(i, r)
    BY DEF AccountInv, RecordInv
  <1>4. QED
    BY <1>1, <1>2, <1>3 DEF AccountInv, RecordInv

LEMMA RecordAdded ==
  ASSUME RecordInv, job' = job, NEW i \in Items, NEW r \in Verdicts \cup {Low},
         rejected' = Append(rejected, Record(i, r)), ~Has(i, r)
  PROVE  /\ rejected' \in Seq([at : Items, reason : Verdicts \cup {Low}])'
         /\ IsInjective(rejected')
         /\ \A k, q : Has(k, q)' <=> Has(k, q) \/ (k = i /\ q = r)
  <1> DEFINE R == [at : Items, reason : Verdicts \cup {Low}]
             d == Record(i, r)
  <1>1. d \in R /\ \A k, q : d = Record(k, q) <=> i = k /\ r = q
    BY DEF Record
  <1>2. rejected \in Seq(R) /\ IsInjective(rejected) /\ d \notin Range(rejected)
    BY DEF RecordInv, Has
  <1>3. R' = R
    BY JobStays DEF Verdicts, Low, Duplicate
  <1>4. rejected' = Append(rejected, d)
    OBVIOUS
  <1> HIDE DEF R, d
  <1>5. rejected' \in Seq(R) /\ Range(rejected') = Range(rejected) \cup {d} /\ IsInjective(rejected')
    BY <1>1, <1>2, <1>4, AppendFacts
  <1>6. ASSUME NEW k, NEW q PROVE Has(k, q)' <=> Has(k, q) \/ (k = i /\ q = r)
    BY <1>1, <1>5 DEF Has, Record
  <1>7. QED
    BY <1>3, <1>5, <1>6 DEF R

\* A step that records a verdict about an item, and takes it out of the line.
LEMMA VerdictRecorded ==
  ASSUME AccountInv, job' = job, NEW i \in Line, i \in Items, NEW r \in Verdicts,
         rejected' = Append(rejected, Record(i, r)), Line' = Line \ {i},
         reasons[i] # "skipped",
         phase' = "items" => phase = "items" /\ Range(todo') \subseteq Range(todo)
  PROVE  RecordInv'
  <1>1. Items' = Items /\ reasons' = reasons
    BY JobStays
  <1>2. \A q \in Verdicts : ~Has(i, q)
    BY DEF AccountInv, RecordInv
  <1>3. /\ rejected' \in Seq([at : Items, reason : Verdicts \cup {Low}])'
        /\ IsInjective(rejected')
        /\ \A k, q : Has(k, q)' <=> Has(k, q) \/ (k = i /\ q = r)
    BY <1>2, RecordAdded DEF AccountInv
  <1>4. \A k \in Items : \A p, q \in Verdicts : Has(k, p)' /\ Has(k, q)' => p = q
    BY <1>2, <1>3 DEF AccountInv, RecordInv
  <1>5. \A k \in Line' : \A q \in Verdicts : ~Has(k, q)'
    BY <1>3 DEF AccountInv, RecordInv
  <1>6. \A k \in Items \ Line' : reasons[k] = "skipped" \/ \E q \in Verdicts : Has(k, q)'
    BY <1>3 DEF AccountInv, RecordInv
  <1>7. \A k \in Items : \A q \in Verdicts : Has(k, q)' => reasons[k] # "skipped"
    BY <1>3 DEF AccountInv, RecordInv
  <1>8. phase' = "items" => \A k \in Range(todo') : ~Has(k, Low)'
    BY <1>3, LowFacts DEF AccountInv, RecordInv
  <1>9. QED
    BY <1>1, <1>3, <1>4, <1>5, <1>6, <1>7, <1>8 DEF RecordInv

\* A step that remarks on an item it keeps.
LEMMA RemarkRecorded ==
  ASSUME AccountInv, job' = job, NEW i \in Items, i \in Range(todo),
         rejected' = Append(rejected, Record(i, Low)), Line' = Line,
         phase = "items", Range(todo') = Range(todo) \ {i}
  PROVE  RecordInv'
  <1>1. Items' = Items /\ reasons' = reasons
    BY JobStays
  <1>2. ~Has(i, Low)
    BY DEF AccountInv, RecordInv
  <1>3. /\ rejected' \in Seq([at : Items, reason : Verdicts \cup {Low}])'
        /\ IsInjective(rejected')
        /\ \A k, q : Has(k, q)' <=> Has(k, q) \/ (k = i /\ q = Low)
    BY <1>2, RecordAdded DEF AccountInv
  <1>4. \A k : \A q \in Verdicts : Has(k, q)' <=> Has(k, q)
    BY <1>3, LowFacts
  <1>5. \A k \in Range(todo') : ~Has(k, Low)'
    BY <1>3 DEF AccountInv, RecordInv
  <1>6. QED
    BY <1>1, <1>3, <1>4, <1>5 DEF AccountInv, RecordInv

LEMMA RecordedFacts ==
  ASSUME job \in Jobs, NEW i \in Items
  PROVE  \/ reasons[i] = "skipped" /\ Recorded(i) = <<>>
         \/ reasons[i] = "none" /\ (Recorded(i) = <<>> \/ Recorded(i) = <<Record(i, Low)>>)
         \/ reasons[i] \in Verdicts /\ Recorded(i) = <<Record(i, reasons[i])>>
  <1>1. reasons[i] \in Verdicts \cup {"none", "skipped"}
    BY ReasonsFacts
  <1>2. "skipped" \notin Verdicts /\ "none" \notin Verdicts
    BY DEF Verdicts, Duplicate
  <1>3. CASE reasons[i] = "skipped"
    BY <1>3 DEF Recorded
  <1>4. CASE reasons[i] = "none"
    BY <1>4 DEF Recorded, Record, Low
  <1>5. CASE reasons[i] \in Verdicts
    BY <1>2, <1>5 DEF Recorded, Record
  <1>6. QED
    BY <1>1, <1>3, <1>4, <1>5

LEMMA JudgeAccounts == AccountInv /\ Judge => AccountInv'
  <1> SUFFICES ASSUME AccountInv, Judge PROVE AccountInv'
    OBVIOUS
  <1> DEFINE i == Head(todo)
  <1>1. /\ phase = "items" /\ todo # <<>> /\ todo' = Tail(todo) /\ UNCHANGED <<job, phase>>
        /\ out' = IF reasons[i] = "none" THEN Append(out, i) ELSE out
        /\ rejected' = rejected \o Recorded(i)
    BY DEF Judge, Looks
  <1>2. LineInv
    BY DEF AccountInv
  <1> HIDE DEF i
  <1>3. i = Head(todo)
    BY DEF i
  <1>4. /\ LineInv'
        /\ i \in Items
        /\ Range(todo) = {i} \cup Range(todo')
        /\ i \notin Range(todo') /\ i \notin Range(out)
        /\ Range(out') = IF out' = out THEN Range(out) ELSE Range(out) \cup {i}
        /\ out' = Append(out, i) => Range(out') = Range(out) \cup {i}
    BY <1>1, <1>2, <1>3, LookFacts
  <1>5. rejected \in Seq([at : Items, reason : Verdicts \cup {Low}])
    BY DEF AccountInv, RecordInv
  <1>6. /\ \A d \in [at : Items, reason : Verdicts \cup {Low}] : rejected \o <<d>> = Append(rejected, d)
        /\ rejected \o <<>> = rejected
    BY <1>5
  <1>7. Line = Range(out) \cup Range(todo) /\ Line' = Range(out') \cup Range(todo') /\ i \in Line
    BY <1>4 DEF Line
  <1>8. CASE reasons[i] = "skipped" /\ Recorded(i) = <<>>
    <2>1. rejected' = rejected /\ Line' = Line \ {i}
      BY <1>1, <1>4, <1>6, <1>7, <1>8
    <2>2. QED
      BY <1>1, <1>4, <1>8, <2>1, NothingRecorded DEF AccountInv
  <1>9. CASE reasons[i] = "none" /\ Recorded(i) = <<>>
    <2>1. rejected' = rejected /\ Line' = Line
      BY <1>1, <1>4, <1>6, <1>7, <1>9
    <2>2. QED
      BY <1>1, <1>4, <2>1, NothingRecorded DEF AccountInv
  <1>10. CASE reasons[i] = "none" /\ Recorded(i) = <<Record(i, Low)>>
    <2>1. Record(i, Low) \in [at : Items, reason : Verdicts \cup {Low}]
      BY <1>4, RecordFacts
    <2>2. rejected' = Append(rejected, Record(i, Low)) /\ Line' = Line
      BY <1>1, <1>4, <1>6, <1>7, <1>10, <2>1
    <2>3. Range(todo') = Range(todo) \ {i} /\ i \in Range(todo)
      BY <1>4
    <2>4. QED
      BY <1>1, <1>4, <2>2, <2>3, RemarkRecorded DEF AccountInv
  <1>11. CASE reasons[i] \in Verdicts /\ Recorded(i) = <<Record(i, reasons[i])>>
    <2>1. Record(i, reasons[i]) \in [at : Items, reason : Verdicts \cup {Low}]
      BY <1>4, <1>11, RecordFacts
    <2>2. reasons[i] # "skipped" /\ reasons[i] # "none"
      BY <1>11 DEF Verdicts, Duplicate
    <2>3. rejected' = Append(rejected, Record(i, reasons[i])) /\ Line' = Line \ {i}
      BY <1>1, <1>4, <1>6, <1>7, <1>11, <2>1, <2>2
    <2>4. QED
      BY <1>1, <1>4, <1>7, <1>11, <2>2, <2>3, VerdictRecorded DEF AccountInv
  <1>12. QED
    BY <1>2, <1>4, <1>8, <1>9, <1>10, <1>11, RecordedFacts DEF LineInv

\* What a step of the two passes does with the first of the line.
PassStep(i) == Keep(i) \/ \E r \in Duplicate : Drop(i, r)

LEMMA PassSteps ==
  ASSUME CheckDuplicate \/ CheckContacts
  PROVE  /\ todo # <<>> /\ todo' = Tail(todo) /\ UNCHANGED <<job, phase>>
         /\ phase \in {"within", "contacts"}
         /\ PassStep(Head(todo))
  BY DEF CheckDuplicate, CheckContacts, Looks, PassStep, Duplicate

LEMMA PassAccounts == AccountInv /\ (CheckDuplicate \/ CheckContacts) => AccountInv'
  <1> SUFFICES ASSUME AccountInv, CheckDuplicate \/ CheckContacts PROVE AccountInv'
    OBVIOUS
  <1> DEFINE i == Head(todo)
  <1>1. /\ todo # <<>> /\ todo' = Tail(todo) /\ UNCHANGED <<job, phase>>
        /\ phase # "items" /\ phase' # "items"
        /\ PassStep(i)
    BY PassSteps
  <1>2. LineInv
    BY DEF AccountInv
  <1> HIDE DEF i
  <1>3. i = Head(todo)
    BY DEF i
  <1>4. i \in Range(todo) /\ reasons[i] = "none"
    <2>1. i = todo[1] /\ 1 \in DOMAIN todo
      BY <1>1, <1>2, <1>3 DEF LineInv
    <2>2. QED
      BY <1>1, <1>2, <2>1 DEF LineInv, Range
  <1>5. Line = Range(out) \cup Range(todo) /\ Line' = Range(out') \cup Range(todo') /\ i \in Line
    BY <1>4 DEF Line
  <1>6. CASE Keep(i)
    <2>1. out' = Append(out, i) /\ rejected' = rejected
      BY <1>6 DEF Keep
    <2>2. LineInv' /\ Range(todo) = {i} \cup Range(todo') /\ Range(out') = Range(out) \cup {i}
      BY <1>1, <1>2, <1>3, <1>4, <2>1, LookFacts
    <2>3. Line' = Line
      BY <1>5, <2>2
    <2>4. QED
      BY <1>1, <2>1, <2>2, <2>3, NothingRecorded DEF AccountInv
  <1>7. ASSUME NEW r \in Duplicate, Drop(i, r) PROVE AccountInv'
    <2>1. out' = out /\ rejected' = Append(rejected, Record(i, r)) /\ r \in Verdicts
      BY <1>7 DEF Drop, Record, Verdicts
    <2>2. /\ LineInv' /\ Range(todo) = {i} \cup Range(todo') /\ i \in Items
          /\ i \notin Range(todo') /\ i \notin Range(out)
      BY <1>1, <1>2, <1>3, <1>4, <2>1, LookFacts
    <2>3. Line' = Line \ {i}
      BY <1>5, <2>1, <2>2
    <2>4. QED
      BY <1>1, <1>4, <1>5, <2>1, <2>2, <2>3, VerdictRecorded DEF AccountInv
  <1>8. QED
    BY <1>1, <1>6, <1>7 DEF PassStep

LEMMA LoopAccounts == AccountInv /\ NextLoop => AccountInv'
  <1> SUFFICES ASSUME AccountInv, NextLoop PROVE AccountInv'
    OBVIOUS
  <1>1. /\ LineInv'
        /\ Range(todo) = {} /\ Range(out') \cup Range(todo') = Range(out)
        /\ phase' # "items"
    BY LoopFacts DEF AccountInv
  <1>2. job' = job /\ rejected' = rejected /\ Line' = Line
    BY <1>1 DEF NextLoop, Line
  <1>3. QED
    BY <1>1, <1>2, NothingRecorded DEF AccountInv

LEMMA AccountStep == AccountInv /\ [Transform]_vars => AccountInv'
  <1>1. AccountInv /\ UNCHANGED vars => AccountInv'
    <2> SUFFICES ASSUME AccountInv, UNCHANGED vars PROVE AccountInv'
      OBVIOUS
    <2>1. /\ UNCHANGED <<job, phase, todo, out, rejected>> /\ Items' = Items /\ reasons' = reasons
      BY JobStays DEF vars
    <2>2. LineInv'
      BY <2>1 DEF AccountInv, LineInv
    <2>3. Line' = Line
      BY <2>1 DEF Line
    <2>4. QED
      BY <2>1, <2>2, <2>3, NothingRecorded DEF AccountInv
  <1>2. QED
    BY <1>1, JudgeAccounts, PassAccounts, LoopAccounts DEF Transform

LEMMA AccountInit == Init => AccountInv
  <1> SUFFICES ASSUME Init PROVE AccountInv
    OBVIOUS
  <1>1. /\ job \in Jobs /\ phase = "items" /\ out = <<>> /\ rejected = <<>>
        /\ todo = [i \in Items |-> i]
    BY DEF Init, Items
  <1>2. Items = 1..Len(job.items) /\ Len(job.items) \in Nat
    BY <1>1, JobFacts
  <1>3. /\ todo \in Seq(Items) /\ Ascending(todo) /\ Range(todo) = Items
    BY <1>1, <1>2 DEF Ascending, Range
  <1>4. Range(<<>>) = {} /\ IsInjective(<<>>)
    BY EmptyFacts
  <1>5. Ascending(<<>>)
    BY DEF Ascending
  <1>6. LineInv
    BY <1>1, <1>3, <1>4, <1>5 DEF LineInv
  <1>7. RecordInv
    BY <1>1, <1>3, <1>4 DEF RecordInv, Line, Has
  <1>8. QED
    BY <1>6, <1>7 DEF AccountInv

\* How many records of the given reasons an item has.
LEMMA TimesFacts ==
  ASSUME AccountInv, NEW i \in Items, NEW S
  PROVE  /\ (\A r \in S : ~Has(i, r)) => Times(i, S) = 0
         /\ \A q \in S : Has(i, q) /\ (\A r \in S : Has(i, r) => r = q) => Times(i, S) = 1
         /\ Times(i, S) = 1 => \E r \in S : Has(i, r)
  <1> DEFINE P == {Record(i, r) : r \in S}
             N == {k \in DOMAIN rejected : rejected[k].at = i /\ rejected[k].reason \in S}
             R == [at : Items, reason : Verdicts \cup {Low}]
  <1>1. rejected \in Seq(R) /\ IsInjective(rejected)
    BY DEF AccountInv, RecordInv
  <1>2. \A d \in R : (d.at = i /\ d.reason \in S) <=> d \in P
    <2> SUFFICES ASSUME NEW d \in R PROVE (d.at = i /\ d.reason \in S) <=> d \in P
      OBVIOUS
    <2>1. d = Record(d.at, d.reason)
      BY DEF Record
    <2>2. \A r : Record(i, r).at = i /\ Record(i, r).reason = r
      BY DEF Record
    <2>3. QED
      BY <2>1, <2>2
  <1>3. N = {k \in DOMAIN rejected : rejected[k] \in P}
    <2> HIDE DEF R
    <2>1. \A k \in DOMAIN rejected : rejected[k] \in R
      BY <1>1
    <2>2. QED
      BY <1>2, <2>1
  <1>4. Times(i, S) = Cardinality(N)
    BY DEF Times
  <1> HIDE DEF N, R
  <1>5. /\ Range(rejected) \cap P = {} => Cardinality(N) = 0
        /\ \A d : Range(rejected) \cap P = {d} => Cardinality(N) = 1
    <2> HIDE DEF P
    <2>1. QED
      BY <1>1, <1>3, OnceFacts
  <1>6. ASSUME \A r \in S : ~Has(i, r) PROVE Times(i, S) = 0
    <2>1. Range(rejected) \cap P = {}
      BY <1>6 DEF Has
    <2>2. QED
      BY <1>4, <1>5, <2>1
  <1>7. ASSUME NEW q \in S, Has(i, q), \A r \in S : Has(i, r) => r = q PROVE Times(i, S) = 1
    <2>1. Range(rejected) \cap P = {Record(i, q)}
      BY <1>7 DEF Has
    <2>2. QED
      BY <1>4, <1>5, <2>1
  <1>8. QED
    BY <1>6, <1>7

LEMMA AccountsForAll == AccountInv => EveryItemAccounted
  <1> SUFFICES ASSUME AccountInv, NEW i \in Items
               PROVE  LET kept == Cardinality({k \in DOMAIN (todo \o out) : (todo \o out)[k] = i}) IN
                      IF PassedOver(i) /\ ~InSeq(i, todo)
                      THEN kept + Times(i, Verdicts) = 0
                      ELSE kept + Times(i, Verdicts) = 1 /\ Times(i, {"fuzzy_low_confidence"}) <= 1
    BY DEF EveryItemAccounted, Items, PassedOver
  <1> DEFINE line == todo \o out
             N == {k \in DOMAIN line : line[k] = i}
             kept == Cardinality(N)
  <1>1. LineInv /\ RecordInv /\ job \in Jobs /\ Items \in SUBSET Nat
    BY JobFacts DEF AccountInv, LineInv
  <1>2. /\ line \in Seq(Items) /\ Range(line) = Line /\ IsInjective(line)
    <2>1. todo \in Seq(Items) /\ out \in Seq(Items) /\ IsInjective(todo) /\ IsInjective(out)
      BY <1>1, AscendingFacts DEF LineInv
    <2>2. Range(todo) \cap Range(out) = {}
      <3>1. Range(out) \subseteq Nat
        BY <1>1, <2>1, RangeType
      <3>2. \A a \in Range(out) : ~(a < a)
        BY <3>1
      <3>3. QED
        BY <1>1, <3>2 DEF LineInv
    <2>3. QED
      BY <2>1, <2>2, ConcatFacts DEF Line
  <1>3. (i \in Line => kept = 1) /\ (i \notin Line => kept = 0)
    <2> HIDE DEF line
    <2>1. N = {k \in DOMAIN line : line[k] \in {i}}
      OBVIOUS
    <2> HIDE DEF N
    <2>2. /\ Range(line) \cap {i} = {} => Cardinality(N) = 0
          /\ \A d : Range(line) \cap {i} = {d} => Cardinality(N) = 1
      BY <1>2, <2>1, OnceFacts
    <2>3. QED
      BY <1>2, <2>2
  <1>4. InSeq(i, todo) <=> i \in Range(todo)
    BY DEF InSeq, Range
  <1>5. reasons[i] = "skipped" <=> PassedOver(i)
    BY <1>1, ReasonsFacts
  <1>6. Times(i, {"fuzzy_low_confidence"}) <= 1
    <2>1. Times(i, {Low}) = 0 \/ Times(i, {Low}) = 1
      BY TimesFacts
    <2>2. QED
      BY <2>1 DEF Low
  <1>7. /\ reasons[i] = "skipped" /\ i \notin Range(todo) => kept + Times(i, Verdicts) = 0
        /\ reasons[i] # "skipped" \/ i \in Range(todo) => kept + Times(i, Verdicts) = 1
    <2> HIDE DEF kept
    <2>1. ASSUME i \in Line PROVE Times(i, Verdicts) = 0 /\ kept = 1
      BY <1>1, <1>3, <2>1, TimesFacts DEF RecordInv
    <2>2. i \in Line /\ reasons[i] = "skipped" => i \in Range(todo)
      BY <1>1 DEF Line, LineInv
    <2>3. i \notin Line => i \notin Range(todo) /\ kept = 0
      BY <1>3 DEF Line
    <2>4. ASSUME reasons[i] = "skipped" PROVE Times(i, Verdicts) = 0
      BY <1>1, <2>4, TimesFacts DEF RecordInv
    <2>5. ASSUME i \notin Line, reasons[i] # "skipped" PROVE Times(i, Verdicts) = 1
      <3>1. PICK r \in Verdicts : Has(i, r)
        BY <1>1, <2>5 DEF RecordInv
      <3>2. \A q \in Verdicts : Has(i, q) => q = r
        BY <1>1, <3>1 DEF RecordInv
      <3>3. QED
        BY <3>1, <3>2, TimesFacts
    <2>6. QED
      BY <2>1, <2>2, <2>3, <2>4, <2>5
  <1>8. QED
    BY <1>4, <1>5, <1>6, <1>7

\* The three loops, between two steps too: each item is still to be looked at, kept, or
\* recorded with one reason that its data gives, whatever the message (base.py:40-56).
THEOREM Accounting == TransformSpec => []AccountInv
  BY AccountInit, AccountStep, PTL DEF TransformSpec

\* No item is lost and none is counted twice, whatever the message, the source and the
\* tables, through all three loops (base.py:40-56).
THEOREM EachItemAccounted == TransformSpec => []EveryItemAccounted
  BY Accounting, AccountsForAll, PTL

-----------------------------------------------------------------------------
(* What is dropped has a twin, and what is kept has none.                  *)

Compared == job.mode = "fuzzy" \/ ~job.single

\* What the two passes compare, by the places of the items.
ids == [i \in Items |-> IdOf(Station(i))]
nameCities == [i \in Items |-> NameCityOf(Station(i))]
phones == [i \in Items |-> Station(i).phone]
emails == [i \in Items |-> Station(i).email]

ByWithin == {"duplicate_id_within_message", "duplicate_name_city_within_message"}
ByPhone == "duplicate_phone_in_message"
ByEmail == "duplicate_email_in_message"

Differ(S, value) == \A a, b \in S : a # b => value[a] # value[b]
DifferIfGiven(S, value) == \A a, b \in S : a # b => value[a] # value[b] \/ value[a] = NoText

\* Sound until the end of the message: still there, or gone in the last pass.
Remains(k) ==
  \/ k \in Range(out)
  \/ phase = "contacts" /\ k \in Range(todo)
  \/ Has(k, ByPhone) \/ Has(k, ByEmail)

\* While a pass is at work it has met the values of what it kept, and no two are the same;
\* the last pass remembers the phone of what it drops for the email, too.
SeenInv ==
  /\ DOMAIN seen = {"ids", "names", "phones", "emails"}
  /\ phase = "within" =>
       /\ seen.ids = {ids[a] : a \in Range(out)}
       /\ seen.names = {nameCities[a] : a \in Range(out)}
       /\ Differ(Range(out), ids) /\ Differ(Range(out), nameCities)
  /\ phase = "contacts" \/ (phase = "done" /\ Compared) =>
       /\ Differ(Line, ids) /\ Differ(Line, nameCities)
       /\ DifferIfGiven(Range(out), phones) /\ DifferIfGiven(Range(out), emails)
  /\ phase = "contacts" =>
       /\ seen.emails = {emails[a] : a \in Range(out)} \ {NoText}
       /\ {phones[a] : a \in Range(out)} \ {NoText} \subseteq seen.phones
       /\ \A p \in seen.phones : p # NoText /\ \E k \in Items :
            /\ reasons[k] = "none" /\ phones[k] = p
            /\ k \in Range(out) \/ Has(k, ByEmail)
            /\ \A b \in Range(todo) : k < b

\* Each drop has its cause.
TwinInv ==
  /\ phase = "items" => \A i \in Items, r \in Duplicate : ~Has(i, r)
  /\ phase = "within" => \A i \in Items : ~Has(i, ByPhone) /\ ~Has(i, ByEmail)
  /\ \A i \in Items :
       /\ Has(i, "duplicate_id_within_message") =>
            \E k \in Items : k < i /\ reasons[k] = "none" /\ ids[k] = ids[i] /\ Remains(k)
       /\ Has(i, "duplicate_name_city_within_message") =>
            \E k \in Items : /\ k < i /\ reasons[k] = "none"
                             /\ nameCities[k] = nameCities[i] /\ Remains(k)
       /\ Has(i, ByPhone) =>
            \E k \in Items : /\ k < i /\ reasons[k] = "none"
                             /\ phones[k] = phones[i] /\ phones[k] # NoText
                             /\ k \in Range(out) \/ Has(k, ByEmail)
       /\ Has(i, ByEmail) =>
            \E k \in Items : /\ k < i /\ reasons[k] = "none"
                             /\ emails[k] = emails[i] /\ emails[k] # NoText
                             /\ k \in Range(out)

DuplicatesInv == AccountInv /\ SeenInv /\ TwinInv

LEMMA ValuesStay ==
  ASSUME job' = job
  PROVE  /\ ids' = ids /\ nameCities' = nameCities /\ phones' = phones /\ emails' = emails
         /\ Compared' = Compared
  <1>1. Items' = Items /\ \A i \in Items : Station(i)' = Station(i)
    BY JobStays
  <1>2. \A i \in Items : IdOf(Station(i))' = IdOf(Station(i))
    BY <1>1 DEF IdOf, In
  <1>3. \A i \in Items : NameCityOf(Station(i))' = NameCityOf(Station(i))
    BY <1>1 DEF NameCityOf, In
  <1>4. \A i \in Items : Station(i).phone' = Station(i).phone /\ Station(i).email' = Station(i).email
    BY <1>1
  <1>5. QED
    BY <1>1, <1>2, <1>3, <1>4 DEF ids, nameCities, phones, emails, Compared

\* What a step of the two passes does.
LEMMA PassFacts ==
  ASSUME AccountInv, CheckDuplicate \/ CheckContacts, NEW i, i = Head(todo)
  PROVE  /\ UNCHANGED <<job, phase, Items, reasons, ids, nameCities, phones, emails>>
         /\ i \in Items /\ reasons[i] = "none"
         /\ Range(todo) = {i} \cup Range(todo')
         /\ i \notin Range(todo') /\ i \notin Range(out)
         /\ Range(out) \subseteq Items /\ Range(todo') \subseteq Items
         /\ \A a \in Range(out) : a < i /\ reasons[a] = "none"
         /\ \A b \in Range(todo') : i < b
         /\ Keep(i) => /\ Range(out') = Range(out) \cup {i}
                       /\ \A k, q : Has(k, q)' <=> Has(k, q)
         /\ \A r \in Duplicate : Drop(i, r) =>
              /\ Range(out') = Range(out)
              /\ \A k, q : Has(k, q)' <=> Has(k, q) \/ (k = i /\ q = r)
  <1>1. /\ todo # <<>> /\ todo' = Tail(todo) /\ UNCHANGED <<job, phase>>
        /\ phase \in {"within", "contacts"}
        /\ PassStep(i)
    BY PassSteps
  <1>2. LineInv /\ todo \in Seq(Items) /\ out \in Seq(Items)
    BY DEF AccountInv, LineInv
  <1>3. i \in Range(todo) /\ reasons[i] = "none"
    <2>1. i = todo[1] /\ 1 \in DOMAIN todo
      BY <1>1, <1>2
    <2>2. QED
      BY <1>1, <1>2, <2>1 DEF LineInv, Range
  <1>4. out' = out \/ out' = Append(out, i)
    BY <1>1 DEF PassStep, Keep, Drop
  <1>5. /\ i \in Items
        /\ Range(todo) = {i} \cup Range(todo')
        /\ i \notin Range(todo') /\ i \notin Range(out)
        /\ \A a \in Range(out) : a < i
        /\ \A b \in Range(todo') : i < b
        /\ out' = Append(out, i) => Range(out') = Range(out) \cup {i}
    BY <1>1, <1>2, <1>3, <1>4, LookFacts
  <1>6. Range(out) \subseteq Items /\ Range(todo) \subseteq Items
    BY <1>2, RangeType
  <1>7. Keep(i) => \A k, q : Has(k, q)' <=> Has(k, q)
    BY DEF Keep, Has, Record
  <1>8. ASSUME NEW r \in Duplicate, Drop(i, r)
        PROVE  \A k, q : Has(k, q)' <=> Has(k, q) \/ (k = i /\ q = r)
    <2>1. r \in Verdicts /\ rejected' = Append(rejected, Record(i, r))
      BY <1>8 DEF Verdicts, Drop, Record
    <2>2. ~Has(i, r)
      BY <1>3, <2>1 DEF AccountInv, RecordInv, Line
    <2>3. QED
      BY <1>1, <1>5, <2>1, <2>2, RecordAdded DEF AccountInv
  <1>9. UNCHANGED <<Items, reasons, ids, nameCities, phones, emails>>
    BY <1>1, JobStays, ValuesStay
  <1>10. QED
    BY <1>1, <1>2, <1>3, <1>5, <1>6, <1>7, <1>8, <1>9 DEF LineInv, Keep, Drop

LEMMA WithinStep == DuplicatesInv /\ CheckDuplicate => SeenInv' /\ TwinInv'
  <1> SUFFICES ASSUME DuplicatesInv, CheckDuplicate PROVE SeenInv' /\ TwinInv'
    OBVIOUS
  <1> DEFINE i == Head(todo)
  <1>1. /\ UNCHANGED <<job, phase, Items, reasons, ids, nameCities, phones, emails>>
        /\ i \in Items /\ reasons[i] = "none"
        /\ i \notin Range(out) /\ Range(out) \subseteq Items
        /\ \A a \in Range(out) : a < i /\ reasons[a] = "none"
        /\ Keep(i) => /\ Range(out') = Range(out) \cup {i}
                      /\ \A k, q : Has(k, q)' <=> Has(k, q)
        /\ \A r \in Duplicate : Drop(i, r) =>
             /\ Range(out') = Range(out)
             /\ \A k, q : Has(k, q)' <=> Has(k, q) \/ (k = i /\ q = r)
    BY PassFacts DEF DuplicatesInv
  <1>2. phase = "within" /\ phase' = "within"
    BY <1>1 DEF CheckDuplicate, Looks
  <1>3. \/ /\ ids[i] \in seen.ids
           /\ Drop(i, "duplicate_id_within_message") /\ seen' = seen
        \/ /\ nameCities[i] \in seen.names
           /\ Drop(i, "duplicate_name_city_within_message") /\ seen' = seen
        \/ /\ ids[i] \notin seen.ids /\ nameCities[i] \notin seen.names
           /\ Keep(i)
           /\ seen' = [seen EXCEPT !.ids = @ \cup {ids[i]}, !.names = @ \cup {nameCities[i]}]
    <2>1. ids[i] = IdOf(Station(i)) /\ nameCities[i] = NameCityOf(Station(i))
      BY <1>1 DEF ids, nameCities
    <2>2. QED
      BY <2>1 DEF CheckDuplicate
  <1>4. /\ DOMAIN seen = {"ids", "names", "phones", "emails"}
        /\ seen.ids = {ids[a] : a \in Range(out)}
        /\ seen.names = {nameCities[a] : a \in Range(out)}
        /\ Differ(Range(out), ids) /\ Differ(Range(out), nameCities)
    BY <1>2 DEF DuplicatesInv, SeenInv
  <1>5. /\ \A k \in Items : ~Has(k, ByPhone) /\ ~Has(k, ByEmail)
        /\ \A k \in Items :
             /\ Has(k, "duplicate_id_within_message") =>
                  \E l \in Items : l < k /\ reasons[l] = "none" /\ ids[l] = ids[k] /\ l \in Range(out)
             /\ Has(k, "duplicate_name_city_within_message") =>
                  \E l \in Items : /\ l < k /\ reasons[l] = "none"
                                   /\ nameCities[l] = nameCities[k] /\ l \in Range(out)
    BY <1>2 DEF DuplicatesInv, TwinInv, Remains
  <1> HIDE DEF i
  <1>6. SeenInv'
    <2>1. CASE Keep(i) /\ ids[i] \notin seen.ids /\ nameCities[i] \notin seen.names
               /\ seen' = [seen EXCEPT !.ids = @ \cup {ids[i]}, !.names = @ \cup {nameCities[i]}]
      <3>1. /\ DOMAIN seen' = {"ids", "names", "phones", "emails"}
            /\ seen'.ids = seen.ids \cup {ids[i]}
            /\ seen'.names = seen.names \cup {nameCities[i]}
        BY <1>4, <2>1
      <3>2. Range(out') = Range(out) \cup {i}
        BY <1>1, <2>1
      <3>3. /\ seen'.ids = {ids[a] : a \in Range(out')}
            /\ seen'.names = {nameCities[a] : a \in Range(out')}
        BY <1>4, <3>1, <3>2
      <3>4. Differ(Range(out'), ids) /\ Differ(Range(out'), nameCities)
        BY <1>4, <2>1, <3>2 DEF Differ
      <3>5. QED
        BY <1>1, <1>2, <3>1, <3>3, <3>4 DEF SeenInv, Differ
    <2>2. CASE seen' = seen /\ Range(out') = Range(out)
      BY <1>1, <1>2, <1>4, <2>2 DEF SeenInv, Differ
    <2>3. QED
      BY <1>1, <1>3, <2>1, <2>2 DEF Duplicate
  <1>7. TwinInv'
    <2>1. Range(out) \subseteq Range(out')
      BY <1>1, <1>3 DEF Duplicate
    <2>2. \A k \in Items : ~Has(k, ByPhone)' /\ ~Has(k, ByEmail)'
      BY <1>1, <1>3, <1>5 DEF Duplicate, ByPhone, ByEmail
    <2>3. ASSUME NEW k \in Items, Has(k, "duplicate_id_within_message")'
          PROVE  \E l \in Items : l < k /\ reasons[l] = "none" /\ ids[l] = ids[k] /\ l \in Range(out)
      <3>1. CASE Has(k, "duplicate_id_within_message")
        BY <1>5, <3>1
      <3>2. CASE k = i /\ ids[i] \in seen.ids
        BY <1>1, <1>4, <3>2
      <3>3. QED
        BY <1>1, <1>3, <2>3, <3>1, <3>2 DEF Duplicate
    <2>4. ASSUME NEW k \in Items, Has(k, "duplicate_name_city_within_message")'
          PROVE  \E l \in Items : /\ l < k /\ reasons[l] = "none"
                                  /\ nameCities[l] = nameCities[k] /\ l \in Range(out)
      <3>1. CASE Has(k, "duplicate_name_city_within_message")
        BY <1>5, <3>1
      <3>2. CASE k = i /\ nameCities[i] \in seen.names
        BY <1>1, <1>4, <3>2
      <3>3. QED
        BY <1>1, <1>3, <2>4, <3>1, <3>2 DEF Duplicate
    <2>5. QED
      BY <1>1, <1>2, <2>1, <2>2, <2>3, <2>4 DEF TwinInv, Remains
  <1>8. QED
    BY <1>6, <1>7

LEMMA ContactsStep == DuplicatesInv /\ CheckContacts => SeenInv' /\ TwinInv'
  <1> SUFFICES ASSUME DuplicatesInv, CheckContacts PROVE SeenInv' /\ TwinInv'
    OBVIOUS
  <1>0. PICK i : i = Head(todo)
    OBVIOUS
  <1> DEFINE p == phones[i]
             e == emails[i]
  <1>1. /\ UNCHANGED <<job, phase, Items, reasons, ids, nameCities, phones, emails>>
        /\ i \in Items /\ reasons[i] = "none"
        /\ Range(todo) = {i} \cup Range(todo')
        /\ i \notin Range(out) /\ Range(out) \subseteq Items
        /\ \A a \in Range(out) : a < i /\ reasons[a] = "none"
        /\ \A b \in Range(todo') : i < b
        /\ Keep(i) => /\ Range(out') = Range(out) \cup {i}
                      /\ \A k, q : Has(k, q)' <=> Has(k, q)
        /\ \A r \in Duplicate : Drop(i, r) =>
             /\ Range(out') = Range(out)
             /\ \A k, q : Has(k, q)' <=> Has(k, q) \/ (k = i /\ q = r)
    BY <1>0, PassFacts DEF DuplicatesInv
  <1>2. phase = "contacts" /\ phase' = "contacts"
    BY <1>1 DEF CheckContacts, Looks
  <1>3. \/ /\ p # NoText /\ p \in seen.phones
           /\ Drop(i, ByPhone) /\ seen' = seen
        \/ /\ p = NoText \/ p \notin seen.phones
           /\ e # NoText /\ e \in seen.emails
           /\ Drop(i, ByEmail)
           /\ seen' = [seen EXCEPT !.phones = @ \cup ({p} \ {NoText})]
        \/ /\ p = NoText \/ p \notin seen.phones
           /\ e = NoText \/ e \notin seen.emails
           /\ Keep(i)
           /\ seen' = [seen EXCEPT !.phones = @ \cup ({p} \ {NoText}),
                                   !.emails = @ \cup ({e} \ {NoText})]
    <2>1. phones[i] = Station(i).phone /\ emails[i] = Station(i).email
      BY <1>1 DEF phones, emails
    <2>2. QED
      BY <1>0, <2>1 DEF CheckContacts, ByPhone, ByEmail
  <1>4. /\ DOMAIN seen = {"ids", "names", "phones", "emails"}
        /\ Differ(Line, ids) /\ Differ(Line, nameCities)
        /\ DifferIfGiven(Range(out), phones) /\ DifferIfGiven(Range(out), emails)
        /\ seen.emails = {emails[a] : a \in Range(out)} \ {NoText}
        /\ {phones[a] : a \in Range(out)} \ {NoText} \subseteq seen.phones
        /\ \A q \in seen.phones : q # NoText /\ \E k \in Items :
             /\ reasons[k] = "none" /\ phones[k] = q
             /\ k \in Range(out) \/ Has(k, ByEmail)
             /\ \A b \in Range(todo) : k < b
    BY <1>2 DEF DuplicatesInv, SeenInv
  <1>5. ByPhone \in Duplicate /\ ByEmail \in Duplicate /\ ByPhone # ByEmail
    BY DEF Duplicate, ByPhone, ByEmail
  <1> HIDE DEF p, e
  <1>6. /\ p = phones[i] /\ e = emails[i]
    BY DEF p, e
  <1>7. \A k, q : Has(k, q) => Has(k, q)'
    BY <1>1, <1>3, <1>5
  <1>8. Range(out) \subseteq Range(out') /\ Range(out') \subseteq Range(out) \cup {i}
    BY <1>1, <1>3, <1>5
  <1>9. SeenInv'
    <2>1. Line' \subseteq Line
      BY <1>1, <1>8 DEF Line
    <2>2. Differ(Line', ids) /\ Differ(Line', nameCities)
      BY <1>4, <2>1 DEF Differ
    <2>3. CASE seen' = seen /\ Range(out') = Range(out)
      <3>1. \A q \in seen.phones : q # NoText /\ \E k \in Items :
              /\ reasons[k] = "none" /\ phones[k] = q
              /\ k \in Range(out') \/ Has(k, ByEmail)'
              /\ \A b \in Range(todo') : k < b
        BY <1>1, <1>4, <1>7, <1>8
      <3>2. QED
        BY <1>1, <1>2, <1>4, <2>2, <2>3, <3>1 DEF SeenInv, Differ, DifferIfGiven
    <2>4. ASSUME p = NoText \/ p \notin seen.phones,
                 seen'.phones = seen.phones \cup ({p} \ {NoText}),
                 i \in Range(out') \/ Has(i, ByEmail)'
          PROVE  /\ {phones[a] : a \in Range(out')} \ {NoText} \subseteq seen'.phones
                 /\ \A q \in seen'.phones : q # NoText /\ \E k \in Items :
                      /\ reasons[k] = "none" /\ phones[k] = q
                      /\ k \in Range(out') \/ Has(k, ByEmail)'
                      /\ \A b \in Range(todo') : k < b
      <3>1. {phones[a] : a \in Range(out')} \ {NoText} \subseteq seen'.phones
        BY <1>4, <1>6, <1>8, <2>4
      <3>2. ASSUME NEW q \in seen.phones
            PROVE  q # NoText /\ \E k \in Items :
                      /\ reasons[k] = "none" /\ phones[k] = q
                      /\ k \in Range(out') \/ Has(k, ByEmail)'
                      /\ \A b \in Range(todo') : k < b
        BY <1>1, <1>4, <1>7, <1>8
      <3>3. p # NoText => \E k \in Items :
              /\ reasons[k] = "none" /\ phones[k] = p
              /\ k \in Range(out') \/ Has(k, ByEmail)'
              /\ \A b \in Range(todo') : k < b
        BY <1>1, <1>6, <2>4
      <3>4. \A q \in seen'.phones : q \in seen.phones \/ (q = p /\ p # NoText)
        BY <2>4
      <3>5. QED
        BY <3>1, <3>2, <3>3, <3>4
    <2>5. CASE /\ p = NoText \/ p \notin seen.phones
               /\ Drop(i, ByEmail)
               /\ seen' = [seen EXCEPT !.phones = @ \cup ({p} \ {NoText})]
      <3>1. /\ DOMAIN seen' = {"ids", "names", "phones", "emails"}
            /\ seen'.phones = seen.phones \cup ({p} \ {NoText}) /\ seen'.emails = seen.emails
        BY <1>4, <2>5
      <3>2. Range(out') = Range(out) /\ Has(i, ByEmail)'
        BY <1>1, <1>5, <2>5
      <3>3. /\ {phones[a] : a \in Range(out')} \ {NoText} \subseteq seen'.phones
            /\ \A q \in seen'.phones : q # NoText /\ \E k \in Items :
                 /\ reasons[k] = "none" /\ phones[k] = q
                 /\ k \in Range(out') \/ Has(k, ByEmail)'
                 /\ \A b \in Range(todo') : k < b
        BY <2>4, <2>5, <3>1, <3>2
      <3>4. QED
        BY <1>1, <1>2, <1>4, <2>2, <3>1, <3>2, <3>3 DEF SeenInv, Differ, DifferIfGiven
    <2>6. CASE /\ p = NoText \/ p \notin seen.phones
               /\ e = NoText \/ e \notin seen.emails
               /\ Keep(i)
               /\ seen' = [seen EXCEPT !.phones = @ \cup ({p} \ {NoText}),
                                       !.emails = @ \cup ({e} \ {NoText})]
      <3>1. /\ DOMAIN seen' = {"ids", "names", "phones", "emails"}
            /\ seen'.phones = seen.phones \cup ({p} \ {NoText})
            /\ seen'.emails = seen.emails \cup ({e} \ {NoText})
        BY <1>4, <2>6
      <3>2. Range(out') = Range(out) \cup {i}
        BY <1>1, <2>6
      <3>3. /\ {phones[a] : a \in Range(out')} \ {NoText} \subseteq seen'.phones
            /\ \A q \in seen'.phones : q # NoText /\ \E k \in Items :
                 /\ reasons[k] = "none" /\ phones[k] = q
                 /\ k \in Range(out') \/ Has(k, ByEmail)'
                 /\ \A b \in Range(todo') : k < b
        BY <2>4, <2>6, <3>1, <3>2
      <3>4. seen'.emails = {emails[a] : a \in Range(out')} \ {NoText}
        BY <1>4, <1>6, <3>1, <3>2
      <3>5. DifferIfGiven(Range(out'), phones)
        BY <1>4, <1>6, <2>6, <3>2 DEF DifferIfGiven
      <3>6. DifferIfGiven(Range(out'), emails)
        BY <1>4, <1>6, <2>6, <3>2 DEF DifferIfGiven
      <3>7. QED
        BY <1>1, <1>2, <2>2, <3>1, <3>3, <3>4, <3>5, <3>6 DEF SeenInv, Differ, DifferIfGiven
    <2>7. QED
      BY <1>1, <1>3, <1>5, <2>3, <2>5, <2>6
  <1>10. TwinInv'
    <2>1. ASSUME NEW k, Remains(k) PROVE Remains(k)'
      <3>1. CASE k \in Range(out) \/ Has(k, ByPhone) \/ Has(k, ByEmail)
        BY <1>7, <1>8, <3>1 DEF Remains
      <3>2. CASE k \in Range(todo')
        BY <1>2, <3>2 DEF Remains
      <3>3. CASE k = i
        BY <1>1, <1>3, <1>5, <3>3 DEF Remains
      <3>4. QED
        BY <1>1, <2>1, <3>1, <3>2, <3>3 DEF Remains
    <2>2. \A k \in Items :
            /\ Has(k, "duplicate_id_within_message")' => Has(k, "duplicate_id_within_message")
            /\ Has(k, "duplicate_name_city_within_message")'
                 => Has(k, "duplicate_name_city_within_message")
      BY <1>1, <1>3, <1>5 DEF ByPhone, ByEmail
    <2>3. ASSUME NEW k \in Items, Has(k, ByPhone)'
          PROVE  \E l \in Items : /\ l < k /\ reasons[l] = "none"
                                  /\ phones[l] = phones[k] /\ phones[l] # NoText
                                  /\ l \in Range(out') \/ Has(l, ByEmail)'
      <3>1. CASE Has(k, ByPhone)
        BY <1>7, <1>8, <3>1 DEF DuplicatesInv, TwinInv
      <3>2. CASE k = i /\ p # NoText /\ p \in seen.phones
        <4>1. i \in Range(todo)
          BY <1>1
        <4>2. QED
          BY <1>4, <1>6, <1>7, <1>8, <3>2, <4>1
      <3>3. QED
        BY <1>1, <1>3, <1>5, <2>3, <3>1, <3>2
    <2>4. ASSUME NEW k \in Items, Has(k, ByEmail)'
          PROVE  \E l \in Items : /\ l < k /\ reasons[l] = "none"
                                  /\ emails[l] = emails[k] /\ emails[l] # NoText
                                  /\ l \in Range(out')
      <3>1. CASE Has(k, ByEmail)
        BY <1>8, <3>1 DEF DuplicatesInv, TwinInv
      <3>2. CASE k = i /\ e # NoText /\ e \in seen.emails
        BY <1>1, <1>4, <1>6, <1>8, <3>2
      <3>3. QED
        BY <1>1, <1>3, <1>5, <2>4, <3>1, <3>2
    <2>5. \A k \in Items :
            /\ Has(k, "duplicate_id_within_message")' =>
                 \E l \in Items : l < k /\ reasons[l] = "none" /\ ids[l] = ids[k] /\ Remains(l)'
            /\ Has(k, "duplicate_name_city_within_message")' =>
                 \E l \in Items : /\ l < k /\ reasons[l] = "none"
                                  /\ nameCities[l] = nameCities[k] /\ Remains(l)'
      BY <2>1, <2>2 DEF DuplicatesInv, TwinInv
    <2>6. QED
      BY <1>1, <1>2, <2>3, <2>4, <2>5 DEF TwinInv
  <1>11. QED
    BY <1>9, <1>10

LEMMA JudgeDrops ==
  ASSUME AccountInv, Judge, NEW k \in Items, NEW q \in Duplicate
  PROVE  Has(k, q)' <=> Has(k, q)
  <1> DEFINE i == Head(todo)
             R == [at : Items, reason : Verdicts \cup {Low}]
  <1>1. todo # <<>> /\ todo \in Seq(Items) /\ rejected' = rejected \o Recorded(i) /\ job \in Jobs
    BY DEF Judge, Looks, AccountInv, LineInv
  <1>2. i \in Items
    BY <1>1
  <1>3. rejected \in Seq(R)
    BY DEF AccountInv, RecordInv
  <1>4. \/ Recorded(i) = <<>>
        \/ \E r \in (Verdicts \ Duplicate) \cup {Low} : Recorded(i) = <<Record(i, r)>>
    <2>1. reasons[i] \notin Duplicate
      BY <1>1, <1>2, ReasonsFacts DEF Duplicate
    <2>2. QED
      BY <1>1, <1>2, <2>1, RecordedFacts
  <1>5. Low \notin Duplicate
    BY DEF Low, Duplicate
  <1>6. CASE Recorded(i) = <<>>
    <2> HIDE DEF R
    <2>1. rejected' = rejected
      BY <1>1, <1>3, <1>6
    <2>2. QED
      BY <2>1 DEF Has, Record
  <1>7. ASSUME NEW r \in (Verdicts \ Duplicate) \cup {Low}, Recorded(i) = <<Record(i, r)>>
        PROVE  Has(k, q)' <=> Has(k, q)
    <2> DEFINE d == Record(i, r)
    <2>1. d \in R /\ d # Record(k, q)
      BY <1>2, <1>5 DEF Record
    <2>2. rejected' = Append(rejected, d)
      BY <1>1, <1>3, <1>7, <2>1
    <2> HIDE DEF d, R
    <2>3. Range(rejected') = Range(rejected) \cup {d}
      BY <1>3, <2>1, <2>2, AppendFacts
    <2>4. QED
      BY <2>1, <2>3 DEF Has, Record
  <1>8. QED
    BY <1>4, <1>6, <1>7

LEMMA LoopStep == DuplicatesInv /\ NextLoop => SeenInv' /\ TwinInv'
  <1> SUFFICES ASSUME DuplicatesInv, NextLoop PROVE SeenInv' /\ TwinInv'
    OBVIOUS
  <1>1. UNCHANGED <<job, rejected>> /\ seen' = NothingSeen
    BY DEF NextLoop
  <1>2. UNCHANGED <<Items, reasons, ids, nameCities, phones, emails, Compared>>
    BY <1>1, JobStays, ValuesStay
  <1>3. \A k, q : Has(k, q)' <=> Has(k, q)
    BY <1>1 DEF Has, Record
  <1>4. /\ Range(todo) = {}
        /\ Range(out') \cup Range(todo') = Range(out)
        /\ phase' = "done" => Range(out') = Range(out) /\ Range(todo') = {}
        /\ phase' # "done" => Range(todo') = Range(out) /\ Range(out') = {}
        /\ phase' = "within" => phase = "items"
        /\ phase' = "contacts" => phase = "within"
        /\ phase' = "done" => phase = "contacts" \/ (phase = "items" /\ job.single /\ job.mode = "rules")
        /\ phase' \in {"within", "contacts", "done"}
    BY LoopFacts DEF DuplicatesInv, AccountInv
  <1>5. Line' = Range(out) /\ Line = Range(out)
    BY <1>4 DEF Line
  <1>6. DOMAIN seen' = {"ids", "names", "phones", "emails"} /\ seen'.ids = {} /\ seen'.names = {}
        /\ seen'.phones = {} /\ seen'.emails = {}
    BY <1>1 DEF NothingSeen
  <1>7. CASE phase' = "within"
    <2>1. phase = "items" /\ Range(out') = {}
      BY <1>4, <1>7
    <2>2. SeenInv'
      BY <1>6, <1>7, <2>1 DEF SeenInv, Differ
    <2>3. \A k \in Items, q \in Duplicate : ~Has(k, q)'
      BY <1>3, <2>1 DEF DuplicatesInv, TwinInv
    <2>4. QED
      BY <1>2, <1>7, <2>2, <2>3 DEF TwinInv, Duplicate, ByPhone, ByEmail
  <1>8. CASE phase' = "contacts"
    <2>1. phase = "within" /\ Range(out') = {} /\ Range(todo') = Range(out)
      BY <1>4, <1>8
    <2>2. SeenInv'
      BY <1>2, <1>5, <1>6, <1>8, <2>1 DEF DuplicatesInv, SeenInv, Differ, DifferIfGiven
    <2>3. \A k \in Items : ~Has(k, ByPhone) /\ ~Has(k, ByEmail)
      BY <2>1 DEF DuplicatesInv, TwinInv
    <2>4. \A k \in Items : Remains(k) => Remains(k)'
      BY <1>8, <2>1, <2>3 DEF Remains
    <2>5. QED
      BY <1>2, <1>3, <1>8, <2>2, <2>3, <2>4 DEF DuplicatesInv, TwinInv
  <1>9. CASE phase' = "done" /\ phase = "contacts"
    <2>1. Range(out') = Range(out)
      BY <1>4, <1>9
    <2>2. SeenInv'
      BY <1>2, <1>5, <1>6, <1>9, <2>1 DEF DuplicatesInv, SeenInv, Differ, DifferIfGiven
    <2>3. \A k \in Items : Remains(k) => Remains(k)'
      BY <1>3, <1>4, <2>1 DEF Remains
    <2>4. QED
      BY <1>2, <1>3, <1>9, <2>1, <2>2, <2>3 DEF DuplicatesInv, TwinInv
  <1>10. CASE phase' = "done" /\ phase = "items"
    <2>1. ~Compared'
      BY <1>2, <1>4, <1>10 DEF Compared
    <2>2. SeenInv'
      BY <1>6, <1>10, <2>1 DEF SeenInv
    <2>3. \A k \in Items, q \in Duplicate : ~Has(k, q)'
      BY <1>3, <1>10 DEF DuplicatesInv, TwinInv
    <2>4. QED
      BY <1>2, <1>10, <2>2, <2>3 DEF TwinInv, Duplicate, ByPhone, ByEmail
  <1>11. QED
    BY <1>4, <1>7, <1>8, <1>9, <1>10

LEMMA JudgeStep == DuplicatesInv /\ Judge => SeenInv' /\ TwinInv'
  <1> SUFFICES ASSUME DuplicatesInv, Judge PROVE SeenInv' /\ TwinInv'
    OBVIOUS
  <1>1. UNCHANGED <<job, phase, seen>> /\ phase = "items"
    BY DEF Judge, Looks
  <1>2. Items' = Items
    BY <1>1, JobStays
  <1>3. SeenInv'
    BY <1>1 DEF DuplicatesInv, SeenInv
  <1>4. \A k \in Items, q \in Duplicate : ~Has(k, q)'
    BY <1>1, JudgeDrops DEF DuplicatesInv, TwinInv
  <1>5. QED
    BY <1>1, <1>2, <1>3, <1>4 DEF TwinInv, Duplicate, ByPhone, ByEmail

LEMMA DuplicatesStep == DuplicatesInv /\ [Transform]_vars => DuplicatesInv'
  <1>1. DuplicatesInv /\ UNCHANGED vars => SeenInv' /\ TwinInv'
    <2> SUFFICES ASSUME DuplicatesInv, UNCHANGED vars PROVE SeenInv' /\ TwinInv'
      OBVIOUS
    <2>1. UNCHANGED <<job, phase, todo, out, seen, rejected>>
      BY DEF vars
    <2>2. UNCHANGED <<Items, reasons, ids, nameCities, phones, emails, Compared, Line>>
      BY <2>1, JobStays, ValuesStay DEF Line
    <2>3. \A k, q : Has(k, q)' <=> Has(k, q)
      BY <2>1 DEF Has, Record
    <2>4. \A k : Remains(k)' <=> Remains(k)
      BY <2>1, <2>3 DEF Remains
    <2>5. SeenInv'
      BY <2>1, <2>2, <2>3 DEF DuplicatesInv, SeenInv, Differ, DifferIfGiven
    <2>6. TwinInv'
      BY <2>1, <2>2, <2>3, <2>4 DEF DuplicatesInv, TwinInv
    <2>7. QED
      BY <2>5, <2>6
  <1>2. DuplicatesInv /\ Transform => SeenInv' /\ TwinInv'
    BY JudgeStep, WithinStep, ContactsStep, LoopStep DEF Transform
  <1>3. QED
    BY <1>1, <1>2, AccountStep DEF DuplicatesInv

LEMMA DuplicatesInit == Init => DuplicatesInv
  <1> SUFFICES ASSUME Init PROVE DuplicatesInv
    OBVIOUS
  <1>1. /\ phase = "items" /\ rejected = <<>> /\ seen = NothingSeen
    BY DEF Init
  <1>2. DOMAIN seen = {"ids", "names", "phones", "emails"}
    BY <1>1 DEF NothingSeen
  <1>3. \A i, r : ~Has(i, r)
    BY <1>1, EmptyFacts DEF Has
  <1>4. SeenInv
    BY <1>1, <1>2 DEF SeenInv
  <1>5. TwinInv
    BY <1>3 DEF TwinInv
  <1>6. QED
    BY <1>4, <1>5, AccountInit DEF DuplicatesInv

LEMMA InvMakesExact == DuplicatesInv => DuplicatesAreExact
  <1> SUFFICES ASSUME DuplicatesInv, phase = "done", Compared PROVE DuplicatesAreExact
    BY DEF DuplicatesAreExact, Compared
  <1>1. /\ AccountInv /\ RecordInv /\ job \in Jobs
        /\ Items \in SUBSET Nat /\ Items = 1..Len(job.items) /\ Len(job.items) \in Nat
    BY JobFacts DEF DuplicatesInv, AccountInv, LineInv
  <1>2. \A i : Kept(i) <=> i \in Range(out)
    BY DEF Kept, InSeq, Range
  <1>3. ASSUME NEW i \in Items, NEW k \in Items
        PROVE  /\ SameId(i, k) <=> ids[i] = ids[k]
               /\ SameName(i, k) <=> nameCities[i] = nameCities[k]
               /\ SamePhone(i, k) <=> phones[i] = phones[k] /\ phones[i] # NoText
               /\ SameEmail(i, k) <=> emails[i] = emails[k] /\ emails[i] # NoText
    BY DEF SameId, SameName, SamePhone, SameEmail, ids, nameCities, phones, emails
  <1>4. ASSUME NEW i \in Items, NEW k \in Items, Kept(i), Kept(k), i # k
        PROVE  ~SameId(i, k) /\ ~SameName(i, k) /\ ~SamePhone(i, k) /\ ~SameEmail(i, k)
    <2>1. i \in Range(out) /\ k \in Range(out) /\ i \in Line /\ k \in Line
      BY <1>2, <1>4 DEF Line
    <2>2. /\ Differ(Line, ids) /\ Differ(Line, nameCities)
          /\ DifferIfGiven(Range(out), phones) /\ DifferIfGiven(Range(out), emails)
      BY DEF DuplicatesInv, SeenInv
    <2>3. QED
      BY <1>3, <1>4, <2>1, <2>2 DEF Differ, DifferIfGiven
  <1>5. ASSUME NEW k \in Items, NEW S \in SUBSET Verdicts, NEW r \in S, Has(k, r)
        PROVE  Times(k, S) = 1
    <2>1. \A q \in S : Has(k, q) => q = r
      BY <1>1, <1>5 DEF RecordInv
    <2>2. QED
      BY <1>1, <1>5, <2>1, TimesFacts
  <1>6. ASSUME NEW i \in Items, NEW r, Times(i, {r}) = 1
        PROVE  Has(i, r)
    BY <1>1, <1>6, TimesFacts
  <1>7. ASSUME NEW k \in Items
        PROVE  /\ Remains(k) => Kept(k) \/ Times(k, {ByPhone, ByEmail}) = 1
               /\ Has(k, ByEmail) => Times(k, {ByEmail}) = 1
    <2>1. {ByPhone, ByEmail} \in SUBSET Verdicts /\ {ByEmail} \in SUBSET Verdicts
      BY DEF Verdicts, Duplicate, ByPhone, ByEmail
    <2>2. Has(k, ByPhone) \/ Has(k, ByEmail) => Times(k, {ByPhone, ByEmail}) = 1
      BY <1>5, <2>1
    <2>3. Has(k, ByEmail) => Times(k, {ByEmail}) = 1
      BY <1>5, <2>1
    <2>4. QED
      BY <1>2, <2>2, <2>3 DEF Remains
  <1>8. \A i, k \in Items : k < i => k \in 1..(i - 1)
    BY <1>1
  <1>9. ASSUME NEW i \in Items
        PROVE  /\ Times(i, {"duplicate_id_within_message"}) = 1 =>
                    \E k \in 1..(i - 1) : reasons[k] = "none" /\ SameId(k, i)
                       /\ (Kept(k) \/ Times(k, {ByPhone, ByEmail}) = 1)
               /\ Times(i, {"duplicate_name_city_within_message"}) = 1 =>
                    \E k \in 1..(i - 1) : reasons[k] = "none" /\ SameName(k, i)
                       /\ (Kept(k) \/ Times(k, {ByPhone, ByEmail}) = 1)
               /\ Times(i, {ByPhone}) = 1 =>
                    \E k \in 1..(i - 1) : reasons[k] = "none" /\ SamePhone(k, i)
                       /\ (Kept(k) \/ Times(k, {ByEmail}) = 1)
               /\ Times(i, {ByEmail}) = 1 =>
                    \E k \in 1..(i - 1) : reasons[k] = "none" /\ SameEmail(k, i) /\ Kept(k)
    <2>1. ASSUME Times(i, {"duplicate_id_within_message"}) = 1
          PROVE  \E k \in Items : k < i /\ reasons[k] = "none" /\ ids[k] = ids[i] /\ Remains(k)
      BY <1>6, <2>1 DEF DuplicatesInv, TwinInv
    <2>2. ASSUME Times(i, {"duplicate_name_city_within_message"}) = 1
          PROVE  \E k \in Items : /\ k < i /\ reasons[k] = "none"
                                  /\ nameCities[k] = nameCities[i] /\ Remains(k)
      BY <1>6, <2>2 DEF DuplicatesInv, TwinInv
    <2>3. ASSUME Times(i, {ByPhone}) = 1
          PROVE  \E k \in Items : /\ k < i /\ reasons[k] = "none"
                                  /\ phones[k] = phones[i] /\ phones[k] # NoText
                                  /\ k \in Range(out) \/ Has(k, ByEmail)
      BY <1>6, <2>3 DEF DuplicatesInv, TwinInv
    <2>4. ASSUME Times(i, {ByEmail}) = 1
          PROVE  \E k \in Items : /\ k < i /\ reasons[k] = "none"
                                  /\ emails[k] = emails[i] /\ emails[k] # NoText
                                  /\ k \in Range(out)
      BY <1>6, <2>4 DEF DuplicatesInv, TwinInv
    <2>5. QED
      BY <1>2, <1>3, <1>7, <1>8, <2>1, <2>2, <2>3, <2>4
  <1>10. QED
    BY <1>4, <1>9 DEF DuplicatesAreExact, Items, ByPhone, ByEmail

\* The two passes, between two steps too: what a pass has seen is what it kept, and each
\* station it dropped has an earlier twin among that (base.py:257-367).
THEOREM Twins == TransformSpec => []DuplicatesInv
  BY DuplicatesInit, DuplicatesStep, PTL DEF TransformSpec

\* What is kept of a message differs pairwise in id, in name and city, in phone and in
\* email, and each station dropped as a duplicate has the earlier twin it was dropped
\* for, whatever the message (base.py:319, 341-360).
THEOREM DuplicatesExact == TransformSpec => []DuplicatesAreExact
  BY Twins, InvMakesExact, PTL

-----------------------------------------------------------------------------
(* The tables of names.                                                    *)

\* A source tries aliases of the field, and "ciudad", which is nobody's alias.
Known(f) == aliases[f] \cup {"ciudad"}

Tried(source, f) == names[source][f] \in Seq(Known(f)) /\ names[source][f] # <<>>

LEMMA Tuples ==
  ASSUME NEW A, NEW a \in A, NEW b \in A, NEW c \in A, NEW d \in A
  PROVE  /\ <<a>> \in Seq(A) /\ <<a>> # <<>>
         /\ <<a, b>> \in Seq(A) /\ <<a, b>> # <<>>
         /\ <<a, b, c>> \in Seq(A) /\ <<a, b, c>> # <<>>
         /\ <<a, b, c, d>> \in Seq(A) /\ <<a, b, c, d>> # <<>>
  OBVIOUS

LEMMA CatalunyaTries == \A f \in Field : Tried("catalunya", f)
  <1>1. /\ names["catalunya"]["raw_id"] = <<"id">>
        /\ names["catalunya"]["name"] = <<"nom">>
        /\ names["catalunya"]["address"] = <<"adreca">>
        /\ names["catalunya"]["city"] = <<"ciutat">>
        /\ names["catalunya"]["province"] = <<"provincia">>
        /\ names["catalunya"]["postal_code"] = <<"codi_postal">>
        /\ names["catalunya"]["latitude"] = <<"latitud">>
        /\ names["catalunya"]["longitude"] = <<"longitud">>
        /\ names["catalunya"]["phone"] = <<"telefon">>
        /\ names["catalunya"]["email"] = <<"email">>
    BY DEF names
  <1>2. /\ "id" \in Known("raw_id") /\ "nom" \in Known("name") /\ "adreca" \in Known("address")
        /\ "ciutat" \in Known("city") /\ "provincia" \in Known("province")
        /\ "codi_postal" \in Known("postal_code") /\ "latitud" \in Known("latitude")
        /\ "longitud" \in Known("longitude") /\ "telefon" \in Known("phone")
        /\ "email" \in Known("email")
    BY DEF aliases, Known
  <1>3. /\ Tried("catalunya", "raw_id") /\ Tried("catalunya", "name")
        /\ Tried("catalunya", "address") /\ Tried("catalunya", "city")
        /\ Tried("catalunya", "province")
    BY <1>1, <1>2, Tuples DEF Tried
  <1>4. /\ Tried("catalunya", "postal_code") /\ Tried("catalunya", "latitude")
        /\ Tried("catalunya", "longitude") /\ Tried("catalunya", "phone")
        /\ Tried("catalunya", "email")
    BY <1>1, <1>2, Tuples DEF Tried
  <1>5. QED
    BY <1>3, <1>4 DEF Field

LEMMA ValenciaTries == \A f \in Field : Tried("valencia", f)
  <1>1. /\ names["valencia"]["raw_id"] = <<"codigo", "id", "station_id">>
        /\ names["valencia"]["name"] = <<"nombre", "name">>
        /\ names["valencia"]["address"] = <<"direccion", "address">>
        /\ names["valencia"]["city"] = <<"poblacion", "ciudad", "city">>
        /\ names["valencia"]["province"] = <<"provincia", "province">>
        /\ names["valencia"]["postal_code"] = <<"codigo_postal", "cp", "postal_code">>
        /\ names["valencia"]["latitude"] = <<"latitud", "latitude">>
        /\ names["valencia"]["longitude"] = <<"longitud", "longitude">>
        /\ names["valencia"]["phone"] = <<"telefono", "phone">>
        /\ names["valencia"]["email"] = <<"correo", "email">>
    BY DEF names
  <1>2. /\ {"codigo", "id", "station_id"} \subseteq Known("raw_id")
        /\ {"nombre", "name"} \subseteq Known("name")
        /\ {"direccion", "address"} \subseteq Known("address")
        /\ {"poblacion", "ciudad", "city"} \subseteq Known("city")
        /\ {"provincia", "province"} \subseteq Known("province")
        /\ {"codigo_postal", "cp", "postal_code"} \subseteq Known("postal_code")
        /\ {"latitud", "latitude"} \subseteq Known("latitude")
        /\ {"longitud", "longitude"} \subseteq Known("longitude")
        /\ {"telefono", "phone"} \subseteq Known("phone")
        /\ {"correo", "email"} \subseteq Known("email")
    BY DEF aliases, Known
  <1>3. /\ Tried("valencia", "raw_id") /\ Tried("valencia", "name")
        /\ Tried("valencia", "address") /\ Tried("valencia", "city")
        /\ Tried("valencia", "province")
    BY <1>1, <1>2, Tuples DEF Tried
  <1>4. /\ Tried("valencia", "postal_code") /\ Tried("valencia", "latitude")
        /\ Tried("valencia", "longitude") /\ Tried("valencia", "phone")
        /\ Tried("valencia", "email")
    BY <1>1, <1>2, Tuples DEF Tried
  <1>5. QED
    BY <1>3, <1>4 DEF Field

LEMMA GaliciaTries == \A f \in Field : Tried("galicia", f)
  <1>1. /\ names["galicia"]["raw_id"] = <<"id", "codigo", "station_id">>
        /\ names["galicia"]["name"] = <<"nome", "nombre", "name">>
        /\ names["galicia"]["address"] = <<"enderezo", "direccion", "address">>
        /\ names["galicia"]["city"] = <<"concello", "poblacion", "ciudad", "city">>
        /\ names["galicia"]["province"] = <<"provincia", "province">>
        /\ names["galicia"]["postal_code"] = <<"cp", "codigo_postal", "postal_code">>
        /\ names["galicia"]["latitude"] = <<"lat", "latitud", "latitude">>
        /\ names["galicia"]["longitude"] = <<"lon", "longitud", "longitude">>
        /\ names["galicia"]["phone"] = <<"telefono", "phone">>
        /\ names["galicia"]["email"] = <<"email", "correo">>
    BY DEF names
  <1>2. /\ {"id", "codigo", "station_id"} \subseteq Known("raw_id")
        /\ {"nome", "nombre", "name"} \subseteq Known("name")
        /\ {"enderezo", "direccion", "address"} \subseteq Known("address")
        /\ {"concello", "poblacion", "ciudad", "city"} \subseteq Known("city")
        /\ {"provincia", "province"} \subseteq Known("province")
        /\ {"cp", "codigo_postal", "postal_code"} \subseteq Known("postal_code")
        /\ {"lat", "latitud", "latitude"} \subseteq Known("latitude")
        /\ {"lon", "longitud", "longitude"} \subseteq Known("longitude")
        /\ {"telefono", "phone"} \subseteq Known("phone")
        /\ {"email", "correo"} \subseteq Known("email")
    BY DEF aliases, Known
  <1>3. /\ Tried("galicia", "raw_id") /\ Tried("galicia", "name")
        /\ Tried("galicia", "address") /\ Tried("galicia", "city")
        /\ Tried("galicia", "province")
    BY <1>1, <1>2, Tuples DEF Tried
  <1>4. /\ Tried("galicia", "postal_code") /\ Tried("galicia", "latitude")
        /\ Tried("galicia", "longitude") /\ Tried("galicia", "phone")
        /\ Tried("galicia", "email")
    BY <1>1, <1>2, Tuples DEF Tried
  <1>5. QED
    BY <1>3, <1>4 DEF Field

LEMMA TriedFacts ==
  ASSUME NEW source \in Sources, NEW f \in Field, NEW tried, tried = names[source][f]
  PROVE  /\ Len(tried) \in Nat /\ Len(tried) > 0
         /\ DOMAIN tried = 1..Len(tried)
         /\ \A k \in DOMAIN tried : tried[k] \in Known(f)
  <1>1. tried \in Seq(Known(f)) /\ tried # <<>>
    BY CatalunyaTries, ValenciaTries, GaliciaTries DEF Sources, Tried
  <1>2. QED
    BY <1>1

\* No name is an alias of two fields.
LEMMA AliasesApart ==
  ASSUME NEW f \in Field
  PROVE  /\ "ciudad" \notin aliases[f]
         /\ \A g \in Field : f # g => aliases[f] \cap aliases[g] = {}
  BY DEF aliases, Field

-----------------------------------------------------------------------------
(* Both modes make the same of a plain item.                               *)

\* A name that is an alias of one target is no near match of another.  The highest that
\* Jaro-Winkler gives is 79 percent, for "province" and "phone"; THRESHOLD_HIGH is 85.
SimilarityApart ==
  \A p \in DOMAIN similarity :
    /\ similarity[p] \in Nat
    /\ (\E g \in Field : p[1] \in aliases[g]) => similarity[p] < THRESHOLD_HIGH

LEMMA ScoreFacts ==
  ASSUME SimilarityApart, NEW f \in Field, NEW g \in Field, NEW name \in aliases[g]
  PROVE  /\ Score(name, f) \in 0..100
         /\ name \in aliases[f] => Score(name, f) = 100
         /\ name \notin aliases[f] => Score(name, f) < THRESHOLD_HIGH
  <1>1. /\ 0 < THRESHOLD_HIGH /\ THRESHOLD_HIGH <= 100 /\ THRESHOLD_HIGH \in Nat
    BY TransformersAssumption
  <1>2. CASE name \in aliases[f]
    BY <1>2 DEF Score
  <1>3. CASE name \notin aliases[f] /\ <<name, f>> \notin DOMAIN similarity
    BY <1>1, <1>3 DEF Score
  <1>4. CASE name \notin aliases[f] /\ <<name, f>> \in DOMAIN similarity
    <2> DEFINE p == <<name, f>>
    <2>1. p[1] = name
      OBVIOUS
    <2> HIDE DEF p
    <2>2. Score(name, f) = similarity[p]
      BY <1>4 DEF Score, p
    <2>3. similarity[p] \in Nat /\ similarity[p] < THRESHOLD_HIGH
      BY <1>4, <2>1 DEF SimilarityApart, p
    <2>4. QED
      BY <1>1, <1>4, <2>2, <2>3
  <1>5. QED
    BY <1>2, <1>3, <1>4

LEMMA FirstOfTheMost ==
  ASSUME NEW n \in Nat, n > 0, NEW score, \A k \in 1..n : score[k] \in 0..100
  PROVE  \E i \in 1..n : \A k \in 1..n :
           \/ score[k] < score[i]
           \/ score[k] = score[i] /\ i <= k
  <1> DEFINE lack == [k \in 1..n |-> 101 - score[k]]
             Lacks == {lack[k] : k \in 1..n}
             least == Min(Lacks)
             First == {k \in 1..n : lack[k] = least}
             i == Min(First)
  <1>1. \A k \in 1..n : score[k] \in Int /\ lack[k] \in 1..101 /\ score[k] = 101 - lack[k]
    <2> SUFFICES ASSUME NEW k \in 1..n
                 PROVE  score[k] \in Int /\ lack[k] \in 1..101 /\ score[k] = 101 - lack[k]
      OBVIOUS
    <2>1. score[k] \in 0..100
      OBVIOUS
    <2>2. lack[k] = 101 - score[k]
      OBVIOUS
    <2> HIDE DEF lack
    <2>3. QED
      BY <2>1, <2>2
  <1> HIDE DEF lack
  <1>2. Lacks \in SUBSET (1..101) /\ Lacks # {}
    <2>1. \A k \in 1..n : lack[k] \in 1..101
      BY <1>1
    <2>2. 1 \in 1..n
      OBVIOUS
    <2>3. QED
      BY <2>1, <2>2
  <1>3. least \in Lacks /\ \A s \in Lacks : least <= s
    BY <1>2, LeastFacts
  <1> HIDE DEF least
  <1>4. First \in SUBSET (1..n) /\ First # {}
    BY <1>3
  <1>5. i \in First /\ \A k \in First : i <= k
    BY <1>4, LeastFacts
  <1> HIDE DEF i
  <1>6. i \in 1..n /\ \A k \in 1..n : lack[i] <= lack[k]
    BY <1>3, <1>5
  <1>7. \A k \in 1..n : lack[k] = lack[i] => i <= k
    BY <1>5
  <1>8. ASSUME NEW k \in 1..n PROVE score[k] < score[i] \/ (score[k] = score[i] /\ i <= k)
    <2>1. lack[i] <= lack[k] /\ lack[i] \in Int /\ lack[k] \in Int
      <3>1. lack[i] \in 1..101 /\ lack[k] \in 1..101 /\ lack[i] <= lack[k]
        BY <1>1, <1>6
      <3>2. QED
        BY <3>1
    <2>2. lack[i] < lack[k] \/ lack[i] = lack[k]
      BY <2>1
    <2>3. QED
      BY <1>1, <1>6, <1>7, <2>1, <2>2
  <1>9. QED
    BY <1>6, <1>8

\* There is a best name, and no other is better.
LEMMA BestFacts ==
  ASSUME NEW item, NEW n \in Nat, n > 0, DOMAIN item = 1..n, NEW f,
         \A k \in 1..n : Score(item[k][1], f) \in 0..100
  PROVE  /\ Best(item, f) \in 1..n
         /\ \A k \in 1..n : \/ Score(item[k][1], f) < Score(item[Best(item, f)][1], f)
                            \/ Score(item[k][1], f) = Score(item[Best(item, f)][1], f)
  <1> DEFINE score == [k \in 1..n |-> Score(item[k][1], f)]
             Fits(j) == \A k \in DOMAIN item :
                          \/ Score(item[k][1], f) < Score(item[j][1], f)
                          \/ Score(item[k][1], f) = Score(item[j][1], f) /\ j <= k
  <1>1. \A k \in 1..n : score[k] \in 0..100 /\ score[k] = Score(item[k][1], f)
    OBVIOUS
  <1> HIDE DEF score
  <1>2. PICK i \in 1..n : \A k \in 1..n :
          \/ score[k] < score[i]
          \/ score[k] = score[i] /\ i <= k
    BY <1>1, FirstOfTheMost
  <1>3. Fits(i) /\ i \in DOMAIN item
    BY <1>1, <1>2
  <1>4. Best(item, f) = CHOOSE j \in DOMAIN item : Fits(j)
    BY DEF Best
  <1>5. Best(item, f) \in DOMAIN item /\ Fits(Best(item, f))
    <2> HIDE DEF Fits
    <2>1. QED
      BY <1>3, <1>4
  <1>6. QED
    BY <1>5

LEMMA OneAtMost ==
  ASSUME NEW n \in Nat, NEW S \in SUBSET (1..n), Cardinality(S) <= 1,
         NEW a \in S, NEW b \in S
  PROVE  a = b
  <1>1. IsFiniteSet(S) /\ Cardinality(S) \in 0..n
    BY PlaceFacts
  <1>2. Cardinality(S) # 0
    BY <1>1, FS_EmptySet
  <1>3. PICK x : S = {x}
    BY <1>1, <1>2, FS_Singleton
  <1>4. QED
    BY <1>3

\* get(a) or get(b) or ..., when it finds one value or nothing.
LEMMA FirstTrueFacts ==
  ASSUME NEW item, NEW f, NEW text, NEW v, NEW tried,
         Len(tried) \in Nat, Len(tried) > 0, DOMAIN tried = 1..Len(tried),
         \A k \in DOMAIN tried : Get(item, f, tried[k]) \in {v, None(f)}
  PROVE  /\ FirstTrue(item, f, tried, text) \in {v, None(f)}
         /\ ~Falsy(f, v, text) /\ (\E k \in DOMAIN tried : Get(item, f, tried[k]) = v)
              => FirstTrue(item, f, tried, text) = v
  <1> DEFINE true == {k \in DOMAIN tried : ~Falsy(f, Get(item, f, tried[k]), text)}
             at == IF true # {} THEN Min(true) ELSE Len(tried)
  <1>1. true # {} => Min(true) \in true
    BY LeastFacts
  <1>2. FirstTrue(item, f, tried, text) = Get(item, f, tried[at])
    BY DEF FirstTrue
  <1>3. at \in DOMAIN tried
    BY <1>1
  <1>4. ASSUME ~Falsy(f, v, text), NEW k \in DOMAIN tried, Get(item, f, tried[k]) = v
        PROVE  Get(item, f, tried[at]) = v
    <2>1. k \in true
      BY <1>4
    <2>2. at \in true
      BY <1>1, <2>1
    <2>3. Get(item, f, tried[at]) # None(f)
      BY <2>2 DEF Falsy
    <2>4. QED
      BY <1>3, <2>3
  <1> HIDE DEF at
  <1>5. QED
    BY <1>2, <1>3, <1>4

\* An item that both modes are to agree on.
PlainItem(source, text, item) ==
  /\ IsSequence(item) /\ source \in Sources
  /\ Plain(source, item, text) /\ LowConfidence(item) = {}

\* A name of a plain item is an alias that its source tries for its own target alone.
LEMMA PlainNames ==
  ASSUME NEW source, NEW text, NEW item, PlainItem(source, text, item), NEW i \in DOMAIN item
  PROVE  /\ \E g \in Field : item[i][1] \in aliases[g]
         /\ item[i][1] # "ciudad"
         /\ \A f \in Field : item[i][1] \in aliases[f] =>
              /\ \E k \in DOMAIN names[source][f] : names[source][f][k] = item[i][1]
              /\ \A j \in DOMAIN item : item[j][1] \in aliases[f] => j = i
  <1>1. PICK g \in Field : InSeq(item[i][1], names[source][g]) /\ item[i][1] \in aliases[g]
    BY DEF PlainItem, Plain
  <1>2. item[i][1] # "ciudad"
    BY <1>1, AliasesApart
  <1>3. ASSUME NEW f \in Field, item[i][1] \in aliases[f]
        PROVE  /\ \E k \in DOMAIN names[source][f] : names[source][f][k] = item[i][1]
               /\ \A j \in DOMAIN item : item[j][1] \in aliases[f] => j = i
    <2>1. f = g
      BY <1>1, <1>3, AliasesApart
    <2>2. DOMAIN item = 1..Len(item) /\ Len(item) \in Nat
      BY SequenceFacts DEF PlainItem
    <2> DEFINE S == {j \in DOMAIN item : item[j][1] \in aliases[f]}
    <2>3. Cardinality(S) <= 1
      BY DEF PlainItem, Plain
    <2>4. S \in SUBSET (1..Len(item)) /\ i \in S
      BY <1>3, <2>2
    <2> HIDE DEF S
    <2>5. \A j \in S : j = i
      BY <2>2, <2>3, <2>4, OneAtMost
    <2>6. QED
      BY <1>1, <2>1, <2>5 DEF InSeq, S
  <1>4. QED
    BY <1>1, <1>2, <1>3

LEMMA NothingToClean ==
  ASSUME NEW f \in Field
  PROVE  Clean(f, None(f)) = None(f)
  <1>1. NoText \notin DOMAIN upper /\ NoText \notin DOMAIN cleaned /\ NoText # " "
    BY TransformersAssumption DEF NoText
  <1>2. CASE f \in Numbers
    BY <1>2 DEF Clean, None, Numbers
  <1>3. CASE f \notin Numbers
    BY <1>1, <1>3 DEF Clean, None, In
  <1>4. QED
    BY <1>2, <1>3

\* Both modes take the one value that the item has for the field.
LEMMA FieldGiven ==
  ASSUME SimilarityApart, NEW source, NEW text, NEW item, PlainItem(source, text, item),
         NEW f \in Field, NEW i \in DOMAIN item, item[i][1] \in aliases[f]
  PROVE  ByRules(source, text, item)[f] = BySimilarity(item)[f]
  <1> DEFINE n == Len(item)
             tried == names[source][f]
             v == item[i][2]
             best == Best(item, f)
  <1>1. n \in Nat /\ DOMAIN item = 1..n
    BY SequenceFacts DEF PlainItem
  <1> HIDE DEF n
  <1>2. \A j \in 1..n : item[j][1] \in aliases[f] => j = i
    BY <1>1, PlainNames
  <1>3. /\ \A j \in 1..n : Score(item[j][1], f) \in 0..100
        /\ Score(item[i][1], f) = 100
        /\ \A j \in 1..n : j # i => Score(item[j][1], f) < THRESHOLD_HIGH
    <2>1. ASSUME NEW j \in 1..n
          PROVE  /\ Score(item[j][1], f) \in 0..100
                 /\ j # i => Score(item[j][1], f) < THRESHOLD_HIGH
      <3>1. PICK g \in Field : item[j][1] \in aliases[g]
        BY <1>1, PlainNames
      <3>2. QED
        BY <1>2, <3>1, ScoreFacts
    <2>2. Score(item[i][1], f) = 100
      BY ScoreFacts
    <2>3. QED
      BY <2>1, <2>2
  <1>4. best = i
    <2>1. /\ best \in 1..n
          /\ \A k \in 1..n : \/ Score(item[k][1], f) < Score(item[best][1], f)
                             \/ Score(item[k][1], f) = Score(item[best][1], f)
      <3>1. n > 0
        BY <1>1
      <3>2. \A j \in 1..n : Score(item[j][1], f) \in 0..100
        BY <1>3
      <3>3. n \in Nat /\ DOMAIN item = 1..n
        BY <1>1
      <3>4. QED
        BY ONLY <3>1, <3>2, <3>3, BestFacts
    <2> DEFINE top == Score(item[best][1], f)
    <2>2. THRESHOLD_HIGH \in Nat /\ THRESHOLD_HIGH <= 100
      BY TransformersAssumption
    <2>3. top \in 0..100
      BY <1>3, <2>1
    <2>4. 100 < top \/ 100 = top
      BY <1>1, <1>3, <2>1
    <2>5. best # i => top < THRESHOLD_HIGH
      BY <1>3, <2>1
    <2> HIDE DEF top
    <2>6. ~(top < THRESHOLD_HIGH)
      BY ONLY <2>2, <2>3, <2>4
    <2>7. QED
      BY <2>5, <2>6
  <1>5. BySimilarity(item)[f] = Clean(f, v)
    <2>1. item # <<>>
      <3>1. DOMAIN <<>> = {}
        OBVIOUS
      <3>2. QED
        BY <3>1
    <2>2. BestScore(item, f) = 100
      BY <1>3, <1>4, <2>1 DEF BestScore
    <2>3. THRESHOLD_LOW \in Nat /\ THRESHOLD_HIGH \in Nat
          /\ THRESHOLD_LOW <= THRESHOLD_HIGH /\ THRESHOLD_HIGH <= 100
      BY TransformersAssumption
    <2>4. BestScore(item, f) >= THRESHOLD_LOW
      BY <2>2, <2>3
    <2>5. QED
      BY <1>4, <2>4 DEF BySimilarity
  <1>6. /\ Len(tried) \in Nat /\ Len(tried) > 0 /\ DOMAIN tried = 1..Len(tried)
        /\ \A k \in DOMAIN tried : tried[k] \in Known(f)
    BY TriedFacts DEF PlainItem
  <1>7. \A name : Places(item, name) = {j \in DOMAIN item : item[j][1] = name}
    BY DEF Places
  <1>8. ASSUME NEW k \in DOMAIN tried
        PROVE  Get(item, f, tried[k]) = IF tried[k] = item[i][1] THEN v ELSE None(f)
    <2>1. ASSUME NEW j \in Places(item, tried[k]) PROVE j = i
      <3>1. j \in DOMAIN item /\ item[j][1] = tried[k]
        BY <1>7, <2>1
      <3>2. item[j][1] # "ciudad"
        BY <3>1, PlainNames
      <3>3. tried[k] \in aliases[f]
        BY <1>6, <3>1, <3>2 DEF Known
      <3>4. QED
        BY <1>1, <1>2, <3>1, <3>3
    <2>2. CASE tried[k] = item[i][1]
      <3>1. Places(item, tried[k]) = {i}
        BY <1>7, <2>1, <2>2
      <3>2. QED
        BY <2>2, <3>1 DEF Get
    <2>3. CASE tried[k] # item[i][1]
      <3>1. Places(item, tried[k]) = {}
        BY <1>7, <2>1, <2>3
      <3>2. QED
        BY <2>3, <3>1 DEF Get
    <2>4. QED
      BY <2>2, <2>3
  <1>9. \E k \in DOMAIN tried : tried[k] = item[i][1]
    BY PlainNames
  <1> HIDE DEF tried, v
  <1>10. /\ FirstTrue(item, f, tried, text) \in {v, None(f)}
         /\ ~Falsy(f, v, text) => FirstTrue(item, f, tried, text) = v
    <2>1. /\ \A k \in DOMAIN tried : Get(item, f, tried[k]) \in {v, None(f)}
          /\ \E k \in DOMAIN tried : Get(item, f, tried[k]) = v
      BY <1>8, <1>9
    <2>2. QED
      BY <1>6, <2>1, FirstTrueFacts
  <1>11. ByRules(source, text, item)[f] = Clean(f, FirstTrue(item, f, tried, text))
    BY DEF ByRules, tried
  <1>12. CASE FirstTrue(item, f, tried, text) = v
    BY <1>5, <1>11, <1>12
  <1>13. CASE FirstTrue(item, f, tried, text) # v
    <2>1. v # None(f) /\ f \in {"latitude", "longitude"} /\ v = 0 /\ ~text
      BY <1>10, <1>13 DEF Falsy
    <2>2. QED
      BY <2>1 DEF PlainItem, Plain, v
  <1>14. QED
    BY <1>12, <1>13

\* Neither mode finds a field that the item does not have.
LEMMA FieldMissing ==
  ASSUME SimilarityApart, NEW source, NEW text, NEW item, PlainItem(source, text, item),
         NEW f \in Field, \A i \in DOMAIN item : item[i][1] \notin aliases[f]
  PROVE  ByRules(source, text, item)[f] = BySimilarity(item)[f]
  <1> DEFINE n == Len(item)
             tried == names[source][f]
             best == Best(item, f)
  <1>1. n \in Nat /\ DOMAIN item = 1..n /\ (n = 0 => item = <<>>)
    BY SequenceFacts DEF PlainItem
  <1>2. \A j \in 1..n : Score(item[j][1], f) \in 0..100 /\ Score(item[j][1], f) < THRESHOLD_HIGH
    <2> SUFFICES ASSUME NEW j \in 1..n
                 PROVE  Score(item[j][1], f) \in 0..100 /\ Score(item[j][1], f) < THRESHOLD_HIGH
      OBVIOUS
    <2>1. PICK g \in Field : item[j][1] \in aliases[g]
      BY <1>1, PlainNames
    <2>2. QED
      BY <1>1, <2>1, ScoreFacts
  <1>3. THRESHOLD_LOW \in Nat /\ THRESHOLD_HIGH \in Nat
        /\ 0 < THRESHOLD_LOW /\ THRESHOLD_LOW <= THRESHOLD_HIGH
    BY TransformersAssumption
  <1>4. BestScore(item, f) \in Nat /\ BestScore(item, f) < THRESHOLD_HIGH
    <2>1. CASE item = <<>>
      BY <1>3, <2>1 DEF BestScore
    <2>2. CASE item # <<>>
      <3>1. best \in 1..n
        <4>1. n > 0
          BY <1>1, <2>2
        <4>2. QED
          BY <1>1, <1>2, <4>1, BestFacts
      <3> HIDE DEF best
      <3>2. BestScore(item, f) = Score(item[best][1], f)
        BY <2>2 DEF BestScore, best
      <3>3. Score(item[best][1], f) \in 0..100 /\ Score(item[best][1], f) < THRESHOLD_HIGH
        BY <1>2, <3>1
      <3>4. QED
        BY <3>2, <3>3
    <2>3. QED
      BY <2>1, <2>2
  <1>5. BestScore(item, f) \notin THRESHOLD_LOW..(THRESHOLD_HIGH - 1)
    BY DEF PlainItem, LowConfidence
  <1>6. ~(BestScore(item, f) >= THRESHOLD_LOW)
    BY <1>3, <1>4, <1>5
  <1>7. BySimilarity(item)[f] = None(f)
    BY <1>6 DEF BySimilarity
  <1>8. /\ Len(tried) \in Nat /\ Len(tried) > 0 /\ DOMAIN tried = 1..Len(tried)
        /\ \A k \in DOMAIN tried : tried[k] \in Known(f)
    BY TriedFacts DEF PlainItem
  <1>9. \A k \in DOMAIN tried : Get(item, f, tried[k]) = None(f)
    <2> SUFFICES ASSUME NEW k \in DOMAIN tried PROVE Places(item, tried[k]) = {}
      BY DEF Get
    <2>1. \A j \in DOMAIN item : item[j][1] # "ciudad" /\ item[j][1] \notin aliases[f]
      BY PlainNames
    <2>2. QED
      BY <1>8, <2>1 DEF Places, Known
  <1> HIDE DEF tried
  <1>10. FirstTrue(item, f, tried, text) = None(f)
    <2>1. \A k \in DOMAIN tried : Get(item, f, tried[k]) \in {None(f), None(f)}
      BY <1>9
    <2>2. FirstTrue(item, f, tried, text) \in {None(f), None(f)}
      BY <1>8, <2>1, FirstTrueFacts
    <2>3. QED
      BY <2>2
  <1>11. ByRules(source, text, item)[f] = Clean(f, FirstTrue(item, f, tried, text))
    BY DEF ByRules, tried
  <1>12. QED
    BY <1>7, <1>10, <1>11, NothingToClean

LEMMA FieldsAgree ==
  ASSUME SimilarityApart, NEW source, NEW text, NEW item, PlainItem(source, text, item),
         NEW f \in Field
  PROVE  ByRules(source, text, item)[f] = BySimilarity(item)[f]
  BY FieldGiven, FieldMissing

LEMMA ModesAgreeOnPlain ==
  ASSUME SimilarityApart, NEW source, NEW text, NEW single, NEW item,
         PlainItem(source, text, item), item # Junk
  PROVE  LET byRules == RulesReason(source, text, single, item) = "none"
             byFuzzy == FuzzyReason(text, item) = "none"
         IN  /\ byRules <=> byFuzzy /\ ~(single /\ ~IsStation(source, item))
             /\ byRules => ByRules(source, text, item) = BySimilarity(item)
  <1> DEFINE r == ByRules(source, text, item)
             s == BySimilarity(item)
  <1>1. r = s
    BY FieldsAgree DEF ByRules, BySimilarity
  <1>2. RulesReason(source, text, single, item) = "none" <=>
          /\ ~(single /\ ~IsStation(source, item))
          /\ r.raw_id # NoText /\ Schema(r) /\ Reason(r) = "none"
    BY DEF RulesReason
  <1>3. FuzzyReason(text, item) = "none" <=>
          /\ ~(text /\ item = <<>>)
          /\ NoText \notin {s.raw_id, s.name} /\ Schema(s) /\ Reason(s) = "none"
    BY DEF FuzzyReason
  <1>4. Schema(s) => s.name # NoText
    BY DEF Schema
  <1>5. item = <<>> => s.raw_id = NoText
    <2>1. "raw_id" \in Field /\ None("raw_id") = NoText
      BY DEF Field, Numbers, None
    <2>2. item = <<>> => ~(BestScore(item, "raw_id") >= THRESHOLD_LOW)
      BY TransformersAssumption DEF BestScore
    <2>3. QED
      BY <2>1, <2>2 DEF BySimilarity
  <1> HIDE DEF r, s
  <1>6. QED
    BY <1>1, <1>2, <1>3, <1>4, <1>5 DEF r, s

LEMMA JobsAgree == SimilarityApart /\ job \in Jobs => ModesAgree
  <1> SUFFICES ASSUME SimilarityApart, job \in Jobs, NEW i \in DOMAIN job.items,
                      job.items[i] # Junk,
                      Plain(job.source, job.items[i], job.text),
                      LowConfidence(job.items[i]) = {}
               PROVE  LET byRules == ReasonIn("rules", i) = "none"
                          byFuzzy == ReasonIn("fuzzy", i) = "none"
                      IN  /\ byRules <=> byFuzzy /\ ~Untold(i)
                          /\ byRules => ByRules(job.source, job.text, job.items[i])
                                          = BySimilarity(job.items[i])
    BY DEF ModesAgree
  <1>1. IsSequence(job.items[i]) /\ job.source \in Sources
    BY TransformersAssumption DEF Job
  <1>2. PlainItem(job.source, job.text, job.items[i])
    BY <1>1 DEF PlainItem
  <1>3. QED
    BY <1>2, ModesAgreeOnPlain DEF ReasonIn, Untold

\* The transformers of the sources and the fuzzy one keep the same plain items and make
\* the same stations of them, for any message, tables and thresholds
\* (docs/architecture_decision_records.md:38-55); but for objects on their own that are
\* not told to be stations, of which the former make nothing (valencia.py:80-82).
THEOREM BothModesAgree ==
  ASSUME SimilarityApart
  PROVE  TransformSpec => []ModesAgree
  <1>1. AccountInv => ModesAgree
    BY JobsAgree DEF AccountInv, LineInv
  <1>2. QED
    BY <1>1, Accounting, PTL
=============================================================================
