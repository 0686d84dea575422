----------------------------- MODULE Transformers -----------------------------
(***************************************************************************)
(* The transformers that need no LLM: one per source, which looks fields   *)
(* up by the names of its source (catalunya.py, valencia.py, galicia.py),  *)
(* and the fuzzy one, which takes the most similar name (fuzzy.py).  Both  *)
(* map and judge the items of a message one by one, then drop duplicates   *)
(* in two passes over what is left (base.py).                              *)
(*                                                                         *)
(* An item is the sequence of its fields' names and values.  The stations  *)
(* of the two passes are named by the places of their items.               *)
(***************************************************************************)
EXTENDS StationRules, FiniteSets

CONSTANTS
  Junk,       \* an item that is no object
  Jobs,       \* the messages to choose from: see Job
  upper,      \* texts, and what they are in upper case when that differs
  cleaned,    \* phone numbers, and what _clean_phone makes of them when that differs
  similarity, \* percent, for pairs of a field's name and a target it is no alias of
  THRESHOLD_HIGH, THRESHOLD_LOW \* FUZZY_THRESHOLD_*, in percent

Sources == {"catalunya", "valencia", "galicia"}

Field == {"raw_id", "name", "address", "city", "province", "postal_code",
          "latitude", "longitude", "phone", "email"}
Numbers == {"postal_code", "latitude", "longitude"}

\* the names that each transformer tries for a field, in its order
names ==
  [catalunya |->
    [raw_id |-> <<"id">>, name |-> <<"nom">>, address |-> <<"adreca">>,
     city |-> <<"ciutat">>, province |-> <<"provincia">>, postal_code |-> <<"codi_postal">>,
     latitude |-> <<"latitud">>, longitude |-> <<"longitud">>, phone |-> <<"telefon">>,
     email |-> <<"email">>],
   valencia |->
    [raw_id |-> <<"codigo", "id", "station_id">>, name |-> <<"nombre", "name">>,
     address |-> <<"direccion", "address">>, city |-> <<"poblacion", "ciudad", "city">>,
     province |-> <<"provincia", "province">>,
     postal_code |-> <<"codigo_postal", "cp", "postal_code">>,
     latitude |-> <<"latitud", "latitude">>, longitude |-> <<"longitud", "longitude">>,
     phone |-> <<"telefono", "phone">>, email |-> <<"correo", "email">>],
   galicia |->
    [raw_id |-> <<"id", "codigo", "station_id">>, name |-> <<"nome", "nombre", "name">>,
     address |-> <<"enderezo", "direccion", "address">>,
     city |-> <<"concello", "poblacion", "ciudad", "city">>,
     province |-> <<"provincia", "province">>,
     postal_code |-> <<"cp", "codigo_postal", "postal_code">>,
     latitude |-> <<"lat", "latitud", "latitude">>,
     longitude |-> <<"lon", "longitud", "longitude">>,
     phone |-> <<"telefono", "phone">>, email |-> <<"email", "correo">>]]

\* an object that is a station itself is told by one of these; any will do for Galicia
shape == [catalunya |-> {"id", "nom"}, valencia |-> {"codigo", "nombre"}]

\* the names that are as good as the target's own
aliases ==
  [raw_id |-> {"raw_id", "id", "codigo", "code", "identifier", "station_id"},
   name |-> {"name", "nom", "nome", "nombre"},
   address |-> {"address", "adreca", "enderezo", "direccion"},
   city |-> {"city", "ciutat", "concello", "poblacion"},
   province |-> {"province", "provincia"},
   postal_code |-> {"postal_code", "codi_postal", "codigo_postal", "cp", "zip", "zip_code"},
   latitude |-> {"latitude", "latitud", "lat"},
   longitude |-> {"longitude", "longitud", "lon", "lng"},
   phone |-> {"phone", "telefon", "telefono", "tel"},
   email |-> {"email", "correo", "mail", "e_mail"}]

IsSequence(s) == Len(s) \in Nat /\ s = [k \in 1..Len(s) |-> s[k]]

\* text: XML of Catalunya or CSV, where numbers come as texts and a row has its
\* columns; single: an object that is a station itself; kinds, count: how a synthetic
\* batch was made, see Synthetic
Job(j) ==
  /\ IsSequence(j.items)
  /\ \A i \in DOMAIN j.items : j.items[i] # Junk => IsSequence(j.items[i])
  /\ j.source \in Sources /\ j.mode \in {"rules", "fuzzy"}
  /\ {j.text, j.single} \subseteq BOOLEAN
  /\ DOMAIN j.kinds = DOMAIN j.items
  /\ j.single => Len(j.items) = 1 /\ j.items[1] # Junk /\ ~j.text
  /\ j.text => j.source = "catalunya" \/ \A i \in DOMAIN j.items : j.items[i] # <<>>
  /\ j.mode = "rules" /\ j.text => j.source # "valencia"

ASSUME TransformersAssumption ==
  /\ \A j \in Jobs : Job(j)
  /\ NoText \notin DOMAIN upper \cup DOMAIN cleaned
  /\ THRESHOLD_LOW \in Nat /\ THRESHOLD_HIGH \in Nat
  /\ 0 < THRESHOLD_LOW /\ THRESHOLD_LOW <= THRESHOLD_HIGH /\ THRESHOLD_HIGH <= 100

VARIABLES
  job,      \* the message
  phase,    \* the loop at work: "items", "within", "contacts", or "done"
  todo,     \* the places it has still to look at
  out,      \* the places it has kept
  seen,     \* the values that a pass has met
  rejected  \* rejected_items: [at, reason]

vars == <<job, phase, todo, out, seen, rejected>>

NothingSeen == [ids |-> {}, names |-> {}, phones |-> {}, emails |-> {}]

Init ==
  /\ job \in Jobs
  /\ phase = "items"
  /\ todo = [i \in DOMAIN job.items |-> i]
  /\ out = <<>>
  /\ seen = NothingSeen
  /\ rejected = <<>>

-----------------------------------------------------------------------------
(* From an item to a station.                                              *)

None(f) == IF f \in Numbers THEN NoNumber ELSE NoText

Places(item, name) == {i \in DOMAIN item : item[i][1] = name}

Get(item, f, name) ==
  IF Places(item, name) = {} THEN None(f) ELSE item[CHOOSE i \in Places(item, name) : TRUE][2]

\* what Python takes for false: 0.0 is, "0.0" is not, and neither is a blank; postal
\* codes are texts, and one that is not has no five digits
Falsy(f, value, text) ==
  value = None(f) \/ (f \in {"latitude", "longitude"} /\ value = 0 /\ ~text)

\* get(a) or get(b) or ...: the first true value, or else the last
FirstTrue(item, f, tried, text) ==
  LET true == {k \in DOMAIN tried : ~Falsy(f, Get(item, f, tried[k]), text)}
  IN  Get(item, f, tried[IF true # {} THEN Min(true) ELSE Len(tried)])

In(table, value) == IF value \in DOMAIN table THEN table[value] ELSE value

\* _as_optional_str, _clean_phone and the validators of the schema
Clean(f, value) ==
  CASE f \in Numbers -> value
    [] f \notin Numbers /\ value = " " -> NoText
    [] f \in {"city", "province"} /\ value # " " -> In(upper, value)
    [] f = "phone" /\ value # " " -> In(cleaned, value)
    [] OTHER -> value

ByRules(source, text, item) ==
  [f \in Field |-> Clean(f, FirstTrue(item, f, names[source][f], text))]

\* mutation of Score: no aliases
ScoreByName(name, f) ==
  IF name = f THEN 100
  ELSE IF <<name, f>> \in DOMAIN similarity THEN similarity[<<name, f>>] ELSE 0

\* _field_match_score
Score(name, f) ==
  IF name \in aliases[f] THEN 100
  ELSE IF <<name, f>> \in DOMAIN similarity THEN similarity[<<name, f>>] ELSE 0

\* the first of the best names
Best(item, f) ==
  CHOOSE i \in DOMAIN item : \A k \in DOMAIN item :
    \/ Score(item[k][1], f) < Score(item[i][1], f)
    \/ Score(item[k][1], f) = Score(item[i][1], f) /\ i <= k

BestScore(item, f) == IF item = <<>> THEN 0 ELSE Score(item[Best(item, f)][1], f)

BySimilarity(item) ==
  [f \in Field |->
    IF BestScore(item, f) >= THRESHOLD_LOW THEN Clean(f, item[Best(item, f)][2]) ELSE None(f)]

LowConfidence(item) ==
  {f \in Field : BestScore(item, f) \in THRESHOLD_LOW..(THRESHOLD_HIGH - 1)}

IsStation(source, item) ==
  source \in DOMAIN shape => \E name \in shape[source] : Places(item, name) # {}

\* an object on its own that is not told to be a station is passed over without a word
RulesReason(source, text, single, item) ==
  IF item = Junk THEN "invalid_station_payload_type"
  ELSE IF single /\ ~IsStation(source, item) THEN "skipped"
  ELSE LET s == ByRules(source, text, item) IN
       IF s.raw_id = NoText THEN "missing_raw_id"
       ELSE IF ~Schema(s) THEN "schema_validation_failed" ELSE Reason(s)

\* and so is here what is no object in a list; an XML node without children is not
FuzzyReason(text, item) ==
  IF item = Junk THEN "skipped"
  ELSE IF text /\ item = <<>> THEN "invalid_station_payload_type"
  ELSE LET s == BySimilarity(item) IN
       IF NoText \in {s.raw_id, s.name} \/ ~Schema(s) THEN "fuzzy_mapping_failure" ELSE Reason(s)

ReasonIn(mode, i) ==
  IF mode = "rules" THEN RulesReason(job.source, job.text, job.single, job.items[i])
  ELSE FuzzyReason(job.text, job.items[i])

reasons == [i \in DOMAIN job.items |-> ReasonIn(job.mode, i)]

Station(i) ==
  IF job.mode = "rules" THEN ByRules(job.source, job.text, job.items[i])
  ELSE BySimilarity(job.items[i])

\* mutation of Recorded: what is no object is passed over by all transformers
RecordedButJunk(i) ==
  CASE reasons[i] \in {"skipped", "invalid_station_payload_type"} -> <<>>
    [] reasons[i] = "none" ->
         IF job.mode = "fuzzy" /\ LowConfidence(job.items[i]) # {}
         THEN <<[at |-> i, reason |-> "fuzzy_low_confidence"]>> ELSE <<>>
    [] OTHER -> <<[at |-> i, reason |-> reasons[i]]>>

\* what is recorded about an item when it is judged
Recorded(i) ==
  CASE reasons[i] = "skipped" -> <<>>
    [] reasons[i] = "none" ->
         IF job.mode = "fuzzy" /\ LowConfidence(job.items[i]) # {}
         THEN <<[at |-> i, reason |-> "fuzzy_low_confidence"]>> ELSE <<>>
    [] OTHER -> <<[at |-> i, reason |-> reasons[i]]>>

-----------------------------------------------------------------------------
(* The three loops.                                                        *)

Keep(i) == out' = Append(out, i) /\ UNCHANGED rejected
Drop(i, reason) ==
  rejected' = Append(rejected, [at |-> i, reason |-> reason]) /\ UNCHANGED out

Looks(at) ==
  /\ phase = at
  /\ todo # <<>>
  /\ todo' = Tail(todo)
  /\ UNCHANGED <<job, phase>>

Judge ==
  /\ Looks("items")
  /\ LET i == Head(todo) IN
       /\ out' = IF reasons[i] = "none" THEN Append(out, i) ELSE out
       /\ rejected' = rejected \o Recorded(i)
  /\ UNCHANGED seen

IdOf(s) == In(upper, s.raw_id)
NameCityOf(s) == <<In(upper, s.name), s.city>>

CheckDuplicate ==
  /\ Looks("within")
  /\ LET i == Head(todo)
         id == IdOf(Station(i))
         name == NameCityOf(Station(i))
     IN \/ /\ id \in seen.ids
           /\ Drop(i, "duplicate_id_within_message")
           /\ UNCHANGED seen
        \/ /\ id \notin seen.ids /\ name \in seen.names
           /\ Drop(i, "duplicate_name_city_within_message")
           /\ UNCHANGED seen
        \/ /\ id \notin seen.ids /\ name \notin seen.names
           /\ Keep(i)
           /\ seen' = [seen EXCEPT !.ids = @ \cup {id}, !.names = @ \cup {name}]

\* mutation of CheckContacts: what is dropped for its phone leaves its email behind
CheckContactsAll ==
  /\ Looks("contacts")
  /\ LET i == Head(todo)
         phones == {Station(i).phone} \ {NoText}
         emails == {Station(i).email} \ {NoText}
     IN /\ IF phones \cap seen.phones # {} THEN Drop(i, "duplicate_phone_in_message")
           ELSE IF emails \cap seen.emails # {} THEN Drop(i, "duplicate_email_in_message")
           ELSE Keep(i)
        /\ seen' = [seen EXCEPT !.phones = @ \cup phones, !.emails = @ \cup emails]

\* the phone of a station that goes for its email stays among those seen
CheckContacts ==
  /\ Looks("contacts")
  /\ LET i == Head(todo)
         phones == {Station(i).phone} \ {NoText}
         emails == {Station(i).email} \ {NoText}
     IN \/ /\ phones \cap seen.phones # {}
           /\ Drop(i, "duplicate_phone_in_message")
           /\ UNCHANGED seen
        \/ /\ phones \cap seen.phones = {} /\ emails \cap seen.emails # {}
           /\ Drop(i, "duplicate_email_in_message")
           /\ seen' = [seen EXCEPT !.phones = @ \cup phones]
        \/ /\ phones \cap seen.phones = {} /\ emails \cap seen.emails = {}
           /\ Keep(i)
           /\ seen' = [seen EXCEPT !.phones = @ \cup phones, !.emails = @ \cup emails]

\* a station on its own is not compared by the transformers of the sources
PhaseAfter ==
  CASE phase = "items" -> IF job.single /\ job.mode = "rules" THEN "done" ELSE "within"
    [] phase = "within" -> "contacts"
    [] phase = "contacts" -> "done"

NextLoop ==
  /\ todo = <<>>
  /\ phase # "done"
  /\ phase' = PhaseAfter
  /\ IF PhaseAfter = "done" THEN UNCHANGED <<todo, out>> ELSE todo' = out /\ out' = <<>>
  /\ seen' = NothingSeen
  /\ UNCHANGED <<job, rejected>>

Transform == Judge \/ CheckDuplicate \/ CheckContacts \/ NextLoop

-----------------------------------------------------------------------------
(* Properties.                                                             *)

Untold(i) == job.single /\ ~IsStation(job.source, job.items[i])

InSeq(x, sequence) == \E k \in DOMAIN sequence : sequence[k] = x

Times(i, reasonSet) ==
  Cardinality({k \in DOMAIN rejected : rejected[k].at = i /\ rejected[k].reason \in reasonSet})

Duplicate == {"duplicate_id_within_message", "duplicate_name_city_within_message",
              "duplicate_phone_in_message", "duplicate_email_in_message"}

Verdicts == {"invalid_station_payload_type", "missing_raw_id", "schema_validation_failed",
             "fuzzy_mapping_failure", "invalid_email_format", "invalid_province",
             "coordinates_outside_province_bounds", "postal_code_mismatch_province",
             "insufficient_contact_or_location"} \cup Duplicate

\* Through all three loops an item is still to be looked at, or kept, or rejected,
\* and it is so once (base.py:40-56).  The fuzzy transformer may remark on an item
\* that it keeps, and is silent about what is no object (fuzzy.py:333-344); those of
\* the sources are silent about an object on its own that is not told to be a station
\* (valencia.py:76-82, catalunya.py:172-188).  They are so about nothing else.
EveryItemAccounted ==
  \A i \in DOMAIN job.items :
    LET kept == Cardinality({k \in DOMAIN (todo \o out) : (todo \o out)[k] = i})
        passedOver == IF job.mode = "fuzzy" THEN job.items[i] = Junk ELSE Untold(i)
    IN
    IF passedOver /\ ~InSeq(i, todo)
    THEN kept + Times(i, Verdicts) = 0
    ELSE kept + Times(i, Verdicts) = 1 /\ Times(i, {"fuzzy_low_confidence"}) <= 1

SameId(i, k) == IdOf(Station(i)) = IdOf(Station(k))
SameName(i, k) == NameCityOf(Station(i)) = NameCityOf(Station(k))
SamePhone(i, k) == Station(i).phone = Station(k).phone /\ Station(i).phone # NoText
SameEmail(i, k) == Station(i).email = Station(k).email /\ Station(i).email # NoText

Kept(i) == InSeq(i, out)

\* "If duplicates found, keep first, record rejection for others" (base.py:319).
\* What is kept differs pairwise in id, in name and city, in phone and in email;
\* what was dropped has an earlier twin.  That twin is kept if it has the email;
\* with the phone it may itself have gone for its email (base.py:341-360), and with
\* the id or the name it may have gone in the second pass.
DuplicatesAreExact ==
  phase = "done" /\ (job.mode = "fuzzy" \/ ~job.single) =>
    /\ \A i, k \in {p \in DOMAIN job.items : Kept(p)} : i # k =>
         ~SameId(i, k) /\ ~SameName(i, k) /\ ~SamePhone(i, k) /\ ~SameEmail(i, k)
    /\ \A i \in DOMAIN job.items :
         LET Twin(Same(_, _), lost) ==
               \E k \in 1..(i - 1) : reasons[k] = "none" /\ Same(k, i)
                                       /\ (Kept(k) \/ Times(k, lost) = 1)
             contacts == {"duplicate_phone_in_message", "duplicate_email_in_message"}
         IN /\ Times(i, {"duplicate_id_within_message"}) = 1 => Twin(SameId, contacts)
            /\ Times(i, {"duplicate_name_city_within_message"}) = 1 => Twin(SameName, contacts)
            /\ Times(i, {"duplicate_phone_in_message"}) = 1
                 => Twin(SamePhone, {"duplicate_email_in_message"})
            /\ Times(i, {"duplicate_email_in_message"}) = 1 => Twin(SameEmail, {})

\* names of the source that are aliases too, one for each target, and no number that
\* JSON's truth loses
Plain(source, item, text) ==
  /\ \A i \in DOMAIN item : \E f \in Field :
       InSeq(item[i][1], names[source][f]) /\ item[i][1] \in aliases[f]
  /\ \A f \in Field : Cardinality({i \in DOMAIN item : item[i][1] \in aliases[f]}) <= 1
  /\ \A i \in DOMAIN item :
       item[i][1] \in aliases["latitude"] \cup aliases["longitude"] => text \/ item[i][2] # 0

\* RULES and FUZZY are two ways to the same stations, kept apart so that what they
\* achieve can be compared (docs/architecture_decision_records.md:38-55): on an item
\* with one name for each target they keep the same items and make the same stations
\* of them, unless the fuzzy one has recorded or used a field of low confidence.  The
\* one difference is an object on its own that is not told to be a station: RULES
\* makes nothing of it, whatever FUZZY does (valencia.py:80-82, catalunya.py:187-188).
ModesAgree ==
  phase = "done" => \A i \in {p \in DOMAIN job.items : job.items[p] # Junk} :
    LET item == job.items[i]
        byRules == ReasonIn("rules", i) = "none"
        byFuzzy == ReasonIn("fuzzy", i) = "none"
    IN Plain(job.source, item, job.text) /\ LowConfidence(item) = {} =>
         /\ byRules <=> byFuzzy /\ ~Untold(i)
         /\ byRules => ByRules(job.source, job.text, item) = BySimilarity(item)
=============================================================================
