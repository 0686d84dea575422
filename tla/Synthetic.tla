------------------------------- MODULE Synthetic -------------------------------
(***************************************************************************)
(* The stations that are made up for tests and load: valid ones, valid     *)
(* ones with an error put in, and invalid ones of ten kinds                *)
(* (domain/synthetic_data_generator.py); the mix of both that              *)
(* routers/upload.py injects; and the invalid body of the load generator   *)
(* (scripts/load_generator.py).  A generated station is an item in the     *)
(* names of its source, to be judged by Transformers.                      *)
(***************************************************************************)
EXTENDS Transformers

prefix == [catalunya |-> "CAT", valencia |-> "VAL", galicia |-> "GAL"]

REGION_PROVINCES ==
  [catalunya |-> {"BARCELONA", "GIRONA", "LLEIDA", "TARRAGONA"},
   valencia |-> {"CASTELLON", "VALENCIA", "ALICANTE"},
   galicia |-> {"LA CORUNA", "LUGO", "OURENSE", "PONTEVEDRA"}]

REGION_COORDS ==
  [catalunya |-> Box(410, 429, 1, 33), valencia |-> Box(386, 408, -15, -1),
   galicia |-> Box(421, 438, -93, -70)]

INVALID_PROVINCES == {"NARNIA", "ATLANTIS", "MORDOR", "WINTERFELL", "GOTHAM"}

OUTSIDE_SPAIN_COORDS ==
  {<<525, 134>>, <<488, 23>>, <<515, -1>>, <<-339, 184>>, <<357, 1397>>}

\* draws from a box, by its corners
Corners(box) == {box.south, box.north} \X {box.west, box.east}

\* _get_coordinates_for_province
CoordinatesFor(source, province) ==
  Corners(IF province \in DOMAIN PROVINCE_COORDS_RANGE
          THEN PROVINCE_COORDS_RANGE[province] ELSE REGION_COORDS[source])

IdFor(source, index) == prefix[source] \o "-" \o ToString(index)

\* a station with a name, a phone and an address of its own
Base(source, index, province, at) ==
  [raw_id |-> IdFor(source, index), name |-> "ITV " \o ToString(index),
   address |-> "Calle " \o ToString(index), city |-> "CITY", province |-> province,
   postal_code |-> 1000 * PROVINCE_POSTAL_CODES[province] + index,
   latitude |-> at[1], longitude |-> at[2],
   phone |-> "60000000" \o ToString(index), email |-> ToString(index) \o "@example.com"]

InjectedErrors == {"invalid_coordinates", "missing_field", "duplicate", "malformed_phone"}

\* generate_stations: what may come of an error of each type
WithError(source, s, error) ==
  CASE error = "none" -> {s}
    [] error = "invalid_coordinates" ->
         {[s EXCEPT !.latitude = at[1], !.longitude = at[2]] : at \in Corners(Box(500, 600, -50, -20))}
    [] error = "missing_field" -> {[s EXCEPT !.address = NoText]}
    [] error = "duplicate" -> {[s EXCEPT !.raw_id = IdFor(source, 1)]}
    [] error = "malformed_phone" -> {[s EXCEPT !.phone = "INVALID-PHONE"]}

\* generate_invalid_stations, but for "malformed_coordinates"
InvalidKinds ==
  {"invalid_postal_code", "invalid_province", "coordinates_outside_spain",
   "coordinates_outside_province", "invalid_email", "missing_contact_fields",
   "oversized_name", "undersized_station_id", "invalid_city_not_in_province"}

Invalid(source, s, kind) ==
  CASE kind = "invalid_postal_code" -> {[s EXCEPT !.postal_code = 99999]}
    [] kind = "invalid_province" -> {[s EXCEPT !.province = p] : p \in INVALID_PROVINCES}
    [] kind = "coordinates_outside_spain" ->
         {[s EXCEPT !.latitude = at[1], !.longitude = at[2]] : at \in OUTSIDE_SPAIN_COORDS}
    [] kind = "coordinates_outside_province" ->
         UNION {{[s EXCEPT !.latitude = at[1], !.longitude = at[2]] :
                   at \in Corners(PROVINCE_COORDS_RANGE[p])} :
                p \in DOMAIN PROVINCE_COORDS_RANGE \ {s.province}}
    [] kind = "invalid_email" -> {[s EXCEPT !.email = e] : e \in Malformed \cup {NoText}}
    [] kind = "missing_contact_fields" ->
         {[s EXCEPT !.phone = NoText, !.email = NoText, !.address = NoText, !.city = NoText,
                    !.province = NoText, !.postal_code = NoNumber]}
    [] kind = "oversized_name" -> {[s EXCEPT !.name = TooLong]}
    [] kind = "undersized_station_id" -> {[s EXCEPT !.raw_id = "XX"]}
    [] kind = "invalid_city_not_in_province" ->
         {[s EXCEPT !.province = p] : p \in REGION_PROVINCES[source] \ {s.province}}

\* the names a source's own data has, in one order
FieldOrder == <<"raw_id", "name", "address", "city", "province", "postal_code",
                "latitude", "longitude", "phone", "email">>

InDialect(source, s) ==
  [i \in DOMAIN FieldOrder |-> <<Head(names[source][FieldOrder[i]]), s[FieldOrder[i]]>>]

\* _build_invalid_payload: no id, and a province that only the region has
LoadBody(source) ==
  LET s == Base(source, 1, CHOOSE p \in REGION_PROVINCES[source] : TRUE, <<410, 10>>)
      kept == {"name", "address", "city", "province", "postal_code"}
  IN SelectSeq(InDialect(source, [s EXCEPT !.province =
                                    IF source = "catalunya" THEN "CATALUNYA" ELSE @]),
               LAMBDA pair : \E f \in kept : pair[1] = Head(names[source][f]))

\* count * (1 - error_rate) rounded up and count * error_rate rounded down, in
\* floating point: a product that should be whole may come out beside it.  What does
\* not add up is put right.
MixedCounts(count, tenths) ==
  LET valid == (count * (10 - tenths) + 9) \div 10
      invalid == (count * tenths) \div 10
      drifts == tenths \in 1..9 /\ (count * tenths) % 10 = 0
      ceil == IF drifts THEN {valid, valid + 1} ELSE {valid}
      floor == IF drifts THEN {invalid, invalid - 1} ELSE {invalid}
  IN {IF v + n = count THEN <<v, n>>
      ELSE IF tenths > 0 THEN <<v, count - v>> ELSE <<count, n>> : v \in ceil, n \in floor}

\* the kinds that no transformer keeps
Rejectable ==
  {"invalid_coordinates", "missing_field", "load"}
  \cup (InvalidKinds \ {"coordinates_outside_province", "invalid_email", "undersized_station_id"})

\* The generator's stations are judged as they are meant to be
\* (synthetic_data_generator.py:115-135, :386-402): valid ones pass the schema and
\* all rules, in every province and at every corner of its bounds, in both modes and
\* next to others; each invalid kind is rejected.  Two kinds are not what they say:
\* "undersized_station_id" gets its prefix and passes, and "invalid_email" may be no
\* email at all; coordinates of another province may lie in both.  A mixed batch has
\* the size that was asked for.
SyntheticIsJudged ==
  /\ Len(job.items) = job.count
  /\ phase = "done" => \A i \in DOMAIN job.items :
       /\ job.kinds[i] \in {"valid", "malformed_phone", "undersized_station_id"} => Kept(i)
       /\ job.kinds[i] \in Rejectable => ~Kept(i)
       /\ job.kinds[i] = "invalid_email" /\ Station(i).email = NoText => Kept(i)
       /\ job.kinds[i] = "coordinates_outside_province" =>
            (Kept(i) <=> Schema(Station(i)) /\ validate_coordinates_by_province(Station(i)))
=============================================================================
