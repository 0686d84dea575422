----------------------------- MODULE MCSequential -----------------------------
(***************************************************************************)
(* Instances for TLC of the sequential parts: messages made up by          *)
(* Synthetic and by hand go through Transformers; when the message is an   *)
(* empty list, rows are logged and reported by Metrics instead.            *)
(***************************************************************************)
EXTENDS Synthetic, Metrics

CONSTANT junk

J(source, mode, text, items, kinds) ==
  [source |-> source, mode |-> mode, text |-> text, single |-> FALSE, items |-> items,
   kinds |-> kinds, count |-> Len(items)]

Modes == {"rules", "fuzzy"}
Pairs == UNION {{s} \X REGION_PROVINCES[s] : s \in Sources}

\* two valid stations, at two corners of a province
ValidJobs ==
  UNION {{J(p[1], mode, FALSE, <<InDialect(p[1], Base(p[1], 1, p[2], a)),
                                 InDialect(p[1], Base(p[1], 2, p[2], b))>>, <<"valid", "valid">>) :
            a, b \in CoordinatesFor(p[1], p[2]), mode \in Modes} : p \in Pairs}

\* a valid station and one of another kind
Made(p, kind) ==
  LET s == Base(p[1], 2, p[2], CHOOSE at \in CoordinatesFor(p[1], p[2]) : TRUE) IN
  IF kind \in InvalidKinds THEN Invalid(p[1], s, kind) ELSE WithError(p[1], s, kind)

SpoiltJobs ==
  UNION {{J(p[1], mode, FALSE, <<InDialect(p[1], Base(p[1], 1, p[2], <<s.latitude, s.longitude>>)),
                                 InDialect(p[1], s)>>, <<"custom", kind>>) :
            s \in Made(p, kind), mode \in Modes} :
         kind \in InjectedErrors \cup InvalidKinds,
         p \in {<<"catalunya", "BARCELONA">>, <<"valencia", "VALENCIA">>, <<"galicia", "LA CORUNA">>}}

MixedJobs ==
  UNION {LET V(i) == Base("valencia", i, "VALENCIA", <<385, 2>>)
             N(i) == [V(i) EXCEPT !.name = TooLong] IN
         {[J("valencia", mode, FALSE,
             [i \in 1..m[1] |-> InDialect("valencia", V(i))]
               \o [i \in 1..m[2] |-> InDialect("valencia", N(i))],
             [i \in 1..(m[1] + m[2]) |-> IF i <= m[1] THEN "valid" ELSE "oversized_name"])
           EXCEPT !.count = count] : m \in MixedCounts(count, tenths), mode \in Modes} :
         count \in {1, 2, 4, 5}, tenths \in 0..10}

LoadJobs ==
  {J(s, mode, s = "catalunya", <<LoadBody(s)>>, <<"load">>) : s \in Sources, mode \in Modes}

\* three stations that share what they like
Shared(id, name, phone, email) ==
  InDialect("valencia", [Base("valencia", 1, "VALENCIA", <<400, 0>>) EXCEPT
    !.raw_id = id, !.name = name, !.phone = phone, !.email = email])

TwinJobs ==
  {J("valencia", "rules", FALSE,
     <<Shared("a", "itv", "6 1", "x@y.es"), Shared(b[1], b[2], b[3], b[4]),
       Shared(c[1], c[2], c[3], c[4])>>, <<"custom", "custom", "custom">>) :
     b \in {"A", "b"} \X {"ITV", "two"} \X {"+3461", "62", ""} \X {"x@y.es", "z@y.es"},
     c \in {"a", "b", "c"} \X {"two", "three"} \X {"6 1", "62"} \X {"x@y.es", "z@y.es", ""}}

\* fields under other names, blank, zero, twice, or not there
English ==
  << <<"station_id", "7">>, <<"name", "itv">>, <<"address", "c">>, <<"city", "CITY">>,
     <<"province", "VALENCIA">>, <<"postal_code", 46001>>, <<"latitude", 400>>,
     <<"longitude", 0>>, <<"phone", "61">>, <<"email", "x@y.es">> >>

Without(item, gone) == SelectSeq(item, LAMBDA pair : pair[1] # gone)
With(item, name, value) == Append(Without(item, name), <<name, value>>)

OddItems(source) ==
  LET s == InDialect(source, Base(source, 1, IF source = "valencia" THEN "VALENCIA" ELSE "LUGO",
                                  IF source = "valencia" THEN <<400, 0>> ELSE <<430, -80>>))
      own(f) == Head(names[source][f])
  IN {s, junk, <<>>, With(s, "station_id", "9"), With(s, own("raw_id"), " "),
      With(With(s, own("raw_id"), " "), "station_id", "9"), With(s, own("name"), ""),
      With(s, own("city"), "city"), With(s, own("latitude"), 0), With(s, own("longitude"), 0),
      With(s, own("phone"), " "), With(s, own("postal_code"), NoNumber)}
     \cup {Without(s, own(f)) : f \in Field}
     \cup {English, With(English, "longitude", -2)}
     \cup {Without(English, f) : f \in {"phone", "province", "latitude", "longitude"}}

OddJobs ==
  UNION {{[J(source, mode, text, <<item>>, <<"custom">>) EXCEPT !.single = single] :
            item \in OddItems(source) \ (IF text \/ single THEN {junk} ELSE {})} :
         source \in Sources, mode \in Modes, text \in {FALSE}, single \in BOOLEAN}
  \cup UNION {{J(source, mode, TRUE, <<item>>, <<"custom">>) :
            item \in OddItems(source) \ ({junk} \cup IF source = "galicia" THEN {<<>>} ELSE {})} :
         source \in {"catalunya", "galicia"}, mode \in Modes}
  \cup {J("galicia", mode, FALSE, <<junk, English, junk>>, <<"custom", "custom", "custom">>) :
          mode \in Modes}

NoStations == J("galicia", "rules", FALSE, <<>>, <<>>)

AllJobs ==
  ValidJobs \cup SpoiltJobs \cup MixedJobs \cup LoadJobs \cup TwinJobs \cup OddJobs \cup {NoStations}

UpperCase == "a" :> "A" @@ "itv" :> "ITV" @@ "city" :> "CITY"
Dialled == "6 1" :> "+3461" @@ "INVALID-PHONE" :> "INVALIDPHONE"

\* Jaro-Winkler similarities of 70 and more among the names above
Similarities ==
  <<"province", "phone">> :> 79 @@ <<"phone", "province">> :> 79
  @@ <<"latitude", "longitude">> :> 78 @@ <<"longitude", "latitude">> :> 78

\* rows with and without their stamps, in order and not
Logged(status, source, a, b, c, d, e) ==
  [status |-> status, source |-> source,
   timing |-> [gateway_ingested |-> a, normalizer_started |-> b, normalizer_completed |-> c,
               persister_started |-> d, persister_completed |-> e]]

SomeRows ==
  {Logged("success", "galicia", 0, 1, 3, 4, 9), Logged("success", "valencia", 0, 0, 2, 2, 3),
   Logged("success", "valencia", 5, 5, 5, 5, 5), Logged("failed", "valencia", 0, 2, 4, Absent, Absent),
   Logged("failed", "galicia", 6, 5, 7, 7, 2), Logged("success", "galicia", Absent, 1, 2, 3, 4),
   Logged("failed", "galicia", 0, 0, 1, 1, 1)}

Start == Init /\ InitRows

Next ==
  \/ Transform /\ UNCHANGED rows
  \/ job = NoStations /\ phase = "done" /\ LogRow /\ UNCHANGED vars

Spec == Start /\ [][Next]_<<vars, rows>>
=============================================================================
