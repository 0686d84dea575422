------------------------------ MODULE MCPipeline ------------------------------
(* Instances of Pipeline for TLC. *)
EXTENDS Pipeline, TLC

CONSTANTS s1, s2, bad, junk
CONSTANTS j2, list, wrongkey, one, scalar, xml, csvtext, vxml, gxml,
          syn, mix, up, mime, large, enc, garbage, badsource, badtypes, noerrors

\* the table's key is the station's id
ByItself == [s \in Station |-> s]

JSON(text, shape, items) == [format |-> "json", text |-> text, shape |-> shape, items |-> items]
Rows(format, text, items) == [format |-> format, text |-> text, shape |-> "rows", items |-> items]
Nothing == JSON(TRUE, "other", <<>>)

A(endpoint, source, defect, payload, generated) ==
  [endpoint |-> endpoint, source |-> source, defect |-> defect, payload |-> payload,
   generated |-> generated]
Ingest(source, payload) == A("ingest", source, "none", payload, <<>>)
Inject(endpoint, defect, generated) == A(endpoint, "valencia", defect, Nothing, generated)
File(defect, payload) == A("file", "catalunya", defect, payload, <<>>)

Works ==
  j2 :> Ingest("catalunya", JSON(FALSE, "stations", <<s1, junk, s2>>))
  @@ list :> Ingest("valencia", JSON(TRUE, "list", <<s1, bad>>))
  @@ wrongkey :> Ingest("valencia", JSON(FALSE, "stations", <<s1>>))
  @@ one :> Ingest("galicia", JSON(FALSE, "single", <<s1>>))
  @@ scalar :> Ingest("galicia", JSON(TRUE, "scalar", <<>>))
  @@ xml :> Ingest("catalunya", Rows("xml", TRUE, <<junk, s1>>))
  @@ csvtext :> Ingest("galicia", Rows("csv", FALSE, <<s1>>))
  @@ vxml :> Ingest("valencia", Rows("xml", TRUE, <<s2>>))
  @@ gxml :> Ingest("galicia", Rows("xml", TRUE, <<s2>>))
  @@ syn :> Inject("synthetic", "none", <<s1, s2>>)
  @@ mix :> Inject("mixed", "none", <<s2, bad>>)
  @@ badtypes :> Inject("mixed", "types", <<>>)
  @@ noerrors :> Inject("synthetic", "errors", <<>>)
  @@ badsource :> Inject("synthetic", "source", <<>>)
  @@ up :> File("none", Rows("xml", TRUE, <<s1, s2>>))
  @@ mime :> File("mime", Nothing)
  @@ large :> File("large", Nothing)
  @@ enc :> File("encoding", Nothing)
  @@ garbage :> File("malformed", Nothing)

Upstream(requests, kinds) == [requests |-> requests, faults |-> kinds, workers |-> FALSE]
Downstream(requests, kinds) == [requests |-> requests, faults |-> kinds, workers |-> TRUE]

\* two handlers at once under every fault upstream; every way to be refused; what
\* the transformers can and cannot read; and every fault downstream
Scenarios ==
  {Upstream({list, syn}, {"publish", "connection", "crash", "stop"}),
   Upstream({up, mix}, {"publish", "connection", "crash", "stop", "timeout"})}
  \cup {Upstream({r}, {"connection"}) :
     r \in {scalar, csvtext, wrongkey, badsource, badtypes, noerrors, mime, large, enc, garbage}}
  \cup {Downstream({r}, {"publish"}) : r \in {xml, vxml, gxml}}
  \cup {Downstream({j2}, {"redelivery"}), Downstream({one, xml}, {"database", "truncate"}),
        Downstream({one}, {"redelivery", "database", "truncate"}),
        Downstream({list}, {"redelivery"}), Downstream({list}, {"database"})}

\* a message that is filtered while the broker takes no rejection
Filtered == {Downstream({gxml}, {"publish"})}
=============================================================================
