-------------------------------- MODULE FanOut --------------------------------
(***************************************************************************)
(* How the gateway cuts a payload into one payload per station             *)
(* (apps/gateway/fanout.py).  A payload is a JSON value, an XML document   *)
(* or a CSV table, with what decides about its cut: whether it came as     *)
(* text, which shape it has, and the items in it.                          *)
(***************************************************************************)
EXTENDS Selections

CONSTANTS
  Station,  \* station records
  Junk      \* an item that is none: no object, another tag, an empty row

Sources == {"catalunya", "valencia", "galicia"}

Shapes == {
  "list",        \* a JSON array
  "stations",    \* a JSON object with a list under that key
  "estaciones",
  "single",      \* a JSON object that looks like a station of its source
  "other",       \* a JSON object without a list and without an id or a name
  "scalar",      \* JSON, but neither object nor array
  "broken",      \* not JSON, or not XML
  "rows" }       \* children of an XML root, rows below a CSV header

Payload ==
  [format: {"json", "xml", "csv"}, text: BOOLEAN, shape: Shapes,
   items: Seq(Station \cup {Junk})]

ListKey(source) == IF source = "valencia" THEN "estaciones" ELSE "stations"

\* an XML or CSV payload must be text, a JSON payload an object or an array
Raises(p) ==
  \/ p.format = "json" /\ p.shape \in {"scalar", "broken"}
  \/ p.format # "json" /\ ~p.text
  \/ p.shape = "broken"

Records(p) == Pick(p.items, {i \in DOMAIN p.items : p.items[i] \in Station})

\* the key another source uses is a key like any other
Listed(source, p) ==
  \/ p.format = "json" /\ p.shape \in {"list", "single", ListKey(source)}
  \/ p.format \in {"xml", "csv"} /\ p.shape = "rows"

\* one station, in the format and under the key its transformer expects
PartOf(source, p, station) ==
  [p EXCEPT !.text = (p.format # "json"),
            !.shape = IF p.format = "json" THEN ListKey(source) ELSE "rows",
            !.items = <<station>>]

\* mutation of Split: the first row of a table is taken for another header
SplitSkips(source, p) ==
  LET kept == IF p.shape = "rows" /\ Records(p) # <<>> THEN Tail(Records(p)) ELSE Records(p)
  IN IF Listed(source, p) THEN [i \in DOMAIN kept |-> PartOf(source, p, kept[i])] ELSE <<>>

Split(source, p) ==
  IF Listed(source, p)
  THEN [i \in DOMAIN Records(p) |-> PartOf(source, p, Records(p)[i])]
  ELSE <<>>
=============================================================================
