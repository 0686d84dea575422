----------------------------- MODULE StationRules -----------------------------
(***************************************************************************)
(* What a normalized station must satisfy: the tables and the rules of     *)
(* domain/itv_stations/rules.py, the bounds of the schema NormalizedStation*)
(* and the order in which _validate_station applies them.  Coordinates are *)
(* in tenths of a degree, a postal code is the number its digits are, and  *)
(* the accents of names are left out.                                      *)
(***************************************************************************)
EXTENDS Integers, Sequences, FiniteSetsExt, TLC

Box(south, north, west, east) ==
  [south |-> south, north |-> north, west |-> west, east |-> east]

NoText == ""
NoNumber == 9999   \* None, for a number
TooLong == "X..."  \* a name of more than 200 characters

\* the provinces by the first two digits of their postal codes
PostalOrder ==
  << "ALAVA", "ALBACETE", "ALICANTE", "ALMERIA", "AVILA", "BADAJOZ", "PALMA", "BARCELONA",
    "BURGOS", "CACERES", "CADIZ", "CASTELLON", "CIUDAD REAL", "CORDOBA", "LA CORUNA",
    "CUENCA", "GIRONA", "GRANADA", "GUADALAJARA", "GUIPUZCOA", "HUELVA", "HUESCA",
    "JAEN", "LEON", "LLEIDA", "LA RIOJA", "LUGO", "MADRID", "MALAGA", "MURCIA",
    "NAVARRA", "OURENSE", NoText, "PALENCIA", "LAS PALMAS", "PONTEVEDRA", "SALAMANCA",
    NoText, "CANTABRIA", "SEGOVIA", "SEVILLA", "SORIA", "TARRAGONA", "TERUEL", "TOLEDO",
    "VALENCIA", "VALLADOLID", "VIZCAYA", "ZAMORA", "ZARAGOZA", "CEUTA", "MELILLA" >>

SPANISH_PROVINCES == {PostalOrder[prefix] : prefix \in 1..52} \ {NoText}

PROVINCE_POSTAL_CODES ==
  [p \in SPANISH_PROVINCES |-> CHOOSE prefix \in 1..52 : PostalOrder[prefix] = p]

\* "A CORUNA" is not the name that SPANISH_PROVINCES has
PROVINCE_COORDS_RANGE ==
  "BARCELONA" :> Box(409, 424, 12, 30) @@ "GIRONA" :> Box(417, 425, 20, 34)
  @@ "LLEIDA" :> Box(412, 431, 1, 20) @@ "TARRAGONA" :> Box(407, 417, 4, 17)
  @@ "VALENCIA" :> Box(385, 410, -17, 2) @@ "CASTELLON" :> Box(396, 410, -12, 7)
  @@ "ALICANTE" :> Box(375, 392, -19, -2) @@ "MURCIA" :> Box(371, 387, -25, -7)
  @@ "VIZCAYA" :> Box(426, 435, -37, -25) @@ "GUIPUZCOA" :> Box(429, 435, -28, -14)
  @@ "ALAVA" :> Box(422, 433, -38, -23) @@ "NAVARRA" :> Box(420, 432, -33, -10)
  @@ "LA RIOJA" :> Box(416, 428, -34, -18) @@ "CANTABRIA" :> Box(428, 436, -40, -30)
  @@ "A CORUNA" :> Box(420, 432, -95, -76) @@ "LUGO" :> Box(422, 434, -90, -73)
  @@ "OURENSE" :> Box(416, 428, -89, -71) @@ "PONTEVEDRA" :> Box(416, 428, -91, -78)
  @@ "LEON" :> Box(416, 434, -69, -48) @@ "PALENCIA" :> Box(414, 427, -59, -39)
  @@ "VALLADOLID" :> Box(408, 425, -54, -35) @@ "BURGOS" :> Box(406, 432, -44, -23)
  @@ "SORIA" :> Box(406, 425, -41, -20) @@ "MADRID" :> Box(398, 414, -45, -25)
  @@ "SEGOVIA" :> Box(403, 417, -48, -32) @@ "AVILA" :> Box(398, 415, -62, -43)
  @@ "TOLEDO" :> Box(390, 407, -52, -30) @@ "CUENCA" :> Box(396, 410, -41, -18)
  @@ "GUADALAJARA" :> Box(398, 415, -46, -19) @@ "CIUDAD REAL" :> Box(383, 400, -53, -29)
  @@ "ALBACETE" :> Box(381, 400, -43, -8) @@ "BADAJOZ" :> Box(376, 400, -79, -47)
  @@ "CORDOBA" :> Box(372, 390, -55, -32) @@ "SEVILLA" :> Box(365, 385, -72, -42)
  @@ "JAEN" :> Box(374, 390, -48, -24) @@ "CADIZ" :> Box(358, 373, -67, -52)
  @@ "MALAGA" :> Box(362, 376, -53, -32) @@ "GRANADA" :> Box(365, 381, -48, -23)
  @@ "ALMERIA" :> Box(362, 377, -38, -15) @@ "CEUTA" :> Box(358, 361, -55, -52)
  @@ "MELILLA" :> Box(352, 355, -34, -31) @@ "PALMA" :> Box(392, 398, 24, 32)
  @@ "LAS PALMAS" :> Box(275, 285, -161, -150)

Spain == Box(360, 438, -93, 43)

\* texts that the pattern of validate_email_simple does not match
Malformed == {"not-an-email", "@@@", "user@", "user@@example.com"}

Inside(box, latitude, longitude) ==
  /\ box.south <= latitude /\ latitude <= box.north
  /\ box.west <= longitude /\ longitude <= box.east

\* the fields' constraints of the schema
Schema(s) ==
  /\ s.name \notin {NoText, TooLong}
  /\ s.latitude # NoNumber => Spain.south <= s.latitude /\ s.latitude <= Spain.north
  /\ s.longitude # NoNumber => Spain.west <= s.longitude /\ s.longitude <= Spain.east

\* mutation of validate_coordinates_by_province: latitude and longitude swapped
validate_coordinates_swapped(s) ==
  Inside(IF s.province \in DOMAIN PROVINCE_COORDS_RANGE
         THEN PROVINCE_COORDS_RANGE[s.province] ELSE Spain, s.longitude, s.latitude)

validate_coordinates_by_province(s) ==
  Inside(IF s.province \in DOMAIN PROVINCE_COORDS_RANGE
         THEN PROVINCE_COORDS_RANGE[s.province] ELSE Spain, s.latitude, s.longitude)

validate_postal_code_by_province(s) ==
  s.province \in SPANISH_PROVINCES => s.postal_code \div 1000 = PROVINCE_POSTAL_CODES[s.province]

validate_contact_minimum(s) ==
  /\ s.phone # NoText \/ s.email # NoText
  /\ NoText \notin {s.address, s.city, s.province}
  /\ s.postal_code # NoNumber

\* a coordinate of 0.0 counts as none
Placed(s) == {s.latitude, s.longitude} \cap {0, NoNumber} = {} /\ s.province # NoText

\* the rules in the order of the code, and which of them a station breaks
Checks(s) ==
  << [broken |-> s.email \in Malformed, reason |-> "invalid_email_format"],
     [broken |-> s.province \notin SPANISH_PROVINCES \cup {NoText},
      reason |-> "invalid_province"],
     [broken |-> Placed(s) /\ ~validate_coordinates_by_province(s),
      reason |-> "coordinates_outside_province_bounds"],
     [broken |-> s.postal_code # NoNumber /\ s.province # NoText
                   /\ ~validate_postal_code_by_province(s),
      reason |-> "postal_code_mismatch_province"],
     [broken |-> ~validate_contact_minimum(s),
      reason |-> "insufficient_contact_or_location"] >>

Broken(s) == {k \in DOMAIN Checks(s) : Checks(s)[k].broken}

\* "none", or the reason that _validate_station returns
Reason(s) == IF Broken(s) = {} THEN "none" ELSE Checks(s)[Min(Broken(s))].reason
=============================================================================
