--------------------------- MODULE MCContentType ---------------------------
(* Values: a media type ("t/t", "T/t", "t/u", "*/*" or the slash-less    *)
(* "t"), then up to two parameters from: charset=u, " Charset=U" (LWS,   *)
(* upper case),                                                             *)
(* a quoted empty charset, a quoted boundary holding ';', a charset with  *)
(* no value, and junk "x=/" that carries a slash.                          *)
EXTENDS ContentType

MCTypes ==
  {<<"t", "/", "t">>, <<"T", "/", "t">>, <<"t", "/", "u">>, Wildcard, <<"t">>}

MCParams ==
  { <<";", "charset", "=", "u">>,
    <<";", " ", "Charset", "=", "U">>,
    <<";", "charset", "=", DQ, DQ>>,
    <<";", "boundary", "=", DQ, "u", ";", DQ>>,
    <<";", "charset">>,
    <<";", "x", "=", "/">> }

MCValues ==
  {t \o p : t \in MCTypes,
            p \in {<<>>} \cup MCParams \cup {a \o b : a, b \in MCParams}}

=============================================================================
