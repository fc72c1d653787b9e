--------------------------- MODULE MCFieldParsers ---------------------------
(* The values each parser is given.  int64_t has 5 bits and uint32_t 3,    *)
(* so "11" fits an int64_t while a Retry-After of "9" overflows.           *)
EXTENDS FieldParsers

MCUnit == "bytes"

MCNul == "NUL"

\* Range: a unit part ("bytes", " bytes" or another word), '=' and every
\* body of up to five symbols over two digits, '-', ',', space and NUL; and
\* a few headers with no '='.
MCBodies == BoundedSeq({"0", "1", "-", ",", " ", MCNul}, 5)

MCHeaders ==
  {u \o <<"=">> \o b : u \in {<<MCUnit>>, <<" ", MCUnit>>, <<"x">>},
                        b \in MCBodies}
    \cup {<<MCUnit>> \o b : b \in BoundedSeq({"0", "-"}, 2)}

\* Content-Range: a unit part, ' ', then first '-' last '/' length with each
\* field empty or one or two of '0', '1', NUL (or " 1"); and values missing
\* the space, the '-' or the '/', or with "*" for the range.
MCFields == BoundedSeq({"0", "1", MCNul}, 2) \cup {<<" ", "1">>}

MCSpecs ==
  {u \o <<" ">> \o f \o <<"-">> \o l \o <<"/">> \o n :
     u \in {<<MCUnit>>, <<" ", MCUnit>>, <<"x">>},
     f \in MCFields, l \in MCFields, n \in MCFields}
    \cup {<<MCUnit, " ", "*", "/", "1">>,
          <<MCUnit, "0", "-", "1", "/", "1", "1">>,
          <<MCUnit, " ", "0", "1">>,
          <<MCUnit, " ", "0", "-", "1">>}

\* Accept-Encoding: a name (in either case, an alias, one with LWS inside,
\* blank, "*") with a q parameter of each form the code tells apart, alone
\* or followed by a second item; a quoted value; the empty value.
MCNames ==
  {<<"gzip">>, <<"GZIP">>, <<"x-gzip">>, <<"compress">>, <<"br", " ", "br">>,
   <<" ">>, <<"*">>}

MCQ ==
  {<<>>, <<";", "q", "=", "0">>, <<";", "q", "=", "1">>,
   <<";", "q", "=", "0", ".", "5">>, <<";", "q", "=", "0", ".">>,
   <<";", "q", "=", "1", ".", "0">>, <<";", "q", "=", "1", ".", "5">>,
   <<";", "q", "=", "0", ".", "0", "0", "0">>,
   <<";", "q", "=", "0", ".", "0", "0", "0", "5">>,
   <<";", " ", "Q", " ", "=", " ", "0", ".", "5">>, <<";", "x", "=", "1">>,
   <<";", "q">>, <<";", "q", "=">>, <<";", "q", "=", "0", ".", "5", ".", "0">>}

MCAcceptOne == {n \o q : n \in MCNames, q \in MCQ}

MCAccept ==
  {<<>>, <<DQ, "gzip", DQ>>} \cup MCAcceptOne
    \cup {a \o <<",">> \o b : a \in MCAcceptOne,
                              b \in {<<"x-compress">>, <<" ">>,
                                     <<"br", ";", "q", "=", "0">>}}

\* Content-Encoding: one or two items, each a name, one padded or with LWS
\* inside, blank, or holding a character the call rejects up front.
MCItems ==
  {<<"gzip">>, <<"GZIP">>, <<" ", "br", " ">>, <<"br", " ", "br">>, <<" ">>,
   <<"*">>, <<"q", "=", "1">>, <<>>}

MCValues == MCAccept \cup MCItems \cup {a \o <<",">> \o b : a, b \in MCItems}

\* The caller's set before the call: empty, or left from an earlier call.
MCPrior == {{}, {<<"br">>}}

\* Retry-After: digits, empty, a letter, signs, padding, and "9" above
\* uint32_t's range.
MCRetry ==
  {<<"5">>, <<>>, <<"x">>, <<"-", "1">>, <<" ", "5">>, <<"+", "5">>, <<"9">>,
   <<"0", "5">>, <<"5", " ">>}

\* Language lists: families that share a base or not, duplicates, padding,
\* empty items, subtags of subtags, an empty base, and lists of 11 and 12
\* languages, which reach the q floor.
MCLangs == <<"en", "fr", "de", "it", "es", "pt", "nl", "sv", "da", "fi", "pl", "cs">>

Joined(ws) == [i \in 1 .. 2 * Len(ws) - 1 |-> IF i % 2 = 1 THEN ws[(i + 1) \div 2] ELSE ","]

MCPrefs ==
  {<<>>, <<"en", "-", "US", ",", "fr">>, <<"en", "-", "US", ",", "en", "-", "GB">>,
   <<"en", "-", "US", ",", "en", ",", "fr", "-", "CA", ",", "en">>,
   <<" ", "en", "-", "US", " ", ",", " ", "fr", " ">>, <<",", "en">>,
   <<"en", ",", ",", "fr">>,
   <<"zh", "-", "Hant", "-", "TW", ",", "zh", "-", "Hant">>,
   <<"en", "-", "US", ",", "-", "US">>,
   Joined(MCLangs), Joined(SubSeq(MCLangs, 1, 11)),
   <<"en", ",", ",", "fr", ",">> \o Joined(SubSeq(MCLangs, 3, 12))}

\* Content-Type: a media type ("t/t", "T/t", "t/u", "*/*" or the slash-less
\* "t"), then up to two parameters: charset=u, " Charset=U" (LWS, upper
\* case), a quoted empty charset, a quoted boundary holding ';', a charset
\* with no value, and junk "x=/" that carries a slash.
MCMediaTypes ==
  {<<"t", "/", "t">>, <<"T", "/", "t">>, <<"t", "/", "u">>, <<"*", "/", "*">>, <<"t">>}

MCTypeParams ==
  { <<";", "charset", "=", "u">>,
    <<";", " ", "Charset", "=", "U">>,
    <<";", "charset", "=", DQ, DQ>>,
    <<";", "boundary", "=", DQ, "u", ";", DQ>>,
    <<";", "charset">>,
    <<";", "x", "=", "/">> }

MCTypeValues ==
  {t \o p : t \in MCMediaTypes,
            p \in {<<>>} \cup MCTypeParams \cup {a \o b : a, b \in MCTypeParams}}

\* Policy classifiers: forbidden and non-coalescing names in lower, mixed
\* and upper case, the two prefixes with and without a dash, a name that
\* only begins like a listed one, and an ordinary name; methods in and out
\* of the two sets, one in lower case; parameter names with each character
\* IsParmName tells apart.
MCCaseFold ==
  ("Sec" :> "sec") @@ ("SEC" :> "sec") @@ ("Proxy" :> "proxy") @@
  ("PROXY" :> "proxy") @@ ("Set" :> "set") @@ ("Cookie" :> "cookie") @@
  ("Date" :> "date") @@ ("Authenticate" :> "authenticate")

MCHeaderNames ==
  {<<"cookie">>, <<"Cookie">>, <<"cookie2">>, <<"date">>, <<"Date">>,
   <<"set", "-", "cookie">>, <<"Set", "-", "Cookie">>, <<"set", "-", "cookie2">>,
   <<"proxy", "-", "authenticate">>, <<"Proxy", "-", "Authenticate">>,
   <<"PROXY", "-", "x">>, <<"proxy">>, <<"proxyx">>, <<"sec", "-", "x">>,
   <<"Sec", "-", "x">>, <<"SEC", "-">>, <<"sec">>, <<"x", "-", "sec", "-", "x">>,
   <<"user", "-", "agent">>, <<"x", "-", "custom">>, <<"te">>}

MCMethods == {"GET", "HEAD", "OPTIONS", "TRACE", "PUT", "DELETE", "POST", "get"}

MCParmNames ==
  {<<>>, <<"a">>, <<"a", "b">>, <<"*">>, <<"a", "'">>, <<"%">>, <<"a", "=">>,
   <<" ">>, <<"a", NUL>>}

=============================================================================
