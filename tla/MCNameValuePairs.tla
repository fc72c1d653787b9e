-------------------------- MODULE MCNameValuePairs --------------------------
(* Every string of up to four characters over a name letter, '=', a quote, *)
(* a backslash, a space and the delimiter; and every list of one or two   *)
(* properties a=Quote(t), t of up to two characters over the same         *)
(* specials, joined by the delimiter.                                      *)
EXTENDS NameValuePairs

MCDelim == ";"

MCChars == {"a", "=", DQ, BS, " ", MCDelim}

MCQuote(t) ==
  <<DQ>> \o FoldLeft(LAMBDA acc, c : acc \o IF c \in {DQ, BS} THEN <<BS, c>> ELSE <<c>>,
                     <<>>, t) \o <<DQ>>

MCValues == BoundedSeq({"a", DQ, BS, MCDelim, "="}, 2)

MCProp(t) == <<"a", "=">> \o MCQuote(t)

MCPair(t) == << <<"a">>, t >>

MCInputs ==
  {<<w, NoOrigin>> : w \in BoundedSeq(MCChars, 4)}
    \cup {<< MCProp(t), <<MCPair(t)>> >> : t \in MCValues}
    \cup {<< MCProp(t) \o <<MCDelim>> \o MCProp(u), <<MCPair(t), MCPair(u)>> >> :
            t \in MCValues, u \in MCValues}

=============================================================================
