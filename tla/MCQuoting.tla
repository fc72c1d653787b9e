------------------------------ MODULE MCQuoting ------------------------------
(* QuoteCodec on every string of up to five characters over a letter, the *)
(* quotation mark and the backslash, and Quote of every string of up to   *)
(* three; NameValuePairs on every string of up to four characters over a  *)
(* name letter, '=', a quote, a backslash, a space and the delimiter, and  *)
(* every list of one or two properties a=Quote(t).                         *)
EXTENDS Quoting, SequencesExt

MCChars == {"a", "\"", "\\"}

DQ == "\""

BS == "\\"

MCDelim == ";"

\* NameValuePairs' NoOrigin: the string was not built from a list.
NoPairs == <<>>

MCPairChars == {"a", "=", DQ, BS, " ", MCDelim}

MCQuote(t) ==
  <<DQ>> \o FoldLeft(LAMBDA acc, c : acc \o IF c \in {DQ, BS} THEN <<BS, c>> ELSE <<c>>,
                     <<>>, t) \o <<DQ>>

MCValues == BoundedSeq({"a", DQ, BS, MCDelim, "="}, 2)

MCProp(t) == <<"a", "=">> \o MCQuote(t)

MCPair(t) == << <<"a">>, t >>

MCInputs ==
  {<<w, NoPairs>> : w \in BoundedSeq(MCPairChars, 4)}
    \cup {<< MCProp(t), <<MCPair(t)>> >> : t \in MCValues}
    \cup {<< MCProp(t) \o <<MCDelim>> \o MCProp(u), <<MCPair(t), MCPair(u)>> >> :
            t \in MCValues, u \in MCValues}

\* ParseNumber: the alphabet of parse_contract's texts, which holds no
\* whitespace (MCParseNumber explains the widths).
MCNumberAlphabet == {"0", "1", "7", "8", "-", "+", "a"}

=============================================================================
