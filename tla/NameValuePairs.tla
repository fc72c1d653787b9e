--------------------------- MODULE NameValuePairs ---------------------------
(***************************************************************************)
(* HttpUtil::NameValuePairsIterator (http_util.cc lines 809-901): a caller *)
(* constructs it over a string and calls GetNext up to MaxCalls times,     *)
(* reading name() and value() after each call that returns true.  Each    *)
(* GetNext pulls the next property from its ValuesIterator (HttpText),     *)
(* splits it at the first '=', and unquotes a quoted value.                *)
(*                                                                         *)
(* value() (http_util.h, outside the repository) is the unquoted value     *)
(* when value_is_quoted_, else the text [value_begin_, value_end_).        *)
(***************************************************************************)
EXTENDS HttpText

CONSTANTS
  Delim,      \* the delimiter between properties (';' or ',')
  Inputs,     \* pairs <<string, origin>>: origin is the list of
              \* <<name, value>> the string was built from, or NoOrigin (empty)
  MaxCalls    \* the most GetNext calls a caller makes

VARIABLES
  s,          \* the string [begin, end)
  origin,     \* what the caller built s from, or NoOrigin
  optional,   \* values_optional_ (Values::NOT_REQUIRED)
  strict,     \* strict_quotes_ (Quotes::STRICT_QUOTES)
  cur,        \* props_, the ValuesIterator's cursor
  valid,      \* valid_
  name,       \* the text [name_begin_, name_end_)
  raw,        \* the text [value_begin_, value_end_)
  quoted,     \* value_is_quoted_
  unquoted,   \* unquoted_value_
  ret,        \* what the last GetNext returned
  calls,      \* GetNext calls made
  got         \* the <<name(), value()>> pairs read after true returns

vars == <<s, origin, optional, strict, cur, valid, name, raw, quoted,
          unquoted, ret, calls, got>>

NoOrigin == <<>>

End == Len(s) + 1

Text(b, e) == SubSeq(s, b, e - 1)

\* value() as the caller sees it.
ValueOf(q, r, u) == IF q THEN u ELSE r

\* ---- the code: the quoted-string decoder GetNext calls -------------------

\* IsQuote (lines 461-463)
IsQuote(c) == c = DQ

\* UnquoteImpl (lines 464-494) as a function of its input: whether it
\* returns true, and the unescaped interior it would store in *out.
UnquoteImpl(str, strictQuotes) ==
  IF str = <<>> \/ ~IsQuote(str[1]) \/ Len(str) < 2 \/ str[1] # str[Len(str)]
    THEN [ok |-> FALSE, out |-> <<>>]
    ELSE LET r == FoldLeft(
                    LAMBDA st, c :
                      CASE ~st.ok                  -> st
                        [] c = BS /\ ~st.esc       -> [st EXCEPT !.esc = TRUE]
                        [] strictQuotes /\ ~st.esc /\ IsQuote(c)
                                                   -> [st EXCEPT !.ok = FALSE]
                        [] OTHER -> [st EXCEPT !.esc = FALSE, !.out = Append(@, c)],
                    [ok |-> TRUE, esc |-> FALSE, out |-> <<>>],
                    SubSeq(str, 2, Len(str) - 1))
         IN  [ok |-> r.ok /\ ~(strictQuotes /\ r.esc), out |-> r.out]

\* HttpUtil::Unquote (lines 496-502): the input itself when it cannot be
\* unquoted.
Unquote(str) == LET u == UnquoteImpl(str, FALSE) IN IF u.ok THEN u.out ELSE str

\* ---- faulty variants: each replaces the definition named after it -------

\* The malformed-property test without the empty-name check of line 861.
MalformedNoNameCheck(b, e, eq) ==
  \/ eq = e /\ ~optional
  \/ eq # e /\ \E k \in b .. eq - 1 : IsQuote(s[k])

\* ---- the code: the iterator ----------------------------------------------

\* Lines 861-870: the property [b, e) with its first '=' at eq has no name,
\* has no '=' although values are required, or has a quote before the '='.
Malformed(b, e, eq) ==
  \/ eq = b
  \/ eq = e /\ ~optional
  \/ eq # e /\ \E k \in b .. eq - 1 : IsQuote(s[k])

\* The outputs GetNext leaves once name and value are split (lines
\* 871-900): ok is its return value; a false return clears valid_.
Deliver(nm, ok, q, r, u) ==
  /\ name' = nm /\ raw' = r /\ quoted' = q /\ unquoted' = u
  /\ ret' = ok
  /\ IF ok THEN got' = Append(got, <<nm, ValueOf(q, r, u)>>) /\ UNCHANGED valid
           ELSE valid' = FALSE /\ UNCHANGED got

\* GetNext from line 854 on, for the property [b, e): the early returns of
\* lines 861-870 (no name, no '=' when values are required, a quote
\* before the '='), the split and trim of lines 871-875, the empty value of
\* lines 876-879, then StrictUnquote, the mismatched-quote recovery or
\* Unquote for a quoted value (lines 880-899).  A failed StrictUnquote
\* does not write *out, so unquoted_value_ stays as line 872 cleared it.
Split(b, e) ==
  LET eq  == Find(s, "=", b, e)
      n   == TrimLWS(s, b, eq)
      v   == TrimLWS(s, IF eq = e THEN e ELSE eq + 1, e)
      nm  == Text(n.b, n.e)
      val == Text(v.b, v.e)
  IN  CASE Malformed(b, e, eq)
             -> /\ valid' = FALSE /\ ret' = FALSE
                /\ name' = <<>> /\ raw' = Text(b, e)
                /\ UNCHANGED <<quoted, unquoted, got>>
        [] eq # e /\ val = <<>> -> Deliver(nm, FALSE, FALSE, <<>>, <<>>)
        [] val # <<>> /\ IsQuote(val[1]) /\ strict
             -> LET u == UnquoteImpl(val, TRUE)
                IN  Deliver(nm, u.ok, TRUE, val, IF u.ok THEN u.out ELSE <<>>)
        [] val # <<>> /\ IsQuote(val[1]) /\ (val[1] # val[Len(val)] \/ Len(val) = 1)
             -> Deliver(nm, TRUE, FALSE, Tail(val), <<>>)
        [] val # <<>> /\ IsQuote(val[1]) -> Deliver(nm, TRUE, TRUE, val, Unquote(val))
        [] OTHER -> Deliver(nm, TRUE, FALSE, val, <<>>)

\* NameValuePairsIterator::GetNext (lines 846-901): nothing is left when
\* props_.GetNext() fails; otherwise the property is split.
GetNext ==
  /\ calls < MaxCalls
  /\ calls' = calls + 1
  /\ LET p == ValuesNext(s, cur, End, Delim, TRUE)
     IN  /\ cur' = p.cur
         /\ IF ~p.found
              THEN ret' = FALSE /\ UNCHANGED <<valid, name, raw, quoted, unquoted, got>>
              ELSE Split(p.b, p.e)
  /\ UNCHANGED <<s, origin, optional, strict>>

\* The constructors (lines 809-835): props_ over the whole string, valid_
\* true, name and value empty, in either Values and either Quotes mode.
\* A constructor call on one of ins, in any mode.
InitOn(ins) ==
  /\ \E in \in ins : s = in[1] /\ origin = in[2]
  /\ optional \in BOOLEAN
  /\ strict \in BOOLEAN
  /\ cur = TokenizerStart(1)
  /\ valid = TRUE
  /\ name = <<>>
  /\ raw = <<>>
  /\ quoted = FALSE
  /\ unquoted = <<>>
  /\ ret = FALSE
  /\ calls = 0
  /\ got = <<>>

Init == InitOn(Inputs)

Next == GetNext

Spec == Init /\ [][Next]_vars

-----------------------------------------------------------------------------
(* Properties *)

\* Every pair handed out has a name that is non-empty, free of LWS at both
\* ends and of '=' (spec.md 4.3: an empty name is a hard failure).
NameWellFormed ==
  ret =>
    /\ name # <<>>
    /\ ~IsLWS(name[1]) /\ ~IsLWS(name[Len(name)])
    /\ \A k \in DOMAIN name : name[k] # "="

\* A string a caller builds as name=Quote(value) properties joined by the
\* delimiter comes back as exactly those pairs, in order, in either quote
\* mode: delimiters, '=' and escapes inside the quotes are inert, and the
\* iterator stays valid.
QuotedPairsRoundTrip ==
  origin # NoOrigin =>
    /\ valid
    /\ IsPrefix(got, origin)
    /\ calls > 0 /\ ~ret => got = origin

\* spec.md 4.3 and 7: once a property is malformed, every later GetNext
\* fails too; valid_ goes false and the iterator never recovers.
SubsequentCallsFail ==
  ~valid => ~ret

=============================================================================
