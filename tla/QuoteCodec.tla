----------------------------- MODULE QuoteCodec -----------------------------
(***************************************************************************)
(* The quoted-string codec of http_util.cc: Quote, and Unquote and         *)
(* StrictUnquote over UnquoteImpl.  A caller makes one call; UnquoteImpl's *)
(* early returns are part of the call, and its unescaping loop runs one    *)
(* character per step, carrying prev_escape and the unescaped prefix.      *)
(*                                                                         *)
(* A string is a sequence of one-character strings from Chars.             *)
(***************************************************************************)
EXTENDS Integers, Sequences, SequencesExt

CONSTANTS
  Chars,      \* the characters a string may contain ("\"" and "\\" among them)
  MaxLen,     \* the longest string handed to Unquote / StrictUnquote
  QuoteLen,   \* the longest string handed to Quote before unquoting it
  OutInit     \* what the caller's out string holds before the call

VARIABLES
  phase,      \* "idle", "loop" (UnquoteImpl's for loop runs) or "done"
  strict,     \* strict_quotes: StrictUnquote rather than Unquote
  str,        \* the argument
  origin,     \* the text str was quoted from, when the caller built it by Quote
  i,          \* characters of the stripped interior consumed by the loop
  prevEscape, \* prev_escape
  unescaped,  \* the local string being built
  ret,        \* StrictUnquote's returned flag
  out         \* Unquote's returned string / StrictUnquote's *out

vars == <<phase, strict, str, origin, i, prevEscape, unescaped, ret, out>>

DQ == "\""
BS == "\\"

NoOrigin == <<"none">>

Texts == BoundedSeq(Chars, MaxLen)

\* The interior of str once both quote marks are stripped (lines 474-475).
Interior(s) == SubSeq(s, 2, Len(s) - 1)

\* ---- faulty variants: each replaces the definition named after it -------

\* Quote escaping only quotation marks, not backslashes.
QuoteOnlyQuotes(s) ==
  <<DQ>> \o FoldLeft(LAMBDA acc, c : acc \o IF c = DQ THEN <<BS, c>> ELSE <<c>>,
                     <<>>, s) \o <<DQ>>

\* The loop treating every backslash as an escape, escaped ones included.
UnquoteStepEveryBackslash ==
  /\ phase = "loop"
  /\ i < Len(str) - 2
  /\ LET c == Interior(str)[i + 1] IN
       IF c = BS
         THEN /\ prevEscape' = TRUE
              /\ i' = i + 1
              /\ UNCHANGED <<phase, unescaped, ret, out>>
         ELSE IF strict /\ ~prevEscape /\ c = DQ
           THEN /\ phase' = "done" /\ ret' = FALSE
                /\ UNCHANGED <<i, prevEscape, unescaped, out>>
           ELSE /\ prevEscape' = FALSE
                /\ unescaped' = Append(unescaped, c)
                /\ i' = i + 1
                /\ UNCHANGED <<phase, ret, out>>
  /\ UNCHANGED <<strict, str, origin>>

\* The end of the loop without the strict check of line 490.
UnquoteFinishNoDanglingCheck ==
  /\ phase = "loop"
  /\ i = Len(str) - 2
  /\ phase' = "done"
  /\ ret' = TRUE
  /\ out' = unescaped
  /\ UNCHANGED <<strict, str, origin, i, prevEscape, unescaped>>

\* ---- the code ------------------------------------------------------------

\* IsQuote (lines 461-463)
IsQuote(c) == c = DQ

\* Quote (lines 508-521): escape quotation marks and backslashes with a
\* backslash, then surround with quotation marks.
Quote(s) ==
  <<DQ>> \o FoldLeft(LAMBDA acc, c :
                       acc \o IF c = DQ \/ c = BS THEN <<BS, c>> ELSE <<c>>,
                     <<>>, s) \o <<DQ>>

\* What the caller gets back when UnquoteImpl fails: Unquote returns its
\* argument (lines 499-500), StrictUnquote returns false and leaves *out.
Failed(s, strictQuotes) ==
  /\ phase' = "done"
  /\ ret' = FALSE
  /\ out' = IF strictQuotes THEN out ELSE s
  /\ UNCHANGED <<i, prevEscape, unescaped>>

\* UnquoteImpl's entry without the length check of line 471.
UnquoteImplNoSizeCheck(s, strictQuotes) ==
  /\ phase = "idle"
  /\ strict' = strictQuotes
  /\ str' = s
  /\ IF s = <<>> \/ ~IsQuote(s[1]) \/ s[1] # s[Len(s)]
       THEN Failed(s, strictQuotes)
       ELSE /\ phase' = "loop"
            /\ i' = 0
            /\ prevEscape' = FALSE
            /\ unescaped' = <<>>
            /\ UNCHANGED <<ret, out>>

\* UnquoteImpl's entry (lines 464-478): the early returns for an empty
\* string, a first character that is not a quotation mark, and a missing
\* or different last character; otherwise strip the marks and start the
\* loop with prev_escape false and nothing unescaped.
UnquoteImpl(s, strictQuotes) ==
  /\ phase = "idle"
  /\ strict' = strictQuotes
  /\ str' = s
  /\ IF s = <<>> \/ ~IsQuote(s[1]) \/ Len(s) < 2 \/ s[1] # s[Len(s)]
       THEN Failed(s, strictQuotes)
       ELSE /\ phase' = "loop"
            /\ i' = 0
            /\ prevEscape' = FALSE
            /\ unescaped' = <<>>
            /\ UNCHANGED <<ret, out>>

\* One iteration of the loop (lines 479-488): an unescaped backslash starts
\* an escape; in strict mode an unescaped quotation mark fails the call;
\* anything else is appended and ends the escape.
UnquoteStep ==
  /\ phase = "loop"
  /\ i < Len(str) - 2
  /\ LET c == Interior(str)[i + 1] IN
       IF c = BS /\ ~prevEscape
         THEN /\ prevEscape' = TRUE
              /\ i' = i + 1
              /\ UNCHANGED <<phase, unescaped, ret, out>>
         ELSE IF strict /\ ~prevEscape /\ IsQuote(c)
           THEN Failed(str, strict)
           ELSE /\ prevEscape' = FALSE
                /\ unescaped' = Append(unescaped, c)
                /\ i' = i + 1
                /\ UNCHANGED <<phase, ret, out>>
  /\ UNCHANGED <<strict, str, origin>>

\* The end of the loop (lines 489-494): in strict mode an escaped final
\* quotation mark fails the call; otherwise the result is delivered.
UnquoteFinish ==
  /\ phase = "loop"
  /\ i = Len(str) - 2
  /\ IF strict /\ prevEscape
       THEN Failed(str, strict)
       ELSE /\ phase' = "done"
            /\ ret' = TRUE
            /\ out' = unescaped
            /\ UNCHANGED <<i, prevEscape, unescaped>>
  /\ UNCHANGED <<strict, str, origin>>

\* Unquote (lines 497-502)
Unquote(s, o) ==
  /\ origin' = o
  /\ UnquoteImpl(s, FALSE)

\* StrictUnquote (lines 504-506)
StrictUnquote(s, o) ==
  /\ origin' = o
  /\ UnquoteImpl(s, TRUE)

\* A caller hands over any short string, or one it built with Quote.
Inputs ==
  {<<s, NoOrigin>> : s \in Texts}
    \cup {<<Quote(t), t>> : t \in BoundedSeq(Chars, QuoteLen)}

Init ==
  /\ phase = "idle"
  /\ strict = FALSE
  /\ str = <<>>
  /\ origin = NoOrigin
  /\ i = 0
  /\ prevEscape = FALSE
  /\ unescaped = <<>>
  /\ ret = FALSE
  /\ out = OutInit

Next ==
  \/ \E a \in Inputs : Unquote(a[1], a[2])
  \/ \E a \in Inputs : StrictUnquote(a[1], a[2])
  \/ UnquoteStep
  \/ UnquoteFinish

Spec == Init /\ [][Next]_vars

-----------------------------------------------------------------------------
(* Properties *)

\* Reference (spec.md 4.2): a backslash followed by any character yields
\* that character; a trailing unresolved backslash is dropped.
RECURSIVE ResolveEscapes(_)
ResolveEscapes(w) ==
  CASE w = <<>>                  -> <<>>
    [] w[1] = BS /\ Len(w) = 1   -> <<>>
    [] w[1] = BS                 -> <<w[2]>> \o ResolveEscapes(Tail(Tail(w)))
    [] OTHER                     -> <<w[1]>> \o ResolveEscapes(Tail(w))

\* Reference: an interior StrictUnquote accepts is a run of quoted pairs and
\* of characters other than a quotation mark or a backslash.
RECURSIVE StrictBody(_)
StrictBody(w) ==
  \/ w = <<>>
  \/ w[1] = BS /\ Len(w) >= 2 /\ StrictBody(Tail(Tail(w)))
  \/ w[1] \notin {BS, DQ} /\ StrictBody(Tail(w))

IsQuotedForm(s) == Len(s) >= 2 /\ s[1] = DQ /\ s[Len(s)] = DQ

TypeOK ==
  /\ phase \in {"idle", "loop", "done"}
  /\ {strict, prevEscape, ret} \subseteq BOOLEAN
  /\ \A k \in DOMAIN str : str[k] \in Chars
  /\ phase = "loop" => i \in 0 .. Len(str) - 2
  /\ Len(unescaped) <= i
  /\ out = OutInit \/ \A k \in DOMAIN out : out[k] \in Chars

\* Unquote and StrictUnquote decode exactly as spec.md 4.2 says: Unquote
\* resolves the escapes of a string in quotation marks and returns any
\* other string unchanged; StrictUnquote succeeds exactly on a quoted
\* string with no unescaped interior quotation mark and no dangling
\* escape, and on failure leaves *out as the caller had it.
DecodesAsSpecified ==
  phase = "done" =>
    IF strict
      THEN /\ ret = (IsQuotedForm(str) /\ StrictBody(Interior(str)))
           /\ out = IF ret THEN ResolveEscapes(Interior(str)) ELSE OutInit
      ELSE out = IF IsQuotedForm(str) THEN ResolveEscapes(Interior(str))
                                      ELSE str

\* spec.md 8: what Quote builds comes back unchanged through StrictUnquote
\* and through Unquote, so Quote(Unquote(Quote(s))) = Quote(s).
RoundTrip ==
  phase = "done" /\ origin # NoOrigin => (strict => ret) /\ out = origin

=============================================================================
