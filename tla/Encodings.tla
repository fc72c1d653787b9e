----------------------------- MODULE Encodings -----------------------------
(***************************************************************************)
(* HttpUtil::ParseAcceptEncoding and HttpUtil::ParseContentEncoding        *)
(* (http_util.cc lines 902-997) as the code runs them: the check of the    *)
(* whole value, the clear() of the caller's std::set, one step per token   *)
(* of the StringTokenizer over ',', and for Accept-Encoding the closing    *)
(* of the set after the loop.                                              *)
(*                                                                         *)
(* An encoding name is one symbol ("gzip", "x-gzip", "compress", ...);     *)
(* GZIP and Q are the upper case of gzip and q.  A std::string in the set *)
(* is a sequence of symbols.  The tokenizer is given no quote characters: *)
(* a value holding '"' never reaches it.                                   *)
(***************************************************************************)
EXTENDS HttpText

CONSTANTS
  Values,     \* the header values a caller may pass
  Prior       \* what the caller's set may hold before the call

VARIABLES
  fn,         \* "accept" (ParseAcceptEncoding) or "content"
  value,      \* accept_encoding / content_encoding
  given,      \* the caller's set as it was passed in (never written)
  set,        \* *allowed_encodings / *used_encodings
  cur,        \* the StringTokenizer's cursor
  phase,      \* "idle", "loop" (the while loop runs) or "done"
  ret         \* the returned bool

vars == <<fn, value, given, set, cur, phase, ret>>

End == Len(value) + 1

\* gurl_base::ToLowerASCII on a string of symbols.
LowerSym(c) == CASE c = "GZIP" -> "gzip" [] c = "Q" -> "q" [] OTHER -> c

ToLowerASCII(w) == [k \in DOMAIN w |-> LowerSym(w[k])]

\* The piece [b, e) of the value as a std::string.
Str(b, e) == SubSeq(value, b, e - 1)

\* find_first_of(HTTP_LWS) on the piece [b, e) found something.
HasLWS(b, e) == \E k \in b .. e - 1 : IsLWS(value[k])

Return(b) ==
  /\ phase' = "done"
  /\ ret' = b

\* The next token of the loop's StringTokenizer: no quote characters,
\* empty tokens skipped.
NextToken == TokenizerNext(value, cur, End, {","}, {}, FALSE)

\* ---- faulty variants: each replaces the definition named after it -------

\* gurl_base::StartsWith with its two strings swapped: qvalue must begin
\* with "1.000".
OneOutcomeSwapped(q) ==
  IF IsPrefix(<<"1", ".", "0", "0", "0">>, q) THEN "insert" ELSE "fail"

\* A token with LWS inside inserted rather than rejected.
ContentEntryNoLWSCheck(b, e) ==
  LET t == TrimLWS(value, b, e)
  IN  [ok |-> TRUE, add |-> {ToLowerASCII(Str(t.b, t.e))}]

\* ---- the code ------------------------------------------------------------

AsciiDigits == {"0", "1", "2", "3", "4", "5", "6", "7", "8", "9"}

\* Lines 937-943: a q-value starting with '1' inserts the encoding when it
\* is a prefix of "1.000" (StartsWith("1.000", qvalue)), else fails.
OneOutcome(q) == IF IsPrefix(q, <<"1", ".", "0", "0", "0">>) THEN "insert" ELSE "fail"

\* Lines 944-960: otherwise it must be "0", or "0." and one to three
\* digits, which insert the encoding when one of them is not '0'.
ZeroOutcome(q) ==
  CASE q[1] # "0"                                      -> "fail"
    [] Len(q) = 1                                      -> "skip"
    [] Len(q) <= 2 \/ Len(q) > 5                       -> "fail"
    [] q[2] # "."                                      -> "fail"
    [] \E k \in 3 .. Len(q) : q[k] \notin AsciiDigits  -> "fail"
    [] \E k \in 3 .. Len(q) : q[k] # "0"               -> "insert"
    [] OTHER                                           -> "skip"

\* Lines 935-960: what a q-value makes of its entry: "insert" the
\* encoding, "skip" it (continue), or "fail" (return false).
QOutcome(q) ==
  CASE q = <<>>   -> "fail"
    [] q[1] = "1" -> OneOutcome(q)
    [] OTHER      -> ZeroOutcome(q)

\* One entry of ParseAcceptEncoding (lines 911-960), the token [b, e):
\* ok is false where the code returns false, add what it inserts.
AcceptEntry(b, e) ==
  LET en   == TrimLWS(value, b, e)
      semi == Find(value, ";", en.b, en.e)
      enc  == TrimLWS(value, en.b, semi)
      par  == TrimLWS(value, semi + 1, en.e)
      eq   == Find(value, "=", par.b, par.e)
      pn   == TrimLWS(value, par.b, eq)
      qv   == TrimLWS(value, eq + 1, par.e)
      o    == QOutcome(Str(qv.b, qv.e))
      fail == [ok |-> FALSE, add |-> {}]
  IN  CASE semi = en.e /\ HasLWS(en.b, en.e)     -> fail
        [] semi = en.e                           -> [ok |-> TRUE, add |-> {ToLowerASCII(Str(en.b, en.e))}]
        [] HasLWS(enc.b, enc.e)                  -> fail
        [] eq = par.e                            -> fail
        [] ToLowerASCII(Str(pn.b, pn.e)) # <<"q">> -> fail
        [] o = "fail"                            -> fail
        [] o = "insert"                          -> [ok |-> TRUE, add |-> {ToLowerASCII(Str(enc.b, enc.e))}]
        [] OTHER                                 -> [ok |-> TRUE, add |-> {}]

\* Lines 964-980: after the loop an empty set becomes {"*"}; any other
\* gains "identity", then gzip and x-gzip, compress and x-compress are
\* mirrored, each test reading the set the previous insert left.
AcceptClosed(s) ==
  LET s1 == s \cup {<<"identity">>}
      s2 == IF <<"gzip">> \in s1 THEN s1 \cup {<<"x-gzip">>} ELSE s1
      s3 == IF <<"x-gzip">> \in s2 THEN s2 \cup {<<"gzip">>} ELSE s2
      s4 == IF <<"compress">> \in s3 THEN s3 \cup {<<"x-compress">>} ELSE s3
      s5 == IF <<"x-compress">> \in s4 THEN s4 \cup {<<"compress">>} ELSE s4
  IN  IF s = {} THEN {<<"*">>} ELSE s5

\* One token of ParseContentEncoding (lines 991-994).
ContentEntry(b, e) ==
  LET t == TrimLWS(value, b, e)
  IN  IF HasLWS(t.b, t.e) THEN [ok |-> FALSE, add |-> {}]
      ELSE [ok |-> TRUE, add |-> {ToLowerASCII(Str(t.b, t.e))}]

\* The call up to the loop: a value holding one of the forbidden
\* characters returns false before the set is touched; otherwise the set
\* is cleared and the tokenizer starts.
StartCall(forbidden) ==
  /\ phase = "idle"
  /\ IF \E k \in DOMAIN value : value[k] \in forbidden
       THEN Return(FALSE) /\ UNCHANGED <<set, cur>>
       ELSE /\ set' = {}
            /\ cur' = TokenizerStart(1)
            /\ phase' = "loop"
            /\ UNCHANGED ret
  /\ UNCHANGED <<fn, value, given>>

\* One iteration of a loop over the entry result r: the entry's insert, or
\* false with what the earlier iterations inserted left in the set.
LoopStep(r) ==
  /\ cur' = NextToken.cur
  /\ IF r.ok
       THEN set' = set \cup r.add /\ UNCHANGED <<phase, ret>>
       ELSE Return(FALSE) /\ UNCHANGED set
  /\ UNCHANGED <<fn, value, given>>

\* ParseAcceptEncoding up to its loop (lines 902-909): only '"' is refused.
ParseAcceptEncoding == fn = "accept" /\ StartCall({DQ})

\* One iteration of its loop (lines 910-961).
AcceptEncodingStep ==
  /\ phase = "loop" /\ fn = "accept"
  /\ NextToken.found
  /\ LoopStep(AcceptEntry(NextToken.b, NextToken.t))

\* The tokenizer is exhausted (lines 962-980): the set is closed.
AcceptEncodingExit ==
  /\ phase = "loop" /\ fn = "accept"
  /\ ~NextToken.found
  /\ set' = AcceptClosed(set)
  /\ Return(TRUE)
  /\ UNCHANGED <<fn, value, given, cur>>

\* ParseContentEncoding up to its loop (lines 982-989): '"', '=', ';' and
\* '*' are refused.
ParseContentEncoding == fn = "content" /\ StartCall({DQ, "=", ";", "*"})

\* One iteration of its loop (lines 990-995).
ContentEncodingStep ==
  /\ phase = "loop" /\ fn = "content"
  /\ NextToken.found
  /\ LoopStep(ContentEntry(NextToken.b, NextToken.t))

\* The tokenizer is exhausted (line 996).
ContentEncodingExit ==
  /\ phase = "loop" /\ fn = "content"
  /\ ~NextToken.found
  /\ Return(TRUE)
  /\ UNCHANGED <<fn, value, given, set, cur>>

InitOn(fns, vals, priors) ==
  /\ fn \in fns
  /\ value \in vals
  /\ given \in priors
  /\ set = given
  /\ cur = TokenizerStart(1)
  /\ phase = "idle"
  /\ ret = FALSE

Init == InitOn({"accept", "content"}, Values, Prior)

Next ==
  \/ ParseAcceptEncoding \/ AcceptEncodingStep \/ AcceptEncodingExit
  \/ ParseContentEncoding \/ ContentEncodingStep \/ ContentEncodingExit

Spec == Init /\ [][Next]_vars

-----------------------------------------------------------------------------
(* Properties *)

\* Reference (spec.md 4.6).  A list's items are its comma-separated pieces,
\* empty pieces dropped, each trimmed of LWS; a piece of LWS alone is an
\* item with an empty name, which is what the code's trimming makes of it.
Trimmed(w) == LET t == TrimLWS(w, 1, Len(w) + 1) IN SubSeq(w, t.b, t.e - 1)

Items(s) ==
  LET parts == SelectSeq(SplitAt(s, ","), LAMBDA w : w # <<>>)
  IN  [k \in DOMAIN parts |-> Trimmed(parts[k])]

HasSpace(w) == \E k \in DOMAIN w : IsLWS(w[k])

\* q-values: for 1 the RFC 7231 5.3.1 forms "1" ["." 0*3("0")]; for 0,
\* "0", or "0." and one to three digits, which weigh nothing when all are
\* '0'.
OneForms == {SubSeq(<<"1", ".", "0", "0", "0">>, 1, n) : n \in 1 .. 5}

Fractions(ds) == {<<"0", ".">> \o d : d \in UNION {[1 .. n -> ds] : n \in 1 .. 3}}

ZeroForms == {<<"0">>} \cup Fractions({"0"})

PositiveForms == OneForms \cup (Fractions(AsciiDigits) \ ZeroForms)

\* An item: a name without LWS, alone or followed by ';', q (any case),
\* '=' and a q-value, with LWS around each part.
ItemOf(w) ==
  LET semi == SplitAt(w, ";")
      name == Trimmed(semi[1])
      kv   == SplitAt(semi[Len(semi)], "=")
      q    == Trimmed(kv[Len(kv)])
      bad  == [name |-> name, w |-> "bad"]
  IN  CASE HasSpace(name)                                  -> bad
        [] Len(semi) = 1                                   -> [name |-> name, w |-> "pos"]
        [] Len(semi) > 2 \/ Len(kv) # 2                    -> bad
        [] ToLowerASCII(Trimmed(kv[1])) # <<"q">>          -> bad
        [] q \in PositiveForms                             -> [name |-> name, w |-> "pos"]
        [] q \in ZeroForms                                 -> [name |-> name, w |-> "zero"]
        [] OTHER                                           -> bad

Aliases == {{<<"gzip">>, <<"x-gzip">>}, {<<"compress">>, <<"x-compress">>}}

AcceptAsSpecified(s) ==
  LET its == {ItemOf(Items(s)[k]) : k \in DOMAIN Items(s)}
      pos == {ToLowerASCII(x.name) : x \in {y \in its : y.w = "pos"}}
  IN  [ok  |-> (\A k \in DOMAIN s : s[k] # DQ) /\ \A x \in its : x.w # "bad",
       set |-> IF pos = {} THEN {<<"*">>}
               ELSE pos \cup {<<"identity">>} \cup UNION {a \in Aliases : a \cap pos # {}}]

ContentAsSpecified(s) ==
  [ok  |-> /\ \A k \in DOMAIN s : s[k] \notin {DQ, "=", ";", "*"}
           /\ \A k \in DOMAIN Items(s) : ~HasSpace(Items(s)[k]),
   set |-> {ToLowerASCII(Items(s)[k]) : k \in DOMAIN Items(s)}]

\* A finished Accept-Encoding call returns true exactly for the values of
\* the spec's grammar, and then leaves the spec's set: q=0 entries left
\* out, "*" when nothing is left, otherwise "identity" and both names of
\* each alias pair; whatever the caller's set held before the call
\* (spec.md 4.6, 8).
AcceptEncodingAsSpecified ==
  phase = "done" /\ fn = "accept" =>
    /\ ret = AcceptAsSpecified(value).ok
    /\ ret => set = AcceptAsSpecified(value).set

\* A finished Content-Encoding call returns true exactly for lists of bare
\* names free of '"', '=', ';', '*' and inner LWS, and then leaves the set
\* of those names in lower case, whatever the set held before.
ContentEncodingAsSpecified ==
  phase = "done" /\ fn = "content" =>
    /\ ret = ContentAsSpecified(value).ok
    /\ ret => set = ContentAsSpecified(value).set

=============================================================================
