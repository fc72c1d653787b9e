---------------------------- MODULE ContentType ----------------------------
(***************************************************************************)
(* HttpUtil::ParseContentType (http_util.cc lines 72-203) as a caller uses *)
(* it: one call per Content-Type header of a response, all writing to the *)
(* same mime_type, charset, had_charset and boundary, so that what a call *)
(* does depends on what the calls before it left there.                   *)
(*                                                                         *)
(* A call is one step: its parameter loop runs inside the step, as the    *)
(* code runs it without returning.  The words "charset" and "boundary"    *)
(* are one symbol each, as are their capitalised spellings; T and U are   *)
(* the upper case of t and u.  No input holds NUL, so mime_type->data()   *)
(* is the whole stored type.                                              *)
(***************************************************************************)
EXTENDS HttpText

CONSTANTS
  Values,     \* the Content-Type values a response may carry
  MaxCalls    \* the most headers one response has

VARIABLES
  mime,       \* *mime_type
  charset,    \* *charset
  hadCharset, \* *had_charset
  boundary,   \* *boundary, when the caller asks for it
  wantsBoundary, \* the caller passes a non-null boundary
  value,      \* the value of the last call
  calls       \* calls made

vars == <<mime, charset, hadCharset, boundary, wantsBoundary, value, calls>>

Lower(c) ==
  CASE c = "T" -> "t" [] c = "U" -> "u"
    [] c = "Charset" -> "charset" [] c = "Boundary" -> "boundary"
    [] OTHER -> c

\* gurl_base::ToLowerASCII
ToLowerASCII(w) == [k \in DOMAIN w |-> Lower(w[k])]

Wildcard == <<"*", "/", "*">>

\* find_first_of / find_first_not_of from position p: npos is Len(s) + 1.
FirstOf(s, cs, p) ==
  LET at == {k \in p .. Len(s) : s[k] \in cs} IN IF at = {} THEN Len(s) + 1 ELSE Min(at)

FirstNotOf(s, cs, p) ==
  LET at == {k \in p .. Len(s) : s[k] \notin cs} IN IF at = {} THEN Len(s) + 1 ELSE Min(at)

LWS == {" ", "\t"}

\* ---- the code ------------------------------------------------------------

\* Lines 148-163: the quoted value from p, after the open quote; a
\* backslash copies the character after it unless it is the last one.
RECURSIVE QuotedValue(_, _, _)
QuotedValue(s, p, acc) ==
  IF p > Len(s) \/ s[p] = DQ THEN [val |-> acc, p |-> p]
  ELSE LET q == IF s[p] = BS /\ p + 1 <= Len(s) THEN p + 1 ELSE p
       IN  QuotedValue(s, q + 1, Append(acc, s[q]))

\* Lines 166-177: the first charset and, when asked for, the first
\* boundary win.
Recognise(st, name, v, wantB) ==
  CASE ~st.hasCharset /\ ToLowerASCII(name) = <<"charset">>
         -> [st EXCEPT !.hasCharset = TRUE, !.charset = v]
    [] wantB /\ ~st.hasBoundary /\ ToLowerASCII(name) = <<"boundary">>
         -> [st EXCEPT !.hasBoundary = TRUE, !.boundary = v]
    [] OTHER -> st

\* The parameter loop (lines 95-178) from the ';' at off.
RECURSIVE Params(_, _, _, _)
Params(s, off, st, wantB) ==
  IF off > Len(s) THEN st
  ELSE LET ns   == FirstNotOf(s, LWS, off + 1)
           eq   == FirstOf(s, {";", "="}, ns)
           vs   == FirstNotOf(s, LWS, eq + 1)
           name == SubSeq(s, ns, eq - 1)
       IN  IF eq > Len(s) \/ s[eq] = ";" THEN Params(s, eq, st, wantB)
           ELSE IF vs > Len(s) \/ s[vs] = ";" THEN Params(s, vs, st, wantB)
           ELSE IF s[vs] # DQ
             THEN LET semi == FirstOf(s, {";"}, vs)
                      ve   == BackLWS(s, vs, semi)
                  IN  Params(s, semi, Recognise(st, name, SubSeq(s, vs, ve - 1), wantB), wantB)
           ELSE LET q == QuotedValue(s, vs + 1, <<>>)
                    t == TrimLWS(q.val, 1, Len(q.val) + 1)
                IN  Params(s, FirstOf(s, {";"}, q.p),
                           Recognise(st, name, SubSeq(q.val, t.b, t.e - 1), wantB), wantB)

NoParams == [hasCharset |-> FALSE, charset |-> <<>>,
             hasBoundary |-> FALSE, boundary |-> <<>>]

\* Lines 179-186: the whole value is rejected when empty, "*/*" or free of
\* '/'.
Rejected(s) == s = <<>> \/ s = Wildcard \/ \A k \in DOMAIN s : s[k] # "/"

\* ---- faulty variants: each replaces the definition named after it -------

\* The stored type compared case-sensitively.
SameTypeCaseSensitive(ty) == mime # <<>> /\ ty = mime

\* A charset written only when the value carries one.
CharsetUpdatedNoReset(eq, has) == has

\* ---- the code, continued --------------------------------------------------

\* Lines 191-194: the value's type equals the stored one, ignoring case.
SameType(ty) == mime # <<>> /\ ToLowerASCII(ty) = mime

\* Line 199: the charset is written when the type changed while a
\* charset was set, or when the value carries one.
CharsetUpdated(eq, has) == (~eq /\ hadCharset) \/ has

\* Lines 81-85: the media type runs from the first non-LWS character to
\* LWS, ';' or '('; TypeEnd is type_end.
TypeStart(s) == FirstNotOf(s, LWS, 1)

TypeEnd(s) == FirstOf(s, LWS \cup {";", "("}, TypeStart(s))

TypeOf(s) == SubSeq(s, TypeStart(s), TypeEnd(s) - 1)

\* Lines 86-94 and the loop: the parameters from the first ';' after the
\* type.
ParamsOf(s, wantB) == Params(s, FirstOf(s, {";"}, TypeEnd(s)), NoParams, wantB)

\* The whole call (lines 72-203): the media type, the parameters, then the
\* update of the caller's strings.
ParseContentType ==
  /\ calls < MaxCalls
  /\ \E s \in Values :
       LET ty == TypeOf(s)
           p  == ParamsOf(s, wantsBoundary)
           eq == SameType(ty)
       IN  /\ value' = s
           /\ boundary' = IF p.hasBoundary THEN p.boundary ELSE boundary
           /\ IF Rejected(s)
                THEN UNCHANGED <<mime, charset, hadCharset>>
                ELSE /\ mime' = IF eq THEN mime ELSE ToLowerASCII(ty)
                     /\ IF CharsetUpdated(eq, p.hasCharset)
                          THEN hadCharset' = TRUE /\ charset' = ToLowerASCII(p.charset)
                          ELSE UNCHANGED <<hadCharset, charset>>
  /\ calls' = calls + 1
  /\ UNCHANGED wantsBoundary

\* A response's first header finds the caller's strings empty; wants is
\* the set of choices of passing a boundary.
InitOn(wants) ==
  /\ mime = <<>>
  /\ charset = <<>>
  /\ hadCharset = FALSE
  /\ boundary = <<>>
  /\ wantsBoundary \in wants
  /\ value = <<>>
  /\ calls = 0

Init == InitOn(BOOLEAN)

Next == ParseContentType

Spec == Init /\ [][Next]_vars

-----------------------------------------------------------------------------
(* Properties *)

\* The charset parameter a value carries, lower-cased, or empty.
CharsetOf(s) == ToLowerASCII(ParamsOf(s, FALSE).charset)

\* A header that stores a new media type leaves no charset of the earlier
\* type behind: the caller's charset is the one that header carries, or
\* empty, whatever the earlier headers set (lines 191-202).
NewTypeDropsStaleCharset ==
  [][mime' # mime => charset' = CharsetOf(value')]_vars

\* A later header of the stored type, in any case, with no charset
\* parameter leaves the type and the charset as they were (spec.md 4.6:
\* only the charset may update).
SameTypeKeepsCharset ==
  [][mime # <<>> /\ ToLowerASCII(TypeOf(value')) = mime
       /\ ~ParamsOf(value', FALSE).hasCharset
       => UNCHANGED <<mime, charset, hadCharset>>]_vars

\* The comment at lines 187-189: when a later header has the stored type,
\* an empty charset does not wipe out the one an earlier header set.  An
\* empty charset is an absent parameter or one whose value is empty, as
\* the quoted "" is.
EmptyCharsetKeepsCharset ==
  [][mime # <<>> /\ ToLowerASCII(TypeOf(value')) = mime
       /\ CharsetOf(value') = <<>>
       => charset' = charset]_vars

\* spec.md 4.6 and the comment at lines 179-180: "*/*" is meaningless and
\* is not stored, and a media type without a '/' is rejected, so the type
\* the calls leave in *mime_type is either empty or a type/subtype other
\* than "*/*".  The check at lines 183-184 tests the whole value, not the
\* type: "*/*;charset=u" and "t;x=/" pass it.
StoredTypeMeaningful ==
  mime # <<>> => mime # Wildcard /\ \E k \in DOMAIN mime : mime[k] = "/"

=============================================================================
