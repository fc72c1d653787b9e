----------------------------- MODULE FieldParsers -----------------------------
(***************************************************************************)
(* The field-specific parsers of http_util.cc side by side: a caller hands *)
(* one header value to the parser of its field (Range, Content-Range,      *)
(* Accept-Encoding or Content-Encoding, Retry-After or the Accept-Language *)
(* functions, or the Content-Type headers of one response), or a bare     *)
(* name or method to a policy classifier, and the parser or classifier     *)
(* runs to its return while the others stay idle.  Each parser is its own module; this one renames the variables   *)
(* they share a name for, so that what spec.md 7 asks of all of them, the *)
(* outputs a false return leaves, is one property over one state.         *)
(***************************************************************************)
EXTENDS HttpText

CONSTANTS
  Unit, Headers, Specs, OutInit, Values, Prior, RetryValues, Prefs, Int32Bits,
  TypeValues, MaxTypeCalls, Names, Methods, ParmNames, CaseFold

VARIABLES
  field,                                          \* the header being parsed
  header, rPhase, rCur, ranges, rRet,            \* ParseRangeHeader
  spec, crPhase, first, last, length, crRet,     \* ParseContentRangeHeaderFor206
  eFn, value, given, set, eCur, ePhase, eRet,    \* ParseAccept/ContentEncoding
  vFn, input, retryAfter, out, vRet,             \* FieldValues
  mime, charset, hadCharset, boundary, wantsBoundary, ctValue, ctCalls,
                                                  \* ParseContentType
  pFn, arg, result                                \* HeaderPolicy

rVars  == <<header, rPhase, rCur, ranges, rRet>>
crVars == <<spec, crPhase, first, last, length, crRet>>
eVars  == <<eFn, value, given, set, eCur, ePhase, eRet>>
vVars  == <<vFn, input, retryAfter, out, vRet>>
ctVars == <<mime, charset, hadCharset, boundary, wantsBoundary, ctValue, ctCalls>>
pVars  == <<pFn, arg, result>>
vars   == <<field, rVars, crVars, eVars, vVars, ctVars, pVars>>

R  == INSTANCE RangeHeader WITH phase <- rPhase, cur <- rCur, ret <- rRet
CR == INSTANCE ContentRange WITH phase <- crPhase, ret <- crRet
E  == INSTANCE Encodings
        WITH fn <- eFn, cur <- eCur, phase <- ePhase, ret <- eRet
V  == INSTANCE FieldValues WITH fn <- vFn, ret <- vRet
CT == INSTANCE ContentType
        WITH value <- ctValue, calls <- ctCalls,
             Values <- TypeValues, MaxCalls <- MaxTypeCalls
P  == INSTANCE HeaderPolicy WITH fn <- pFn

\* The value an idle parser holds, never read.
Idle == <<>>

\* One parser is given the caller's value; the others wait with an empty one.
Init ==
  /\ field \in {"range", "content-range", "encoding", "values", "content-type", "policy"}
  /\ IF field = "range" THEN R!InitOn(Headers) ELSE R!InitOn({Idle})
  /\ IF field = "content-range" THEN CR!InitOn(Specs) ELSE CR!InitOn({Idle})
  /\ IF field = "encoding" THEN E!InitOn({"accept", "content"}, Values, Prior)
     ELSE E!InitOn({"accept"}, {Idle}, {{}})
  /\ V!InitOn({OutInit})
  /\ IF field = "content-type" THEN CT!InitOn(BOOLEAN) ELSE CT!InitOn({FALSE})
  /\ P!Init

Next ==
  \/ field = "range" /\ R!Next /\ UNCHANGED <<field, crVars, eVars, vVars, ctVars, pVars>>
  \/ field = "content-range" /\ CR!Next /\ UNCHANGED <<field, rVars, eVars, vVars, ctVars, pVars>>
  \/ field = "encoding" /\ E!Next /\ UNCHANGED <<field, rVars, crVars, vVars, ctVars, pVars>>
  \/ field = "values" /\ V!Next /\ UNCHANGED <<field, rVars, crVars, eVars, ctVars, pVars>>
  \/ field = "content-type" /\ CT!Next /\ UNCHANGED <<field, rVars, crVars, eVars, vVars, pVars>>
  \/ field = "policy" /\ P!Next /\ UNCHANGED <<field, rVars, crVars, eVars, vVars, ctVars>>

Spec == Init /\ [][Next]_vars

-----------------------------------------------------------------------------
(* Properties: those of the parsers, over the composed state *)

TypeOK == R!TypeOK
AllRangesParsed == R!AllRangesParsed
ResetOnFailure == CR!ResetOnFailure
AcceptEncodingAsSpecified == E!AcceptEncodingAsSpecified
ContentEncodingAsSpecified == E!ContentEncodingAsSpecified
ExpandedAsSpecified == V!ExpandedAsSpecified
GeneratedAsSpecified == V!GeneratedAsSpecified
NewTypeDropsStaleCharset == CT!NewTypeDropsStaleCharset
SameTypeKeepsCharset == CT!SameTypeKeepsCharset

\* spec.md 7: a parser that returns false leaves its outputs either as the
\* caller passed them or explicitly reset.  ParseRangeHeader's vector is
\* empty on entry, so it must still be empty; the three Content-Range
\* positions are reset to -1; the encoding set, cleared on entry
\* (lines 907 and 987), is either the caller's or empty; *retry_after is
\* untouched.
FailureLeavesOutputsDefined ==
  /\ rPhase = "done" /\ ~rRet => ranges = <<>>
  /\ crPhase = "done" /\ ~crRet => first = -1 /\ last = -1 /\ length = -1
  /\ ePhase = "done" /\ ~eRet => set \in {given, {}}
  /\ vFn = "retry" /\ ~vRet => retryAfter = OutInit

=============================================================================
