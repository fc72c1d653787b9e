----------------------------- MODULE HeaderPolicy -----------------------------
(***************************************************************************)
(* The classifiers policy code calls with a bare header name, method or   *)
(* parameter name (http_util.cc lines 329-377, 393-417 and 451-459):      *)
(* IsSafeHeader, IsMethodSafe, IsMethodIdempotent, IsNonCoalescingHeader  *)
(* and IsParmName.  A caller makes one call; the call is one step.        *)
(*                                                                         *)
(* A header name is a sequence of words and dashes: "proxy-authenticate"  *)
(* is <<"proxy", "-", "authenticate">>.  CaseFold maps each word spelt    *)
(* with an upper case letter to its lower-case spelling, which is what    *)
(* LowerCaseEqualsASCII and CompareCase::INSENSITIVE_ASCII compare.  A     *)
(* method is one word, compared as it is.  A parameter name is a string   *)
(* of characters, as IsTokenChar sees it.                                  *)
(***************************************************************************)
EXTENDS HttpText

CONSTANTS
  Names,      \* header names passed to the name classifiers
  Methods,    \* methods passed to IsMethodSafe and IsMethodIdempotent
  ParmNames,  \* strings passed to IsParmName
  CaseFold    \* upper-case spelling of a word |-> its lower-case spelling

VARIABLES
  fn,         \* the classifier called, "none" before the call
  arg,        \* its argument
  result      \* what it returned

vars == <<fn, arg, result>>

\* The ASCII lower case of a name, word by word.
LowerName(s) ==
  [k \in DOMAIN s |-> IF s[k] \in DOMAIN CaseFold THEN CaseFold[s[k]] ELSE s[k]]

\* gurl_base::StartsWith(name, prefix, INSENSITIVE_ASCII).
StartsWithInsensitive(name, prefix) ==
  Len(name) >= Len(prefix) /\ LowerName(SubSeq(name, 1, Len(prefix))) = prefix

\* kForbiddenHeaderFields (lines 329-357).
ForbiddenHeaderFields ==
  { <<"accept", "-", "charset">>, <<"accept", "-", "encoding">>,
    <<"access", "-", "control", "-", "request", "-", "headers">>,
    <<"access", "-", "control", "-", "request", "-", "method">>,
    <<"connection">>, <<"content", "-", "length">>, <<"cookie">>, <<"cookie2">>,
    <<"date">>, <<"dnt">>, <<"expect">>, <<"host">>, <<"keep", "-", "alive">>,
    <<"origin">>, <<"referer">>, <<"te">>, <<"trailer">>,
    <<"transfer", "-", "encoding">>, <<"upgrade">>, <<"user", "-", "agent">>,
    <<"via">> }

\* kNonCoalescingHeaders (lines 396-410).
NonCoalescingHeaders ==
  { <<"date">>, <<"expires">>, <<"last", "-", "modified">>, <<"location">>,
    <<"retry", "-", "after">>, <<"set", "-", "cookie">>,
    <<"www", "-", "authenticate">>, <<"proxy", "-", "authenticate">>,
    <<"strict", "-", "transport", "-", "security">> }

\* HttpUtil::IsMethodSafe (lines 359-362).
IsMethodSafe(method) == method \in {"GET", "HEAD", "OPTIONS", "TRACE"}

\* HttpUtil::IsMethodIdempotent (lines 364-366).
IsMethodIdempotent(method) == IsMethodSafe(method) \/ method \in {"PUT", "DELETE"}

\* HttpUtil::IsSafeHeader (lines 368-377): no proxy- or sec- prefix, in any
\* case, and none of the forbidden fields.
IsSafeHeader(name) ==
  /\ ~StartsWithInsensitive(name, <<"proxy", "-">>)
  /\ ~StartsWithInsensitive(name, <<"sec", "-">>)
  /\ \A field \in ForbiddenHeaderFields : LowerName(name) # field

\* HttpUtil::IsNonCoalescingHeader (lines 393-417).
IsNonCoalescingHeader(name) ==
  \E header \in NonCoalescingHeaders : LowerName(name) = header

\* HttpUtil::IsParmName (lines 451-459).
IsParmName(str) ==
  str # <<>> /\ \A k \in DOMAIN str : IsTokenChar(str[k]) /\ str[k] \notin {"*", "'", "%"}

\* ---- the calls --------------------------------------------------------------

Call(f, a, r) == fn = "none" /\ fn' = f /\ arg' = a /\ result' = r

CallIsSafeHeader == \E n \in Names : Call("safe-header", n, IsSafeHeader(n))

CallIsNonCoalescingHeader ==
  \E n \in Names : Call("non-coalescing", n, IsNonCoalescingHeader(n))

CallIsMethodSafe == \E m \in Methods : Call("method-safe", m, IsMethodSafe(m))

CallIsMethodIdempotent ==
  \E m \in Methods : Call("method-idempotent", m, IsMethodIdempotent(m))

CallIsParmName == \E s \in ParmNames : Call("parm-name", s, IsParmName(s))

Init == fn = "none" /\ arg = <<>> /\ result = FALSE

Next ==
  \/ CallIsSafeHeader
  \/ CallIsNonCoalescingHeader
  \/ CallIsMethodSafe
  \/ CallIsMethodIdempotent
  \/ CallIsParmName

Spec == Init /\ [][Next]_vars

=============================================================================
