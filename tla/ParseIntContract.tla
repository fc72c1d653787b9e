--------------------------- MODULE ParseIntContract ---------------------------
(***************************************************************************)
(* What the integer-parsing primitive promises its callers (spec.md, 6 and *)
(* 7): parse(text, format) yields a value or one of FAILED_PARSE,          *)
(* FAILED_OVERFLOW, FAILED_UNDERFLOW.  A text is a number when it is a     *)
(* non-empty run of decimal digits, preceded by one "-" only when the      *)
(* format is ANY; a leading "+" is never accepted.  A number outside the   *)
(* output type fails with OVERFLOW (too large) or UNDERFLOW (too small);   *)
(* anything else fails with PARSE.  On failure the output is untouched,    *)
(* and the error is written only when the caller passed somewhere to put   *)
(* it.                                                                     *)
(*                                                                         *)
(* One behaviour is one call made by a caller that owns the output and    *)
(* error variables; calls share no state (spec.md, 5).                     *)
(***************************************************************************)
EXTENDS ParseIntTypes

CONSTANTS
  NoCall,      \* call before the caller has made its call
  OutputInit,  \* the caller's output variable before the call
  ErrorInit    \* the caller's error variable before the call

VARIABLES output, error, result, call

vars == <<output, error, result, call>>

\* The text is a number in the given format: [-]digits, "-" only for ANY.
IsNumberText(s, format) ==
  \/ IsDigitRun(s)
  \/ /\ format = "ANY"
     /\ s # <<>>
     /\ Head(s) = "-"
     /\ IsDigitRun(Tail(s))

NumberValue(s) ==
  IF Head(s) = "-" THEN -DecimalValue(Tail(s)) ELSE DecimalValue(s)

\* The outcome the contract requires of call c.
Expected(c) ==
  LET kind == KindOf(c.fn)
      v    == NumberValue(c.input)
  IN  IF ~IsNumberText(c.input, c.format)
        THEN [ok |-> FALSE, error |-> "FAILED_PARSE"]
      ELSE IF v \in TypeRange(kind)
        THEN [ok |-> TRUE, val |-> v]
      ELSE [ok |-> FALSE,
            error |-> IF v < 0 THEN "FAILED_UNDERFLOW" ELSE "FAILED_OVERFLOW"]

Init ==
  /\ output = OutputInit
  /\ error = ErrorInit
  /\ result = FALSE
  /\ call = NoCall

Parse(c) ==
  /\ call = NoCall
  /\ call' = c
  /\ LET r == Expected(c) IN
       IF r.ok
         THEN /\ output' = r.val
              /\ result' = TRUE
              /\ UNCHANGED error
         ELSE /\ result' = FALSE
              /\ error' = IF c.withError THEN r.error ELSE error
              /\ UNCHANGED output

\* Some call of Calls is made (stated with call' so that checking a step
\* against it does not enumerate every call).
Next ==
  /\ call' \in Calls
  /\ Parse(call')

Spec == Init /\ [][Next]_vars

=============================================================================
