---------------------------- MODULE ContentRange ----------------------------
(***************************************************************************)
(* HttpUtil::ParseContentRangeHeaderFor206 (http_util.cc lines 272-311):  *)
(* one call on a Content-Range value, writing three int64_t outputs.      *)
(*                                                                         *)
(* The three positions are converted with                                  *)
(* StringToInt64(StringPiece(TrimLWS(field).data())), which reads from    *)
(* the field's start to the first NUL of the whole value (HttpText).  A   *)
(* conversion that fails leaves its output with whatever absl chose, any  *)
(* int64_t; the && chain stops at the first false conjunct.               *)
(***************************************************************************)
EXTENDS HttpText

CONSTANTS
  Unit,       \* the symbol standing for the word "bytes"
  Specs,      \* the content_range_spec values a caller may pass
  OutInit     \* what the caller's three int64_t hold before the call

VARIABLES
  spec,       \* content_range_spec
  phase,      \* "idle" or "done"
  first,      \* *first_byte_position
  last,       \* *last_byte_position
  length,     \* *instance_length
  ret         \* the returned bool

vars == <<spec, phase, first, last, length, ret>>

Finish(b, x, y, z) ==
  /\ phase' = "done"
  /\ ret' = b
  /\ first' = x
  /\ last' = y
  /\ length' = z

\* The outcomes of converting the text at position p of the value.
Conv(s, p) == StringToInt64(CStr(s, p))

\* ---- faulty variants: each replaces the definition named after it -------

\* A failed chain that leaves the outputs as the conversions wrote them.
ResetOnChainFailureDropped(x, y, z) == Finish(FALSE, x, y, z)

\* ---- the code ------------------------------------------------------------

\* Lines 278-292 and the substr/TrimLWS of lines 294-304: trim the value,
\* find ' ', check the unit, find '-' after it and '/' after that; ok is
\* false where the code returns early.  The fields' starts are what
\* .data() hands to StringToInt64.
Layout(s) ==
  LET t     == TrimLWS(s, 1, Len(s) + 1)
      sp    == Find(s, " ", t.b, t.e)
      unit  == TrimLWS(s, t.b, sp)
      minus == Find(s, "-", sp + 1, t.e)
      slash == Find(s, "/", minus + 1, t.e)
  IN  [ok     |-> sp < t.e /\ SubSeq(s, unit.b, unit.e - 1) = <<Unit>>
                  /\ minus < t.e /\ slash < t.e,
       first  |-> TrimLWS(s, sp + 1, minus).b,
       last   |-> TrimLWS(s, minus + 1, slash).b,
       length |-> TrimLWS(s, slash + 1, t.e).b]

\* The chain's three conjunct pairs (lines 293-306): a conversion that
\* succeeded and the comparison of its output with the one before.
FirstOk(a) == a.ok /\ a.val >= 0

LastOk(a, b) == b.ok /\ b.val >= a.val

LengthOk(b, c) == c.ok /\ c.val > b.val

\* Line 309: a failed chain resets all three outputs to -1.
ResetOnChainFailure(x, y, z) == Finish(FALSE, -1, -1, -1)

\* The whole call (lines 272-311): outputs to -1 (line 277), the early
\* returns, then the && chain of lines 293-306, each conversion writing its
\* output before its comparison is read.
ParseContentRangeHeaderFor206 ==
  /\ phase = "idle"
  /\ LET l == Layout(spec) IN
       IF ~l.ok
         THEN Finish(FALSE, -1, -1, -1)
         ELSE \E a \in Conv(spec, l.first) :
                IF ~FirstOk(a)
                  THEN ResetOnChainFailure(a.val, -1, -1)
                  ELSE \E b \in Conv(spec, l.last) :
                         IF ~LastOk(a, b)
                           THEN ResetOnChainFailure(a.val, b.val, -1)
                           ELSE \E c \in Conv(spec, l.length) :
                                  IF LengthOk(b, c)
                                    THEN Finish(TRUE, a.val, b.val, c.val)
                                    ELSE ResetOnChainFailure(a.val, b.val, c.val)
  /\ UNCHANGED spec

\* Before a call with one of ss.
InitOn(ss) ==
  /\ spec \in ss
  /\ phase = "idle"
  /\ first = OutInit
  /\ last = OutInit
  /\ length = OutInit
  /\ ret = FALSE

Init == InitOn(Specs)

Next == ParseContentRangeHeaderFor206

Spec == Init /\ [][Next]_vars

-----------------------------------------------------------------------------
(* Properties *)

\* Whatever step of the call fails, the caller finds all three outputs at
\* -1, never a value a failed conversion left behind (spec.md 4.6, 5).
ResetOnFailure ==
  phase = "done" /\ ~ret => first = -1 /\ last = -1 /\ length = -1

=============================================================================
