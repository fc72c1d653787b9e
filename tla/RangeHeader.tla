---------------------------- MODULE RangeHeader ----------------------------
(***************************************************************************)
(* HttpUtil::ParseRangeHeader (http_util.cc lines 205-264) as the code     *)
(* runs it: the unit check, then one step per value of its ValuesIterator, *)
(* each step pushing one HttpByteRange onto the caller's vector or         *)
(* returning false, then the return of !ranges->empty().                   *)
(*                                                                         *)
(* The word "bytes" is one symbol, Unit, so that a header is a handful of *)
(* symbols; LowerCaseEqualsASCII(x, "bytes") is x = <<Unit>>.  Positions  *)
(* are converted with StringToInt64(StringPiece(piece.data())), which     *)
(* reads on to the first NUL of the whole header (HttpText).               *)
(***************************************************************************)
EXTENDS HttpText

LOCAL Num == INSTANCE ParseIntTypes
               WITH Alphabet <- {}, MaxLen <- 0, Int32Bits <- Int64Bits

CONSTANTS
  Unit,       \* the symbol standing for the word "bytes"
  Headers     \* the ranges_specifier strings a caller may pass

VARIABLES
  header,     \* ranges_specifier
  phase,      \* "idle", "loop" (the while loop runs) or "done"
  cur,        \* the ValuesIterator's tokenizer cursor
  ranges,     \* the caller's vector, empty before the call
  ret         \* the returned bool

vars == <<header, phase, cur, ranges, ret>>

End == Len(header) + 1

\* HttpByteRange (net/http/http_byte_range, outside src/): three positions
\* that are -1 (kPositionNotSpecified) until set.
NoRange == [first |-> -1, last |-> -1, suffix |-> -1]

HasFirstBytePosition(r) == r.first >= 0

IsValid(r) ==
  \/ r.suffix > 0
  \/ r.first >= 0 /\ (r.last = -1 \/ r.last >= r.first)

\* A conversion whose failure makes the caller return at once: the value
\* absl leaves behind is never read.
Int64At(p) ==
  LET ok == {x \in StringToInt64(CStr(header, p)) : x.ok}
  IN  IF ok = {} THEN [ok |-> FALSE, val |-> -1] ELSE CHOOSE x \in ok : TRUE

Return(b) ==
  /\ phase' = "done"
  /\ ret' = b

\* The range one value describes (lines 224-257); ok is false where the
\* code returns false.  The last position is converted from first_byte_pos's
\* data (line 248), as written.
RangeOf(v) ==
  LET minus == Find(header, "-", v.b, v.e)
      f     == TrimLWS(header, v.b, minus)
      l     == TrimLWS(header, minus + 1, v.e)
      r1    == Int64At(f.b)
      r2    == Int64At(f.b)
      r     == IF f.b < f.e THEN [NoRange EXCEPT !.first = r1.val] ELSE NoRange
      bad   == [ok |-> FALSE, r |-> NoRange]
  IN  CASE minus = v.e                 -> bad
        [] f.b < f.e /\ ~r1.ok         -> bad
        [] l.b < l.e /\ ~r2.ok         -> bad
        [] l.b < l.e /\ HasFirstBytePosition(r)
                                       -> [ok |-> TRUE, r |-> [r EXCEPT !.last = r2.val]]
        [] l.b < l.e                   -> [ok |-> TRUE, r |-> [r EXCEPT !.suffix = r2.val]]
        [] ~HasFirstBytePosition(r)    -> bad
        [] OTHER                       -> [ok |-> TRUE, r |-> r]

\* ---- faulty variants: each replaces the definition named after it -------

\* A loop that skips a malformed value instead of failing the header.
RangeStepSkipBad ==
  /\ phase = "loop"
  /\ LET v == ValuesNext(header, cur, End, ",", TRUE)
         r == RangeOf(v)
     IN  /\ v.found
         /\ cur' = v.cur
         /\ IF ~r.ok \/ ~IsValid(r.r)
              THEN UNCHANGED <<ranges, phase, ret>>
              ELSE ranges' = Append(ranges, r.r) /\ UNCHANGED <<phase, ret>>
  /\ UNCHANGED header

\* A loop that reads the current value again instead of advancing.
RangeStepNoAdvance ==
  /\ phase = "loop"
  /\ LET v == ValuesNext(header, cur, End, ",", TRUE)
         r == RangeOf(v)
     IN  /\ v.found
         /\ UNCHANGED cur
         /\ IF ~r.ok \/ ~IsValid(r.r)
              THEN Return(FALSE) /\ UNCHANGED ranges
              ELSE ranges' = Append(ranges, r.r) /\ UNCHANGED <<phase, ret>>
  /\ UNCHANGED header

\* ---- the code ------------------------------------------------------------

\* The call up to the loop (lines 205-222): find '=', check the unit, and
\* start a ValuesIterator over the rest with ',' as delimiter.
ParseRangeHeader ==
  /\ phase = "idle"
  /\ LET eq   == Find(header, "=", 1, End)
         unit == TrimLWS(header, 1, eq)
     IN  IF eq = End \/ SubSeq(header, unit.b, unit.e - 1) # <<Unit>>
           THEN Return(FALSE) /\ UNCHANGED cur
           ELSE /\ phase' = "loop"
                /\ cur' = TokenizerStart(eq + 1)
                /\ UNCHANGED ret
  /\ UNCHANGED <<header, ranges>>

\* One iteration of the loop (lines 223-262): the next value becomes a
\* range that must pass IsValid and is pushed, or the call returns false.
RangeStep ==
  /\ phase = "loop"
  /\ LET v == ValuesNext(header, cur, End, ",", TRUE)
         r == RangeOf(v)
     IN  /\ v.found
         /\ cur' = v.cur
         /\ IF ~r.ok \/ ~IsValid(r.r)
              THEN Return(FALSE) /\ UNCHANGED ranges
              ELSE ranges' = Append(ranges, r.r) /\ UNCHANGED <<phase, ret>>
  /\ UNCHANGED header

\* The iterator is exhausted (line 263).
RangeLoopExit ==
  /\ phase = "loop"
  /\ ~ValuesNext(header, cur, End, ",", TRUE).found
  /\ Return(ranges # <<>>)
  /\ UNCHANGED <<header, cur, ranges>>

\* Before a call with one of hs: the caller's vector is empty.
InitOn(hs) ==
  /\ header \in hs
  /\ phase = "idle"
  /\ cur = TokenizerStart(1)
  /\ ranges = <<>>
  /\ ret = FALSE

Init == InitOn(Headers)

Next == ParseRangeHeader \/ RangeStep \/ RangeLoopExit

Spec == Init /\ [][Next]_vars

-----------------------------------------------------------------------------
(* Properties *)

\* Reference (spec.md 4.6 and 8): the unit before '=' is "bytes"; the rest
\* is split at ',' into trimmed items, empty ones dropped; each item is
\* first-last (first <= last), first-, or -suffix, in decimal digits.
Trimmed(w) == LET t == TrimLWS(w, 1, Len(w) + 1) IN SubSeq(w, t.b, t.e - 1)

EqualsAt(h) == Find(h, "=", 1, Len(h) + 1)

Items(h) ==
  LET parts == SplitAt(SubSeq(h, EqualsAt(h) + 1, Len(h)), ",")
  IN  SelectSeq([k \in DOMAIN parts |-> Trimmed(parts[k])],
                LAMBDA w : w # <<>>)

MaxInt64 == 2 ^ (Int64Bits - 1) - 1

IsPos(w) == Num!IsDigitRun(w) /\ Num!DecimalValue(w) <= MaxInt64

SpecRange(w) ==
  LET m == Find(w, "-", 1, Len(w) + 1)
      a == Trimmed(SubSeq(w, 1, m - 1))
      z == Trimmed(SubSeq(w, m + 1, Len(w)))
      va == IF IsPos(a) THEN Num!DecimalValue(a) ELSE -1
      vz == IF IsPos(z) THEN Num!DecimalValue(z) ELSE -1
  IN  CASE m > Len(w)                        -> [ok |-> FALSE, r |-> NoRange]
        [] IsPos(a) /\ IsPos(z) /\ va <= vz   -> [ok |-> TRUE, r |-> [NoRange EXCEPT !.first = va, !.last = vz]]
        [] IsPos(a) /\ z = <<>>               -> [ok |-> TRUE, r |-> [NoRange EXCEPT !.first = va]]
        [] a = <<>> /\ IsPos(z) /\ vz > 0     -> [ok |-> TRUE, r |-> [NoRange EXCEPT !.suffix = vz]]
        [] OTHER                             -> [ok |-> FALSE, r |-> NoRange]

WellFormed(h) ==
  /\ EqualsAt(h) <= Len(h)
  /\ Trimmed(SubSeq(h, 1, EqualsAt(h) - 1)) = <<Unit>>
  /\ Items(h) # <<>>
  /\ \A k \in DOMAIN Items(h) : SpecRange(Items(h)[k]).ok

TypeOK ==
  /\ phase \in {"idle", "loop", "done"}
  /\ ret \in BOOLEAN
  /\ Len(ranges) <= Len(header)
  /\ \A k \in DOMAIN ranges :
       ranges[k] \in [first : Num!TypeRange("int64"),
                      last : Num!TypeRange("int64"),
                      suffix : Num!TypeRange("int64")]

\* A Range header succeeds only when every one of its ranges parsed: the
\* call never returns true having dropped a malformed range (spec.md 4.6).
AllRangesParsed ==
  phase = "done" /\ ret => Len(ranges) = Len(Items(header))

\* Every header of the spec's grammar is accepted with the spec's ranges:
\* "bytes=0-499,500-999" gives (0,499) and (500,999), "bytes=-500" a
\* suffix of 500 (spec.md 8).
RangesAsSpecified ==
  phase = "done" /\ WellFormed(header) =>
    /\ ret
    /\ ranges = [k \in DOMAIN Items(header) |-> SpecRange(Items(header)[k]).r]

=============================================================================
