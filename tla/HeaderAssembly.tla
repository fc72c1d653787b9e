--------------------------- MODULE HeaderAssembly ---------------------------
(***************************************************************************)
(* The raw header assembler of http_util.cc and the iterator that reads    *)
(* its output, as a header container uses them (spec.md 3, 6):            *)
(*                                                                         *)
(*   1. AssembleRawHeaders(input) (lines 605-645): skip the slop before   *)
(*      the status line (LocateStartOfStatusLine, lines 526-538), copy     *)
(*      the status line, then one step per line of the rest, folding      *)
(*      continuation lines, then terminate and canonicalise;               *)
(*   2. a HeadersIterator (lines 740-770) over the lines after the status  *)
(*      line, one GetNext per step, until it returns false;               *)
(*   3. ConvertHeadersBackToHTTPResponse (lines 646-654) on the result,    *)
(*      and AssembleRawHeaders again on what it returns.                  *)
(*                                                                         *)
(*   2a. the same caller then gathers every value of the header Sought    *)
(*      by calling HeadersIterator::AdvanceTo (lines 771-782) on a fresh  *)
(*      iterator until it returns false;                                   *)
(*                                                                         *)
(* The letters of "http" and the letter "a" may be upper case; no other    *)
(* upper case letter occurs in an input.                                   *)
(***************************************************************************)
EXTENDS HttpText

CONSTANTS
  Inputs,     \* the byte strings handed to AssembleRawHeaders
  Sought      \* the lower-case header name passed to AdvanceTo

VARIABLES
  input,      \* the caller's input
  pass,       \* 1: assembling input; 2: assembling the converted output
  phase,      \* "start", "lines", "iter", "seek", "convert" or "done"
  src,        \* the argument of the current AssembleRawHeaders call
  out,        \* raw_headers
  body,       \* input after the status line, which `lines` tokenizes
  lcur,       \* the cursor of `lines`
  prevCont,   \* prev_line_continuable
  first,      \* what the first AssembleRawHeaders call returned
  hcur,       \* the HeadersIterator's cursor over first
  hdrs,       \* the <<name, value>> pairs GetNext returned
  acur,       \* the cursor of the iterator AdvanceTo runs on
  found       \* the values of the headers AdvanceTo stopped at

vars == <<input, pass, phase, src, out, body, lcur, prevCont, first, hcur, hdrs,
          acur, found>>

CR == "\r"
LF == "\n"

NotFound == -1

Lower(c) == CASE c = "H" -> "h" [] c = "T" -> "t" [] c = "P" -> "p"
             [] c = "A" -> "a" [] OTHER -> c

LowerAll(w) == [k \in DOMAIN w |-> Lower(w[k])]

\* ---- faulty variants: each replaces the definition named after it -------

\* A continuation joined with its leading LWS kept.
RemoveLeadingNonLWSKeep(str) == str

\* Lines split at LF only, as if the delimiter set were "\n".
NextLineLfOnly(cur) == TokenizerNext(body, cur, Len(body) + 1, {LF}, {}, FALSE)

\* The converted headers appended without their per-line CRLF.
RECURSIVE ConvertBackNoLineBreak(_, _)
ConvertBackNoLineBreak(str, cur) ==
  LET tk == TokenizerNext(str, cur, Len(str) + 1, {NUL}, {}, FALSE)
  IN  IF ~tk.found THEN <<CR, LF>>
      ELSE SubSeq(str, tk.b, tk.t - 1) \o ConvertBackNoLineBreak(str, tk.cur)

\* ---- the code: helpers ---------------------------------------------------

\* HttpUtil::LocateStartOfStatusLine (lines 526-538): the first offset
\* i <= min(len - 4, 4) where "http" starts, in any case.
LocateStartOfStatusLine(buf) ==
  LET hits == IF Len(buf) < 4 THEN {}
              ELSE {i \in 0 .. Min({Len(buf) - 4, 4}) :
                      [k \in 1 .. 4 |-> Lower(buf[i + k])] = <<"h", "t", "t", "p">>}
  IN  IF hits = {} THEN NotFound ELSE Min(hits)

\* FindStatusLineEnd (lines 591-596): the length before the first CR or LF.
FindStatusLineEnd(str) ==
  LET at == {k \in DOMAIN str : str[k] \in {CR, LF}}
  IN  IF at = {} THEN Len(str) ELSE Min(at) - 1

\* RemoveLeadingNonLWS (lines 598-604): drop the leading run of LWS.
RemoveLeadingNonLWS(str) == SubSeq(str, SkipLWS(str, 1, Len(str) + 1), Len(str))

\* IsLineSegmentContinuable (lines 575-589): a non-empty line with a colon
\* and a non-empty name that does not start with LWS.
IsLineSegmentContinuable(line) ==
  LET colon == Find(line, ":", 1, Len(line) + 1)
  IN  line # <<>> /\ colon <= Len(line) /\ colon > 1 /\ ~IsLWS(line[1])

\* The next line of `lines`, a CStringTokenizer on "\r\n" without options:
\* runs of CR and LF delimit, empty lines are skipped.
NextLine(cur) == TokenizerNext(body, cur, Len(body) + 1, {CR, LF}, {}, FALSE)

\* Lines 639-643: append the two terminators, erase every NUL, then turn
\* every LF into NUL.
Canonical(str) ==
  LET erased == SelectSeq(str \o <<LF, LF>>, LAMBDA c : c # NUL)
  IN  [k \in DOMAIN erased |-> IF erased[k] = LF THEN NUL ELSE erased[k]]

\* ConvertHeadersBackToHTTPResponse (lines 646-654): every non-empty
\* NUL-delimited token followed by CRLF, then a final CRLF.
RECURSIVE ConvertBack(_, _)
ConvertBack(str, cur) ==
  LET tk == TokenizerNext(str, cur, Len(str) + 1, {NUL}, {}, FALSE)
  IN  IF ~tk.found THEN <<CR, LF>>
      ELSE SubSeq(str, tk.b, tk.t - 1) \o <<CR, LF>> \o ConvertBack(str, tk.cur)

ConvertHeadersBackToHTTPResponse(str) == ConvertBack(str, TokenizerStart(1))

\* HeadersIterator::GetNext (lines 747-770) with NUL as line delimiter:
\* skip lines with no colon, an empty name, a name starting with LWS or a
\* trimmed name that is not a token; return the next header, trimmed.
RECURSIVE NextHeader(_, _)
NextHeader(str, cur) ==
  LET tk    == TokenizerNext(str, cur, Len(str) + 1, {NUL}, {}, FALSE)
      colon == Find(str, ":", tk.b, tk.t)
      n     == TrimLWS(str, tk.b, colon)
      v     == TrimLWS(str, colon + 1, tk.t)
  IN  IF ~tk.found THEN [found |-> FALSE, cur |-> tk.cur]
      ELSE IF \/ colon = tk.t
              \/ colon = tk.b \/ IsLWS(str[tk.b])
              \/ ~IsToken(SubSeq(str, n.b, n.e - 1))
        THEN NextHeader(str, tk.cur)
      ELSE [found |-> TRUE, name |-> SubSeq(str, n.b, n.e - 1),
            value |-> SubSeq(str, v.b, v.e - 1), cur |-> tk.cur]

\* Faulty variant of AdvanceTo, the next definition: names compared names case-sensitively.
RECURSIVE AdvanceToCaseSensitive(_, _, _)
AdvanceToCaseSensitive(str, cur, name) ==
  LET h == NextHeader(str, cur)
  IN  IF ~h.found \/ h.name = name THEN h
      ELSE AdvanceToCaseSensitive(str, h.cur, name)

\* HeadersIterator::AdvanceTo (lines 771-782): GetNext until the name,
\* lower-cased, equals the lower-case argument (LowerCaseEqualsASCII).
RECURSIVE AdvanceTo(_, _, _)
AdvanceTo(str, cur, name) ==
  LET h == NextHeader(str, cur)
  IN  IF ~h.found \/ LowerAll(h.name) = name THEN h
      ELSE AdvanceTo(str, h.cur, name)

\* A HeadersIterator over a canonical block: its headers start after the
\* status line's delimiter.
HeadersStart(str) == TokenizerStart(Find(str, NUL, 1, Len(str) + 1) + 1)

\* ---- the code: the steps ---------------------------------------------------

\* AssembleRawHeaders up to its loop (lines 605-625): drop the slop, copy
\* the status line, and tokenize the rest.
AssembleStart ==
  /\ phase = "start"
  /\ LET off == LocateStartOfStatusLine(src)
         in  == IF off = NotFound THEN src ELSE SubSeq(src, off + 1, Len(src))
         sl  == FindStatusLineEnd(in)
     IN  /\ out' = SubSeq(in, 1, sl)
         /\ body' = SubSeq(in, sl + 1, Len(in))
  /\ lcur' = TokenizerStart(1)
  /\ prevCont' = FALSE
  /\ phase' = "lines"
  /\ UNCHANGED <<input, pass, src, first, hcur, hdrs, acur, found>>

\* One iteration of the loop (lines 626-638): a line starting with LWS
\* after a continuable line is joined with one space; any other line
\* terminates the previous one and decides whether it is continuable.
AssembleLine ==
  /\ phase = "lines"
  /\ LET tk   == NextLine(lcur)
         line == SubSeq(body, tk.b, tk.t - 1)
     IN  /\ tk.found
         /\ lcur' = tk.cur
         /\ IF prevCont /\ IsLWS(line[1])
              THEN /\ out' = out \o <<" ">> \o RemoveLeadingNonLWS(line)
                   /\ UNCHANGED prevCont
              ELSE /\ out' = out \o <<LF>> \o line
                   /\ prevCont' = IsLineSegmentContinuable(line)
  /\ UNCHANGED <<input, pass, phase, src, body, first, hcur, hdrs, acur, found>>

\* The end of the call (lines 639-645).  After the first call the caller
\* iterates its headers, which start after the first delimiter.
AssembleFinish ==
  /\ phase = "lines"
  /\ ~NextLine(lcur).found
  /\ out' = Canonical(out)
  /\ IF pass = 1
       THEN /\ first' = Canonical(out)
            /\ hcur' = HeadersStart(Canonical(out))
            /\ acur' = HeadersStart(Canonical(out))
            /\ phase' = "iter"
       ELSE /\ phase' = "done"
            /\ UNCHANGED <<first, hcur, acur>>
  /\ UNCHANGED <<input, pass, src, body, lcur, prevCont, hdrs, found>>

\* One HeadersIterator::GetNext call; the caller stops at false.
HeadersGetNext ==
  /\ phase = "iter"
  /\ LET h == NextHeader(first, hcur)
     IN  /\ hcur' = h.cur
         /\ IF h.found THEN hdrs' = Append(hdrs, <<h.name, h.value>>) /\ UNCHANGED phase
                       ELSE phase' = "seek" /\ UNCHANGED hdrs
  /\ UNCHANGED <<input, pass, src, out, body, lcur, prevCont, first, acur, found>>

\* One AdvanceTo(Sought) call on the second iterator; the caller calls it
\* again until it returns false, collecting each value.
HeadersAdvanceTo ==
  /\ phase = "seek"
  /\ LET h == AdvanceTo(first, acur, Sought)
     IN  /\ acur' = h.cur
         /\ IF h.found THEN found' = Append(found, h.value) /\ UNCHANGED phase
                       ELSE phase' = "convert" /\ UNCHANGED found
  /\ UNCHANGED <<input, pass, src, out, body, lcur, prevCont, first, hcur, hdrs>>

\* The caller converts the canonical headers back and assembles them again.
ConvertAndReassemble ==
  /\ phase = "convert"
  /\ src' = ConvertHeadersBackToHTTPResponse(first)
  /\ pass' = 2
  /\ phase' = "start"
  /\ UNCHANGED <<input, out, body, lcur, prevCont, first, hcur, hdrs, acur, found>>

Init ==
  /\ input \in Inputs
  /\ pass = 1
  /\ phase = "start"
  /\ src = input
  /\ out = <<>>
  /\ body = <<>>
  /\ lcur = TokenizerStart(1)
  /\ prevCont = FALSE
  /\ first = <<>>
  /\ hcur = TokenizerStart(1)
  /\ hdrs = <<>>
  /\ acur = TokenizerStart(1)
  /\ found = <<>>

Next ==
  \/ AssembleStart
  \/ AssembleLine
  \/ AssembleFinish
  \/ HeadersGetNext
  \/ HeadersAdvanceTo
  \/ ConvertAndReassemble

Spec == Init /\ [][Next]_vars

-----------------------------------------------------------------------------
(* Properties *)

\* Reference (spec.md 4.3, 4.4): the input's lines are the pieces between
\* CR and LF bytes; the first is the status line, the others, once empty
\* ones are dropped, are header lines "name: value" or continuation lines
\* starting with LWS, which join the header before them with one space.
Pieces(str) ==
  FoldLeft(LAMBDA acc, c : IF c \in {CR, LF} THEN Append(acc, <<>>)
                           ELSE [acc EXCEPT ![Len(acc)] = Append(@, c)],
           <<<<>>>>, str)

BodyLines(x) == SelectSeq(Tail(Pieces(x)), LAMBDA w : w # <<>>)

Trimmed(w) == LET t == TrimLWS(w, 1, Len(w) + 1) IN SubSeq(w, t.b, t.e - 1)

LeftTrimmed(w) == SubSeq(w, SkipLWS(w, 1, Len(w) + 1), Len(w))

HasHttp(line) ==
  \E i \in 0 .. Len(line) - 4 :
    [k \in 1 .. 4 |-> Lower(line[i + k])] = <<"h", "t", "t", "p">>

ColonOf(l) == Find(l, ":", 1, Len(l) + 1)

IsHeaderLine(l) ==
  /\ ColonOf(l) <= Len(l)
  /\ ~IsLWS(l[1])
  /\ IsToken(Trimmed(SubSeq(l, 1, ColonOf(l) - 1)))

\* An input of the grammar: no NUL, "http" on the status line, and every
\* other line a header line or a continuation of one.
WellFormedInput(x) ==
  /\ \A k \in DOMAIN x : x[k] # NUL
  /\ HasHttp(Pieces(x)[1])
  /\ LET ls == BodyLines(x)
     IN  \A k \in DOMAIN ls : IsHeaderLine(ls[k]) \/ (k > 1 /\ IsLWS(ls[k][1]))

FoldedHeaders(x) ==
  LET raw == FoldLeft(
               LAMBDA acc, l :
                 IF IsLWS(l[1])
                   THEN [acc EXCEPT ![Len(acc)] = <<@[1], @[2] \o <<" ">> \o LeftTrimmed(l)>>]
                   ELSE Append(acc, <<Trimmed(SubSeq(l, 1, ColonOf(l) - 1)),
                                      SubSeq(l, ColonOf(l) + 1, Len(l))>>),
               <<>>, BodyLines(x))
  IN  [k \in DOMAIN raw |-> <<raw[k][1], Trimmed(raw[k][2])>>]

\* The HeadersIterator has run to its end over the first result.
Iterated == phase \in {"seek", "convert"} \/ pass = 2

\* A header container reads from the canonical block exactly the headers
\* of a well-formed input, in order, each continuation folded into its
\* header's value with one space (spec.md 4.3, 4.4).
HeadersAsFolded ==
  Iterated /\ WellFormedInput(input) => hdrs = FoldedHeaders(input)

\* Whatever the input, every header the iterator hands out passes
\* IsValidHeaderName and IsValidHeaderValue: its name is a token and its
\* value holds no CR, LF or NUL: no byte of the input can
\* smuggle a line break into a header (spec.md 1, 3).
HeadersAreClean ==
  \A k \in DOMAIN hdrs :
    /\ IsValidHeaderName(hdrs[k][1])
    /\ IsValidHeaderValue(hdrs[k][2])

\* A caller gathering a header's values with AdvanceTo gets, for a
\* well-formed input, the folded value of every header with that name in
\* any case, in order, and nothing else (spec.md 4.3: header names are
\* case-insensitive tokens).
SeekFindsAllNamed ==
  phase = "convert" /\ WellFormedInput(input) =>
    found = LET hs == SelectSeq(FoldedHeaders(input),
                                LAMBDA h : LowerAll(h[1]) = Sought)
            IN  [k \in DOMAIN hs |-> hs[k][2]]

\* spec.md 4.4: assembling what ConvertHeadersBackToHTTPResponse makes of
\* the canonical block of an input with a status line and no NUL gives
\* that block back: the conversion and the assembler are inverses.
ReassemblyIdempotent ==
  /\ phase = "done"
  /\ \A k \in DOMAIN input : input[k] # NUL
  /\ Pieces(input)[1] # <<>>
  => out = first

\* spec.md 2 (CanonicalHeaders): each logical line ends with one delimiter
\* and a final empty line marks the end of the block, so no two delimiters
\* meet before its last two bytes.  NUL is erased only after the lines are
\* joined and terminated (lines 639-643), so a line of NUL bytes leaves an
\* empty line in the middle of the block.
EmptyLineOnlyAtEnd ==
  first # <<>> => \A k \in 1 .. Len(first) - 3 : ~(first[k] = NUL /\ first[k + 1] = NUL)

=============================================================================
