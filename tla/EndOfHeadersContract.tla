------------------------ MODULE EndOfHeadersContract ------------------------
(***************************************************************************)
(* What spec.md 4.5 and 5 promise a caller that reads a response in       *)
(* chunks and asks for the end of the header block after each read: one   *)
(* answer for the bytes it holds, which is the offset just past the first *)
(* blank line of those bytes or "not found"; "not found" is the signal to *)
(* read more, and a found end stops the reading.                          *)
(*                                                                         *)
(* An answer is given atomically: how the locator scans is not visible.   *)
(***************************************************************************)
EXTENDS Integers, Sequences, FiniteSetsExt

CONSTANTS
  Streams,    \* the complete byte streams a peer may send
  MaxChunk,   \* the most bytes one read delivers
  CR, LF      \* the bytes "\r" and "\n"

VARIABLES
  held,       \* the bytes the caller's buffer holds
  pending,    \* the bytes the peer has yet to deliver
  additional, \* the block is an additional one (1xx, trailers)
  answer      \* the last answer: an end offset, NotFound, or Unasked

avars == <<held, pending, additional, answer>>

NotFound == -1

\* The buffer grew since the last answer.
Unasked == -2

\* The offset just past the first blank line of s, a blank line being a
\* line feed followed by a line feed or by a carriage-return line-feed pair.
EndOfHeaders(s) ==
  LET ends == {k \in 2 .. Len(s) :
                 /\ s[k] = LF
                 /\ \/ s[k - 1] = LF
                    \/ k >= 3 /\ s[k - 1] = CR /\ s[k - 2] = LF}
  IN  IF ends = {} THEN NotFound ELSE Min(ends)

\* An additional block may be empty: it may end at a line break that opens
\* the buffer, as if a line feed preceded it.
EndOf(s) ==
  IF additional
    THEN LET e == EndOfHeaders(<<LF>> \o s)
         IN  IF e = NotFound THEN NotFound ELSE e - 1
    ELSE EndOfHeaders(s)

Init ==
  /\ held = <<>>
  /\ pending \in Streams
  /\ additional \in BOOLEAN
  /\ answer = NotFound

\* The caller reads 1..MaxChunk more bytes while it has no end.
Read ==
  /\ answer \in {NotFound, Unasked}
  /\ \E k \in 1 .. MaxChunk :
       /\ k <= Len(pending)
       /\ held' = held \o SubSeq(pending, 1, k)
       /\ pending' = SubSeq(pending, k + 1, Len(pending))
  /\ answer' = Unasked
  /\ UNCHANGED additional

\* The caller asks about the bytes it holds and gets the contract's answer.
Locate ==
  /\ answer = Unasked
  /\ answer' = EndOf(held)
  /\ UNCHANGED <<held, pending, additional>>

Next == Read \/ Locate

Spec == Init /\ [][Next]_avars /\ WF_avars(Read) /\ WF_avars(Locate)

=============================================================================
