---------------------------- MODULE HeaderBoundary ----------------------------
(***************************************************************************)
(* The end-of-headers locators of http_util.cc (LocateEndOfHeaders and    *)
(* LocateEndOfAdditionalHeaders over LocateEndOfHeadersHelper) driven the  *)
(* way spec.md 4.5 says a caller owning a network buffer drives them: the  *)
(* bytes of the response arrive in chunks, and after each read the caller *)
(* scans the whole buffer again from its start; "not found" means "read   *)
(* more".                                                                  *)
(*                                                                         *)
(* The scan is the helper's loop, one byte per step: a line feed ends the  *)
(* headers when the previous line break is still open (wasLf), a carriage  *)
(* return right after a line feed keeps it open, and any other byte closes *)
(* it.  LocateEndOfAdditionalHeaders starts as if a line feed had just     *)
(* been seen.                                                              *)
(***************************************************************************)
EXTENDS Integers, Sequences, SequencesExt, FiniteSetsExt

CONSTANTS
  Streams,    \* the complete byte streams a peer may send
  MaxChunk,   \* the most bytes one read delivers
  CR, LF      \* the bytes "\r" and "\n"

ASSUME MaxChunk \in Nat \ {0}

NotFound == -1

VARIABLES
  stream,     \* what the peer sends, in full
  received,   \* how many of its bytes the caller's buffer holds
  additional, \* the caller parses an additional block (1xx, trailers)
  scan,       \* the running locator call: loop index and carried state
  scanned,    \* buffer length of the last finished call
  found       \* what the locator returned: an end offset or NotFound

vars == <<stream, received, additional, scan, scanned, found>>

Buffer == SubSeq(stream, 1, received)

Idle == [active |-> FALSE, i |-> 0, lastC |-> "NUL", wasLf |-> FALSE]

Init ==
  /\ stream \in Streams
  /\ received = 0
  /\ additional \in BOOLEAN
  /\ scan = Idle
  /\ scanned = 0
  /\ found = NotFound

\* The network delivers the next 1..MaxChunk bytes into the caller's buffer,
\* between locator calls (the caller is single-threaded).
Receive ==
  /\ ~scan.active
  /\ found = NotFound
  /\ \E k \in 1 .. MaxChunk :
       /\ received + k <= Len(stream)
       /\ received' = received + k
  /\ UNCHANGED <<stream, additional, scan, scanned, found>>

\* ---- faulty variants: each replaces the definition named after it -------

\* A loop where a carriage return always closes the line break.
ScanByteCrCloses ==
  /\ scan.active
  /\ scan.i < received
  /\ LET c == stream[scan.i + 1] IN
       IF c = LF /\ scan.wasLf
         THEN /\ found' = scan.i + 1
              /\ scan' = Idle
              /\ scanned' = received
         ELSE /\ scan' = [scan EXCEPT !.i = @ + 1, !.lastC = c,
                                       !.wasLf = (c = LF)]
              /\ UNCHANGED <<found, scanned>>
  /\ UNCHANGED <<stream, received, additional>>

\* A loop that returns one past the offset after the terminating line feed.
ScanByteOffByOne ==
  /\ scan.active
  /\ scan.i < received
  /\ LET c == stream[scan.i + 1] IN
       IF c = LF /\ scan.wasLf
         THEN /\ found' = scan.i + 2
              /\ scan' = Idle
              /\ scanned' = received
         ELSE /\ scan' = [scan EXCEPT
                            !.i = @ + 1,
                            !.lastC = c,
                            !.wasLf = IF c = LF THEN TRUE
                                      ELSE IF c = CR /\ scan.lastC = LF
                                             THEN @ ELSE FALSE]
              /\ UNCHANGED <<found, scanned>>
  /\ UNCHANGED <<stream, received, additional>>

\* ---- the locator -----------------------------------------------------------

\* Entry of LocateEndOfHeadersHelper(buf, len, 0, accept_empty_header_list)
\* (lines 539-550): last_c starts as NUL and was_lf as false, unless an
\* empty header list is accepted, which seeds them as if a line feed had
\* just been read.  The caller re-invokes it on the longer buffer after
\* each read, when the previous call found nothing.
LocateEndOfHeadersHelper(acceptEmpty) ==
  /\ ~scan.active
  /\ found = NotFound
  /\ scanned < received
  /\ scan' = [active |-> TRUE, i |-> 0,
              lastC |-> IF acceptEmpty THEN LF ELSE "NUL",
              wasLf |-> acceptEmpty]
  /\ UNCHANGED <<stream, received, additional, scanned, found>>

\* LocateEndOfAdditionalHeaders (lines 564-568), the caller's choice for a
\* 1xx or trailer block.
LocateEndOfAdditionalHeaders ==
  /\ additional
  /\ LocateEndOfHeadersHelper(TRUE)

\* LocateEndOfHeaders (lines 569-571).
LocateEndOfHeaders ==
  /\ ~additional
  /\ LocateEndOfHeadersHelper(FALSE)

\* One iteration of the helper's loop over buf[i] (lines 551-561).
ScanByte ==
  /\ scan.active
  /\ scan.i < received
  /\ LET c == stream[scan.i + 1] IN
       IF c = LF /\ scan.wasLf
         THEN /\ found' = scan.i + 1
              /\ scan' = Idle
              /\ scanned' = received
         ELSE /\ scan' = [scan EXCEPT
                            !.i = @ + 1,
                            !.lastC = c,
                            !.wasLf = IF c = LF THEN TRUE
                                      ELSE IF c = CR /\ scan.lastC = LF
                                             THEN @ ELSE FALSE]
              /\ UNCHANGED <<found, scanned>>
  /\ UNCHANGED <<stream, received, additional>>

\* The loop reaches the end of the buffer and returns npos (line 562):
\* "not found", read more.
ScanExhausted ==
  /\ scan.active
  /\ scan.i = received
  /\ scan' = Idle
  /\ scanned' = received
  /\ UNCHANGED <<stream, received, additional, found>>

Next ==
  \/ Receive
  \/ LocateEndOfHeaders
  \/ LocateEndOfAdditionalHeaders
  \/ ScanByte
  \/ ScanExhausted

\* The caller reads again while data is coming and re-invokes the locator
\* after every read; the locator loop runs to its end.
Fairness ==
  /\ WF_vars(Receive)
  /\ WF_vars(LocateEndOfHeaders) /\ WF_vars(LocateEndOfAdditionalHeaders)
  /\ WF_vars(ScanByte) /\ WF_vars(ScanExhausted)

Spec == Init /\ [][Next]_vars /\ Fairness

-----------------------------------------------------------------------------
(* Properties *)

\* What the caller has been told about the bytes it holds: the end offset,
\* "not found" for the buffer of the last finished call, or nothing yet for
\* a buffer that grew since (or whose scan is running).
Answer ==
  CASE found # NotFound    -> found
    [] scanned = received  -> NotFound
    [] OTHER               -> -2

\* The abstract locator, with the buffer as what the caller holds and the
\* rest of the stream as what the peer has yet to deliver.
Locator == INSTANCE EndOfHeadersContract
             WITH held    <- Buffer,
                  pending <- SubSeq(stream, received + 1, Len(stream)),
                  answer  <- Answer

TypeOK ==
  /\ received \in 0 .. Len(stream)
  /\ scanned \in 0 .. received
  /\ found \in {NotFound} \cup 1 .. received
  /\ scan.i \in 0 .. received

\* The byte loop implements the contract: every call that returns gives
\* the end of the first blank line of the buffer it was handed, or "not
\* found" exactly when that buffer holds none, so a caller that reads more
\* never skips past a complete header block; and while the caller keeps
\* reading and re-invoking, an answer always comes.
ImplementsLocatorContract == Locator!Spec

=============================================================================
