--------------------------- MODULE MCHeaderBoundary ---------------------------
(***************************************************************************)
(* Every response of up to six bytes over a header byte, CR and LF, read   *)
(* in chunks of one or two bytes: every terminator (LFLF, LF CR LF,        *)
(* CRLFCRLF), false ends (CR CR, LF CR CR LF) and terminators split        *)
(* across reads occur.                                                     *)
(***************************************************************************)
EXTENDS HeaderBoundary

MCStreams == BoundedSeq({"h", CR, LF}, 6)

=============================================================================
