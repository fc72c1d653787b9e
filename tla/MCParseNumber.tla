---------------------------- MODULE MCParseNumber ----------------------------
(***************************************************************************)
(* Model-checking instances of ParseNumber.                                *)
(*                                                                         *)
(* With 4-bit int32/uint32 (-8..7, 0..15) and 7-bit int64/uint64           *)
(* (-64..63, 0..127), the digits 0, 1, 7 and 8 put texts of up to three     *)
(* characters on both sides of every bound: "7"/"8" and "-8"/"-10" for     *)
(* int32, "15"/"17" for uint32, "-64"/"-71" and "17"/"71" for int64,       *)
(* "117"/"170" for uint64.  "a" stands for any other character.            *)
(***************************************************************************)
EXTENDS ParseNumber

\* Texts without whitespace: the inputs the contract and the code agree on.
MCNumberAlphabet == {"0", "1", "7", "8", "-", "+", "a"}

\* The same with a space, which absl::SimpleAtoi trims at either end.
MCWhitespaceAlphabet == MCNumberAlphabet \cup {" "}

MCMaxLen == 3

MCOutputInit == 3

=============================================================================
