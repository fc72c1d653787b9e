--------------------------- MODULE MCRangeHeader ---------------------------
(* Range headers made of a unit part ("bytes", " bytes" or another word),  *)
(* '=' and every body of up to five symbols over two digits, '-', ',',     *)
(* space and NUL; and a few headers with no '='.  int64_t has 5 bits, so   *)
(* "11" (eleven) overflows nothing while a longer run would.               *)
EXTENDS RangeHeader

MCUnit == "bytes"

MCNul == "NUL"

MCBodies == BoundedSeq({"0", "1", "-", ",", " ", MCNul}, 5)

MCHeaders ==
  {u \o <<"=">> \o b : u \in {<<MCUnit>>, <<" ", MCUnit>>, <<"x">>},
                        b \in MCBodies}
    \cup {<<MCUnit>> \o b : b \in BoundedSeq({"0", "-"}, 2)}

=============================================================================
