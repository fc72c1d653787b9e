---------------------------- MODULE MCCertErrorId ----------------------------
(***************************************************************************)
(* Three error IDs, two of which were given the same text, as happens when *)
(* two verifiers report the same condition under their own names.          *)
(***************************************************************************)
EXTENDS CertErrorId

CONSTANTS kA, kB, kC

MCLiteral == [n \in {kA, kB, kC} |->
                IF n = kC THEN "Unconsumed critical extension"
                          ELSE "Failed parsing extensions"]

=============================================================================
