-------------------------- MODULE MCHeaderAssembly --------------------------
(* Inputs: optional slop "x", a status line ("HTtp", "a" or none), up to   *)
(* three lines each after a CRLF or an LF, and an optional final CRLFCRLF.  *)
(* The lines are a header "a:b", a continuation " c", a line with no      *)
(* colon "b", a lone NUL, and "A :" (upper case, LWS before the colon,   *)
(* empty value).  AdvanceTo seeks "a".                                     *)
EXTENDS HeaderAssembly

MCNul == "NUL"

MCSought == <<"a">>

MCLines ==
  {<<"a", ":", "b">>, <<" ", "c">>, <<"b">>, <<MCNul>>, <<"A", " ", ":">>}

MCBreaks == {<<"\r", "\n">>, <<"\n">>}

MCRest ==
  {<<>>}
    \cup {b1 \o l1 : b1 \in MCBreaks, l1 \in MCLines}
    \cup {b1 \o l1 \o b2 \o l2 : b1 \in MCBreaks, l1 \in MCLines,
                                 b2 \in MCBreaks, l2 \in MCLines}
    \cup {b1 \o l1 \o b2 \o l2 \o b3 \o l3 :
            b1 \in MCBreaks, l1 \in MCLines, b2 \in MCBreaks, l2 \in MCLines,
            b3 \in MCBreaks, l3 \in MCLines}

MCInputs ==
  {sl \o st \o r \o t :
     sl \in {<<>>, <<"x">>},
     st \in {<<"H", "T", "t", "p">>, <<"a">>, <<>>},
     r \in MCRest,
     t \in {<<>>, <<"\r", "\n", "\r", "\n">>}}

=============================================================================
