----------------------------- MODULE CertErrorId -----------------------------
(***************************************************************************)
(* Certificate error IDs (src/unnamed/part_001, cert_error_id.h).  A       *)
(* CertErrorId is the address of the string literal given to              *)
(* DEFINE_CERT_ERROR_ID, and IDs are compared with ==.  The header says    *)
(* the process's address space makes each ID unique, and its TODO says     *)
(* nothing yet stops identical literals from sharing storage: whether two  *)
(* equal literals are merged is the compiler's and linker's choice, so it  *)
(* is a nondeterministic choice here.                                      *)
(*                                                                         *)
(* id[n] is the storage the ID named n points to, written as the name of  *)
(* the definition whose literal it is.                                     *)
(***************************************************************************)
EXTENDS FiniteSets

CONSTANTS
  Names,     \* the names given to DEFINE_CERT_ERROR_ID
  Literal,   \* Literal[n]: the string literal of definition n
  Undefined  \* id[n] before n's definition is initialised

VARIABLE id

Defined == {n \in Names : id[n] # Undefined}

Init == id = [n \in Names |-> Undefined]

\* DEFINE_CERT_ERROR_ID(name, c_str_literal) (lines 26-27): the constant
\* points at the literal's storage, which is either its own or, when the
\* toolchain pools identical literals, that of an equal literal.
DefineCertErrorId(n) ==
  /\ id[n] = Undefined
  /\ \E storage \in {n} \cup {id[m] : m \in {d \in Defined : Literal[d] = Literal[n]}} :
       id' = [id EXCEPT ![n] = storage]

\* CertErrorIdToDebugString (line 31): the literal the ID points at.
CertErrorIdToDebugString(e) == Literal[e]

Next == \E n \in Names : DefineCertErrorId(n)

Spec == Init /\ [][Next]_id

TypeOK == id \in [Names -> Names \cup {Undefined}]

\* Two different error IDs never compare equal with == (the comment at
\* lines 10-15), so an error reported under one ID is never taken for
\* another.
DistinctIdsUnequal ==
  \A m, n \in Defined : m # n => id[m] # id[n]

=============================================================================
