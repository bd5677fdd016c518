----------------------------- MODULE MCCertGate -----------------------------
(* Small instances of CertGate.  "e" is the endpoint.                       *)
EXTENDS CertGate

CONSTANT q1

ToLower == [c \in {"a", "A", "b", "e", "*", "."} |-> IF c = "A" THEN "a" ELSE c]

Strings(chars, max) == UNION {[1..n -> chars] : n \in 0..max}

\* A site block "b.e" and the relay's catch-all "*.e".
SomeStatic == {<<"b", ".", "e">>}
Endpoint == <<"*", ".", "e">>

\* Forwards "A.e" (its owner wrote the service in upper case) and "*.b.e", and
\* every short string an admin may have put there.
SomeMatchers == {<<"A", ".", "e">>, <<"*", ".", "b", ".", "e">>, <<"*", ".", "a">>}
                  \cup Strings({"a", "*", "."}, 2)

SomeNames == {<<"a", ".", "e">>, <<"b", ".", "e">>, <<"a", ".", "b", ".", "e">>, <<"A", ".", "e">>}
               \cup Strings({"a", ".", "e"}, 3)
=============================================================================
