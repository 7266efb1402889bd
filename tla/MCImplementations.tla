-------------------------- MODULE MCImplementations --------------------------
(* Instances of Implementations for TLC. *)
EXTENDS Implementations, TLC

Symmetry == Permutations(Callers)

SomeExpected == [r \in {"r1"} |-> [code |-> {"main"}, test |-> {"test"}]]
SomeFilesAt == <<{"main"}, {"main", "test"}>>

\* For the test that is missing at first: patches that fit, that are a
\* placeholder, that fit only later, and patches for what is not missing.
Patches(what, placeholder, fits) ==
    [resolves |-> what, wellFormed |-> TRUE, placeholder |-> placeholder, fits |-> fits]
SomePatchSets ==
    {Patches({<<"test", "r1">>}, FALSE, {1}), Patches({<<"test", "r1">>}, TRUE, {1}),
     Patches({<<"test", "r1">>}, FALSE, {2}), Patches({<<"code", "r1">>}, FALSE, {1, 2})}
=============================================================================
