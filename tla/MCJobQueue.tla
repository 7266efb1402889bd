----------------------------- MODULE MCJobQueue -----------------------------
(* Instances of JobQueue for TLC. *)
EXTENDS JobQueue

\* Requests, keys, owners and workers are interchangeable in every safety
\* property; runs with a liveness property do without.
Symmetry == Permutations(Request) \cup Permutations(Key)
                \cup Permutations(Owner) \cup Permutations(Worker)
=============================================================================
