---------------------------- MODULE MCSessionCore ----------------------------
(* Instances of SessionCore for TLC; the constants are set in the cfg files. *)
EXTENDS SessionRefinement, TLC

Dims11 == <<1, 1>>
Dims21 == <<2, 1>>
Dims32 == <<3, 2>>

\* Shells, users, keys and callers are interchangeable.
Symmetry == Permutations(ShellIds) \cup Permutations(Users)
            \cup Permutations(Keys) \cup Permutations(Callers)
=============================================================================
