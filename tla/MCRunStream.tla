----------------------------- MODULE MCRunStream -----------------------------
(* Small instances of RunStream for TLC. *)
EXTENDS RunStream, TLC

\* Writers and clients are interchangeable.
Symmetry == Permutations(Writer) \cup Permutations(Client)
=============================================================================
