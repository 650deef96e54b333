---------------------------- MODULE MCStatuteIndex ----------------------------
(* A small instance of StatuteIndex for TLC. *)
EXTENDS StatuteIndex, TLC

CONSTANTS a1, a2

\* The second and the third publication take effect on the same day.
MCEffDate == <<1, 2, 2>>

\* With windows of 3 that overlap by 1: the long article has two windows, then
\* three, then one; the short one appears, then is repealed.
MCLength == <<
    (a1 :> 4) @@ (a2 :> 0),
    (a1 :> 6) @@ (a2 :> 3),
    (a1 :> 2) @@ (a2 :> 0) >>

\* Two ingests are interchangeable.
Symmetry == Permutations(Job)
=============================================================================
