--------------------------- MODULE MCRunLifecycle ---------------------------
(* Small instances of RunLifecycle for TLC. *)
EXTENDS RunLifecycle, TLC

\* All runs belong to one conversation: runs of different ones do not interact.
MCThreadOf == [r \in Run |-> CHOOSE t \in Thread : TRUE]

\* Instances, calls, requests and runs (of the one conversation) are
\* interchangeable.  Used in the runs that check only safety.
Symmetry ==
    Permutations(Instance) \cup Permutations(Call)
        \cup Permutations(Request) \cup Permutations(Run)
=============================================================================
