---------------------------- MODULE MCTranscript ----------------------------
(* Small instances of Transcript for TLC. *)
EXTENDS Transcript, TLC

\* Conversations and servers are interchangeable; for runs without liveness.
Symmetry == Permutations(Thread) \cup Permutations(Server)

\* Summaries are asked of all but the first message.
SomeRanges == {<<2, MaxSeq>>}
=============================================================================
