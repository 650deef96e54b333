----------------------------- MODULE MCToolTurn -----------------------------
(* Small instances of ToolTurn for TLC. *)
EXTENDS ToolTurn, TLC

\* Tool calls are interchangeable.
Symmetry == Permutations(Call)

\* So are the threads, and one that is done does nothing more: of the threads, a
\* state is told by how many there were and by those at work, each with its count.
AtWork == {w \in DOMAIN workers : workers[w].at # "done"}

Threads(atWork) ==
    <<Len(workers),
      {<<workers[w], Cardinality({v \in atWork : workers[v] = workers[w]})>> : w \in atWork}>>

View == <<stores, flags, linked, history, Threads(AtWork)>>

\* No action asks how a run ended that was not rejected, or for the Event of a run
\* that has ended and has no thread at work, or what was taken for forged: a run
\* whose properties do not ask either can do with less.
BriefView ==
    LET atWork == AtWork
        used == ActiveTurn \cup {workers[w].turn : w \in atWork}
    IN  <<[t \in DOMAIN status |->
              IF status[t] \in {"completed", "interrupted", "error"} THEN "ended" ELSE status[t]],
          cells, graph, flagged \cap used, stopping \cap used, linked,
          shown, granted, executed, failed, cut, Threads(atWork)>>

\* Past a cut the properties but AnswersGrounded say nothing.
NotCut == ~ cut
=============================================================================
