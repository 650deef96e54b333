------------------------------ MODULE ForkCopy ------------------------------
(***************************************************************************)
(* What forking promises: a conversation behaves as if its fork had copied *)
(* the messages up to the fork point.  The code copies nothing; Transcript *)
(* shows that it looks the same, except where a deletion on one server     *)
(* overtakes a fork on another: such forks are in raced.                   *)
(***************************************************************************)
EXTENDS Naturals

CONSTANTS Thread

VARIABLES
    live,   \* the conversations that exist
    view,   \* the messages each of them shows
    raced   \* the forks a deletion may take messages from

vars == <<live, view, raced>>

Init == live = {} /\ view = [t \in Thread |-> {}] /\ raced = {}

Create(t) ==
    /\ t \notin live
    /\ live' = live \cup {t}
    /\ UNCHANGED <<view, raced>>

\* A message comes after everything the conversation shows.
Say ==
    /\ UNCHANGED <<live, raced>>
    /\ LET before == view
           after == view'
       IN  \E t \in live : \E m \in after[t] \ before[t] :
               /\ \A x \in before[t] : x.seq < m.seq
               /\ after = [before EXCEPT ![t] = @ \cup {m}]

Fork(p, n) ==
    /\ n \notin live
    /\ live' = live \cup {n}
    /\ p \in live
    /\ LET before == view
           after == view'
       IN  \E m \in before[p] :
               after = [before EXCEPT ![n] = {x \in before[p] : x.seq <= m.seq}]
    /\ raced' \in {raced, raced \cup {n}}

Delete(t) ==
    /\ t \in live
    /\ live' = live \ {t}
    /\ LET before == view
           after == view'
       IN  /\ after[t] = {}
           /\ \A u \in Thread \ {t} :
                  IF u \in raced THEN after[u] \subseteq before[u] ELSE after[u] = before[u]
    /\ UNCHANGED raced

Next ==
    \/ Say
    \/ \E t \in Thread : Create(t) \/ Delete(t)
    \/ \E p, n \in Thread : Fork(p, n)

Spec == Init /\ [][Next]_vars
=============================================================================
