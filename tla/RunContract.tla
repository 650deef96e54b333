---------------------------- MODULE RunContract ----------------------------
(***************************************************************************)
(* What the conversation store promises about a run, with no servers, no   *)
(* threads of control and no failures: the life of a row of the table      *)
(* "runs" and of the answer that belongs to it.                            *)
(*                                                                         *)
(* A run is opened when its conversation has no active run, may wait for   *)
(* an approval and go on, and ends once, in one of four ways.  The answer  *)
(* is written by the very step that completes the run.                     *)
(*                                                                         *)
(* Final is the set of end statuses that are never left again.  The code's *)
(* comments promise all four; RunLifecycle shows for which configuration   *)
(* the code keeps that promise.                                            *)
(***************************************************************************)
EXTENDS Naturals

CONSTANTS Run, Thread, ThreadOf, Final

ActiveStatuses == {"running", "awaiting_approval"}
EndStatuses == {"completed", "interrupted", "rejected", "error"}
Statuses == {"none"} \cup ActiveStatuses \cup EndStatuses

\* What a user of the contract gives for the constants (a hypothesis of the
\* theorems; RunLifecycleProofs shows it of RunLifecycle).
ContractAssumption ==
    /\ ThreadOf \in [Run -> Thread]
    /\ {"completed", "rejected"} \subseteq Final
    /\ Final \subseteq EndStatuses

VARIABLES
    status,     \* the column runs.status; "none" when there is no such row
    answers     \* how many messages of role agent the run has

vars == <<status, answers>>

Init ==
    /\ status = [r \in Run |-> "none"]
    /\ answers = [r \in Run |-> 0]

\* No other run of the same conversation is active.
Free(r) ==
    \A s \in Run \ {r} :
        ThreadOf[s] = ThreadOf[r] => status[s] \notin ActiveStatuses

Open(r) ==
    /\ status[r] = "none"
    /\ Free(r)
    /\ status' = [status EXCEPT ![r] = "running"]
    /\ UNCHANGED answers

\* Waiting for an approval.  Only a run that is not in a final status may.
Suspend(r) ==
    /\ status[r] \notin Final \cup {"none", "awaiting_approval"}
    /\ Free(r)
    /\ status' = [status EXCEPT ![r] = "awaiting_approval"]
    /\ UNCHANGED answers

Resume(r) ==
    /\ status[r] = "awaiting_approval"
    /\ status' = [status EXCEPT ![r] = "running"]
    /\ UNCHANGED answers

Complete(r) ==
    /\ status[r] = "running"
    /\ status' = [status EXCEPT ![r] = "completed"]
    /\ answers' = [answers EXCEPT ![r] = @ + 1]

\* The user refuses, or stops, a run that waits.
Withdraw(r) ==
    /\ status[r] = "awaiting_approval"
    /\ \E s \in {"rejected", "interrupted"} :
           status' = [status EXCEPT ![r] = s]
    /\ UNCHANGED answers

\* Runs that are executing are stopped or fail; a sweep ends several at once.
Abort(R, s) ==
    /\ \A r \in R : status[r] = "running"
    /\ status' = [r \in Run |-> IF r \in R THEN s ELSE status[r]]
    /\ UNCHANGED answers

Next ==
    \/ \E r \in Run : Open(r) \/ Suspend(r) \/ Resume(r) \/ Complete(r) \/ Withdraw(r)
    \/ \E R \in SUBSET Run, s \in {"interrupted", "error"} : Abort(R, s)

Spec == Init /\ [][Next]_vars

-----------------------------------------------------------------------------
\* A run has exactly one answer when it is completed and none otherwise.
AnswerIffCompleted ==
    \A r \in Run : answers[r] = IF status[r] = "completed" THEN 1 ELSE 0

\* A conversation has at most one active run.
OneActiveRun ==
    \A r, s \in Run :
        /\ ThreadOf[r] = ThreadOf[s]
        /\ status[r] \in ActiveStatuses
        /\ status[s] \in ActiveStatuses
        => r = s

\* A final status is never left.
FinalStays ==
    [][\A r \in Run : status[r] \in Final => status'[r] = status[r]]_vars
=============================================================================
