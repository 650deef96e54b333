-------------------------- MODULE RunContractProofs --------------------------
(***************************************************************************)
(* RunContract keeps its promises, for every number of runs and            *)
(* conversations and every choice of the final statuses.                   *)
(***************************************************************************)
EXTENDS RunContract, TLAPS

TypeOK ==
    /\ status \in [Run -> Statuses]
    /\ answers \in [Run -> Nat]

\* Completed is final: a run that is completed once has its one answer for good.
ContractInv == TypeOK /\ AnswerIffCompleted /\ OneActiveRun

LEMMA AbortInv ==
    ASSUME ContractInv, NEW R \in SUBSET Run, NEW s \in {"interrupted", "error"}, Abort(R, s)
    PROVE  ContractInv'
<1> USE DEF ContractInv
<1>1. TypeOK'
  BY DEF TypeOK, Abort, Statuses, EndStatuses
<1>2. AnswerIffCompleted'
  BY DEF TypeOK, Abort, AnswerIffCompleted
<1>3. OneActiveRun'
  <2>1. \A r \in Run : status'[r] \in ActiveStatuses => status[r] \in ActiveStatuses
    BY DEF Abort, ActiveStatuses
  <2> QED BY <2>1 DEF OneActiveRun
<1> QED BY <1>1, <1>2, <1>3

LEMMA RunStepInv ==
    ASSUME ContractAssumption, ContractInv,
           NEW r \in Run, Open(r) \/ Suspend(r) \/ Resume(r) \/ Complete(r) \/ Withdraw(r)
    PROVE  ContractInv'
<1> USE DEF ContractInv
<1>1. TypeOK'
  BY DEF TypeOK, Open, Suspend, Resume, Complete, Withdraw, Statuses, ActiveStatuses, EndStatuses
<1>2. AnswerIffCompleted'
  BY DEF TypeOK, AnswerIffCompleted, Open, Suspend, Resume, Complete, Withdraw, ContractAssumption
<1>3. OneActiveRun'
  <2>1. \A s \in Run : s # r => status'[s] = status[s]
    BY DEF TypeOK, Open, Suspend, Resume, Complete, Withdraw
  <2>2. \/ status[r] \in ActiveStatuses
        \/ Free(r)
        \/ status'[r] \notin ActiveStatuses
    BY DEF TypeOK, Open, Suspend, Resume, Complete, Withdraw, ActiveStatuses
  <2> QED BY <2>1, <2>2 DEF OneActiveRun, Free
<1> QED BY <1>1, <1>2, <1>3

LEMMA Inductive == ASSUME ContractAssumption PROVE Spec => []ContractInv
<1>1. Init => ContractInv
  BY DEF Init, ContractInv, TypeOK, Statuses, AnswerIffCompleted, OneActiveRun, ActiveStatuses
<1>2. ContractInv /\ [Next]_vars => ContractInv'
  <2> SUFFICES ASSUME ContractInv, [Next]_vars PROVE ContractInv'
    OBVIOUS
  <2>1. CASE Next
    BY <2>1, AbortInv, RunStepInv, ContractAssumption DEF Next
  <2>2. CASE UNCHANGED vars
    BY <2>2 DEF vars, ContractInv, TypeOK, AnswerIffCompleted, OneActiveRun
  <2> QED BY <2>1, <2>2
<1> QED BY <1>1, <1>2, ContractAssumption, PTL DEF Spec

\* The answer and the status of a run go together, and a conversation never
\* has two active runs (commit_agent_answer, the index one_active_run_per_thread).
THEOREM ContractKept ==
    ASSUME ContractAssumption
    PROVE  Spec => [](AnswerIffCompleted /\ OneActiveRun)
<1>1. ContractInv => AnswerIffCompleted /\ OneActiveRun
  BY DEF ContractInv
<1> QED BY <1>1, Inductive, ContractAssumption, PTL

\* No step leaves a final status.
THEOREM FinalKept == ASSUME ContractAssumption PROVE Spec => FinalStays
<1> DEFINE Stay == \A r \in Run : status[r] \in Final => status'[r] = status[r]
<1>1. ContractAssumption /\ ContractInv /\ [Next]_vars => [Stay]_vars
  <2> SUFFICES ASSUME ContractAssumption, ContractInv, Next PROVE Stay
    OBVIOUS
  <2>1. ASSUME NEW r \in Run, Open(r) \/ Suspend(r) \/ Resume(r) \/ Complete(r) \/ Withdraw(r)
        PROVE  Stay
    BY <2>1
    DEF Open, Suspend, Resume, Complete, Withdraw, ContractAssumption, EndStatuses,
        ContractInv, TypeOK
  <2>2. ASSUME NEW R \in SUBSET Run, NEW s \in {"interrupted", "error"}, Abort(R, s)
        PROVE  Stay
    BY <2>2 DEF Abort, ContractAssumption, EndStatuses
  <2> QED BY <2>1, <2>2 DEF Next
<1> QED BY <1>1, Inductive, ContractAssumption, PTL DEF Spec, FinalStays
=============================================================================
