------------------------- MODULE RunLifecycleProofs -------------------------
(***************************************************************************)
(* What is proved of RunLifecycle, for every number of conversations,      *)
(* runs, instances, calls and requests, every threshold that leaves room   *)
(* for the heartbeats an instance may miss, and any number of crashes and  *)
(* failing statements:                                                     *)
(*                                                                         *)
(*   TypeCorrect                       the type invariant                  *)
(*   SingleDriver, AnswersMatch        OneDriver and AnswerIffCompleted    *)
(*   Refinement                        the lifecycle implements RunContract*)
(*   NoLeak                            NoLeakedHeartbeat                   *)
(*   EndedRunsStay, LiveNotStale, LiveKept, LiveActive                     *)
(*                                     EndedStays, LiveRunNotStale,        *)
(*                                     LiveRunKept and LiveRunActive       *)
(*                                     without approvals                   *)
(*   EndToldOnce, ToldWhenEnded        OneTerminalEvent and                *)
(*                                     TerminalEventMeansEnded without     *)
(*                                     approvals, when no statement fails  *)
(*                                                                         *)
(* Each invariant is strengthened to an inductive one (DriverCore, PumpInv,*)
(* HeartbeatInv, TellInv); a lemma says what any step of one call does to  *)
(* it, and the actions are taken one by one.                               *)
(***************************************************************************)
EXTENDS RunLifecycle, TLAPS

-----------------------------------------------------------------------------
(* Types.                                                                  *)


LEMMA NoCallTyped ==
    ASSUME LifecycleAssumption PROVE NoCall \in CallType
  BY DEF NewCall, NoCall, CallType, LifecycleAssumption

LEMMA NewCallTyped ==
    ASSUME LifecycleAssumption, NEW i \in Instance, NEW r \in Run, NEW n \in {"agent", "approved"}
    PROVE  NewCall(i, r, n) \in CallType
  BY DEF NewCall, CallType, LifecycleAssumption

LEMMA LocalsTyped ==
    ASSUME CallTypeOK, NEW c \in Call
    PROVE  /\ call[c] \in CallType
           /\ pc[c] \notin {"idle", "done"} =>
                call[c].at \in Instance /\ call[c].log \in Run /\ call[c].target \in Run
  BY DEF CallTypeOK

LEMMA StepTyped ==
    ASSUME CallTypeOK,
           NEW c \in Call, NEW label \in CallPC, NEW locals \in CallType,
           label = "done" \/ (locals.at \in Instance /\ locals.log \in Run /\ locals.target \in Run),
           Step(c, label, locals)
    PROVE  CallTypeOK'
  BY DEF CallTypeOK, Step

LEMMA GotoTyped ==
    ASSUME CallTypeOK, NEW c \in Call, NEW label \in CallPC,
           pc[c] \notin {"idle", "done"}, Goto(c, label)
    PROVE  CallTypeOK'
  BY DEF CallTypeOK, Goto

LEMMA FinishTyped ==
    ASSUME LifecycleAssumption, CallTypeOK, NEW c \in Call, Finish(c)
    PROVE  CallTypeOK'
  BY NoCallTyped, StepTyped, "done" \in CallPC DEF Finish, CallPC

LEMMA LeaveTyped ==
    ASSUME LifecycleAssumption, CallTypeOK, NEW c \in Call,
           pc[c] \notin {"idle", "done"}, Leave(c)
    PROVE  CallTypeOK'
  BY FinishTyped, GotoTyped, "close" \in CallPC DEF Leave, CallPC, PumpPC

LEMMA TargetTyped ==
    ASSUME NEW x \in CallType, NEW t \in Run
    PROVE  LET y == [x EXCEPT !.target = t]
           IN  y \in CallType /\ y.at = x.at /\ y.log = x.log /\ y.target = t
  BY DEF CallType

LEMMA EnterTyped ==
    ASSUME LifecycleAssumption, NEW x \in CallType, NEW t \in Call \cup {Nil}
    PROVE  LET y == [x EXCEPT !.token = t, !.steps = RecursionLimit]
           IN  y \in CallType /\ y.at = x.at /\ y.log = x.log /\ y.target = x.target
<1>1. RecursionLimit \in 0..RecursionLimit
  BY DEF LifecycleAssumption
<1> QED BY <1>1 DEF CallType

LEMMA NodeTyped ==
    ASSUME LifecycleAssumption, NEW x \in CallType,
           NEW n \in {"agent", "tools", "approved", "end"}
    PROVE  /\ LET y == [x EXCEPT !.node = n]
              IN  y \in CallType /\ y.at = x.at /\ y.log = x.log /\ y.target = x.target
           /\ x.steps > 0 =>
                 LET y == [x EXCEPT !.node = n, !.steps = @ - 1]
                 IN  y \in CallType /\ y.at = x.at /\ y.log = x.log /\ y.target = x.target
<1>1. x.steps > 0 => x.steps - 1 \in 0..RecursionLimit
  BY DEF CallType, LifecycleAssumption
<1> QED BY <1>1 DEF CallType

LEMMA LastTyped ==
    ASSUME NEW x \in CallType, NEW l \in {"event", "approval", "terminal"}
    PROVE  LET y == [x EXCEPT !.last = l]
           IN  y \in CallType /\ y.at = x.at /\ y.log = x.log /\ y.target = x.target
  BY DEF CallType

LEMMA KeptTyped ==
    /\ DbTypeOK /\ UNCHANGED dbVars => DbTypeOK'
    /\ InstanceTypeOK /\ UNCHANGED <<up, timeVars, memVars>> => InstanceTypeOK'
    /\ CallTypeOK /\ UNCHANGED callVars => CallTypeOK'
    /\ RequestTypeOK /\ UNCHANGED reqVars => RequestTypeOK'
    /\ EnvTypeOK /\ UNCHANGED <<known, crashes, faults>> => EnvTypeOK'
  BY DEF DbTypeOK, InstanceTypeOK, CallTypeOK, RequestTypeOK, EnvTypeOK,
         dbVars, timeVars, memVars, callVars, reqVars

LEMMA TryTyped ==
    ASSUME status \in [Run -> Statuses], NEW r \in Run, NEW from, NEW to \in Statuses,
           TryTransition(r, from, to)
    PROVE  status' \in [Run -> Statuses]
  BY DEF TryTransition

LEMMA TypeStep == LifecycleAssumption /\ TypeOK /\ [Next]_vars => TypeOK'
<1> SUFFICES ASSUME LifecycleAssumption, TypeOK, [Next]_vars PROVE TypeOK'
  OBVIOUS
<1> USE DEF TypeOK
<1>1. ASSUME NEW c \in Call, StartStep(c) PROVE TypeOK'
  <2>1. CASE NewEvent(c)
    <3>1. CallTypeOK' BY <2>1, GotoTyped DEF NewEvent, CallPC, StartPC
    <3>2. InstanceTypeOK' BY <2>1 DEF NewEvent, InstanceTypeOK, CallTypeOK, timeVars, envVars
    <3> QED BY <2>1, <3>1, <3>2, KeptTyped DEF NewEvent, timeVars, memVars, reqVars, envVars
  <2>2. CASE SpawnPump(c)
    <3>1. CallTypeOK' BY <2>2, GotoTyped DEF SpawnPump, CallPC, StartPC
    <3>2. InstanceTypeOK' BY <2>2 DEF SpawnPump, InstanceTypeOK, CallTypeOK, timeVars
    <3>3. EnvTypeOK' BY <2>2 DEF SpawnPump, EnvTypeOK, CallTypeOK
    <3> QED BY <2>2, <3>1, <3>2, <3>3, KeptTyped DEF SpawnPump, timeVars, memVars, reqVars, envVars
  <2>3. CASE UserMessage(c)
    <3>1. CallTypeOK' BY <2>3, GotoTyped DEF UserMessage, CallPC, DrivePC
    <3> QED BY <2>3, <3>1, KeptTyped DEF UserMessage, timeVars, memVars, reqVars, envVars
  <2>4. CASE UserFailed(c)
    <3>1. CallTypeOK' BY <2>4, GotoTyped DEF UserFailed, CallPC, PumpPC
    <3>2. DbTypeOK' BY <2>4, TryTyped DEF UserFailed, DbTypeOK, CallTypeOK, Statuses, ActiveStatuses, EndStatuses
    <3> QED BY <2>4, <3>1, <3>2, KeptTyped DEF UserFailed, timeVars, memVars, reqVars, envVars
  <2> QED BY <1>1, <2>1, <2>2, <2>3, <2>4 DEF StartStep
<1>2. ASSUME NEW c \in Call, ResumeStep(c) PROVE TypeOK'
  <2>1. CASE FindPaused(c)
    <3>1. PICK r \in Run, verdict \in {"approve", "reject"} :
             Step(c, verdict, [call[c] EXCEPT !.target = r])
      BY <2>1 DEF FindPaused
    <3>2. CallTypeOK'
      BY <2>1, <3>1, StepTyped, LocalsTyped, TargetTyped DEF FindPaused, CallPC, ResumePC
    <3> QED BY <2>1, <3>2, KeptTyped DEF FindPaused, timeVars, memVars, reqVars, envVars
  <2>2. CASE FindNone(c)
    <3>1. CallTypeOK' BY <2>2, GotoTyped DEF FindNone, CallPC, PumpPC
    <3> QED BY <2>2, <3>1, KeptTyped DEF FindNone, timeVars, memVars, reqVars, envVars
  <2>3. CASE Approve(c)
    <3>1. CallTypeOK' BY <2>3, GotoTyped DEF Approve, CallPC, ResumePC, PumpPC
    <3>2. DbTypeOK' BY <2>3, TryTyped DEF Approve, DbTypeOK, CallTypeOK, Statuses, ActiveStatuses, EndStatuses
    <3> QED BY <2>3, <3>1, <3>2, KeptTyped DEF Approve, timeVars, memVars, reqVars, envVars
  <2>4. CASE SetDefault(c)
    <3>1. CallTypeOK' BY <2>4, GotoTyped DEF SetDefault, CallPC, ResumePC
    <3>2. InstanceTypeOK' BY <2>4 DEF SetDefault, InstanceTypeOK, CallTypeOK, timeVars, envVars
    <3> QED BY <2>4, <3>1, <3>2, KeptTyped DEF SetDefault, timeVars, memVars, reqVars, envVars
  <2>5. CASE Prepare(c)
    <3>1. CallTypeOK' BY <2>5, GotoTyped DEF Prepare, CallPC, DrivePC
    <3> QED BY <2>5, <3>1, KeptTyped DEF Prepare, timeVars, memVars, reqVars, envVars
  <2>6. CASE Reject(c)
    <3>1. CallTypeOK' BY <2>6, GotoTyped DEF Reject, CallPC, ResumePC, PumpPC
    <3>2. DbTypeOK' BY <2>6, TryTyped DEF Reject, DbTypeOK, CallTypeOK, Statuses, ActiveStatuses, EndStatuses
    <3> QED BY <2>6, <3>1, <3>2, KeptTyped DEF Reject, timeVars, memVars, reqVars, envVars
  <2>7. CASE CleanRejected(c)
    <3>1. CallTypeOK' BY <2>7, GotoTyped DEF CleanRejected, CallPC, PumpPC
    <3>2. DbTypeOK' BY <2>7 DEF CleanRejected, DbTypeOK, CallTypeOK, Resolved
    <3> QED BY <2>7, <3>1, <3>2, KeptTyped DEF CleanRejected, timeVars, memVars, reqVars, envVars
  <2> QED BY <1>2, <2>1, <2>2, <2>3, <2>4, <2>5, <2>6, <2>7 DEF ResumeStep
<1>3. ASSUME NEW c \in Call, DriveStep(c) PROVE TypeOK'
  <2>1. CASE EnterDrive(c)
    <3>1. cancels[call[c].at][call[c].target] \in Call \cup {Nil}
      BY <2>1, LocalsTyped DEF EnterDrive, InstanceTypeOK
    <3>2. CallTypeOK'
      BY <2>1, <3>1, StepTyped, LocalsTyped, EnterTyped, ZenonT(40) DEF EnterDrive, CallPC, DrivePC
    <3> QED BY <2>1, <3>2, KeptTyped DEF EnterDrive, timeVars, memVars, reqVars, envVars
  <2>2. CASE SeeCancel(c)
    <3>1. CallTypeOK' BY <2>2, GotoTyped DEF SeeCancel, CallPC, DrivePC, Chunk
    <3> QED BY <2>2, <3>1, KeptTyped DEF SeeCancel, timeVars, memVars, reqVars, envVars
  <2>3. CASE AgentCallsTools(c)
    <3>1. CallTypeOK' BY <2>3, StepTyped, LocalsTyped, NodeTyped DEF AgentCallsTools, CallPC, DrivePC, Chunk
    <3>2. DbTypeOK' BY <2>3 DEF AgentCallsTools, DbTypeOK, CallTypeOK, Chunk, LifecycleAssumption
    <3> QED BY <2>3, <3>1, <3>2, KeptTyped DEF AgentCallsTools, timeVars, memVars, reqVars, envVars
  <2>4. CASE AgentAnswers(c)
    <3>1. CallTypeOK' BY <2>4, StepTyped, LocalsTyped, NodeTyped DEF AgentAnswers, CallPC, DrivePC, Chunk
    <3> QED BY <2>4, <3>1, KeptTyped DEF AgentAnswers, timeVars, memVars, reqVars, envVars
  <2>5. CASE ToolsReturn(c)
    <3>1. CallTypeOK' BY <2>5, StepTyped, LocalsTyped, NodeTyped DEF ToolsReturn, CallPC, DrivePC, Chunk
    <3>2. DbTypeOK' BY <2>5 DEF ToolsReturn, DbTypeOK, CallTypeOK
    <3> QED BY <2>5, <3>1, <3>2, KeptTyped DEF ToolsReturn, timeVars, memVars, reqVars, envVars
  <2>6. CASE InterruptChunk(c)
    <3>1. CallTypeOK' BY <2>6, GotoTyped DEF InterruptChunk, CallPC, DrivePC, Chunk
    <3> QED BY <2>6, <3>1, KeptTyped DEF InterruptChunk, timeVars, memVars, reqVars, envVars
  <2>7. CASE StreamFails(c)
    <3>1. CallTypeOK' BY <2>7, GotoTyped DEF StreamFails, CallPC, DrivePC
    <3> QED BY <2>7, <3>1, KeptTyped DEF StreamFails, timeVars, memVars, reqVars, envVars
  <2>8. CASE StreamEnds(c)
    <3>1. CallTypeOK' BY <2>8, GotoTyped DEF StreamEnds, CallPC, DrivePC
    <3> QED BY <2>8, <3>1, KeptTyped DEF StreamEnds, timeVars, memVars, reqVars, envVars
  <2>9. CASE CleanCancelled(c)
    <3>1. CallTypeOK' BY <2>9, GotoTyped DEF CleanCancelled, CallPC, DrivePC
    <3>2. DbTypeOK' BY <2>9 DEF CleanCancelled, DbTypeOK, CallTypeOK, Resolved
    <3> QED BY <2>9, <3>1, <3>2, KeptTyped DEF CleanCancelled, timeVars, memVars, reqVars, envVars
  <2>10. CASE EndCancelled(c)
    <3>1. CallTypeOK' BY <2>10, GotoTyped DEF EndCancelled, CallPC, DrivePC
    <3>2. DbTypeOK' BY <2>10, TryTyped DEF EndCancelled, DbTypeOK, CallTypeOK, Statuses, ActiveStatuses, EndStatuses
    <3> QED BY <2>10, <3>1, <3>2, KeptTyped DEF EndCancelled, timeVars, memVars, reqVars, envVars
  <2>11. CASE Pause(c)
    <3>1. CallTypeOK' BY <2>11, GotoTyped DEF Pause, CallPC, DrivePC
    <3>2. DbTypeOK' BY <2>11 DEF Pause, DbTypeOK, CallTypeOK, Statuses, ActiveStatuses
    <3> QED BY <2>11, <3>1, <3>2, KeptTyped DEF Pause, timeVars, memVars, reqVars, envVars
  <2>12. CASE RequestApproval(c)
    <3>1. CallTypeOK' BY <2>12, StepTyped, LocalsTyped, LastTyped DEF RequestApproval, CallPC, DrivePC
    <3> QED BY <2>12, <3>1, KeptTyped DEF RequestApproval, timeVars, memVars, reqVars, envVars
  <2>13. CASE Except(c)
    <3>1. CallTypeOK' BY <2>13, GotoTyped DEF Except, CallPC, DrivePC
    <3>2. DbTypeOK' BY <2>13, TryTyped DEF Except, DbTypeOK, CallTypeOK, Statuses, ActiveStatuses, EndStatuses
    <3> QED BY <2>13, <3>1, <3>2, KeptTyped DEF Except, timeVars, memVars, reqVars, envVars
  <2>14. CASE Repair(c)
    <3>1. CallTypeOK' BY <2>14, GotoTyped DEF Repair, CallPC, DrivePC
    <3>2. DbTypeOK' BY <2>14 DEF Repair, DbTypeOK, CallTypeOK, Resolved
    <3> QED BY <2>14, <3>1, <3>2, KeptTyped DEF Repair, timeVars, memVars, reqVars, envVars
  <2>15. CASE CommitAnswer(c)
    <3>1. CallTypeOK' BY <2>15, GotoTyped DEF CommitAnswer, CallPC, DrivePC
    <3>2. DbTypeOK' BY <2>15 DEF CommitAnswer, DbTypeOK, CallTypeOK, Statuses, EndStatuses
    <3> QED BY <2>15, <3>1, <3>2, KeptTyped DEF CommitAnswer, timeVars, memVars, reqVars, envVars
  <2>16. CASE CiteForgery(c)
    <3>1. CallTypeOK' BY <2>16, GotoTyped DEF CiteForgery, CallPC, DrivePC
    <3>2. DbTypeOK' BY <2>16, TryTyped DEF CiteForgery, DbTypeOK, CallTypeOK, Statuses, ActiveStatuses, EndStatuses
    <3> QED BY <2>16, <3>1, <3>2, KeptTyped DEF CiteForgery, timeVars, memVars, reqVars, envVars
  <2>17. CASE EmitTerminal(c)
    <3>1. CallTypeOK' BY <2>17, StepTyped, LocalsTyped, LastTyped DEF EmitTerminal, CallPC, DrivePC, PumpPC
    <3>2. DbTypeOK' BY <2>17 DEF EmitTerminal, DbTypeOK, CallTypeOK
    <3> QED BY <2>17, <3>1, <3>2, KeptTyped DEF EmitTerminal, timeVars, memVars, reqVars, envVars
  <2>18. CASE PopEvent(c)
    <3>1. CallTypeOK' BY <2>18, GotoTyped, FinishTyped DEF PopEvent, CallPC, PumpPC
    <3>2. InstanceTypeOK' BY <2>18 DEF PopEvent, InstanceTypeOK, CallTypeOK, timeVars, envVars
    <3> QED BY <2>18, <3>1, <3>2, KeptTyped DEF PopEvent, timeVars, memVars, reqVars, envVars
  <2> QED BY <1>3, <2>1, <2>2, <2>3, <2>4, <2>5, <2>6, <2>7, <2>8, <2>9, <2>10, <2>11, <2>12, <2>13, <2>14, <2>15, <2>16, <2>17, <2>18 DEF DriveStep
<1>4. ASSUME NEW c \in Call, PumpStep(c) PROVE TypeOK'
  <2>1. CASE PumpFinally(c)
    <3>1. CallTypeOK' BY <2>1, GotoTyped, LeaveTyped DEF PumpFinally, CallPC, PumpPC
    <3>2. InstanceTypeOK' BY <2>1 DEF PumpFinally, InstanceTypeOK, CallTypeOK, timeVars, envVars
    <3> QED BY <2>1, <3>1, <3>2, KeptTyped DEF PumpFinally, timeVars, memVars, reqVars, envVars
  <2>2. CASE CheckRun(c)
    <3>1. CallTypeOK' BY <2>2, GotoTyped, LeaveTyped DEF CheckRun, CallPC, PumpPC
    <3> QED BY <2>2, <3>1, KeptTyped DEF CheckRun, timeVars, memVars, reqVars, envVars
  <2>3. CASE Synthesize(c)
    <3>1. CallTypeOK' BY <2>3, GotoTyped, LeaveTyped DEF Synthesize, CallPC, PumpPC
    <3>2. DbTypeOK' BY <2>3 DEF Synthesize, DbTypeOK, CallTypeOK
    <3> QED BY <2>3, <3>1, <3>2, KeptTyped DEF Synthesize, timeVars, memVars, reqVars, envVars
  <2>4. CASE CloseGenerator(c)
    <3>1. CallTypeOK' BY <2>4, GotoTyped DEF CloseGenerator, CallPC, DrivePC, PumpPC
    <3>2. DbTypeOK' BY <2>4, TryTyped DEF CloseGenerator, DbTypeOK, CallTypeOK, Statuses, ActiveStatuses, EndStatuses
    <3> QED BY <2>4, <3>1, <3>2, KeptTyped DEF CloseGenerator, timeVars, memVars, reqVars, envVars
  <2> QED BY <1>4, <2>1, <2>2, <2>3, <2>4 DEF PumpStep
<1>5. ASSUME NEW c \in Call, FaultStep(c) PROVE TypeOK'
  <2>1. CASE SpawnFails(c)
    <3>1. CallTypeOK' BY <2>1, FinishTyped DEF SpawnFails, CallPC
    <3>2. EnvTypeOK' BY <2>1 DEF SpawnFails, Fault, EnvTypeOK
    <3> QED BY <2>1, <3>1, <3>2, KeptTyped DEF SpawnFails, timeVars, memVars, reqVars, envVars
  <2>2. CASE ClearFails(c)
    <3>1. CallTypeOK' BY <2>2, GotoTyped DEF ClearFails, CallPC, DrivePC
    <3>2. DbTypeOK' BY <2>2 DEF ClearFails, DbTypeOK, CallTypeOK, Resolved
    <3>3. EnvTypeOK' BY <2>2 DEF ClearFails, Fault, EnvTypeOK
    <3> QED BY <2>2, <3>1, <3>2, <3>3, KeptTyped DEF ClearFails, timeVars, memVars, reqVars, envVars
  <2>3. CASE StatementFails(c)
    <3>1. CallTypeOK' BY <2>3, GotoTyped DEF StatementFails, CallPC, StartPC, DrivePC, PumpPC, Handler
    <3>2. EnvTypeOK' BY <2>3 DEF StatementFails, Fault, EnvTypeOK
    <3> QED BY <2>3, <3>1, <3>2, KeptTyped DEF StatementFails, timeVars, memVars, reqVars, envVars
  <2>4. CASE DropEvent(c)
    <3>1. PICK l \in {"event", "approval", "terminal"}, b \in BOOLEAN :
             Step(c, "final", [call[c] EXCEPT !.suspended = b, !.last = l])
      BY <2>4 DEF DropEvent
    <3>3. pc[c] \notin {"idle", "done"}
      BY <2>4 DEF DropEvent
    <3> DEFINE x == [call[c] EXCEPT !.suspended = b, !.last = l]
    <3>5. x \in CallType /\ x.at = call[c].at /\ x.log = call[c].log /\ x.target = call[c].target
      <4>1. call[c] \in CallType BY LocalsTyped
      <4> QED BY <4>1 DEF CallType
    <3>6. Step(c, "final", x) BY <3>1
    <3> HIDE DEF x
    <3>4. CallTypeOK'
      BY <3>3, <3>5, <3>6, StepTyped, LocalsTyped DEF CallPC, PumpPC
    <3>2. EnvTypeOK' BY <2>4 DEF DropEvent, Fault, EnvTypeOK
    <3> QED BY <2>4, <3>4, <3>2, KeptTyped DEF DropEvent, timeVars, memVars, reqVars, envVars
  <2>5. CASE SynthesizeFails(c)
    <3>1. CallTypeOK' BY <2>5, GotoTyped, LeaveTyped DEF SynthesizeFails, CallPC, PumpPC
    <3>2. EnvTypeOK' BY <2>5 DEF SynthesizeFails, Fault, EnvTypeOK
    <3> QED BY <2>5, <3>1, <3>2, KeptTyped DEF SynthesizeFails, timeVars, memVars, reqVars, envVars
  <2> QED BY <1>5, <2>1, <2>2, <2>3, <2>4, <2>5 DEF FaultStep
<1>6. ASSUME NEW c \in Call, NEW i \in Instance, NEW r \in Run, Start(c, i, r)
      PROVE  TypeOK'
  <2>1. CallTypeOK' BY <1>6, StepTyped, NewCallTyped DEF Start, NewCall, CallPC, StartPC
  <2>2. DbTypeOK' BY <1>6 DEF Start, DbTypeOK, Statuses, ActiveStatuses, LifecycleAssumption
  <2> QED BY <1>6, <2>1, <2>2, KeptTyped DEF Start, timeVars, memVars, reqVars, envVars
<1>7. ASSUME NEW c \in Call, NEW i \in Instance, NEW r \in Run, Resume(c, i, r)
      PROVE  TypeOK'
  <2>1. CallTypeOK' BY <1>7, StepTyped, NewCallTyped DEF Resume, NewCall, CallPC, ResumePC
  <2>2. InstanceTypeOK' BY <1>7 DEF Resume, InstanceTypeOK, timeVars, envVars
  <2> QED BY <1>7, <2>1, <2>2, KeptTyped DEF Resume, timeVars, memVars, reqVars, envVars
<1>8. ASSUME NEW q \in Request, NEW i \in Instance, NEW r \in Run, Interrupt(q, i, r)
      PROVE  TypeOK'
  <2>1. RequestTypeOK' BY <1>8 DEF Interrupt, RequestTypeOK, ReqPC
  <2> QED BY <1>8, <2>1, KeptTyped DEF Interrupt, timeVars, memVars, callVars, envVars
<1>9. ASSUME NEW q \in Request, RequestStep(q) \/ RequestFails(q) PROVE TypeOK'
  <2>1. RequestTypeOK'
    BY <1>9 DEF RequestStep, RequestCancel, InterruptRemote, InterruptPaused, CleanPaused,
                PushTerminal, RequestFails, RequestTypeOK, ReqPC
  <2>2. CASE RequestCancel(q)
    <3>1. InstanceTypeOK' BY <2>2 DEF RequestCancel, InstanceTypeOK, RequestTypeOK, timeVars, envVars
    <3> QED BY <2>1, <2>2, <3>1, KeptTyped DEF RequestCancel, callVars, envVars
  <2>3. CASE InterruptRemote(q)
    <3>1. DbTypeOK'
      BY <2>3, TryTyped DEF InterruptRemote, DbTypeOK, RequestTypeOK, Statuses, EndStatuses
    <3> QED BY <2>1, <2>3, <3>1, KeptTyped DEF InterruptRemote, timeVars, memVars, callVars, envVars
  <2>4. CASE InterruptPaused(q)
    <3>1. DbTypeOK'
      BY <2>4, TryTyped DEF InterruptPaused, DbTypeOK, RequestTypeOK, Statuses, EndStatuses
    <3> QED BY <2>1, <2>4, <3>1, KeptTyped DEF InterruptPaused, timeVars, memVars, callVars, envVars
  <2>5. CASE CleanPaused(q)
    <3>1. DbTypeOK' BY <2>5 DEF CleanPaused, DbTypeOK, RequestTypeOK, Resolved
    <3> QED BY <2>1, <2>5, <3>1, KeptTyped DEF CleanPaused, timeVars, memVars, callVars, envVars
  <2>6. CASE PushTerminal(q)
    <3>1. DbTypeOK' BY <2>6 DEF PushTerminal, DbTypeOK, RequestTypeOK
    <3> QED BY <2>1, <2>6, <3>1, KeptTyped DEF PushTerminal, timeVars, memVars, callVars, envVars
  <2>7. CASE RequestFails(q)
    <3>1. EnvTypeOK' BY <2>7 DEF RequestFails, Fault, EnvTypeOK
    <3> QED BY <2>1, <2>7, <3>1, KeptTyped DEF RequestFails, timeVars, memVars, callVars
  <2> QED BY <1>9, <2>2, <2>3, <2>4, <2>5, <2>6, <2>7 DEF RequestStep
<1>10. CASE Tick
  <2>1. DbTypeOK' BY <1>10 DEF Tick, DbTypeOK, LifecycleAssumption
  <2>2. InstanceTypeOK' BY <1>10 DEF Tick, InstanceTypeOK, memVars, envVars
  <2> QED BY <1>10, <2>1, <2>2, KeptTyped DEF Tick, callVars, reqVars, envVars
<1>11. ASSUME NEW i \in Instance, MaintenanceStep(i) PROVE TypeOK'
  <2>1. CASE Heartbeat(i)
    <3>1. DbTypeOK' BY <2>1 DEF Heartbeat, DbTypeOK, LifecycleAssumption
    <3>2. InstanceTypeOK' BY <2>1 DEF Heartbeat, InstanceTypeOK, memVars, envVars, LifecycleAssumption
    <3> QED BY <2>1, <3>1, <3>2, KeptTyped DEF Heartbeat, callVars, reqVars, envVars
  <2>2. CASE MissHeartbeat(i)
    <3>1. InstanceTypeOK' BY <2>2 DEF MissHeartbeat, InstanceTypeOK, memVars, envVars, LifecycleAssumption
    <3> QED BY <2>2, <3>1, KeptTyped DEF MissHeartbeat, callVars, reqVars, envVars
  <2>3. CASE Reconcile(i)
    <3>1. DbTypeOK' BY <2>3 DEF Reconcile, Sweep, DbTypeOK, Statuses, EndStatuses
    <3>2. InstanceTypeOK' BY <2>3 DEF Reconcile, InstanceTypeOK, memVars, envVars
    <3> QED BY <2>3, <3>1, <3>2, KeptTyped DEF Reconcile, callVars, reqVars, envVars
  <2> QED BY <1>11, <2>1, <2>2, <2>3 DEF MaintenanceStep
<1>12. ASSUME NEW i \in Instance, Crash(i) PROVE TypeOK'
  <2>1. InstanceTypeOK' BY <1>12 DEF Crash, InstanceTypeOK, LifecycleAssumption
  <2>2. CallTypeOK' BY <1>12, NoCallTyped DEF Crash, CallTypeOK, CallPC
  <2>3. RequestTypeOK' BY <1>12 DEF Crash, RequestTypeOK, ReqPC
  <2>4. EnvTypeOK' BY <1>12 DEF Crash, EnvTypeOK, LifecycleAssumption
  <2> QED BY <1>12, <2>1, <2>2, <2>3, <2>4, KeptTyped DEF Crash
<1>13. ASSUME NEW i \in Instance, Restart(i) PROVE TypeOK'
  <2>1. DbTypeOK' BY <1>13 DEF Restart, Sweep, DbTypeOK, Statuses, EndStatuses
  <2>2. InstanceTypeOK' BY <1>13 DEF Restart, InstanceTypeOK, timeVars, memVars
  <2> QED BY <1>13, <2>1, <2>2, KeptTyped DEF Restart, callVars, reqVars
<1>14. CASE UNCHANGED vars
  BY <1>14, KeptTyped DEF vars, envVars
<1> QED
  BY <1>1, <1>2, <1>3, <1>4, <1>5, <1>6, <1>7, <1>8, <1>9, <1>10, <1>11, <1>12, <1>13, <1>14
  DEF Next, CallStep

LEMMA InitTyped == Init => TypeOK
<1>1. Init => DbTypeOK /\ InstanceTypeOK
  BY LifecycleAssumption DEF Init, DbTypeOK, InstanceTypeOK, Statuses, LifecycleAssumption
<1>2. Init => CallTypeOK /\ RequestTypeOK
  BY NoCallTyped, LifecycleAssumption DEF Init, CallTypeOK, RequestTypeOK, CallPC, ReqPC
<1>3. Init => EnvTypeOK
  BY LifecycleAssumption DEF Init, EnvTypeOK, LifecycleAssumption
<1> QED BY <1>1, <1>2, <1>3 DEF TypeOK

\* Every variable keeps its type (the rows, the memory of an instance, the
\* local variables of a generator and its pump).
THEOREM TypeCorrect == Spec => []TypeOK
  BY InitTyped, TypeStep, LifecycleAssumption, PTL DEF Spec

-----------------------------------------------------------------------------
(* OneDriver and AnswerIffCompleted.                                       *)

\* What a step does to the status of a run it has no generator for: nothing,
\* or it ends a running run, or it ends or resumes a waiting one.
StatusStep ==
    \A r \in Run :
        \/ status'[r] = status[r]
        \/ status[r] = "running" /\ status'[r] \in {"interrupted", "error"}
        \/ status[r] = "awaiting_approval" /\ status'[r] \in {"running", "interrupted", "rejected"}

\* A run that is driven runs, or has been ended by someone else: in particular
\* it does not wait for an approval, so that nobody can win one.
DrivenStatus ==
    \A c \in Call :
        Drives(c) => status[call[c].target] \in {"running", "interrupted", "error"}

\* Only a graph with an interrupt pauses a run.
PauseGated == \A c \in Call : pc[c] = "pause" => RequireApproval

DriverCore == DrivenStatus /\ OneDriver /\ PauseGated /\ AnswerIffCompleted

\* try_transition is such a step when its arguments are.
LEMMA TryStatusStep ==
    ASSUME DbTypeOK, NEW r \in Run, NEW from, NEW to, TryTransition(r, from, to),
           \/ from = "running" /\ to \in {"interrupted", "error"}
           \/ from = "awaiting_approval" /\ to \in {"running", "interrupted", "rejected"}
    PROVE  StatusStep
  BY DEF StatusStep, TryTransition, DbTypeOK

LEMMA SweepStatusStep ==
    ASSUME DbTypeOK, Sweep PROVE StatusStep
  BY DEF StatusStep, Sweep, Stale, DbTypeOK

LEMMA AnswersKept ==
    ASSUME DbTypeOK, AnswerIffCompleted, StatusStep, UNCHANGED answers
    PROVE  AnswerIffCompleted'
  BY DEF StatusStep, AnswerIffCompleted

\* A call that keeps its run, or gives it up, and leaves the others alone.
LEMMA StepCore ==
    ASSUME CallTypeOK, DbTypeOK, DriverCore, StatusStep, UNCHANGED answers,
           NEW c \in Call, NEW label, NEW locals, Step(c, label, locals),
           label \in DrivingPC => Drives(c) /\ locals.target = call[c].target,
           label = "pause" => RequireApproval
    PROVE  DriverCore'
<1> USE DEF DriverCore
<1>1. \A d \in Call : Drives(d)' => Drives(d) /\ call'[d].target = call[d].target
  BY DEF Step, CallTypeOK, Drives
<1>2. OneDriver'
  BY <1>1 DEF OneDriver
<1>3. DrivenStatus'
  <2> SUFFICES ASSUME NEW d \in Call, Drives(d)'
               PROVE  status'[call'[d].target] \in {"running", "interrupted", "error"}
    BY DEF DrivenStatus
  <2>1. call[d].target \in Run /\ status[call[d].target] \in {"running", "interrupted", "error"}
    BY <1>1 DEF DrivenStatus, CallTypeOK, Drives, DrivingPC
  <2> QED BY <1>1, <2>1 DEF StatusStep
<1>4. PauseGated'
  BY DEF PauseGated, Step, CallTypeOK
<1> QED BY <1>2, <1>3, <1>4, AnswersKept

LEMMA GotoCore ==
    ASSUME CallTypeOK, DbTypeOK, DriverCore, StatusStep, UNCHANGED answers,
           NEW c \in Call, NEW label, Goto(c, label),
           label \in DrivingPC => Drives(c),
           label = "pause" => RequireApproval
    PROVE  DriverCore'
<1>1. Step(c, label, call[c])
  BY DEF Goto, Step, CallTypeOK
<1> QED BY <1>1, StepCore

LEMMA LeaveCore ==
    ASSUME CallTypeOK, DbTypeOK, DriverCore, StatusStep, UNCHANGED answers,
           NEW c \in Call, Leave(c) \/ Finish(c)
    PROVE  DriverCore'
  BY GotoCore, StepCore DEF Leave, Finish, DrivingPC

\* A step that moves no call.
LEMMA StillCore ==
    ASSUME CallTypeOK, DbTypeOK, DriverCore, StatusStep, UNCHANGED answers, UNCHANGED callVars
    PROVE  DriverCore'
<1> USE DEF DriverCore
<1>1. DrivenStatus'
  BY DEF DrivenStatus, Drives, DrivingPC, callVars, CallTypeOK, StatusStep
<1>2. OneDriver' /\ PauseGated'
  BY DEF OneDriver, PauseGated, Drives, callVars
<1> QED BY <1>1, <1>2, AnswersKept

LEMMA DriverStep == LifecycleAssumption /\ TypeOK /\ DriverCore /\ [Next]_vars => DriverCore'
<1> SUFFICES ASSUME LifecycleAssumption, TypeOK, DriverCore, [Next]_vars PROVE DriverCore'
  OBVIOUS
<1> USE DEF TypeOK
<1>1. ASSUME NEW c \in Call, StartStep(c) PROVE DriverCore'
  <2>1. CASE NewEvent(c)
    BY <2>1, GotoCore DEF NewEvent, StatusStep, dbVars, Drives, DrivingPC
  <2>2. CASE SpawnPump(c)
    BY <2>2, GotoCore DEF SpawnPump, StatusStep, dbVars, Drives, DrivingPC
  <2>3. CASE UserMessage(c)
    BY <2>3, GotoCore DEF UserMessage, StatusStep, dbVars, Drives, DrivingPC
  <2>4. CASE UserFailed(c)
    <3>1. StatusStep BY <2>4, TryStatusStep, LocalsTyped DEF UserFailed
    <3> QED BY <2>4, <3>1, GotoCore DEF UserFailed, DrivingPC
  <2> QED BY <1>1, <2>1, <2>2, <2>3, <2>4 DEF StartStep
<1>2. ASSUME NEW c \in Call, ResumeStep(c) PROVE DriverCore'
  <2>1. CASE FindPaused(c)
    BY <2>1, StepCore DEF FindPaused, StatusStep, dbVars, Drives, DrivingPC, CallType
  <2>2. CASE FindNone(c)
    BY <2>2, GotoCore DEF FindNone, StatusStep, dbVars, Drives, DrivingPC
  <2>3. CASE Approve(c)
    <3> DEFINE r == call[c].target
    <3>1. StatusStep BY <2>3, TryStatusStep, LocalsTyped DEF Approve
    <3>2. CASE status[r] = "awaiting_approval"
      <4>1. \A d \in Call : Drives(d) => d # c /\ call[d].target # r
        BY <2>3, <3>2 DEF Approve, DriverCore, DrivenStatus, Drives, DrivingPC
      <4>2. /\ \A d \in Call : Drives(d)' => d = c \/ Drives(d)
            /\ \A d \in Call : call'[d] = call[d]
        BY <2>3, <3>2 DEF Approve, Goto, Drives, CallTypeOK
      <4>3. OneDriver' BY <4>1, <4>2 DEF OneDriver, DriverCore
      <4>4. status'[r] = "running"
        BY <2>3, <3>2, LocalsTyped DEF Approve, TryTransition, DbTypeOK
      <4>5. ASSUME NEW d \in Call, Drives(d)
            PROVE  status'[call[d].target] \in {"running", "interrupted", "error"}
        <5>1. call[d].target \in Run /\ status[call[d].target] \in {"running", "interrupted", "error"}
          BY <4>5, LocalsTyped DEF DriverCore, DrivenStatus, Drives, DrivingPC
        <5> QED BY <5>1, <3>1 DEF StatusStep
      <4>6. DrivenStatus' BY <4>2, <4>4, <4>5 DEF DrivenStatus
      <4>7. PauseGated' BY <2>3, <3>2 DEF Approve, Goto, PauseGated, DriverCore, CallTypeOK
      <4> QED BY <2>3, <3>1, <4>3, <4>6, <4>7, AnswersKept DEF Approve, DriverCore
    <3>3. CASE status[r] # "awaiting_approval"
      BY <2>3, <3>1, <3>3, GotoCore DEF Approve, DrivingPC
    <3> QED BY <3>2, <3>3
  <2>4. CASE SetDefault(c)
    BY <2>4, GotoCore DEF SetDefault, StatusStep, dbVars, Drives, DrivingPC
  <2>5. CASE Prepare(c)
    BY <2>5, GotoCore DEF Prepare, StatusStep, dbVars, Drives, DrivingPC
  <2>6. CASE Reject(c)
    <3>1. StatusStep BY <2>6, TryStatusStep, LocalsTyped DEF Reject
    <3> QED BY <2>6, <3>1, GotoCore DEF Reject, DrivingPC
  <2>7. CASE CleanRejected(c)
    BY <2>7, GotoCore DEF CleanRejected, StatusStep, dbVars, Drives, DrivingPC
  <2> QED BY <1>2, <2>1, <2>2, <2>3, <2>4, <2>5, <2>6, <2>7 DEF ResumeStep
<1>3. ASSUME NEW c \in Call, DriveStep(c) PROVE DriverCore'
  <2>1. CASE EnterDrive(c)
    <3>1. \A t : [call[c] EXCEPT !.token = t, !.steps = RecursionLimit].target = call[c].target
      BY LocalsTyped DEF CallType
    <3>2. Drives(c) /\ StatusStep /\ UNCHANGED answers
      BY <2>1 DEF EnterDrive, Drives, DrivingPC, StatusStep, dbVars
    <3>3. PICK l \in {"except", "finalize", "drive"} :
             Step(c, l, [call[c] EXCEPT !.token = cancels[call[c].at][call[c].target],
                                        !.steps = RecursionLimit])
      BY <2>1 DEF EnterDrive
    <3> QED BY <3>1, <3>2, <3>3, StepCore
  <2>2. CASE SeeCancel(c)
    BY <2>2, GotoCore DEF SeeCancel, StatusStep, dbVars, Drives, DrivingPC, Chunk
  <2>3. CASE AgentCallsTools(c)
    BY <2>3, StepCore, LocalsTyped DEF AgentCallsTools, StatusStep, dbVars, Drives, DrivingPC, CallType, Chunk
  <2>4. CASE AgentAnswers(c)
    BY <2>4, StepCore, LocalsTyped DEF AgentAnswers, StatusStep, dbVars, Drives, DrivingPC, CallType, Chunk
  <2>5. CASE ToolsReturn(c)
    BY <2>5, StepCore, LocalsTyped DEF ToolsReturn, StatusStep, dbVars, Drives, DrivingPC, CallType, Chunk
  <2>6. CASE InterruptChunk(c)
    BY <2>6, GotoCore DEF InterruptChunk, StatusStep, dbVars, Drives, DrivingPC, Chunk, AtGate
  <2>7. CASE StreamFails(c)
    BY <2>7, GotoCore DEF StreamFails, StatusStep, dbVars, Drives, DrivingPC
  <2>8. CASE StreamEnds(c)
    BY <2>8, GotoCore DEF StreamEnds, StatusStep, dbVars, Drives, DrivingPC
  <2>9. CASE CleanCancelled(c)
    BY <2>9, GotoCore DEF CleanCancelled, StatusStep, dbVars, Drives, DrivingPC
  <2>10. CASE EndCancelled(c)
    <3>1. StatusStep BY <2>10, TryStatusStep, LocalsTyped DEF EndCancelled
    <3> QED BY <2>10, <3>1, GotoCore DEF EndCancelled, DrivingPC
  <2>11. CASE Pause(c)
    <3> DEFINE r == call[c].target
    <3>1. CASE IndexAllows(r)
      <4>1. r \in Run /\ Drives(c) /\ status[r] \in {"running", "interrupted", "error"}
        BY <2>11, LocalsTyped DEF Pause, Drives, DrivingPC, DriverCore, DrivenStatus
      <4>2. /\ ~Drives(c)'
            /\ \A d \in Call : d # c => pc'[d] = pc[d]
            /\ \A d \in Call : call'[d] = call[d]
        BY <2>11, <3>1 DEF Pause, Goto, Drives, DrivingPC, CallTypeOK
      <4>3. \A d \in Call : Drives(d)' => Drives(d) /\ d # c /\ call[d].target # r
        BY <4>1, <4>2 DEF DriverCore, OneDriver, Drives
      <4>4. \A s \in Run : s # r => status'[s] = status[s]
        BY <2>11, <3>1, <4>1 DEF Pause, DbTypeOK
      <4>5. DrivenStatus'
        BY <4>2, <4>3, <4>4, LocalsTyped DEF DriverCore, DrivenStatus, Drives, DrivingPC
      <4>6. OneDriver' BY <4>2, <4>3 DEF DriverCore, OneDriver
      <4>7. PauseGated' BY <4>2, <2>11 DEF DriverCore, PauseGated, Pause
      <4>8. AnswerIffCompleted'
        BY <2>11, <3>1, <4>1 DEF Pause, DriverCore, AnswerIffCompleted, DbTypeOK
      <4> QED BY <4>5, <4>6, <4>7, <4>8 DEF DriverCore
    <3>2. CASE ~IndexAllows(r)
      BY <2>11, <3>2, GotoCore DEF Pause, StatusStep, DrivingPC
    <3> QED BY <3>1, <3>2
  <2>12. CASE RequestApproval(c)
    BY <2>12, StepCore DEF RequestApproval, StatusStep, dbVars, Drives, DrivingPC, CallType
  <2>13. CASE Except(c)
    <3>1. StatusStep BY <2>13, TryStatusStep, LocalsTyped DEF Except
    <3> QED BY <2>13, <3>1, GotoCore DEF Except, DrivingPC
  <2>14. CASE Repair(c)
    BY <2>14, GotoCore DEF Repair, StatusStep, dbVars, Drives, DrivingPC
  <2>15. CASE CommitAnswer(c)
    <3> DEFINE r == call[c].target
    <3>1. CASE status[r] = "running"
      <4>1. r \in Run /\ Drives(c)
        BY <2>15, LocalsTyped DEF CommitAnswer, Drives, DrivingPC
      <4>2. /\ ~Drives(c)'
            /\ \A d \in Call : d # c => pc'[d] = pc[d]
            /\ \A d \in Call : call'[d] = call[d]
        BY <2>15, <3>1 DEF CommitAnswer, Goto, Drives, DrivingPC, CallTypeOK
      <4>3. \A d \in Call : Drives(d)' => Drives(d) /\ d # c /\ call[d].target # r
        BY <4>1, <4>2 DEF DriverCore, OneDriver, Drives
      <4>4. \A s \in Run : s # r => status'[s] = status[s]
        BY <2>15, <3>1, <4>1 DEF CommitAnswer, DbTypeOK
      <4>5. DrivenStatus'
        BY <4>2, <4>3, <4>4, LocalsTyped DEF DriverCore, DrivenStatus, Drives, DrivingPC
      <4>6. OneDriver' BY <4>2, <4>3 DEF DriverCore, OneDriver
      <4>7. PauseGated' BY <2>15, <3>1, <4>2 DEF DriverCore, PauseGated, CommitAnswer, Goto, CallTypeOK
      <4>8. AnswerIffCompleted'
        BY <2>15, <3>1, <4>1 DEF CommitAnswer, DriverCore, AnswerIffCompleted, DbTypeOK
      <4> QED BY <4>5, <4>6, <4>7, <4>8 DEF DriverCore
    <3>2. CASE status[r] # "running"
      BY <2>15, <3>2, GotoCore DEF CommitAnswer, StatusStep, DrivingPC
    <3> QED BY <3>1, <3>2
  <2>16. CASE CiteForgery(c)
    <3>1. StatusStep BY <2>16, TryStatusStep, LocalsTyped DEF CiteForgery
    <3> QED BY <2>16, <3>1, GotoCore DEF CiteForgery, DrivingPC
  <2>17. CASE EmitTerminal(c)
    BY <2>17, StepCore DEF EmitTerminal, StatusStep, dbVars, Drives, DrivingPC, CallType
  <2>18. CASE PopEvent(c)
    BY <2>18, GotoCore, LeaveCore DEF PopEvent, StatusStep, dbVars, Drives, DrivingPC
  <2> QED BY <1>3, <2>1, <2>2, <2>3, <2>4, <2>5, <2>6, <2>7, <2>8, <2>9, <2>10, <2>11, <2>12, <2>13, <2>14, <2>15, <2>16, <2>17, <2>18 DEF DriveStep
<1>4. ASSUME NEW c \in Call, PumpStep(c) PROVE DriverCore'
  <2>1. CASE PumpFinally(c)
    BY <2>1, GotoCore, LeaveCore DEF PumpFinally, StatusStep, dbVars, Drives, DrivingPC
  <2>2. CASE CheckRun(c)
    BY <2>2, GotoCore, LeaveCore DEF CheckRun, StatusStep, dbVars, Drives, DrivingPC
  <2>3. CASE Synthesize(c)
    BY <2>3, GotoCore, LeaveCore DEF Synthesize, StatusStep, dbVars, Drives, DrivingPC
  <2>4. CASE CloseGenerator(c)
    <3>1. StatusStep BY <2>4, TryStatusStep, LocalsTyped DEF CloseGenerator
    <3> QED BY <2>4, <3>1, GotoCore DEF CloseGenerator, DrivingPC
  <2> QED BY <1>4, <2>1, <2>2, <2>3, <2>4 DEF PumpStep
<1>5. ASSUME NEW c \in Call, FaultStep(c) PROVE DriverCore'
  <2>1. CASE SpawnFails(c)
    BY <2>1, GotoCore, LeaveCore DEF SpawnFails, StatusStep, dbVars, Drives, DrivingPC
  <2>2. CASE ClearFails(c)
    BY <2>2, GotoCore DEF ClearFails, StatusStep, dbVars, Drives, DrivingPC
  <2>3. CASE StatementFails(c)
    BY <2>3, GotoCore DEF StatementFails, StatusStep, dbVars, Drives, DrivingPC, Handler
  <2>4. CASE DropEvent(c)
    BY <2>4, StepCore DEF DropEvent, StatusStep, dbVars, Drives, DrivingPC, CallType
  <2>5. CASE SynthesizeFails(c)
    BY <2>5, GotoCore, LeaveCore DEF SynthesizeFails, StatusStep, dbVars, Drives, DrivingPC
  <2> QED BY <1>5, <2>1, <2>2, <2>3, <2>4, <2>5 DEF FaultStep
<1>6. ASSUME NEW c \in Call, NEW i \in Instance, NEW r \in Run, Start(c, i, r)
      PROVE  DriverCore'
  <2>1. \A d \in Call : Drives(d) => d # c /\ call[d].target \in Run /\ call[d].target # r
    BY <1>6, LocalsTyped DEF Start, DriverCore, DrivenStatus, Drives, DrivingPC
  <2>2. /\ \A d \in Call : d # c => pc'[d] = pc[d] /\ call'[d] = call[d]
        /\ pc'[c] = "opened" /\ call'[c].target = r
    BY <1>6 DEF Start, Step, CallTypeOK, NewCall
  <2>3. status'[r] = "running" /\ \A s \in Run : s # r => status'[s] = status[s]
    BY <1>6 DEF Start, DbTypeOK
  <2>4. OneDriver' BY <2>1, <2>2 DEF DriverCore, OneDriver, Drives
  <2>5. DrivenStatus' BY <2>1, <2>2, <2>3 DEF DriverCore, DrivenStatus, Drives
  <2>6. PauseGated' BY <2>2 DEF DriverCore, PauseGated
  <2>7. AnswerIffCompleted'
    BY <1>6 DEF Start, DriverCore, AnswerIffCompleted, DbTypeOK
  <2> QED BY <2>4, <2>5, <2>6, <2>7 DEF DriverCore
<1>7. ASSUME NEW c \in Call, NEW i \in Instance, NEW r \in Run, Resume(c, i, r)
      PROVE  DriverCore'
  BY <1>7, StepCore DEF Resume, StatusStep, dbVars, DrivingPC
<1>8. ASSUME NEW q \in Request, NEW i \in Instance, NEW r \in Run, Interrupt(q, i, r)
      PROVE  DriverCore'
  BY <1>8, StillCore DEF Interrupt, StatusStep, dbVars
<1>9. ASSUME NEW q \in Request, RequestStep(q) \/ RequestFails(q) PROVE DriverCore'
  <2>1. StatusStep /\ UNCHANGED answers /\ UNCHANGED callVars
    <3>1. CASE InterruptRemote(q)
      BY <3>1, TryStatusStep DEF InterruptRemote, RequestTypeOK
    <3>2. CASE InterruptPaused(q)
      BY <3>2, TryStatusStep DEF InterruptPaused, RequestTypeOK
    <3>3. CASE RequestCancel(q) \/ CleanPaused(q) \/ PushTerminal(q) \/ RequestFails(q)
      BY <3>3 DEF RequestCancel, CleanPaused, PushTerminal, RequestFails, StatusStep, dbVars
    <3> QED BY <1>9, <3>1, <3>2, <3>3 DEF RequestStep
  <2> QED BY <2>1, StillCore
<1>10. CASE Tick
  BY <1>10, StillCore DEF Tick, StatusStep
<1>11. ASSUME NEW i \in Instance, MaintenanceStep(i) PROVE DriverCore'
  <2>1. StatusStep /\ UNCHANGED answers /\ UNCHANGED callVars
    BY <1>11, SweepStatusStep
    DEF MaintenanceStep, Heartbeat, MissHeartbeat, Reconcile, StatusStep, dbVars
  <2> QED BY <2>1, StillCore
<1>12. ASSUME NEW i \in Instance, Crash(i) PROVE DriverCore'
  <2>1. \A d \in Call : pc'[d] # "done" => pc'[d] = pc[d] /\ call'[d] = call[d]
    BY <1>12 DEF Crash
  <2>2. \A d \in Call : Drives(d)' => Drives(d) /\ call'[d] = call[d]
    BY <2>1 DEF Drives, DrivingPC
  <2>3. UNCHANGED <<status, answers>>
    BY <1>12 DEF Crash, dbVars
  <2>4. DrivenStatus' BY <2>2, <2>3 DEF DriverCore, DrivenStatus
  <2>5. OneDriver' BY <2>2 DEF DriverCore, OneDriver
  <2>6. PauseGated' BY <2>1 DEF DriverCore, PauseGated
  <2>7. AnswerIffCompleted' BY <2>3 DEF DriverCore, AnswerIffCompleted
  <2> QED BY <2>4, <2>5, <2>6, <2>7 DEF DriverCore
<1>13. ASSUME NEW i \in Instance, Restart(i) PROVE DriverCore'
  BY <1>13, StillCore, SweepStatusStep DEF Restart
<1>14. CASE UNCHANGED vars
  BY <1>14, StillCore DEF vars, dbVars, StatusStep
<1> QED
  BY <1>1, <1>2, <1>3, <1>4, <1>5, <1>6, <1>7, <1>8, <1>9, <1>10, <1>11, <1>12, <1>13, <1>14
  DEF Next, CallStep

\* The inductive invariant holds, with approvals or without (RunService, RunManager).
THEOREM Driver == Spec => [](TypeOK /\ DriverCore)
<1>1. Init => TypeOK
  BY InitTyped
<1>2. Init => DriverCore
  BY DEF Init, DriverCore, DrivenStatus, OneDriver, PauseGated, AnswerIffCompleted, Drives, DrivingPC
<1> QED BY <1>1, <1>2, TypeStep, DriverStep, LifecycleAssumption, PTL DEF Spec

\* Two generators never drive the same run (RunService.resume, try_transition).
THEOREM SingleDriver == Spec => []OneDriver
<1>1. DriverCore => OneDriver BY DEF DriverCore
<1> QED BY <1>1, Driver, PTL

\* An answer is in the transcript exactly when its run is completed
\* (commit_agent_answer).
THEOREM AnswersMatch == Spec => []AnswerIffCompleted
<1>1. DriverCore => AnswerIffCompleted BY DEF DriverCore
<1> QED BY <1>1, Driver, PTL
-----------------------------------------------------------------------------
(* The lifecycle implements RunContract.                                   *)

Maps == Contract!Next \/ UNCHANGED <<status, answers>>

LEMMA TryMaps ==
    ASSUME DbTypeOK, NEW r \in Run, NEW to \in {"interrupted", "error"},
           TryTransition(r, "running", to), UNCHANGED answers
    PROVE  Maps
<1>1. CASE status[r] = "running"
  <2>1. Contract!Abort({r}, to)
    BY <1>1 DEF Contract!Abort, TryTransition, DbTypeOK
  <2> QED BY <2>1 DEF Maps, Contract!Next
<1>2. CASE status[r] # "running"
  BY <1>2 DEF Maps, TryTransition, DbTypeOK
<1> QED BY <1>1, <1>2

LEMMA SweepMaps ==
    ASSUME DbTypeOK, Sweep, UNCHANGED answers PROVE Maps
<1> DEFINE R == {r \in Run : Stale(r)}
<1>1. Contract!Abort(R, "error")
  BY DEF Contract!Abort, Sweep, Stale, DbTypeOK
<1> QED BY <1>1 DEF Maps, Contract!Next

LEMMA WithdrawMaps ==
    ASSUME DbTypeOK, NEW r \in Run, NEW to \in {"rejected", "interrupted"},
           TryTransition(r, "awaiting_approval", to), UNCHANGED answers
    PROVE  Maps
<1>1. CASE status[r] = "awaiting_approval"
  BY <1>1 DEF Maps, Contract!Next, Contract!Withdraw, TryTransition
<1>2. CASE status[r] # "awaiting_approval"
  BY <1>2 DEF Maps, TryTransition, DbTypeOK
<1> QED BY <1>1, <1>2

LEMMA CallMaps ==
    ASSUME LifecycleAssumption, TypeOK, DriverCore,
           NEW c \in Call, CallStep(c) \/ FaultStep(c)
    PROVE  Maps
<1> USE DEF TypeOK
<1> DEFINE r == call[c].target
<1>1. CASE UserFailed(c) \/ EndCancelled(c) \/ Except(c) \/ CiteForgery(c) \/ CloseGenerator(c)
  <2>1. r \in Run
    BY <1>1, LocalsTyped DEF UserFailed, EndCancelled, Except, CiteForgery, CloseGenerator
  <2> QED BY <1>1, <2>1, TryMaps DEF UserFailed, EndCancelled, Except, CiteForgery, CloseGenerator
<1>2. CASE Approve(c)
  <2>1. r \in Run BY <1>2, LocalsTyped DEF Approve
  <2>2. CASE status[r] = "awaiting_approval"
    BY <1>2, <2>1, <2>2 DEF Approve, TryTransition, Maps, Contract!Next, Contract!Resume
  <2>3. CASE status[r] # "awaiting_approval"
    BY <1>2, <2>3 DEF Approve, TryTransition, Maps, DbTypeOK
  <2> QED BY <2>2, <2>3
<1>3. CASE Reject(c)
  <2>1. r \in Run BY <1>3, LocalsTyped DEF Reject
  <2> QED BY <1>3, <2>1, WithdrawMaps DEF Reject
<1>4. CASE Pause(c)
  <2>1. /\ r \in Run
        /\ status[r] \in {"running", "interrupted", "error"}
        /\ RequireApproval
    BY <1>4, LocalsTyped DEF Pause, DriverCore, DrivenStatus, Drives, DrivingPC, PauseGated
  <2>2. status[r] \notin FinalStatuses \cup {"none", "awaiting_approval"}
    BY <2>1 DEF FinalStatuses
  <2>3. CASE IndexAllows(r)
    <3>1. Contract!Suspend(r)
      BY <1>4, <2>2, <2>3
      DEF Pause, IndexAllows, Contract!Suspend, Contract!Free, ActiveStatuses, Contract!ActiveStatuses
    <3> QED BY <2>1, <3>1 DEF Maps, Contract!Next
  <2>4. CASE ~IndexAllows(r)
    BY <1>4, <2>4 DEF Pause, Maps
  <2> QED BY <2>3, <2>4
<1>5. CASE CommitAnswer(c)
  <2>1. r \in Run BY <1>5, LocalsTyped DEF CommitAnswer
  <2>2. CASE status[r] = "running"
    BY <1>5, <2>1, <2>2 DEF CommitAnswer, Maps, Contract!Next, Contract!Complete
  <2>3. CASE status[r] # "running"
    BY <1>5, <2>3 DEF CommitAnswer, Maps
  <2> QED BY <2>2, <2>3
<1>6. CASE StartStep(c) /\ ~UserFailed(c)
  BY <1>6 DEF StartStep, NewEvent, SpawnPump, UserMessage, Maps, dbVars
<1>7. CASE ResumeStep(c) /\ ~Approve(c) /\ ~Reject(c)
  BY <1>7 DEF ResumeStep, FindPaused, FindNone, SetDefault, Prepare, CleanRejected, Maps, dbVars
<1>8. CASE DriveStep(c) /\ ~EndCancelled(c) /\ ~Pause(c) /\ ~Except(c) /\ ~CommitAnswer(c) /\ ~CiteForgery(c)
  BY <1>8
  DEF DriveStep, EnterDrive, SeeCancel, AgentCallsTools, AgentAnswers, ToolsReturn, InterruptChunk,
      StreamFails, StreamEnds, CleanCancelled, RequestApproval, Repair, EmitTerminal, PopEvent,
      Maps, dbVars
<1>9. CASE PumpStep(c) /\ ~CloseGenerator(c)
  BY <1>9 DEF PumpStep, PumpFinally, CheckRun, Synthesize, Maps, dbVars
<1>10. CASE FaultStep(c)
  BY <1>10 DEF FaultStep, SpawnFails, ClearFails, StatementFails, DropEvent, SynthesizeFails, Maps, dbVars
<1> QED BY <1>1, <1>2, <1>3, <1>4, <1>5, <1>6, <1>7, <1>8, <1>9, <1>10 DEF CallStep

LEMMA StepMaps ==
    ASSUME LifecycleAssumption, TypeOK, DriverCore, [Next]_vars PROVE Maps
<1> USE DEF TypeOK
<1>1. ASSUME NEW c \in Call, NEW i \in Instance, NEW r \in Run, Start(c, i, r) \/ Resume(c, i, r)
      PROVE  Maps
  <2>1. CASE Start(c, i, r)
    <3>1. Contract!Open(r)
      BY <2>1 DEF Start, IndexAllows, Contract!Open, Contract!Free, ActiveStatuses, Contract!ActiveStatuses
    <3> QED BY <3>1 DEF Maps, Contract!Next
  <2>2. CASE Resume(c, i, r)
    BY <2>2 DEF Resume, Maps, dbVars
  <2> QED BY <1>1, <2>1, <2>2
<1>2. ASSUME NEW c \in Call, CallStep(c) \/ FaultStep(c) PROVE Maps
  BY <1>2, CallMaps
<1>3. ASSUME NEW q \in Request, NEW i \in Instance, NEW r \in Run, Interrupt(q, i, r) PROVE Maps
  BY <1>3 DEF Interrupt, Maps, dbVars
<1>4. ASSUME NEW q \in Request, RequestStep(q) \/ RequestFails(q) PROVE Maps
  <2>1. CASE InterruptRemote(q)
    BY <2>1, TryMaps DEF InterruptRemote, RequestTypeOK
  <2>2. CASE InterruptPaused(q)
    BY <2>2, WithdrawMaps DEF InterruptPaused, RequestTypeOK
  <2>3. CASE RequestCancel(q) \/ CleanPaused(q) \/ PushTerminal(q) \/ RequestFails(q)
    BY <2>3 DEF RequestCancel, CleanPaused, PushTerminal, RequestFails, Maps, dbVars
  <2> QED BY <1>4, <2>1, <2>2, <2>3 DEF RequestStep
<1>5. CASE Tick
  BY <1>5 DEF Tick, Maps
<1>6. ASSUME NEW i \in Instance, MaintenanceStep(i) \/ Crash(i) \/ Restart(i) PROVE Maps
  BY <1>6, SweepMaps
  DEF MaintenanceStep, Heartbeat, MissHeartbeat, Reconcile, Crash, Restart, Maps, dbVars
<1>7. CASE UNCHANGED vars
  BY <1>7 DEF vars, dbVars, Maps
<1> QED BY <1>1, <1>2, <1>3, <1>4, <1>5, <1>6, <1>7 DEF Next

\* What the contract asks of its constants.
LEMMA ContractGiven == Contract!ContractAssumption
BY LifecycleAssumption
DEF LifecycleAssumption, Contract!ContractAssumption, FinalStatuses, EndStatuses, Contract!EndStatuses

\* Every behaviour of the servers, their crashes and their failing statements
\* included, is a behaviour of the contract (runs.status, commit_agent_answer).
THEOREM Refinement == Spec => ImplementsContract
<1>1. Init => Contract!Init
  BY DEF Init, Contract!Init
<1>2. LifecycleAssumption /\ TypeOK /\ DriverCore /\ [Next]_vars => [Contract!Next]_(Contract!vars)
  BY StepMaps DEF Maps, Contract!vars
<1> QED
  BY <1>1, <1>2, Driver, LifecycleAssumption, PTL DEF Spec, ImplementsContract, Contract!Spec

\* A run that has ended stays ended as it is.
Stay == \A r \in Run : status[r] \in EndStatuses => status'[r] = status[r]

LEMMA EndedKept ==
    ASSUME ~RequireApproval, LifecycleAssumption, TypeOK, DriverCore, [Next]_vars PROVE Stay
<1> USE DEF TypeOK, DbTypeOK, Stay
<1>1. FinalStatuses = EndStatuses
  BY DEF FinalStatuses
<1>2. ASSUME NEW r \in Run, Contract!Open(r) \/ Contract!Suspend(r) \/ Contract!Resume(r)
                              \/ Contract!Complete(r) \/ Contract!Withdraw(r)
      PROVE  Stay
  BY <1>1, <1>2
  DEF Contract!Open, Contract!Suspend, Contract!Resume, Contract!Complete, Contract!Withdraw, EndStatuses
<1>3. ASSUME NEW R \in SUBSET Run, NEW s \in {"interrupted", "error"}, Contract!Abort(R, s)
      PROVE  Stay
  BY <1>3 DEF Contract!Abort, EndStatuses
<1> QED BY StepMaps, <1>2, <1>3 DEF Maps, Contract!Next

\* Without approvals a run that has ended stays ended as it is (_drive: every
\* transition but Pause is a compare-and-set).
THEOREM EndedRunsStay == ASSUME ~RequireApproval PROVE Spec => EndedStays
<1>1. LifecycleAssumption /\ TypeOK /\ DriverCore /\ [Next]_vars => [Stay]_vars
  BY EndedKept
<1> QED BY <1>1, Driver, LifecycleAssumption, PTL DEF Spec, EndedStays, Stay

-----------------------------------------------------------------------------
(* No id stays in _active without a pump that will discard it.             *)

\* The pump of c is at work: submitted, and not yet past the discard from _active.
Pumping(c) ==
    /\ pc[c] \notin {"idle", "done", "opened", "started", "check", "synthesize", "close"}
    /\ call[c].suspended => pc[c] = "final"

\* Every id in _active is there for such a pump.
Pumped ==
    \A i \in Instance : \A r \in active[i] :
        \E c \in Call : call[c].at = i /\ call[c].log = r /\ Pumping(c)

\* A generator is dropped by its pump, so not before there is one.
Fresh == \A c \in Call : pc[c] \in {"opened", "started"} => ~ call[c].suspended

PumpInv == Pumped /\ Fresh

\* A call that is not pumping moves.
LEMMA PumpOthers ==
    ASSUME PumpInv, UNCHANGED active, NEW c \in Call, ~ Pumping(c),
           \A d \in Call \ {c} : pc'[d] = pc[d] /\ call'[d] = call[d],
           pc'[c] \in {"opened", "started"} => ~ call'[c].suspended
    PROVE  PumpInv'
<1>1. \A d \in Call : Pumping(d) => Pumping(d)' /\ call'[d] = call[d]
  BY DEF Pumping
<1>2. Pumped' BY <1>1 DEF Pumped, PumpInv
<1>3. Fresh' BY DEF Fresh, PumpInv
<1> QED BY <1>2, <1>3 DEF PumpInv

\* A pump goes on.
LEMMA PumpGoesOn ==
    ASSUME CallTypeOK, PumpInv, UNCHANGED active,
           NEW c \in Call, NEW label, NEW locals, Step(c, label, locals),
           label \notin {"idle", "done", "opened", "started", "check", "synthesize", "close"},
           locals.at = call[c].at, locals.log = call[c].log,
           Pumping(c) /\ locals.suspended => label = "final"
    PROVE  PumpInv'
<1>1. pc'[c] = label /\ call'[c] = locals
  BY DEF Step, CallTypeOK
<1>2. \A d \in Call \ {c} : pc'[d] = pc[d] /\ call'[d] = call[d]
  BY DEF Step, CallTypeOK
<1>3. \A d \in Call : Pumping(d) => Pumping(d)' /\ call'[d].at = call[d].at /\ call'[d].log = call[d].log
  BY <1>1, <1>2 DEF Pumping
<1>4. Pumped' BY <1>3 DEF Pumped, PumpInv
<1>5. Fresh' BY <1>1, <1>2 DEF Fresh, PumpInv
<1> QED BY <1>4, <1>5 DEF PumpInv

LEMMA PumpGoto ==
    ASSUME CallTypeOK, PumpInv, UNCHANGED active, NEW c \in Call, NEW label, Goto(c, label),
           label \notin {"idle", "done", "opened", "started", "check", "synthesize", "close"},
           pc[c] # "final"
    PROVE  PumpInv'
<1>1. Step(c, label, call[c])
  BY DEF Goto, Step, CallTypeOK
<1> QED BY <1>1, PumpGoesOn DEF Pumping

\* A pump that is past the discard ends, or closes its generator.
LEMMA PumpLeaves ==
    ASSUME CallTypeOK, PumpInv, UNCHANGED active, NEW c \in Call, ~ Pumping(c),
           \/ Leave(c) \/ Finish(c)
           \/ \E label \in {"synthesize", "pop", "repair"} : Goto(c, label)
    PROVE  PumpInv'
<1>1. \A d \in Call \ {c} : pc'[d] = pc[d] /\ call'[d] = call[d]
  BY DEF Leave, Finish, Goto, Step, CallTypeOK
<1>2. pc'[c] \notin {"opened", "started"}
  BY DEF Leave, Finish, Goto, Step, CallTypeOK
<1> QED BY <1>1, <1>2, PumpOthers

\* No call moves.
LEMMA PumpStill ==
    ASSUME PumpInv, UNCHANGED <<active, callVars>> PROVE PumpInv'
  BY DEF PumpInv, Pumped, Fresh, Pumping, callVars

LEMMA PumpNext == LifecycleAssumption /\ TypeOK /\ PumpInv /\ [Next]_vars => PumpInv'
<1> SUFFICES ASSUME LifecycleAssumption, TypeOK, PumpInv, [Next]_vars PROVE PumpInv'
  OBVIOUS
<1> USE DEF TypeOK
<1>1. ASSUME NEW c \in Call, StartStep(c) PROVE PumpInv'
  <2>1. CASE NewEvent(c)
    <3>1. ~ call[c].suspended /\ ~ Pumping(c)
      BY <2>1 DEF NewEvent, PumpInv, Fresh, Pumping
    <3>2. UNCHANGED active /\ \A d \in Call : call'[d] = call[d] /\ (d # c => pc'[d] = pc[d])
      BY <2>1 DEF NewEvent, Goto, CallTypeOK
    <3> QED BY <3>1, <3>2, PumpOthers
  <2>2. CASE SpawnPump(c)
    <3>1. ~ call[c].suspended /\ ~ Pumping(c) /\ call[c].at \in Instance /\ call[c].log \in Run
      BY <2>2, LocalsTyped DEF SpawnPump, PumpInv, Fresh, Pumping
    <3>2. call' = call /\ pc'[c] = "user" /\ \A d \in Call : d # c => pc'[d] = pc[d]
      BY <2>2 DEF SpawnPump, Goto, CallTypeOK
    <3>3. \A i \in Instance : \A r \in active'[i] :
             r \in active[i] \/ (i = call[c].at /\ r = call[c].log)
      BY <2>2, <3>1 DEF SpawnPump, InstanceTypeOK
    <3>4. Pumping(c)' /\ \A d \in Call : Pumping(d) => Pumping(d)'
      BY <3>1, <3>2 DEF Pumping
    <3>5. Pumped' BY <3>2, <3>3, <3>4 DEF Pumped, PumpInv
    <3>6. Fresh' BY <3>2 DEF Fresh, PumpInv
    <3> QED BY <3>5, <3>6 DEF PumpInv
  <2>3. CASE UserMessage(c) \/ UserFailed(c)
    BY <2>3, PumpGoto DEF UserMessage, UserFailed, memVars
  <2> QED BY <1>1, <2>1, <2>2, <2>3 DEF StartStep
<1>2. ASSUME NEW c \in Call, ResumeStep(c) PROVE PumpInv'
  <2>1. CASE FindPaused(c)
    <3>1. PICK r \in Run, verdict \in {"approve", "reject"} :
             Step(c, verdict, [call[c] EXCEPT !.target = r])
      BY <2>1 DEF FindPaused
    <3>2. /\ [call[c] EXCEPT !.target = r].at = call[c].at
          /\ [call[c] EXCEPT !.target = r].log = call[c].log
          /\ [call[c] EXCEPT !.target = r].suspended = call[c].suspended
      BY LocalsTyped DEF CallType
    <3>3. pc[c] = "find" /\ UNCHANGED active
      BY <2>1 DEF FindPaused, memVars
    <3> QED BY <3>1, <3>2, <3>3, PumpGoesOn DEF Pumping
  <2>2. CASE ~ FindPaused(c)
    BY <1>2, <2>2, PumpGoto
    DEF ResumeStep, FindNone, Approve, SetDefault, Prepare, Reject, CleanRejected, memVars
  <2> QED BY <2>1, <2>2
<1>3. ASSUME NEW c \in Call, DriveStep(c) PROVE PumpInv'
  <2> DEFINE x == call[c]
  <2>a. /\ \A t : LET y == [x EXCEPT !.token = t, !.steps = RecursionLimit]
                  IN  y.at = x.at /\ y.log = x.log /\ y.suspended = x.suspended
        /\ \A n : LET y == [x EXCEPT !.node = n]
                  IN  y.at = x.at /\ y.log = x.log /\ y.suspended = x.suspended
        /\ \A n : LET y == [x EXCEPT !.node = n, !.steps = @ - 1]
                  IN  y.at = x.at /\ y.log = x.log /\ y.suspended = x.suspended
        /\ \A l : LET y == [x EXCEPT !.last = l]
                  IN  y.at = x.at /\ y.log = x.log /\ y.suspended = x.suspended
    BY LocalsTyped DEF CallType
  <2> HIDE DEF x
  <2>1. CASE EnterDrive(c)
    <3>1. PICK l \in {"except", "finalize", "drive"} :
             Step(c, l, [x EXCEPT !.token = cancels[call[c].at][call[c].target],
                                  !.steps = RecursionLimit])
      BY <2>1 DEF EnterDrive, x
    <3>2. pc[c] = "enter" /\ UNCHANGED active /\ x = call[c]
      BY <2>1 DEF EnterDrive, memVars, x
    <3> QED BY <2>a, <3>1, <3>2, PumpGoesOn DEF Pumping
  <2>2. CASE AgentCallsTools(c) \/ AgentAnswers(c) \/ ToolsReturn(c)
    <3>1. PICK n : Step(c, "drive", [x EXCEPT !.node = n]) \/ Step(c, "drive", [x EXCEPT !.node = n, !.steps = @ - 1])
      BY <2>2 DEF AgentCallsTools, AgentAnswers, ToolsReturn, x
    <3>2. pc[c] = "drive" /\ UNCHANGED active /\ x = call[c]
      BY <2>2 DEF AgentCallsTools, AgentAnswers, ToolsReturn, Chunk, memVars, x
    <3> QED BY <2>a, <3>1, <3>2, PumpGoesOn DEF Pumping
  <2>3. CASE RequestApproval(c) \/ EmitTerminal(c)
    <3>1. PICK label \in {"pop", "final"}, l \in {"event", "approval", "terminal"} : Step(c, label, [x EXCEPT !.last = l])
      BY <2>3 DEF RequestApproval, EmitTerminal, x
    <3>2. pc[c] \in {"request", "emit", "say"} /\ UNCHANGED active /\ x = call[c]
      BY <2>3 DEF RequestApproval, EmitTerminal, memVars, x
    <3> QED BY <2>a, <3>1, <3>2, PumpGoesOn DEF Pumping
  <2>4. CASE PopEvent(c)
    <3>1. CASE call[c].suspended
      BY <2>4, <3>1, PumpLeaves DEF PopEvent, Pumping
    <3>2. CASE ~ call[c].suspended
      BY <2>4, <3>2, PumpGoto DEF PopEvent
    <3> QED BY <3>1, <3>2
  <2>5. CASE SeeCancel(c) \/ InterruptChunk(c) \/ StreamFails(c) \/ StreamEnds(c)
    BY <2>5, PumpGoto DEF SeeCancel, InterruptChunk, StreamFails, StreamEnds, Chunk, memVars
  <2>6. CASE CleanCancelled(c) \/ EndCancelled(c) \/ Pause(c) \/ Except(c)
    BY <2>6, PumpGoto DEF CleanCancelled, EndCancelled, Pause, Except, memVars
  <2>7. CASE Repair(c) \/ CommitAnswer(c) \/ CiteForgery(c)
    BY <2>7, PumpGoto DEF Repair, CommitAnswer, CiteForgery, memVars
  <2> QED BY <1>3, <2>1, <2>2, <2>3, <2>4, <2>5, <2>6, <2>7 DEF DriveStep
<1>4. ASSUME NEW c \in Call, PumpStep(c) PROVE PumpInv'
  <2>1. CASE PumpFinally(c)
    <3>1. call[c].at \in Instance /\ call[c].log \in Run
      BY <2>1, LocalsTyped DEF PumpFinally
    <3>2. \A i \in Instance : \A r \in active'[i] :
             r \in active[i] /\ ~ (i = call[c].at /\ r = call[c].log)
      BY <2>1, <3>1 DEF PumpFinally, InstanceTypeOK
    <3>3. \A d \in Call \ {c} : pc'[d] = pc[d] /\ call'[d] = call[d]
      BY <2>1 DEF PumpFinally, Leave, Finish, Goto, Step, CallTypeOK
    <3>4. pc'[c] \notin {"opened", "started"}
      BY <2>1 DEF PumpFinally, Leave, Finish, Goto, Step, CallTypeOK
    <3>5. Pumped'
      <4> SUFFICES ASSUME NEW i \in Instance, NEW r \in active'[i]
                   PROVE  \E d \in Call : call'[d].at = i /\ call'[d].log = r /\ Pumping(d)'
        BY DEF Pumped
      <4>1. PICK d \in Call : call[d].at = i /\ call[d].log = r /\ Pumping(d)
        BY <3>2 DEF Pumped, PumpInv
      <4>2. d # c BY <3>2, <4>1
      <4> QED BY <3>3, <4>1, <4>2 DEF Pumping
    <3>6. Fresh' BY <3>3, <3>4 DEF Fresh, PumpInv
    <3> QED BY <3>5, <3>6 DEF PumpInv
  <2>2. CASE CheckRun(c) \/ Synthesize(c) \/ CloseGenerator(c)
    <3>1. ~ Pumping(c) /\ UNCHANGED active
      BY <2>2 DEF CheckRun, Synthesize, CloseGenerator, Pumping, memVars
    <3> QED BY <2>2, <3>1, PumpLeaves DEF CheckRun, Synthesize, CloseGenerator
  <2> QED BY <1>4, <2>1, <2>2 DEF PumpStep
<1>5. ASSUME NEW c \in Call, FaultStep(c) PROVE PumpInv'
  <2>1. CASE SpawnFails(c) \/ SynthesizeFails(c)
    BY <2>1, PumpLeaves DEF SpawnFails, SynthesizeFails, Pumping, memVars
  <2>2. CASE ClearFails(c)
    BY <2>2, PumpGoto DEF ClearFails, memVars
  <2>3. CASE StatementFails(c)
    <3>1. Goto(c, Handler(pc[c])) /\ UNCHANGED active
      BY <2>3 DEF StatementFails, memVars
    <3>2. CASE pc[c] \in {"check", "close"}
      BY <3>1, <3>2, PumpLeaves DEF Handler, Pumping
    <3>3. CASE pc[c] \notin {"check", "close"}
      <4>1. PICK label \in {"user_failed", "except", "pop", "final"} : label = Handler(pc[c])
        BY <2>3, <3>3 DEF StatementFails, Handler
      <4>2. pc[c] # "final" BY <2>3 DEF StatementFails
      <4> QED BY <3>1, <4>1, <4>2, PumpGoto
    <3> QED BY <3>2, <3>3
  <2>4. CASE DropEvent(c)
    <3>1. PICK b \in BOOLEAN, l \in {"event", "approval", "terminal"} : Step(c, "final", [call[c] EXCEPT !.suspended = b, !.last = l])
      BY <2>4 DEF DropEvent
    <3>2. /\ [call[c] EXCEPT !.suspended = b, !.last = l].at = call[c].at
          /\ [call[c] EXCEPT !.suspended = b, !.last = l].log = call[c].log
      BY LocalsTyped DEF CallType
    <3>3. UNCHANGED active BY <2>4 DEF DropEvent, memVars
    <3> QED BY <3>1, <3>2, <3>3, PumpGoesOn
  <2> QED BY <1>5, <2>1, <2>2, <2>3, <2>4 DEF FaultStep
<1>6. ASSUME NEW c \in Call, NEW i \in Instance, NEW r \in Run, Start(c, i, r) PROVE PumpInv'
  <2>1. ~ Pumping(c) BY <1>6 DEF Start, Pumping
  <2>2. call'[c].suspended = FALSE /\ \A d \in Call \ {c} : pc'[d] = pc[d] /\ call'[d] = call[d]
    BY <1>6 DEF Start, Step, CallTypeOK, NewCall
  <2>3. UNCHANGED active BY <1>6 DEF Start, memVars
  <2> QED BY <2>1, <2>2, <2>3, PumpOthers
<1>7. ASSUME NEW c \in Call, NEW i \in Instance, NEW r \in Run, Resume(c, i, r) PROVE PumpInv'
  <2>1. ~ Pumping(c) BY <1>7 DEF Resume, Pumping
  <2>2. /\ pc'[c] = "find" /\ call'[c] = NewCall(i, r, "approved")
        /\ \A d \in Call \ {c} : pc'[d] = pc[d] /\ call'[d] = call[d]
    BY <1>7 DEF Resume, Step, CallTypeOK
  <2>3. call'[c].at = i /\ call'[c].log = r /\ call'[c].suspended = FALSE
    BY <2>2 DEF NewCall
  <2>4. Pumping(c)' /\ \A d \in Call : Pumping(d) => d # c /\ Pumping(d)'
    BY <2>1, <2>2, <2>3 DEF Pumping
  <2>5. \A j \in Instance : \A s \in active'[j] : s \in active[j] \/ (j = i /\ s = r)
    BY <1>7 DEF Resume, InstanceTypeOK
  <2>6. Pumped' BY <2>2, <2>3, <2>4, <2>5 DEF Pumped, PumpInv
  <2>7. Fresh' BY <2>2 DEF Fresh, PumpInv
  <2> QED BY <2>6, <2>7 DEF PumpInv
<1>8. ASSUME NEW i \in Instance, Crash(i) PROVE PumpInv'
  <2>1. \A j \in Instance : \A r \in active'[j] : j # i /\ r \in active[j]
    BY <1>8 DEF Crash, InstanceTypeOK
  <2>2. \A d \in Call : call[d].at # i => pc'[d] = pc[d] /\ call'[d] = call[d]
    BY <1>8 DEF Crash
  <2>3. \A d \in Call : pc'[d] = "done" \/ (pc'[d] = pc[d] /\ call'[d] = call[d])
    BY <1>8 DEF Crash
  <2>4. Pumped' BY <2>1, <2>2 DEF Pumped, PumpInv, Pumping
  <2>5. Fresh' BY <2>3 DEF Fresh, PumpInv
  <2> QED BY <2>4, <2>5 DEF PumpInv
<1>9. ASSUME \/ \E q \in Request, i \in Instance, r \in Run : Interrupt(q, i, r)
             \/ \E q \in Request : RequestStep(q) \/ RequestFails(q)
             \/ Tick
             \/ \E i \in Instance : MaintenanceStep(i) \/ Restart(i)
             \/ UNCHANGED vars
      PROVE  PumpInv'
  <2>1. UNCHANGED <<active, callVars>>
    BY <1>9
    DEF Interrupt, RequestStep, RequestFails, RequestCancel, InterruptRemote, InterruptPaused,
        CleanPaused, PushTerminal, Tick, MaintenanceStep, Heartbeat, MissHeartbeat, Reconcile, Restart,
        vars, memVars
  <2> QED BY <2>1, PumpStill
<1> QED
  BY <1>1, <1>2, <1>3, <1>4, <1>5, <1>6, <1>7, <1>8, <1>9 DEF Next, CallStep

\* _active holds only runs some pump of the server still has, however many stops,
\* approvals, crashes and failing statements there are (start, resume, _spawn_pump).
THEOREM NoLeak == Spec => []NoLeakedHeartbeat
<1>1. Init => PumpInv
  BY DEF Init, PumpInv, Pumped, Fresh
<1>2. PumpInv => NoLeakedHeartbeat
  BY DEF PumpInv, Pumped, Pumping, NoLeakedHeartbeat
<1> QED BY <1>1, <1>2, PumpNext, TypeCorrect, LifecycleAssumption, PTL DEF Spec

-----------------------------------------------------------------------------
(* Without approvals no sweep hits a run whose worker is alive.            *)

\* A run is never given to a second call.
NoResume == \A c \in Call : pc[c] \notin ResumePC
NoWaiting == \A r \in Run : status[r] # "awaiting_approval"

Live(c) == pc[c] \notin {"idle", "done"}

OneCall ==
    /\ \A c \in Call : Live(c) =>
           call[c].log = call[c].target /\ status[call[c].target] # "none"
    /\ \A c, d \in Call : Live(c) /\ Live(d) /\ call[c].log = call[d].log => c = d

Unsubmitted(c) == pc[c] \in {"opened", "started"}

\* A run at work is in _active of an instance that is up, and its heartbeat is
\* no older than the beats that instance has missed, and the one that is due.
Heartbeaten ==
    \A c \in Call : Drives(c) =>
        /\ up[call[c].at]
        /\ IF Unsubmitted(c) THEN age[call[c].target] = 0
                             ELSE call[c].target \in active[call[c].at]
        /\ Works(c) => age[call[c].target] <=
               missed[call[c].at] + (IF maint[call[c].at] = "due" THEN 1 ELSE 0)

HeartbeatInv == NoResume /\ NoWaiting /\ OneCall /\ Heartbeaten

\* What a step does to the status of the runs, but for opening one.
Fades ==
    \A r \in Run : /\ status'[r] = "running" => status[r] = "running"
                   /\ status'[r] # "awaiting_approval"
                   /\ status[r] # "none" => status'[r] # "none"

LEMMA FadesUnchanged ==
    ASSUME NoWaiting, UNCHANGED status PROVE Fades
  BY DEF Fades, NoWaiting

LEMMA FadesTry ==
    ASSUME DbTypeOK, NoWaiting, NEW r \in Run, NEW from,
           NEW to \in {"interrupted", "error", "rejected", "completed"},
           TryTransition(r, from, to)
    PROVE  Fades
  BY DEF Fades, NoWaiting, TryTransition, DbTypeOK

LEMMA FadesSweep ==
    ASSUME DbTypeOK, NoWaiting, Sweep PROVE Fades
  BY DEF Fades, NoWaiting, Sweep, DbTypeOK

\* A call goes on with its run, or stops.
LEMMA HeartbeatStep ==
    ASSUME TypeOK, HeartbeatInv, Fades,
           NEW c \in Call, NEW label, label \notin ResumePC, NEW locals, Step(c, label, locals),
           \/ label = "done"
           \/ /\ Live(c)
              /\ locals.at = call[c].at /\ locals.log = call[c].log
              /\ locals.target = call[c].target,
           label \in DrivingPC => Drives(c) /\ (Unsubmitted(c) <=> label \in {"opened", "started"}),
           UNCHANGED <<up, age, missed, maint, active>>
    PROVE  HeartbeatInv'
<1> USE DEF TypeOK, HeartbeatInv
<1>1. \A d \in Call : Live(d)' =>
          /\ Live(d)
          /\ call'[d].at = call[d].at /\ call'[d].log = call[d].log
          /\ call'[d].target = call[d].target
          /\ call[d].target \in Run /\ call[d].at \in Instance
  BY DEF Step, Live, CallTypeOK
<1>2. \A d \in Call : Drives(d)' => Live(d)' /\ Drives(d) /\ (Unsubmitted(d)' <=> Unsubmitted(d))
  BY DEF Step, Live, Drives, DrivingPC, Unsubmitted, CallTypeOK
<1>3. NoResume' BY DEF NoResume, Step, CallTypeOK
<1>4. NoWaiting' BY DEF NoWaiting, Fades
<1>5. OneCall' BY <1>1 DEF OneCall, Fades
<1>6. \A d \in Call : Works(d)' => Works(d)
  BY <1>1, <1>2 DEF Works, Fades, Unsubmitted
<1>7. Heartbeaten'
  BY <1>1, <1>2, <1>6 DEF Heartbeaten
<1> QED BY <1>3, <1>4, <1>5, <1>7

LEMMA HeartbeatGoto ==
    ASSUME TypeOK, HeartbeatInv, Fades,
           NEW c \in Call, NEW label, label \notin ResumePC, Goto(c, label), Live(c),
           label \in DrivingPC => Drives(c) /\ (Unsubmitted(c) <=> label \in {"opened", "started"}),
           UNCHANGED <<up, age, missed, maint, active>>
    PROVE  HeartbeatInv'
<1>1. Step(c, label, call[c])
  BY DEF Goto, Step, TypeOK, CallTypeOK
<1> QED BY <1>1, HeartbeatStep

LEMMA HeartbeatLeave ==
    ASSUME TypeOK, HeartbeatInv, Fades, NEW c \in Call, Live(c), Leave(c) \/ Finish(c),
           UNCHANGED <<up, age, missed, maint, active>>
    PROVE  HeartbeatInv'
  BY HeartbeatGoto, HeartbeatStep DEF Leave, Finish, DrivingPC, ResumePC

\* No call moves.
LEMMA HeartbeatStill ==
    ASSUME TypeOK, HeartbeatInv, Fades, UNCHANGED callVars,
           UNCHANGED <<age, missed, active>>,
           \A i \in Instance : up[i] => up'[i],
           \A i \in Instance : maint'[i] = "due" <=> maint[i] = "due"
    PROVE  HeartbeatInv'
<1> USE DEF TypeOK, HeartbeatInv
<1>1. NoResume' BY DEF NoResume, callVars
<1>2. NoWaiting' BY DEF NoWaiting, Fades
<1>3. OneCall' BY DEF OneCall, Fades, Live, callVars, CallTypeOK
<1>4. \A d \in Call : /\ Drives(d)' <=> Drives(d)
                      /\ Unsubmitted(d)' <=> Unsubmitted(d)
                      /\ Drives(d) => call[d].at \in Instance /\ call[d].target \in Run
  BY DEF Drives, DrivingPC, Unsubmitted, callVars, CallTypeOK
<1>5. \A d \in Call : Works(d)' => Works(d)
  BY <1>4 DEF Works, Fades, callVars, Unsubmitted
<1>6. Heartbeaten'
  BY <1>4, <1>5 DEF Heartbeaten, callVars
<1> QED BY <1>1, <1>2, <1>3, <1>6

LEMMA HeartbeatNext ==
    ASSUME ~RequireApproval
    PROVE  LifecycleAssumption /\ TypeOK /\ DriverCore /\ HeartbeatInv /\ [Next]_vars => HeartbeatInv'
<1> SUFFICES ASSUME LifecycleAssumption, TypeOK, DriverCore, HeartbeatInv, [Next]_vars
             PROVE  HeartbeatInv'
  OBVIOUS
<1> USE DEF TypeOK, HeartbeatInv
<1>1. ASSUME NEW c \in Call, StartStep(c) PROVE HeartbeatInv'
  <2>1. CASE NewEvent(c)
    <3>1. Fades BY <2>1, FadesUnchanged DEF NewEvent, dbVars
    <3> QED BY <2>1, <3>1, HeartbeatGoto
        DEF NewEvent, dbVars, timeVars, memVars, envVars, Live, Drives, Unsubmitted, DrivingPC, ResumePC
  <2>2. CASE SpawnPump(c)
    <3>1. /\ Fades /\ Live(c) /\ Drives(c) /\ Unsubmitted(c)
          /\ call[c].at \in Instance /\ call[c].target \in Run /\ call[c].log = call[c].target
      BY <2>2, FadesUnchanged, LocalsTyped
      DEF SpawnPump, dbVars, OneCall, Live, Drives, DrivingPC, Unsubmitted
    <3>2. /\ \A d \in Call : d # c => pc'[d] = pc[d]
          /\ pc'[c] = "user"
          /\ UNCHANGED <<call, status, age, missed, maint, up>>
      BY <2>2 DEF SpawnPump, Goto, dbVars, timeVars, CallTypeOK
    <3>3. /\ call[c].target \in active'[call[c].at]
          /\ \A i \in Instance : active[i] \subseteq active'[i]
      BY <2>2, <3>1 DEF SpawnPump, InstanceTypeOK
    <3>4. NoResume' /\ NoWaiting'
      BY <3>2 DEF NoResume, NoWaiting, ResumePC
    <3>5. OneCall' BY <3>1, <3>2 DEF OneCall, Live
    <3>6. age[call[c].target] = 0 /\ up[call[c].at] /\ missed[call[c].at] \in Nat
      BY <3>1 DEF Heartbeaten, InstanceTypeOK, LifecycleAssumption
    <3>7. Heartbeaten'
      <4> SUFFICES ASSUME NEW d \in Call, Drives(d)'
                   PROVE  /\ up'[call'[d].at]
                          /\ IF Unsubmitted(d)' THEN age'[call'[d].target] = 0
                             ELSE call'[d].target \in active'[call'[d].at]
                          /\ Works(d)' => age'[call'[d].target] <=
                               missed'[call'[d].at] + (IF maint'[call'[d].at] = "due" THEN 1 ELSE 0)
        BY DEF Heartbeaten
      <4>1. CASE d = c
        BY <4>1, <3>2, <3>3, <3>6 DEF Unsubmitted
      <4>2. CASE d # c
        <5>1. Drives(d) /\ call[d].at \in Instance
          BY <4>2, <3>2, LocalsTyped DEF Drives, DrivingPC
        <5> QED BY <4>2, <5>1, <3>2, <3>3 DEF Heartbeaten, Unsubmitted, Works, Drives
      <4> QED BY <4>1, <4>2
    <3> QED BY <3>4, <3>5, <3>7
  <2>3. CASE UserMessage(c)
    <3>1. Fades BY <2>3, FadesUnchanged DEF UserMessage, dbVars
    <3> QED BY <2>3, <3>1, HeartbeatGoto
        DEF UserMessage, dbVars, timeVars, memVars, envVars, Live, Drives, Unsubmitted, DrivingPC, ResumePC
  <2>4. CASE UserFailed(c)
    <3>1. Fades BY <2>4, FadesTry, LocalsTyped DEF UserFailed
    <3> QED BY <2>4, <3>1, HeartbeatGoto DEF UserFailed, timeVars, memVars, envVars, Live, Drives, Unsubmitted, DrivingPC, ResumePC
  <2> QED BY <1>1, <2>1, <2>2, <2>3, <2>4 DEF StartStep
<1>2. ASSUME NEW c \in Call, ResumeStep(c) PROVE HeartbeatInv'
  BY <1>2 DEF ResumeStep, FindPaused, FindNone, Approve, SetDefault, Prepare, Reject, CleanRejected,
              NoResume, ResumePC
<1>3. ASSUME NEW c \in Call, DriveStep(c) PROVE HeartbeatInv'
  <2>1. CASE EnterDrive(c)
    <3>1. \A t : LET y == [call[c] EXCEPT !.token = t, !.steps = RecursionLimit]
                 IN  y.at = call[c].at /\ y.log = call[c].log /\ y.target = call[c].target
      BY LocalsTyped DEF CallType
    <3>2. Fades /\ Drives(c) /\ Live(c) /\ ~Unsubmitted(c)
      BY <2>1, FadesUnchanged DEF EnterDrive, Drives, DrivingPC, Live, Unsubmitted, dbVars
    <3>3. PICK l \in {"except", "finalize", "drive"} :
             Step(c, l, [call[c] EXCEPT !.token = cancels[call[c].at][call[c].target],
                                        !.steps = RecursionLimit])
      BY <2>1 DEF EnterDrive
    <3>4. UNCHANGED <<up, age, missed, maint, active>>
      BY <2>1 DEF EnterDrive, dbVars, timeVars, memVars, envVars
    <3> QED BY <3>1, <3>2, <3>3, <3>4, HeartbeatStep DEF ResumePC
  <2>2. CASE SeeCancel(c)
    <3>1. Fades BY <2>2, FadesUnchanged DEF SeeCancel, dbVars
    <3> QED BY <2>2, <3>1, HeartbeatGoto
        DEF SeeCancel, dbVars, timeVars, memVars, envVars, Live, Drives, Unsubmitted, DrivingPC, ResumePC, Chunk
  <2>3. CASE AgentCallsTools(c)
    <3>1. Fades BY <2>3, FadesUnchanged DEF AgentCallsTools, dbVars
    <3> QED BY <2>3, <3>1, HeartbeatStep, LocalsTyped, NodeTyped
        DEF AgentCallsTools, dbVars, timeVars, memVars, envVars, Live, Drives, Unsubmitted, DrivingPC, ResumePC, Chunk
  <2>4. CASE AgentAnswers(c)
    <3>1. Fades BY <2>4, FadesUnchanged DEF AgentAnswers, dbVars
    <3> QED BY <2>4, <3>1, HeartbeatStep, LocalsTyped, NodeTyped
        DEF AgentAnswers, dbVars, timeVars, memVars, envVars, Live, Drives, Unsubmitted, DrivingPC, ResumePC, Chunk
  <2>5. CASE ToolsReturn(c)
    <3>1. Fades BY <2>5, FadesUnchanged DEF ToolsReturn, dbVars
    <3> QED BY <2>5, <3>1, HeartbeatStep, LocalsTyped, NodeTyped
        DEF ToolsReturn, dbVars, timeVars, memVars, envVars, Live, Drives, Unsubmitted, DrivingPC, ResumePC, Chunk
  <2>6. CASE InterruptChunk(c)
    <3>1. Fades BY <2>6, FadesUnchanged DEF InterruptChunk, dbVars
    <3> QED BY <2>6, <3>1, HeartbeatGoto
        DEF InterruptChunk, dbVars, timeVars, memVars, envVars, Live, Drives, Unsubmitted, DrivingPC, ResumePC, Chunk
  <2>7. CASE StreamFails(c)
    <3>1. Fades BY <2>7, FadesUnchanged DEF StreamFails, dbVars
    <3> QED BY <2>7, <3>1, HeartbeatGoto
        DEF StreamFails, dbVars, timeVars, memVars, envVars, Live, Drives, Unsubmitted, DrivingPC, ResumePC
  <2>8. CASE StreamEnds(c)
    <3>1. Fades BY <2>8, FadesUnchanged DEF StreamEnds, dbVars
    <3> QED BY <2>8, <3>1, HeartbeatGoto
        DEF StreamEnds, dbVars, timeVars, memVars, envVars, Live, Drives, Unsubmitted, DrivingPC, ResumePC
  <2>9. CASE CleanCancelled(c)
    <3>1. Fades BY <2>9, FadesUnchanged DEF CleanCancelled, dbVars
    <3> QED BY <2>9, <3>1, HeartbeatGoto
        DEF CleanCancelled, dbVars, timeVars, memVars, envVars, Live, Drives, Unsubmitted, DrivingPC, ResumePC
  <2>10. CASE EndCancelled(c)
    <3>1. Fades BY <2>10, FadesTry, LocalsTyped DEF EndCancelled
    <3> QED BY <2>10, <3>1, HeartbeatGoto DEF EndCancelled, timeVars, memVars, envVars, Live, Drives, Unsubmitted, DrivingPC, ResumePC
  <2>11. CASE Pause(c)
    BY <2>11 DEF Pause, DriverCore, PauseGated
  <2>12. CASE RequestApproval(c)
    <3>1. Fades BY <2>12, FadesUnchanged DEF RequestApproval, dbVars
    <3> QED BY <2>12, <3>1, HeartbeatStep, LocalsTyped, LastTyped
        DEF RequestApproval, dbVars, timeVars, memVars, envVars, Live, Drives, Unsubmitted, DrivingPC, ResumePC
  <2>13. CASE Except(c)
    <3>1. Fades BY <2>13, FadesTry, LocalsTyped DEF Except
    <3> QED BY <2>13, <3>1, HeartbeatGoto DEF Except, timeVars, memVars, envVars, Live, Drives, Unsubmitted, DrivingPC, ResumePC
  <2>14. CASE Repair(c)
    <3>1. Fades BY <2>14, FadesUnchanged DEF Repair, dbVars
    <3> QED BY <2>14, <3>1, HeartbeatGoto
        DEF Repair, dbVars, timeVars, memVars, envVars, Live, Drives, Unsubmitted, DrivingPC, ResumePC
  <2>15. CASE CommitAnswer(c)
    <3>1. Fades BY <2>15 DEF CommitAnswer, Fades, NoWaiting, DbTypeOK
    <3> QED BY <2>15, <3>1, HeartbeatGoto DEF CommitAnswer, timeVars, memVars, envVars, Live, Drives, Unsubmitted, DrivingPC, ResumePC
  <2>16. CASE CiteForgery(c)
    <3>1. Fades BY <2>16, FadesTry, LocalsTyped DEF CiteForgery
    <3> QED BY <2>16, <3>1, HeartbeatGoto DEF CiteForgery, timeVars, memVars, envVars, Live, Drives, Unsubmitted, DrivingPC, ResumePC
  <2>17. CASE EmitTerminal(c)
    <3>1. Fades BY <2>17, FadesUnchanged DEF EmitTerminal, dbVars
    <3> QED BY <2>17, <3>1, HeartbeatStep, LocalsTyped, LastTyped
        DEF EmitTerminal, dbVars, timeVars, memVars, envVars, Live, Drives, Unsubmitted, DrivingPC, ResumePC
  <2>18. CASE PopEvent(c)
    <3>1. Fades BY <2>18, FadesUnchanged DEF PopEvent, dbVars
    <3> QED BY <2>18, <3>1, HeartbeatGoto, HeartbeatLeave
        DEF PopEvent, dbVars, timeVars, memVars, envVars, Live, Drives, Unsubmitted, DrivingPC, ResumePC
  <2> QED BY <1>3, <2>1, <2>2, <2>3, <2>4, <2>5, <2>6, <2>7, <2>8, <2>9, <2>10, <2>11, <2>12, <2>13, <2>14, <2>15, <2>16, <2>17, <2>18 DEF DriveStep
<1>4. ASSUME NEW c \in Call, PumpStep(c) PROVE HeartbeatInv'
  <2>1. CASE PumpFinally(c)
    <3>1. /\ Fades /\ Live(c) /\ ~Drives(c)
          /\ call[c].at \in Instance /\ call[c].log \in Run
      BY <2>1, FadesUnchanged, LocalsTyped DEF PumpFinally, Live, Drives, DrivingPC, dbVars
    <3>2. /\ \A d \in Call : d # c => pc'[d] = pc[d] /\ call'[d] = call[d]
          /\ pc'[c] \in {"check", "close", "done"}
          /\ pc'[c] # "done" => call'[c] = call[c]
      BY <2>1 DEF PumpFinally, Leave, Finish, Goto, Step, CallTypeOK
    <3>3. /\ UNCHANGED <<status, age, missed, maint, up>>
          /\ active' = [active EXCEPT ![call[c].at] = @ \ {call[c].log}]
      BY <2>1 DEF PumpFinally, dbVars, timeVars, envVars
    <3>4. NoResume' BY <3>2 DEF NoResume, ResumePC
    <3>5. NoWaiting' BY <3>3 DEF NoWaiting
    <3>6. OneCall' BY <3>1, <3>2, <3>3 DEF OneCall, Live
    <3>7. \A d \in Call : Drives(d)' =>
              /\ d # c /\ Drives(d) /\ Live(d) /\ pc'[d] = pc[d] /\ call'[d] = call[d]
              /\ call[d].at \in Instance /\ call[d].target \in Run
      BY <3>2, LocalsTyped DEF Drives, DrivingPC, Live
    <3>8. \A d \in Call : Drives(d)' => call[d].target # call[c].log
      BY <3>1, <3>7 DEF OneCall
    <3>9. \A d \in Call : Drives(d)' /\ call[d].target \in active[call[d].at]
                          => call[d].target \in active'[call[d].at]
      BY <3>1, <3>3, <3>7, <3>8 DEF InstanceTypeOK
    <3>10. Heartbeaten'
      BY <3>3, <3>7, <3>9 DEF Heartbeaten, Unsubmitted, Works
    <3> QED BY <3>4, <3>5, <3>6, <3>10
  <2>2. CASE CheckRun(c)
    <3>1. Fades BY <2>2, FadesUnchanged DEF CheckRun, dbVars
    <3> QED BY <2>2, <3>1, HeartbeatGoto, HeartbeatLeave
        DEF CheckRun, dbVars, timeVars, memVars, envVars, Live, Drives, Unsubmitted, DrivingPC, ResumePC
  <2>3. CASE Synthesize(c)
    <3>1. Fades BY <2>3, FadesUnchanged DEF Synthesize, dbVars
    <3> QED BY <2>3, <3>1, HeartbeatGoto, HeartbeatLeave
        DEF Synthesize, dbVars, timeVars, memVars, envVars, Live, Drives, Unsubmitted, DrivingPC, ResumePC
  <2>4. CASE CloseGenerator(c)
    <3>1. Fades BY <2>4, FadesTry, LocalsTyped DEF CloseGenerator
    <3> QED BY <2>4, <3>1, HeartbeatGoto DEF CloseGenerator, timeVars, memVars, envVars, Live, Drives, Unsubmitted, DrivingPC, ResumePC
  <2> QED BY <1>4, <2>1, <2>2, <2>3, <2>4 DEF PumpStep
<1>5. ASSUME NEW c \in Call, FaultStep(c) PROVE HeartbeatInv'
  <2>1. CASE SpawnFails(c)
    <3>1. Fades BY <2>1, FadesUnchanged DEF SpawnFails, dbVars
    <3> QED BY <2>1, <3>1, HeartbeatGoto, HeartbeatLeave
        DEF SpawnFails, dbVars, timeVars, memVars, envVars, Live, Drives, Unsubmitted, DrivingPC, ResumePC
  <2>2. CASE ClearFails(c)
    <3>1. Fades BY <2>2, FadesUnchanged DEF ClearFails, dbVars
    <3> QED BY <2>2, <3>1, HeartbeatGoto
        DEF ClearFails, dbVars, timeVars, memVars, envVars, Live, Drives, Unsubmitted, DrivingPC, ResumePC
  <2>3. CASE StatementFails(c)
    <3>1. Fades BY <2>3, FadesUnchanged DEF StatementFails, dbVars
    <3> QED BY <2>3, <3>1, HeartbeatGoto
        DEF StatementFails, dbVars, timeVars, memVars, envVars, Live, Drives, Unsubmitted, DrivingPC, ResumePC, Handler
  <2>4. CASE DropEvent(c)
    <3>1. \A l, b : LET y == [call[c] EXCEPT !.suspended = b, !.last = l]
                    IN  y.at = call[c].at /\ y.log = call[c].log /\ y.target = call[c].target
      BY LocalsTyped DEF CallType
    <3>2. Fades /\ Live(c)
      BY <2>4, FadesUnchanged DEF DropEvent, Live, dbVars
    <3>3. PICK l, b : Step(c, "final", [call[c] EXCEPT !.suspended = b, !.last = l])
      BY <2>4 DEF DropEvent
    <3>4. UNCHANGED <<up, age, missed, maint, active>>
      BY <2>4 DEF DropEvent, dbVars, timeVars, memVars
    <3> QED BY <3>1, <3>2, <3>3, <3>4, HeartbeatStep DEF ResumePC, DrivingPC
  <2>5. CASE SynthesizeFails(c)
    <3>1. Fades BY <2>5, FadesUnchanged DEF SynthesizeFails, dbVars
    <3> QED BY <2>5, <3>1, HeartbeatGoto, HeartbeatLeave
        DEF SynthesizeFails, dbVars, timeVars, memVars, envVars, Live, Drives, Unsubmitted, DrivingPC, ResumePC
  <2> QED BY <1>5, <2>1, <2>2, <2>3, <2>4, <2>5 DEF FaultStep
<1>6. ASSUME NEW c \in Call, NEW i \in Instance, NEW r \in Run, Start(c, i, r)
      PROVE  HeartbeatInv'
  <2>1. /\ \A d \in Call : d # c => pc'[d] = pc[d] /\ call'[d] = call[d]
        /\ pc'[c] = "opened"
        /\ call'[c].at = i /\ call'[c].log = r /\ call'[c].target = r
    BY <1>6 DEF Start, Step, NewCall, CallTypeOK
  <2>2. /\ status[r] = "none" /\ status'[r] = "running" /\ age'[r] = 0
        /\ \A s \in Run : s # r => status'[s] = status[s] /\ age'[s] = age[s]
        /\ UNCHANGED <<up, missed, maint, active>> /\ up[i]
    BY <1>6 DEF Start, DbTypeOK, timeVars, memVars, envVars
  <2>3. \A d \in Call : Live(d) => d # c /\ call[d].target # r
                                   /\ call[d].target \in Run /\ call[d].log = call[d].target
    BY <1>6, <2>2, LocalsTyped DEF Start, OneCall, Live
  <2>4. NoResume' BY <2>1 DEF NoResume, ResumePC
  <2>5. NoWaiting' BY <2>2 DEF NoWaiting
  <2>6. OneCall' BY <2>1, <2>2, <2>3 DEF OneCall, Live
  <2>7. \A d \in Call : d # c /\ Drives(d)' => Drives(d) /\ Live(d)
    BY <2>1 DEF Drives, DrivingPC, Live
  <2>8. Heartbeaten'
    BY <2>1, <2>2, <2>3, <2>7 DEF Heartbeaten, Unsubmitted, Works
  <2> QED BY <2>4, <2>5, <2>6, <2>8
<1>7. ASSUME NEW c \in Call, NEW i \in Instance, NEW r \in Run, Resume(c, i, r)
      PROVE  HeartbeatInv'
  BY <1>7 DEF Resume, NoWaiting
<1>8. ASSUME NEW q \in Request, NEW i \in Instance, NEW r \in Run, Interrupt(q, i, r)
      PROVE  HeartbeatInv'
  <2>1. Fades BY <1>8, FadesUnchanged DEF Interrupt, dbVars
  <2> QED BY <1>8, <2>1, HeartbeatStill DEF Interrupt, dbVars, timeVars, memVars, envVars
<1>9. ASSUME NEW q \in Request, RequestStep(q) \/ RequestFails(q) PROVE HeartbeatInv'
  <2>1. Fades
    <3>1. CASE InterruptRemote(q)
      BY <3>1, FadesTry DEF InterruptRemote, RequestTypeOK
    <3>2. CASE InterruptPaused(q)
      BY <3>2, FadesTry DEF InterruptPaused, RequestTypeOK
    <3>3. CASE RequestCancel(q) \/ CleanPaused(q) \/ PushTerminal(q) \/ RequestFails(q)
      BY <3>3, FadesUnchanged DEF RequestCancel, CleanPaused, PushTerminal, RequestFails, dbVars
    <3> QED BY <1>9, <3>1, <3>2, <3>3 DEF RequestStep
  <2>2. UNCHANGED callVars /\ UNCHANGED <<up, age, missed, active, maint>>
    BY <1>9 DEF RequestStep, RequestCancel, InterruptRemote, InterruptPaused, CleanPaused,
                PushTerminal, RequestFails, dbVars, timeVars, memVars, envVars
  <2> QED BY <2>1, <2>2, HeartbeatStill
<1>10. CASE Tick
  <2>1. NoResume' /\ NoWaiting' /\ OneCall'
    BY <1>10 DEF Tick, NoResume, NoWaiting, OneCall, Live, callVars
  <2>2. \A d \in Call : Drives(d)' =>
            Drives(d) /\ ~Unsubmitted(d) /\ call[d].at \in Instance /\ call[d].target \in Run
    BY <1>10, LocalsTyped DEF Tick, Drives, DrivingPC, Unsubmitted, callVars
  <2>3. UNCHANGED <<pc, call, status, up, active, missed>>
    BY <1>10 DEF Tick, callVars, memVars, envVars
  <2>4. \A d \in Call : Drives(d) => maint[call[d].at] = "waiting" /\ maint'[call[d].at] = "due"
    BY <1>10, LocalsTyped DEF Tick, Heartbeaten, Drives, DrivingPC
  <2>5. \A r \in Run : age[r] \in Nat /\ age'[r] \in Nat /\ age'[r] <= age[r] + 1
    BY <1>10 DEF Tick, DbTypeOK, LifecycleAssumption
  <2>6. Heartbeaten'
    <3> SUFFICES ASSUME NEW d \in Call, Drives(d)'
                 PROVE  /\ up[call[d].at] /\ ~Unsubmitted(d)
                        /\ call[d].target \in active[call[d].at]
                        /\ Works(d) => age'[call[d].target] <= missed[call[d].at] + 1
      BY <2>3, <2>2, <2>4 DEF Heartbeaten, Unsubmitted, Works, Drives
    <3>1. missed[call[d].at] \in Nat
      BY <2>2 DEF InstanceTypeOK, LifecycleAssumption
    <3>2. Works(d) => age[call[d].target] <= missed[call[d].at]
      BY <2>2, <2>4, <3>1 DEF Heartbeaten
    <3>3. up[call[d].at] /\ ~Unsubmitted(d) /\ call[d].target \in active[call[d].at]
      BY <2>2 DEF Heartbeaten
    <3>4. Works(d) => age'[call[d].target] <= missed[call[d].at] + 1
      BY <2>2, <2>5, <3>1, <3>2
    <3> QED BY <3>3, <3>4
  <2> QED BY <2>1, <2>6
<1>11. ASSUME NEW i \in Instance, MaintenanceStep(i) PROVE HeartbeatInv'
  <2>1. CASE Heartbeat(i)
    <3>1. NoResume' /\ NoWaiting' /\ OneCall'
      BY <2>1 DEF Heartbeat, NoResume, NoWaiting, OneCall, Live, callVars
    <3>2. \A d \in Call : Drives(d) => call[d].at \in Instance /\ call[d].target \in Run
      BY LocalsTyped DEF Drives, DrivingPC
    <3>3. UNCHANGED <<pc, call, status, up, active>>
      BY <2>1 DEF Heartbeat, callVars, memVars, envVars
    <3>4. /\ maint[i] = "due" /\ maint'[i] = "sweep" /\ missed'[i] = 0
          /\ \A j \in Instance : j # i => maint'[j] = maint[j] /\ missed'[j] = missed[j]
      BY <2>1 DEF Heartbeat, InstanceTypeOK
    <3>5. /\ \A r \in Run : r \in active[i] /\ status[r] = "running" => age'[r] = 0
          /\ \A r \in Run : age'[r] = age[r] \/ age'[r] = 0
          /\ \A r \in Run : age[r] \in Nat
      BY <2>1 DEF Heartbeat, DbTypeOK, LifecycleAssumption
    <3>6. \A j \in Instance : missed[j] \in Nat
      BY DEF InstanceTypeOK, LifecycleAssumption
    <3>7. Heartbeaten'
      <4> SUFFICES ASSUME NEW d \in Call, Drives(d)
                   PROVE  /\ up[call[d].at]
                          /\ IF Unsubmitted(d) THEN age'[call[d].target] = 0
                             ELSE call[d].target \in active[call[d].at]
                          /\ Works(d) => age'[call[d].target] <=
                               missed'[call[d].at] + (IF maint'[call[d].at] = "due" THEN 1 ELSE 0)
        BY <3>3 DEF Heartbeaten, Unsubmitted, Works, Drives
      <4>1. up[call[d].at] /\ (IF Unsubmitted(d) THEN age'[call[d].target] = 0
                               ELSE call[d].target \in active[call[d].at])
        BY <3>2, <3>5 DEF Heartbeaten
      <4>2. CASE call[d].at = i
        <5>1. Works(d) => age'[call[d].target] = 0
          BY <4>1, <4>2, <3>2, <3>5 DEF Works, Unsubmitted
        <5> QED BY <4>1, <4>2, <5>1, <3>4
      <4>3. CASE call[d].at # i
        <5>1. Works(d) => age[call[d].target] <=
                missed[call[d].at] + (IF maint[call[d].at] = "due" THEN 1 ELSE 0)
          BY DEF Heartbeaten
        <5> QED BY <4>1, <4>3, <5>1, <3>2, <3>4, <3>5, <3>6
      <4> QED BY <4>2, <4>3
    <3> QED BY <3>1, <3>7
  <2>2. CASE MissHeartbeat(i)
    <3>1. NoResume' /\ NoWaiting' /\ OneCall'
      BY <2>2 DEF MissHeartbeat, NoResume, NoWaiting, OneCall, Live, callVars, dbVars
    <3>2. \A d \in Call : Drives(d) => call[d].at \in Instance /\ call[d].target \in Run
      BY LocalsTyped DEF Drives, DrivingPC
    <3>3. UNCHANGED <<pc, call, status, age, up, active>>
      BY <2>2 DEF MissHeartbeat, callVars, memVars, envVars, dbVars
    <3>4. /\ maint[i] = "due" /\ maint'[i] = "waiting" /\ missed'[i] = missed[i] + 1
          /\ \A j \in Instance : j # i => maint'[j] = maint[j] /\ missed'[j] = missed[j]
      BY <2>2 DEF MissHeartbeat, InstanceTypeOK
    <3>5. \A j \in Instance : missed[j] \in Nat
      BY DEF InstanceTypeOK, LifecycleAssumption
    <3>6. Heartbeaten'
      BY <3>2, <3>3, <3>4, <3>5 DEF Heartbeaten, Unsubmitted, Works, Drives
    <3> QED BY <3>1, <3>6
  <2>3. CASE Reconcile(i)
    <3>1. Fades BY <2>3, FadesSweep DEF Reconcile
    <3>2. \A j \in Instance : maint'[j] = "due" <=> maint[j] = "due"
      BY <2>3 DEF Reconcile, InstanceTypeOK
    <3> QED BY <2>3, <3>1, <3>2, HeartbeatStill DEF Reconcile, memVars, envVars
  <2> QED BY <1>11, <2>1, <2>2, <2>3 DEF MaintenanceStep
<1>12. ASSUME NEW i \in Instance, Crash(i) PROVE HeartbeatInv'
  <2>1. \A d \in Call : pc'[d] # "done" =>
            /\ pc'[d] = pc[d] /\ call'[d] = call[d] /\ call[d].at # i
    BY <1>12 DEF Crash
  <2>2. UNCHANGED <<status, age>>
    BY <1>12 DEF Crash, dbVars
  <2>3. \A j \in Instance : j # i => /\ up'[j] = up[j] /\ maint'[j] = maint[j]
                                    /\ missed'[j] = missed[j] /\ active'[j] = active[j]
    BY <1>12 DEF Crash, InstanceTypeOK
  <2>4. NoResume' BY <2>1 DEF NoResume, ResumePC
  <2>5. NoWaiting' BY <2>2 DEF NoWaiting
  <2>6. OneCall' BY <2>1, <2>2 DEF OneCall, Live
  <2>7. \A d \in Call : Drives(d)' =>
            /\ Drives(d) /\ pc'[d] = pc[d] /\ call'[d] = call[d] /\ call[d].at # i
            /\ call[d].at \in Instance
    BY <2>1, LocalsTyped DEF Drives, DrivingPC
  <2>8. Heartbeaten'
    BY <2>2, <2>3, <2>7 DEF Heartbeaten, Unsubmitted, Works
  <2> QED BY <2>4, <2>5, <2>6, <2>8
<1>13. ASSUME NEW i \in Instance, Restart(i) PROVE HeartbeatInv'
  <2>1. Fades BY <1>13, FadesSweep DEF Restart
  <2>2. \A j \in Instance : up[j] => up'[j]
    BY <1>13 DEF Restart, InstanceTypeOK
  <2> QED BY <1>13, <2>1, <2>2, HeartbeatStill DEF Restart, timeVars, memVars
<1>14. CASE UNCHANGED vars
  <2>1. Fades BY <1>14, FadesUnchanged DEF vars, dbVars
  <2> QED BY <1>14, <2>1, HeartbeatStill DEF vars, dbVars, timeVars, memVars, envVars
<1> QED
  BY <1>1, <1>2, <1>3, <1>4, <1>5, <1>6, <1>7, <1>8, <1>9, <1>10, <1>11, <1>12, <1>13, <1>14
  DEF Next, CallStep

LEMMA HeartbeatInvariant == ASSUME ~RequireApproval PROVE Spec => []HeartbeatInv
<1>1. Init => HeartbeatInv
  BY DEF Init, HeartbeatInv, NoResume, NoWaiting, OneCall, Heartbeaten, Live, Drives, DrivingPC, ResumePC
<1> QED BY <1>1, HeartbeatNext, Driver, LifecycleAssumption, PTL DEF Spec

\* The heartbeat of a run at work is younger than the threshold, because the
\* threshold is more than a period above the beats an instance may miss.
THEOREM LiveNotStale == ASSUME ~RequireApproval PROVE Spec => []LiveRunNotStale
<1>1. LifecycleAssumption /\ TypeOK /\ HeartbeatInv => LiveRunNotStale
  <2> SUFFICES ASSUME LifecycleAssumption, TypeOK, HeartbeatInv, NEW c \in Call, Works(c)
               PROVE  age[call[c].target] < StaleAge
    BY DEF LiveRunNotStale
  <2>1. Drives(c) /\ call[c].at \in Instance /\ call[c].target \in Run
    BY LocalsTyped DEF TypeOK, Works, Drives, DrivingPC
  <2>2. age[call[c].target] <= missed[call[c].at] + (IF maint[call[c].at] = "due" THEN 1 ELSE 0)
    BY <2>1 DEF HeartbeatInv, Heartbeaten
  <2>3. missed[call[c].at] \in 0..MaxMissed /\ age[call[c].target] \in 0..StaleAge
    BY <2>1 DEF TypeOK, InstanceTypeOK, DbTypeOK
  <2> QED BY <2>2, <2>3 DEF LifecycleAssumption
<1> QED BY <1>1, Driver, HeartbeatInvariant, LifecycleAssumption, PTL

\* No sweep ends a run at work (reconcile_orphan_runs).
THEOREM LiveKept == ASSUME ~RequireApproval PROVE Spec => LiveRunKept
<1> DEFINE Kept == (\E i \in Instance : Reconcile(i) \/ Restart(i)) =>
                       \A c \in Call : Works(c) => status'[call[c].target] = "running"
<1>1. TypeOK /\ LiveRunNotStale /\ [Next]_vars => [Kept]_vars
  <2> SUFFICES ASSUME TypeOK, LiveRunNotStale, NEW i \in Instance, Reconcile(i) \/ Restart(i),
                      NEW c \in Call, Works(c)
               PROVE  status'[call[c].target] = "running"
    OBVIOUS
  <2>1. call[c].target \in Run /\ age[call[c].target] \in Nat /\ age[call[c].target] < StaleAge
    BY LocalsTyped, LifecycleAssumption
    DEF TypeOK, DbTypeOK, Works, Drives, DrivingPC, LiveRunNotStale, LifecycleAssumption
  <2> QED BY <2>1, LifecycleAssumption DEF Reconcile, Restart, Sweep, Stale, Works, LifecycleAssumption
<1> QED BY <1>1, Driver, LiveNotStale, PTL DEF Spec, LiveRunKept

\* A run at work gets the heartbeats of its server: it is in _active of the
\* instance whose pump drives it (heartbeat_runs).
THEOREM LiveActive == ASSUME ~RequireApproval PROVE Spec => []LiveRunActive
<1>1. HeartbeatInv => LiveRunActive
  BY DEF HeartbeatInv, Heartbeaten, LiveRunActive, Works, Unsubmitted
<1> QED BY <1>1, HeartbeatInvariant, PTL
-----------------------------------------------------------------------------
(* Without approvals and failing statements the end of a run is announced    *)
(* once.                                                                   *)

\* Where only a failing statement or an approval leads.
UnreachedPC == {"user_failed", "say", "request", "close", "synthesize"}

\* A call has ended its run and is going to say so; so is a request.
Telling(c) == pc[c] \in {"repair", "emit"}
Pushing(q) == rpc[q] \in {"clean", "push"}

\* A generator does not leave a run that goes on.
PastEnd ==
    \A c \in Call :
        /\ pc[c] \notin UnreachedPC
        /\ Live(c) => ~ call[c].suspended
        /\ pc[c] \in {"repair", "emit", "pop", "final", "check"} =>
               status[call[c].target] \in EndStatuses

\* Of those who could announce the end of a run only the one that ended it will.
OneTeller ==
    /\ \A c \in Call : Telling(c) => terminals[call[c].target] = 0
    /\ \A q \in Request : Pushing(q) =>
           terminals[req[q].run] = 0 /\ status[req[q].run] \in EndStatuses
    /\ \A c \in Call, q \in Request :
           Telling(c) /\ Pushing(q) => call[c].target # req[q].run
    /\ \A p, q \in Request :
           Pushing(p) /\ Pushing(q) /\ req[p].run = req[q].run => p = q

TellInv == PastEnd /\ OneTeller /\ OneTerminalEvent /\ TerminalEventMeansEnded

\* The log of a run that has not ended has no terminal event, and nobody is going to
\* add one.
LEMMA Untold ==
    ASSUME TypeOK, TellInv, NEW r \in Run, status[r] \notin EndStatuses
    PROVE  /\ terminals[r] = 0
           /\ \A c \in Call : Telling(c) => call[c].target # r
           /\ \A q \in Request : Pushing(q) => req[q].run # r
<1>1. terminals[r] \in Nat /\ ~ (terminals[r] > 0)
  BY DEF TypeOK, DbTypeOK, TellInv, TerminalEventMeansEnded
<1>2. \A c \in Call : Telling(c) => call[c].target # r
  BY DEF TellInv, PastEnd, Telling
<1>3. \A q \in Request : Pushing(q) => req[q].run # r
  BY DEF TellInv, OneTeller
<1> QED BY <1>1, <1>2, <1>3

\* The log is left alone, and what has ended stays so.
LEMMA LogKept ==
    ASSUME TypeOK, TellInv, Stay, UNCHANGED terminals
    PROVE  OneTerminalEvent' /\ TerminalEventMeansEnded'
  BY DEF TypeOK, DbTypeOK, TellInv, OneTerminalEvent, TerminalEventMeansEnded, Stay

\* A run a call or request has to do with is a run.
LEMMA RunsTyped ==
    ASSUME TypeOK
    PROVE  /\ \A c \in Call : Live(c) => call[c].target \in Run /\ call[c].log \in Run
           /\ \A q \in Request : Pushing(q) => req[q].run \in Run
  BY DEF TypeOK, CallTypeOK, RequestTypeOK, Live, Pushing

\* A call moves: to announce the end only when it has ended its run just now, and
\* past it only when the run has ended.
LEMMA TellStep ==
    ASSUME TypeOK, TellInv, Stay, UNCHANGED <<terminals, reqVars>>,
           NEW c \in Call, NEW label, NEW locals, Step(c, label, locals),
           label \notin UnreachedPC, label = "done" \/ ~ locals.suspended,
           label \in {"repair", "emit", "pop", "final", "check"} =>
               /\ Live(c) /\ locals.target = call[c].target
               /\ status'[call[c].target] \in EndStatuses,
           label \in {"repair", "emit"} => Telling(c) \/ status[call[c].target] = "running"
    PROVE  TellInv'
<1>1. /\ pc'[c] = label /\ call'[c] = locals
      /\ \A d \in Call \ {c} : pc'[d] = pc[d] /\ call'[d] = call[d]
  BY DEF Step, TypeOK, CallTypeOK
<1>2. /\ \A d \in Call : Live(d) => call[d].target \in Run
      /\ \A q \in Request : Pushing(q) => req[q].run \in Run
  BY RunsTyped
<1>3. PastEnd'
  <2> SUFFICES ASSUME NEW d \in Call
               PROVE  /\ pc'[d] \notin UnreachedPC
                      /\ pc'[d] \notin {"idle", "done"} => ~ call'[d].suspended
                      /\ pc'[d] \in {"repair", "emit", "pop", "final", "check"} =>
                             status'[call'[d].target] \in EndStatuses
    BY DEF PastEnd, Live
  <2>1. CASE d = c
    BY <1>1, <2>1
  <2>2. CASE d # c
    BY <1>1, <1>2, <2>2 DEF TellInv, PastEnd, Live, Stay
  <2> QED BY <2>1, <2>2
<1>4. \A d \in Call : Telling(d)' =>
         /\ call'[d].target = call[d].target
         /\ Telling(d) \/ (d = c /\ Live(c) /\ status[call[c].target] = "running")
  BY <1>1 DEF Telling
<1>5. \A d \in Call : Telling(d)' =>
         /\ terminals[call[d].target] = 0
         /\ \A q \in Request : Pushing(q) => call[d].target # req[q].run
  <2> SUFFICES ASSUME NEW d \in Call, Telling(d)'
               PROVE  /\ terminals[call[d].target] = 0
                      /\ \A q \in Request : Pushing(q) => call[d].target # req[q].run
    OBVIOUS
  <2>1. CASE Telling(d)
    BY <2>1 DEF TellInv, OneTeller
  <2>2. CASE d = c /\ Live(c) /\ status[call[c].target] = "running"
    BY <1>2, <2>2, Untold DEF EndStatuses
  <2> QED BY <1>4, <2>1, <2>2
<1>6. \A q \in Request : (Pushing(q)' <=> Pushing(q)) /\ req'[q] = req[q]
  BY DEF Pushing, reqVars
<1>7. \A q \in Request : Pushing(q) =>
         terminals[req[q].run] = 0 /\ status'[req[q].run] \in EndStatuses
  BY <1>2 DEF TellInv, OneTeller, Stay
<1>8. OneTeller'
  BY <1>4, <1>5, <1>6, <1>7 DEF OneTeller, TellInv
<1> QED BY <1>3, <1>8, LogKept DEF TellInv

\* ... and its local variables do not change.
LEMMA TellGoto ==
    ASSUME TypeOK, TellInv, Stay, UNCHANGED <<terminals, reqVars>>,
           NEW c \in Call, Live(c), NEW label, Goto(c, label), label \notin UnreachedPC,
           label \in {"repair", "emit", "pop", "final", "check"} =>
               status'[call[c].target] \in EndStatuses,
           label \in {"repair", "emit"} => Telling(c) \/ status[call[c].target] = "running"
    PROVE  TellInv'
<1>1. Step(c, label, call[c])
  BY DEF Goto, Step, TypeOK, CallTypeOK
<1>2. ~ call[c].suspended
  BY DEF TellInv, PastEnd
<1> QED BY <1>1, <1>2, TellStep

\* A call ends its run by a transition from running, or finds it ended.
LEMMA TellTransition ==
    ASSUME TypeOK, NoWaiting, OneCall, TellInv, Stay, UNCHANGED <<terminals, reqVars>>,
           NEW c \in Call, Live(c), NEW label \in {"repair", "emit"},
           Goto(c, IF status[call[c].target] = "running" THEN label ELSE "pop"),
           NEW to \in EndStatuses, TryTransition(call[c].target, "running", to)
    PROVE  TellInv'
<1>1. call[c].target \in Run
  BY RunsTyped
<1>2. status'[call[c].target] = IF status[call[c].target] = "running" THEN to ELSE status[call[c].target]
  BY <1>1 DEF TryTransition, TypeOK, DbTypeOK
<1>3. status[call[c].target] # "running" => status[call[c].target] \in EndStatuses
  BY <1>1 DEF NoWaiting, OneCall, TypeOK, DbTypeOK, Statuses, ActiveStatuses
<1>4. CASE status[call[c].target] = "running"
  BY <1>2, <1>4, TellGoto DEF UnreachedPC
<1>5. CASE status[call[c].target] # "running"
  BY <1>2, <1>3, <1>5, TellGoto DEF UnreachedPC
<1> QED BY <1>4, <1>5

\* Calls stay where they are or are gone, and no request is going to push anything new.
LEMMA TellStill ==
    ASSUME TypeOK, TellInv, Stay, UNCHANGED terminals,
           \A d \in Call : pc'[d] = "done" \/ (pc'[d] = pc[d] /\ call'[d] = call[d]),
           \A q \in Request : Pushing(q)' => Pushing(q) /\ req'[q] = req[q]
    PROVE  TellInv'
<1>1. /\ \A d \in Call : Live(d) => call[d].target \in Run
      /\ \A q \in Request : Pushing(q) => req[q].run \in Run
  BY RunsTyped
<1>2. PastEnd'
  <2> SUFFICES ASSUME NEW d \in Call
               PROVE  /\ pc'[d] \notin UnreachedPC
                      /\ pc'[d] \notin {"idle", "done"} => ~ call'[d].suspended
                      /\ pc'[d] \in {"repair", "emit", "pop", "final", "check"} =>
                             status'[call'[d].target] \in EndStatuses
    BY DEF PastEnd, Live
  <2>1. CASE pc'[d] = "done"
    BY <2>1 DEF UnreachedPC
  <2>2. CASE pc'[d] = pc[d] /\ call'[d] = call[d]
    BY <1>1, <2>2 DEF TellInv, PastEnd, Live, Stay
  <2> QED BY <2>1, <2>2
<1>3. \A d \in Call : Telling(d)' => Telling(d) /\ call'[d] = call[d]
  BY DEF Telling
<1>4. \A q \in Request : Pushing(q) => status'[req[q].run] \in EndStatuses
  BY <1>1 DEF TellInv, OneTeller, Stay
<1>5. OneTeller'
  BY <1>3, <1>4 DEF OneTeller, TellInv
<1> QED BY <1>2, <1>5, LogKept DEF TellInv

\* No statement raises.
LEMMA NoFault == ASSUME LifecycleAssumption, EnvTypeOK, MaxFaults = 0 PROVE ~ Fault
  BY DEF EnvTypeOK, Fault

LEMMA TellNext ==
    ASSUME ~RequireApproval, MaxFaults = 0
    PROVE  LifecycleAssumption /\ TypeOK /\ DriverCore /\ HeartbeatInv /\ TellInv /\ [Next]_vars => TellInv'
<1> SUFFICES ASSUME LifecycleAssumption, TypeOK, DriverCore, HeartbeatInv, TellInv, [Next]_vars
             PROVE  TellInv'
  OBVIOUS
<1>a. Stay BY EndedKept
<1>b. ~ Fault BY NoFault DEF TypeOK
<1>c. NoWaiting /\ OneCall /\ NoResume BY DEF HeartbeatInv
<1>d. /\ \A c \in Call : Live(c) => call[c].target \in Run /\ call[c].log = call[c].target
      /\ \A c \in Call : pc[c] \notin UnreachedPC
  BY <1>c, RunsTyped DEF OneCall, TellInv, PastEnd
<1>1. ASSUME NEW c \in Call, StartStep(c) PROVE TellInv'
  <2>1. PICK label \in {"started", "user", "enter"} : Goto(c, label)
    BY <1>1, <1>d DEF StartStep, NewEvent, SpawnPump, UserMessage, UserFailed, UnreachedPC
  <2>2. Live(c) /\ UNCHANGED <<terminals, reqVars>>
    BY <1>1 DEF StartStep, NewEvent, SpawnPump, UserMessage, UserFailed, Live, dbVars
  <2> QED BY <1>a, <2>1, <2>2, TellGoto DEF UnreachedPC
<1>2. ASSUME NEW c \in Call, ResumeStep(c) PROVE TellInv'
  BY <1>2, <1>c DEF ResumeStep, FindPaused, FindNone, Approve, SetDefault, Prepare, Reject, CleanRejected,
              NoResume, ResumePC
<1>3. ASSUME NEW c \in Call, DriveStep(c) PROVE TellInv'
  <2> DEFINE x == call[c]
  <2>a. /\ \A t : [x EXCEPT !.token = t, !.steps = RecursionLimit].suspended = x.suspended
        /\ \A n : [x EXCEPT !.node = n].suspended = x.suspended
        /\ \A n : [x EXCEPT !.node = n, !.steps = @ - 1].suspended = x.suspended
        /\ \A l : LET y == [x EXCEPT !.last = l]
                  IN  y.suspended = x.suspended /\ y.target = x.target
    BY LocalsTyped DEF CallType, TypeOK
  <2>b. Live(c) => ~ x.suspended
    BY DEF TellInv, PastEnd
  <2>c. x = call[c]
    OBVIOUS
  <2> HIDE DEF x
  <2>1. CASE EnterDrive(c)
    <3>1. PICK l \in {"except", "finalize", "drive"} :
             Step(c, l, [x EXCEPT !.token = cancels[call[c].at][call[c].target],
                                  !.steps = RecursionLimit])
      BY <2>1 DEF EnterDrive, x
    <3>2. Live(c) /\ UNCHANGED <<terminals, reqVars>>
      BY <2>1 DEF EnterDrive, Live, dbVars
    <3>3. ~ [x EXCEPT !.token = cancels[call[c].at][call[c].target],
                      !.steps = RecursionLimit].suspended
      BY <2>a, <2>b, <3>2
    <3> QED BY <1>a, <3>1, <3>2, <3>3, TellStep DEF UnreachedPC
  <2>2. CASE AgentCallsTools(c) \/ AgentAnswers(c) \/ ToolsReturn(c)
    <3>1. PICK n : \/ Step(c, "drive", [x EXCEPT !.node = n])
                   \/ Step(c, "drive", [x EXCEPT !.node = n, !.steps = @ - 1])
      BY <2>2 DEF AgentCallsTools, AgentAnswers, ToolsReturn, x
    <3>2. Live(c) /\ UNCHANGED <<terminals, reqVars>>
      BY <2>2 DEF AgentCallsTools, AgentAnswers, ToolsReturn, Chunk, Live, dbVars
    <3>3. /\ ~ [x EXCEPT !.node = n].suspended
          /\ ~ [x EXCEPT !.node = n, !.steps = @ - 1].suspended
      BY <2>a, <2>b, <3>2
    <3>4. PICK locals : Step(c, "drive", locals) /\ ~ locals.suspended
      BY <3>1, <3>3
    <3> QED BY <1>a, <3>2, <3>4, TellStep DEF UnreachedPC
  <2>3. CASE SeeCancel(c) \/ InterruptChunk(c) \/ StreamFails(c) \/ StreamEnds(c) \/ CleanCancelled(c)
    <3>1. PICK l \in {"cancel", "pause", "except", "finalize", "cancel_cas"} : Goto(c, l)
      BY <2>3 DEF SeeCancel, InterruptChunk, StreamFails, StreamEnds, CleanCancelled
    <3>2. Live(c) /\ UNCHANGED <<terminals, reqVars>>
      BY <2>3 DEF SeeCancel, InterruptChunk, StreamFails, StreamEnds, CleanCancelled, Chunk, Live, dbVars
    <3> QED BY <1>a, <3>1, <3>2, TellGoto DEF UnreachedPC
  <2>4. CASE Pause(c)
    BY <2>4 DEF Pause, DriverCore, PauseGated
  <2>5. CASE RequestApproval(c)
    BY <2>5, <1>d DEF RequestApproval, UnreachedPC
  <2>6. CASE EndCancelled(c) \/ Except(c) \/ CiteForgery(c)
    <3>1. Live(c) /\ UNCHANGED <<terminals, reqVars>>
      BY <2>6 DEF EndCancelled, Except, CiteForgery, Live
    <3>2. PICK label \in {"repair", "emit"}, to \in EndStatuses :
             /\ Goto(c, IF status[call[c].target] = "running" THEN label ELSE "pop")
             /\ TryTransition(call[c].target, "running", to)
      BY <2>6 DEF EndCancelled, Except, CiteForgery, EndStatuses
    <3> QED BY <1>a, <1>c, <3>1, <3>2, TellTransition
  <2>7. CASE CommitAnswer(c)
    <3>1. Live(c) /\ UNCHANGED <<terminals, reqVars>>
      BY <2>7 DEF CommitAnswer, Live
    <3>2. Goto(c, IF status[call[c].target] = "running" THEN "emit" ELSE "pop")
      BY <2>7 DEF CommitAnswer
    <3>3. TryTransition(call[c].target, "running", "completed")
      BY <2>7, <1>d, <3>1 DEF CommitAnswer, TryTransition, TypeOK, DbTypeOK
    <3> QED BY <1>a, <1>c, <3>1, <3>2, <3>3, TellTransition DEF EndStatuses
  <2>8. CASE Repair(c)
    <3>1. Live(c) /\ UNCHANGED <<status, terminals, reqVars>> /\ Telling(c)
      BY <2>8 DEF Repair, Live, Telling
    <3>2. Goto(c, "emit")
      BY <2>8, <2>b, <3>1 DEF Repair, x
    <3>3. status'[call[c].target] \in EndStatuses
      BY <2>8, <3>1 DEF Repair, TellInv, PastEnd
    <3> QED BY <1>a, <3>1, <3>2, <3>3, TellGoto DEF UnreachedPC
  <2>9. CASE EmitTerminal(c)
    <3> DEFINE r == x.target
    <3>1. /\ pc[c] = "emit" /\ Live(c) /\ Telling(c)
          /\ Step(c, "pop", [x EXCEPT !.last = "terminal"])
          /\ UNCHANGED <<status, reqVars>> /\ r \in Run
          /\ terminals' = [terminals EXCEPT ![r] = @ + 1]
      BY <2>9, <1>d DEF EmitTerminal, UnreachedPC, Live, Telling, x
    <3>2. terminals[r] = 0 /\ status[r] \in EndStatuses
      BY <3>1, <2>c DEF TellInv, OneTeller, PastEnd
    <3>3. terminals'[r] = 1 /\ \A s \in Run \ {r} : terminals'[s] = terminals[s]
      BY <3>1, <3>2 DEF TypeOK, DbTypeOK
    <3>4. ~ [x EXCEPT !.last = "terminal"].suspended /\ [x EXCEPT !.last = "terminal"].target = r
      BY <2>a, <2>b, <3>1
    <3>5. /\ pc'[c] = "pop" /\ ~ call'[c].suspended /\ call'[c].target = r
          /\ \A d \in Call \ {c} : pc'[d] = pc[d] /\ call'[d] = call[d]
      BY <3>1, <3>4 DEF Step, TypeOK, CallTypeOK
    <3>6. PastEnd'
      BY <3>1, <3>2, <3>5 DEF TellInv, PastEnd, Live, UnreachedPC
    <3>7. \A d \in Call : Telling(d)' =>
             d # c /\ Telling(d) /\ call'[d] = call[d] /\ call[d].target \in Run /\ call[d].target # r
      <4> SUFFICES ASSUME NEW d \in Call, Telling(d)'
                   PROVE  d # c /\ Telling(d) /\ call'[d] = call[d] /\ call[d].target \in Run /\ call[d].target # r
        OBVIOUS
      <4>1. d # c /\ Telling(d) /\ call'[d] = call[d]
        BY <3>5 DEF Telling
      <4>2. Live(d) BY <4>1 DEF Telling, Live
      <4>3. call[d].log = call[d].target /\ call[c].log = call[c].target /\ call[d].target \in Run
        BY <1>d, <3>1, <4>2
      <4>4. call[d].target # r
        BY <1>c, <2>c, <3>1, <4>1, <4>2, <4>3 DEF OneCall
      <4> QED BY <4>1, <4>3, <4>4
    <3>8. \A q \in Request : /\ Pushing(q)' <=> Pushing(q)
                             /\ req'[q] = req[q]
                             /\ Pushing(q) => req[q].run \in Run /\ req[q].run # r
      BY <2>c, <3>1, RunsTyped DEF Pushing, reqVars, TellInv, OneTeller
    <3>9. OneTeller'
      BY <3>1, <3>3, <3>7, <3>8 DEF TellInv, OneTeller
    <3>10. OneTerminalEvent' /\ TerminalEventMeansEnded'
      BY <3>1, <3>2, <3>3 DEF TellInv, OneTerminalEvent, TerminalEventMeansEnded
    <3> QED BY <3>6, <3>9, <3>10 DEF TellInv
  <2>10. CASE PopEvent(c)
    <3>1. Live(c) /\ UNCHANGED <<status, terminals, reqVars>>
      BY <2>10 DEF PopEvent, Live, dbVars
    <3>2. Goto(c, "final")
      BY <2>10, <2>b, <3>1 DEF PopEvent, x
    <3>3. status'[call[c].target] \in EndStatuses
      BY <2>10, <3>1 DEF PopEvent, TellInv, PastEnd
    <3> QED BY <1>a, <3>1, <3>2, <3>3, TellGoto DEF UnreachedPC
  <2> QED BY <1>3, <2>1, <2>2, <2>3, <2>4, <2>5, <2>6, <2>7, <2>8, <2>9, <2>10 DEF DriveStep
<1>4. ASSUME NEW c \in Call, PumpStep(c) PROVE TellInv'
  <2>1. pc[c] \in {"final", "check"} /\ Live(c) /\ UNCHANGED <<status, terminals, reqVars>>
    BY <1>4, <1>d DEF PumpStep, PumpFinally, CheckRun, Synthesize, CloseGenerator, UnreachedPC, Live, dbVars
  <2>2. status[call[c].target] \in EndStatuses /\ ~ call[c].suspended /\ call[c].log = call[c].target
    BY <2>1, <1>d DEF TellInv, PastEnd
  <2>3. Finish(c) \/ Goto(c, "check")
    BY <1>4, <2>1, <2>2 DEF PumpStep, PumpFinally, CheckRun, Synthesize, CloseGenerator, Leave
  <2>4. CASE Finish(c)
    BY <1>a, <2>1, <2>4, TellStep DEF Finish, UnreachedPC
  <2>5. CASE Goto(c, "check")
    BY <1>a, <2>1, <2>2, <2>5, TellGoto DEF UnreachedPC
  <2> QED BY <2>3, <2>4, <2>5
<1>5. ASSUME NEW c \in Call, FaultStep(c) PROVE TellInv'
  BY <1>5, <1>b DEF FaultStep, SpawnFails, ClearFails, StatementFails, DropEvent, SynthesizeFails
<1>6. ASSUME NEW c \in Call, NEW i \in Instance, NEW r \in Run, Start(c, i, r) PROVE TellInv'
  <2>1. Step(c, "opened", NewCall(i, r, "agent")) /\ UNCHANGED <<terminals, reqVars>>
    BY <1>6 DEF Start
  <2>2. ~ NewCall(i, r, "agent").suspended
    BY DEF NewCall
  <2> QED BY <1>a, <2>1, <2>2, TellStep DEF UnreachedPC
<1>7. ASSUME NEW c \in Call, NEW i \in Instance, NEW r \in Run, Resume(c, i, r) PROVE TellInv'
  BY <1>7, <1>c DEF Resume, NoWaiting
<1>8. ASSUME NEW q \in Request, NEW i \in Instance, NEW r \in Run, Interrupt(q, i, r) PROVE TellInv'
  <2>1. UNCHANGED callVars /\ UNCHANGED terminals
    BY <1>8 DEF Interrupt, dbVars
  <2>2. /\ \A p \in Request \ {q} : rpc'[p] = rpc[p] /\ req'[p] = req[p]
        /\ rpc'[q] \in {"flag", "paused", "done"}
    BY <1>8 DEF Interrupt, TypeOK, RequestTypeOK
  <2>3. \A p \in Request : Pushing(p)' => Pushing(p) /\ req'[p] = req[p]
    BY <2>2 DEF Pushing
  <2> QED BY <1>a, <2>1, <2>3, TellStill DEF callVars
<1>9. ASSUME NEW q \in Request, RequestStep(q) \/ RequestFails(q) PROVE TellInv'
  <2>1. CASE InterruptRemote(q)
    <3> DEFINE r == req[q].run
    <3>1. r \in Run /\ UNCHANGED <<terminals, callVars, req>>
      BY <2>1 DEF InterruptRemote, TypeOK, RequestTypeOK
    <3>2. CASE status[r] = "running"
      <4>1. status'[r] = "interrupted"
        BY <2>1, <3>1, <3>2 DEF InterruptRemote, TryTransition, TypeOK, DbTypeOK
      <4>2. rpc'[q] = "push" /\ \A p \in Request \ {q} : rpc'[p] = rpc[p]
        BY <2>1, <3>2 DEF InterruptRemote, TypeOK, RequestTypeOK
      <4>3. /\ terminals[r] = 0
            /\ \A c \in Call : Telling(c) => call[c].target # r
            /\ \A p \in Request : Pushing(p) => req[p].run # r
        BY <3>1, <3>2, Untold DEF EndStatuses
      <4>4. PastEnd'
        BY <1>a, <1>d, <3>1 DEF TellInv, PastEnd, Live, callVars, Stay
      <4>5. \A p \in Request : Pushing(p) => status'[req[p].run] \in EndStatuses
        BY <1>a, RunsTyped DEF TellInv, OneTeller, Stay
      <4>6. \A p \in Request : Pushing(p)' => p = q \/ Pushing(p)
        BY <4>2 DEF Pushing
      <4>7. \A c \in Call : Telling(c)' <=> Telling(c)
        BY <3>1 DEF Telling, callVars
      <4>8. OneTeller'
        BY <3>1, <4>1, <4>3, <4>5, <4>6, <4>7 DEF TellInv, OneTeller, EndStatuses, callVars
      <4> QED BY <1>a, <3>1, <4>4, <4>8, LogKept DEF TellInv
    <3>3. CASE status[r] # "running"
      <4>1. \A p \in Request : Pushing(p)' => Pushing(p)
        BY <2>1, <3>3 DEF InterruptRemote, Pushing, TypeOK, RequestTypeOK
      <4> QED BY <1>a, <3>1, <4>1, TellStill DEF callVars
    <3> QED BY <3>2, <3>3
  <2>2. CASE PushTerminal(q)
    <3> DEFINE r == req[q].run
    <3>1. Pushing(q) /\ r \in Run /\ UNCHANGED <<status, callVars, req>>
      BY <2>2 DEF PushTerminal, Pushing, TypeOK, RequestTypeOK
    <3>2. terminals[r] = 0 /\ status[r] \in EndStatuses
      BY <3>1 DEF TellInv, OneTeller
    <3>3. terminals'[r] = 1 /\ \A s \in Run \ {r} : terminals'[s] = terminals[s]
      BY <2>2, <3>1, <3>2 DEF PushTerminal, TypeOK, DbTypeOK
    <3>4. \A p \in Request : Pushing(p)' => Pushing(p) /\ p # q /\ req[p].run # r /\ req[p].run \in Run
      <4>1. \A p \in Request : Pushing(p)' => Pushing(p) /\ p # q
        BY <2>2 DEF PushTerminal, Pushing, TypeOK, RequestTypeOK
      <4> QED BY <3>1, <4>1, RunsTyped DEF TellInv, OneTeller
    <3>5. PastEnd'
      BY <3>1 DEF TellInv, PastEnd, Live, callVars
    <3>6. \A c \in Call : Telling(c)' => Telling(c) /\ call[c].target # r /\ call[c].target \in Run
      BY <1>d, <3>1 DEF Telling, callVars, TellInv, OneTeller, Live
    <3>7. OneTeller'
      BY <3>1, <3>3, <3>4, <3>6 DEF TellInv, OneTeller, callVars
    <3>8. OneTerminalEvent' /\ TerminalEventMeansEnded'
      BY <3>1, <3>2, <3>3 DEF TellInv, OneTerminalEvent, TerminalEventMeansEnded
    <3> QED BY <3>5, <3>7, <3>8 DEF TellInv
  <2>3. CASE RequestCancel(q) \/ InterruptPaused(q) \/ CleanPaused(q)
    <3>1. UNCHANGED <<terminals, callVars, req>>
      BY <2>3 DEF RequestCancel, InterruptPaused, CleanPaused, dbVars
    <3>2. \A p \in Request : Pushing(p)' => Pushing(p)
      <4>1. CASE RequestCancel(q)
        BY <4>1 DEF RequestCancel, Pushing, TypeOK, RequestTypeOK
      <4>2. CASE InterruptPaused(q)
        <5>1. status[req[q].run] # "awaiting_approval"
          BY <1>c, <4>2 DEF InterruptPaused, NoWaiting, TypeOK, RequestTypeOK
        <5> QED BY <4>2, <5>1 DEF InterruptPaused, Pushing, TypeOK, RequestTypeOK
      <4>3. CASE CleanPaused(q)
        BY <4>3 DEF CleanPaused, Pushing, TypeOK, RequestTypeOK
      <4> QED BY <2>3, <4>1, <4>2, <4>3
    <3> QED BY <1>a, <3>1, <3>2, TellStill DEF callVars
  <2> QED BY <1>9, <1>b, <2>1, <2>2, <2>3 DEF RequestStep, RequestFails
<1>10. ASSUME NEW i \in Instance, Crash(i) PROVE TellInv'
  <2>1. \A d \in Call : pc'[d] = "done" \/ (pc'[d] = pc[d] /\ call'[d] = call[d])
    BY <1>10 DEF Crash
  <2>2. \A q \in Request : Pushing(q)' => Pushing(q) /\ req'[q] = req[q]
    BY <1>10 DEF Crash, Pushing
  <2>3. UNCHANGED terminals BY <1>10 DEF Crash, dbVars
  <2> QED BY <1>a, <2>1, <2>2, <2>3, TellStill
<1>11. ASSUME \/ Tick
              \/ \E i \in Instance : MaintenanceStep(i) \/ Restart(i)
              \/ UNCHANGED vars
       PROVE  TellInv'
  <2>1. UNCHANGED <<terminals, callVars, reqVars>>
    BY <1>11 DEF Tick, MaintenanceStep, Heartbeat, MissHeartbeat, Reconcile, Restart, vars, dbVars
  <2> QED BY <1>a, <2>1, TellStill DEF callVars, reqVars, Pushing
<1> QED
  BY <1>1, <1>2, <1>3, <1>4, <1>5, <1>6, <1>7, <1>8, <1>9, <1>10, <1>11 DEF Next, CallStep

LEMMA TellInvariant ==
    ASSUME ~RequireApproval, MaxFaults = 0 PROVE Spec => []TellInv
<1>1. Init => TellInv
  BY DEF Init, TellInv, PastEnd, OneTeller, OneTerminalEvent, TerminalEventMeansEnded, Live, Telling,
         Pushing, UnreachedPC
<1> QED BY <1>1, TellNext, Driver, HeartbeatInvariant, LifecycleAssumption, PTL DEF Spec

\* Whoever ends a run, its worker, a stop on another server, a sweep, and whichever
\* servers die, its log gets one terminal event at most, as long as there are no
\* approvals and no statement fails (_drive, interrupt, _push_terminal, _spawn_pump).
THEOREM EndToldOnce ==
    ASSUME ~RequireApproval, MaxFaults = 0 PROVE Spec => []OneTerminalEvent
<1>1. TellInv => OneTerminalEvent BY DEF TellInv
<1> QED BY <1>1, TellInvariant, PTL

\* Under the same conditions the event is in the log only when the run has ended, so
\* that a stream which stops at it has missed nothing.
THEOREM ToldWhenEnded ==
    ASSUME ~RequireApproval, MaxFaults = 0 PROVE Spec => []TerminalEventMeansEnded
<1>1. TellInv => TerminalEventMeansEnded BY DEF TellInv
<1> QED BY <1>1, TellInvariant, PTL
=============================================================================
