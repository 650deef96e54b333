---------------------------- MODULE RunLifecycle ----------------------------
(***************************************************************************)
(* The life of a run in the backend: RunService (the generator that drives *)
(* the agent), RunManager (the pump thread that persists its events, the   *)
(* maintenance loop, the interrupt handler) and the rows of the tables     *)
(* runs, messages and run_events they share through ConversationRepository.*)
(*                                                                         *)
(* Several server instances share one Postgres.  The pool is autocommit,   *)
(* so every statement outside a transaction is a step of its own, and the  *)
(* model has one action per statement.                                     *)
(*                                                                         *)
(*   Call     one RunService generator (a run() or a resume()) with the    *)
(*            pump thread that consumes it; used once                      *)
(*   Request  one POST /runs/{id}/interrupt; used once                     *)
(*                                                                         *)
(* The tool cells of a run are abstracted to one value (none, some without *)
(* a result, all with one), run_events to the number of terminal rows      *)
(* (run.done, error), and heartbeat_at to its age in heartbeat periods.    *)
(***************************************************************************)
EXTENDS Naturals, FiniteSets

CONSTANTS
    Thread, Run, Instance, Call, Request,
    Nil,
    ThreadOf,           \* the conversation of each run
    RequireApproval,    \* the environment variable REQUIRE_APPROVAL
    StaleAge,           \* RUN_RECONCILE_STALE_S in heartbeat periods
    MaxMissed,          \* heartbeats an instance that is up may miss in a row
    RecursionLimit,     \* recursion_limit of the agent's graph
    MaxCrashes,         \* bound: crashes of an instance
    MaxFaults           \* bound: database statements that raise

ASSUME LifecycleAssumption ==
    /\ ThreadOf \in [Run -> Thread]
    /\ Nil \notin Instance \cup Run \cup Call
    /\ RequireApproval \in BOOLEAN
    /\ StaleAge \in Nat /\ MaxMissed \in Nat /\ MaxMissed + 1 < StaleAge
    /\ RecursionLimit \in Nat /\ MaxCrashes \in Nat /\ MaxFaults \in Nat

VARIABLES
    \* Postgres
    status,     \* runs.status, "none" when the row does not exist
    age,        \* runs.heartbeat_at: heartbeat periods since, at most StaleAge
    answers,    \* messages of role agent of the run
    cells,      \* tool cells of the run: "none", "open" (tool_result NULL), "filled"
    terminals,  \* rows run.done and error of the run in run_events
    dangling,   \* conversations whose graph state ends in tool calls without results
    \* the memory of an instance
    up,
    maint,      \* its maintenance loop: "waiting", "due", "sweep"
    missed,     \* heartbeats missed in a row
    active,     \* RunManager._active
    cancels,    \* RunService._cancels: run -> the call that made the Event
    raised,     \* the Events that are set
    \* a generator and its pump
    pc, call,
    \* an interrupt request
    rpc, req,
    \* what clients know, and the bounds
    known,      \* runs whose id a client has received
    crashes, faults

dbVars   == <<status, age, answers, cells, terminals, dangling>>
timeVars == <<maint, missed>>
memVars  == <<active, cancels, raised>>
callVars == <<pc, call>>
reqVars  == <<rpc, req>>
envVars  == <<up, known, crashes, faults>>
vars     == <<dbVars, timeVars, memVars, callVars, reqVars, envVars>>

ActiveStatuses == {"running", "awaiting_approval"}
EndStatuses == {"completed", "interrupted", "rejected", "error"}
Statuses == {"none"} \cup ActiveStatuses \cup EndStatuses

-----------------------------------------------------------------------------
(* The program counter of a call, by the code it is in.                    *)

StartPC  == {"opened", "started", "user", "user_failed"}                  \* run()
ResumePC == {"find", "approve", "reject", "register", "prepare", "clean"} \* resume()
DrivePC  == {"enter", "drive", "cancel", "cancel_cas", "pause", "request",
             "except", "repair", "finalize", "emit", "pop"}               \* _drive()
PumpPC   == {"say", "final", "check", "synthesize", "close"}              \* pump()
CallPC   == {"idle", "done"} \cup StartPC \cup ResumePC \cup DrivePC \cup PumpPC

CallType ==
    [at : Instance \cup {Nil},      \* the instance that runs it
     log : Run \cup {Nil},          \* the run its pump writes events for
     target : Run \cup {Nil},       \* the run its generator works on
     node : {"agent", "tools", "approved", "end"},  \* the next node of the graph
     steps : 0..RecursionLimit,     \* steps left before the recursion limit
     last : {"event", "approval", "terminal"},      \* last_name, saw_terminal
     token : Call \cup {Nil},       \* _drive's local variable cancel
     suspended : BOOLEAN]           \* the pump dropped the generator at a yield in _drive

NewCall(i, r, node) ==
    [at |-> i, log |-> r, target |-> r, node |-> node, steps |-> 0,
     last |-> "event", token |-> Nil, suspended |-> FALSE]

NoCall == NewCall(Nil, Nil, "agent")

ReqPC == {"idle", "flag", "acked", "cas", "paused", "clean", "push", "done"}

DbTypeOK ==
    /\ status \in [Run -> Statuses]
    /\ age \in [Run -> 0..StaleAge]
    /\ answers \in [Run -> Nat]
    /\ cells \in [Run -> {"none", "open", "filled"}]
    /\ terminals \in [Run -> Nat]
    /\ dangling \in SUBSET Thread

InstanceTypeOK ==
    /\ up \in [Instance -> BOOLEAN]
    /\ maint \in [Instance -> {"waiting", "due", "sweep"}]
    /\ missed \in [Instance -> 0..MaxMissed]
    /\ active \in [Instance -> SUBSET Run]
    /\ cancels \in [Instance -> [Run -> Call \cup {Nil}]]
    /\ raised \in SUBSET Call

\* A call that has begun knows its instance, its log and its run.
CallTypeOK ==
    /\ pc \in [Call -> CallPC]
    /\ call \in [Call -> CallType]
    /\ \A c \in Call : pc[c] \notin {"idle", "done"} =>
           call[c].at \in Instance /\ call[c].log \in Run /\ call[c].target \in Run

RequestTypeOK ==
    /\ rpc \in [Request -> ReqPC]
    /\ req \in [Request -> [at : Instance \cup {Nil}, run : Run \cup {Nil}]]
    /\ \A q \in Request : rpc[q] \notin {"idle", "done"} =>
           req[q].at \in Instance /\ req[q].run \in Run

EnvTypeOK ==
    /\ known \in SUBSET Run
    /\ crashes \in 0..MaxCrashes
    /\ faults \in 0..MaxFaults

TypeOK == DbTypeOK /\ InstanceTypeOK /\ CallTypeOK /\ RequestTypeOK /\ EnvTypeOK

Init ==
    /\ status = [r \in Run |-> "none"]
    /\ age = [r \in Run |-> 0]
    /\ answers = [r \in Run |-> 0]
    /\ cells = [r \in Run |-> "none"]
    /\ terminals = [r \in Run |-> 0]
    /\ dangling = {}
    /\ up = [i \in Instance |-> TRUE]
    /\ maint = [i \in Instance |-> "waiting"]
    /\ missed = [i \in Instance |-> 0]
    /\ active = [i \in Instance |-> {}]
    /\ cancels = [i \in Instance |-> [r \in Run |-> Nil]]
    /\ raised = {}
    /\ pc = [c \in Call |-> "idle"]
    /\ call = [c \in Call |-> NoCall]
    /\ rpc = [q \in Request |-> "idle"]
    /\ req = [q \in Request |-> [at |-> Nil, run |-> Nil]]
    /\ known = {}
    /\ crashes = 0
    /\ faults = 0

-----------------------------------------------------------------------------
(* Statements of ConversationRepository.                                   *)

Goto(c, label) == pc' = [pc EXCEPT ![c] = label] /\ UNCHANGED call

\* ... and the call's local variables change.
Step(c, label, locals) ==
    /\ pc' = [pc EXCEPT ![c] = label]
    /\ call' = [call EXCEPT ![c] = locals]

\* The generator and its thread are gone, and their local variables with them.
Finish(c) == Step(c, "done", NoCall)

\* try_transition: UPDATE runs SET status = to WHERE id = r AND status = from.
TryTransition(r, from, to) ==
    status' = [status EXCEPT ![r] = IF @ = from THEN to ELSE @]

\* Mutant: the table runs has no unique index.
IndexAllows_NoIndex(r) == TRUE

\* The partial unique index one_active_run_per_thread lets r become active.
IndexAllows(r) ==
    \A s \in Run \ {r} :
        ThreadOf[s] = ThreadOf[r] => status[s] \notin ActiveStatuses

\* resolve_orphan_tool_cells: every cell without a result gets a marker.
Resolved(r) == [cells EXCEPT ![r] = IF @ = "open" THEN "filled" ELSE @]

\* Mutant: every running run is swept, as before runs had heartbeats.
Stale_AnyRunning(r) == status[r] = "running"

\* reconcile_orphan_runs: one statement ends every stale running run and
\* marks its open tool cells.
Stale(r) == status[r] = "running" /\ age[r] = StaleAge

Sweep ==
    /\ status' = [r \in Run |-> IF Stale(r) THEN "error" ELSE status[r]]
    /\ cells' = [r \in Run |->
                    IF Stale(r) /\ cells[r] = "open" THEN "filled" ELSE cells[r]]

\* A statement raises (a connection lost, a value Postgres refuses).
Fault == faults < MaxFaults /\ faults' = faults + 1

-----------------------------------------------------------------------------
(* POST /threads/{id}/messages: RunManager.start and RunService.run.       *)

\* open_run.  A conversation with an active run answers 409 and nothing changes.
Start(c, i, r) ==
    /\ pc[c] = "idle" /\ up[i]
    /\ status[r] = "none" /\ IndexAllows(r)
    /\ status' = [status EXCEPT ![r] = "running"]
    /\ age' = [age EXCEPT ![r] = 0]
    /\ Step(c, "opened", NewCall(i, r, "agent"))
    /\ UNCHANGED <<answers, cells, terminals, dangling, timeVars, memVars, reqVars, envVars>>

\* self._cancels[run_id] = threading.Event(), then run.started is yielded.
NewEvent(c) ==
    /\ pc[c] = "opened"
    /\ cancels' = [cancels EXCEPT ![call[c].at][call[c].target] = c]
    /\ Goto(c, "started")
    /\ UNCHANGED <<dbVars, timeVars, active, raised, reqVars, envVars>>

\* Mutant: the pump is submitted and _active is forgotten.
SpawnPump_NotActive(c) ==
    /\ pc[c] = "started"
    /\ known' = known \cup {call[c].log}
    /\ Goto(c, "user")
    /\ UNCHANGED <<dbVars, timeVars, memVars, reqVars, up, crashes, faults>>

\* run.started is persisted, the pump is submitted and the id returned.
SpawnPump(c) ==
    /\ pc[c] = "started"
    /\ active' = [active EXCEPT ![call[c].at] = @ \cup {call[c].log}]
    /\ known' = known \cup {call[c].log}
    /\ Goto(c, "user")
    /\ UNCHANGED <<dbVars, timeVars, cancels, raised, reqVars, up, crashes, faults>>

\* Persisting run.started raises: the request fails and the generator is
\* dropped at a yield that no handler encloses.
SpawnFails(c) ==
    /\ pc[c] = "started" /\ Fault
    /\ Finish(c)
    /\ UNCHANGED <<dbVars, timeVars, memVars, reqVars, up, known, crashes>>

UserMessage(c) ==
    /\ pc[c] = "user"
    /\ Goto(c, "enter")
    /\ UNCHANGED <<dbVars, timeVars, memVars, reqVars, envVars>>

\* The handler around the user message: the event error follows whether or
\* not the transition succeeded.
UserFailed(c) ==
    /\ pc[c] = "user_failed"
    /\ TryTransition(call[c].target, "running", "error")
    /\ Goto(c, "say")
    /\ UNCHANGED <<age, answers, cells, terminals, dangling, timeVars, memVars, reqVars, envVars>>

-----------------------------------------------------------------------------
(* POST /threads/{id}/approve: RunManager.resume and RunService.resume.    *)

\* RunManager.resume finds the waiting run of the conversation, adds it to
\* _active and submits the pump.
Resume(c, i, r) ==
    /\ pc[c] = "idle" /\ up[i]
    /\ status[r] = "awaiting_approval"
    /\ active' = [active EXCEPT ![i] = @ \cup {r}]
    /\ Step(c, "find", NewCall(i, r, "approved"))
    /\ UNCHANGED <<dbVars, timeVars, cancels, raised, reqVars, envVars>>

\* In the pump thread RunService.resume looks for the waiting run again, and
\* decides; none is a ValueError, which ends the generator.
FindPaused(c) ==
    /\ pc[c] = "find"
    /\ \E r \in Run, verdict \in {"approve", "reject"} :
          /\ ThreadOf[r] = ThreadOf[call[c].log]
          /\ status[r] = "awaiting_approval"
          /\ Step(c, verdict, [call[c] EXCEPT !.target = r])
    /\ UNCHANGED <<dbVars, timeVars, memVars, reqVars, envVars>>

FindNone(c) ==
    /\ pc[c] = "find"
    /\ \A r \in Run :
          ThreadOf[r] = ThreadOf[call[c].log] => status[r] # "awaiting_approval"
    /\ Goto(c, "final")
    /\ UNCHANGED <<dbVars, timeVars, memVars, reqVars, envVars>>

\* Mutant: the status is set without looking at the old one.
Approve_Unchecked(c) ==
    /\ pc[c] = "approve"
    /\ status' = [status EXCEPT ![call[c].target] = "running"]
    /\ Goto(c, "register")
    /\ UNCHANGED <<age, answers, cells, terminals, dangling, timeVars, memVars, reqVars, envVars>>

\* Of several resumes of one run only one wins; the others raise ValueError.
Approve(c) ==
    /\ pc[c] = "approve"
    /\ TryTransition(call[c].target, "awaiting_approval", "running")
    /\ Goto(c, IF status[call[c].target] = "awaiting_approval" THEN "register" ELSE "final")
    /\ UNCHANGED <<age, answers, cells, terminals, dangling, timeVars, memVars, reqVars, envVars>>

\* self._cancels.setdefault(run_id, threading.Event())
SetDefault(c) ==
    /\ pc[c] = "register"
    /\ cancels' = [cancels EXCEPT ![call[c].at][call[c].target] = IF @ = Nil THEN c ELSE @]
    /\ Goto(c, "prepare")
    /\ UNCHANGED <<dbVars, timeVars, active, raised, reqVars, envVars>>

\* get_run_model, get_turn_root, approve_partial, the marks on the tool cells.
Prepare(c) ==
    /\ pc[c] = "prepare"
    /\ Goto(c, "enter")
    /\ UNCHANGED <<dbVars, timeVars, memVars, reqVars, envVars>>

\* Mutant: the status is set without looking at the old one.
Reject_Unchecked(c) ==
    /\ pc[c] = "reject"
    /\ status' = [status EXCEPT ![call[c].target] = "rejected"]
    /\ Goto(c, "clean")
    /\ UNCHANGED <<age, answers, cells, terminals, dangling, timeVars, memVars, reqVars, envVars>>

Reject(c) ==
    /\ pc[c] = "reject"
    /\ TryTransition(call[c].target, "awaiting_approval", "rejected")
    /\ Goto(c, IF status[call[c].target] = "awaiting_approval" THEN "clean" ELSE "final")
    /\ UNCHANGED <<age, answers, cells, terminals, dangling, timeVars, memVars, reqVars, envVars>>

CleanRejected(c) ==
    /\ pc[c] = "clean"
    /\ cells' = Resolved(call[c].target)
    /\ dangling' = dangling \ {ThreadOf[call[c].target]}
    /\ Goto(c, "say")
    /\ UNCHANGED <<status, age, answers, terminals, timeVars, memVars, reqVars, envVars>>

-----------------------------------------------------------------------------
(* RunService._drive: one iteration per chunk of the agent's stream.       *)

\* cancel = self._cancels.get(run_id), and the graph loads its state.  A new
\* message on top of dangling tool calls is INVALID_CHAT_HISTORY; a resume
\* without any has nothing to execute, and its stream is empty.
EnterDrive(c) ==
    LET pending == ThreadOf[call[c].target] \in dangling
    IN  /\ pc[c] = "enter"
        /\ Step(c, CASE call[c].node = "agent" /\ pending -> "except"
                     [] call[c].node = "approved" /\ ~pending -> "finalize"
                     [] OTHER -> "drive",
                [call[c] EXCEPT !.token = cancels[call[c].at][call[c].target],
                                !.steps = RecursionLimit])
    /\ UNCHANGED <<dbVars, timeVars, memVars, reqVars, envVars>>

Cancelled(c) == call[c].token \in raised

\* The graph runs one more node and yields its chunk.
Chunk(c, node) ==
    /\ pc[c] = "drive"
    /\ call[c].node = node
    /\ call[c].steps > 0

\* With REQUIRE_APPROVAL the graph stops before the node tools.
AtGate(c) == call[c].node = "tools" /\ RequireApproval

\* A chunk arrives and the Event is set: the run is stopped at the boundary.
SeeCancel(c) ==
    /\ Cancelled(c)
    /\ \E node \in {"agent", "tools", "approved"} : Chunk(c, node)
    /\ Goto(c, "cancel")
    /\ UNCHANGED <<dbVars, timeVars, memVars, reqVars, envVars>>

\* The model calls tools: each call becomes a tool cell without a result.
AgentCallsTools(c) ==
    /\ Chunk(c, "agent") /\ ~Cancelled(c)
    /\ cells' = [cells EXCEPT ![call[c].target] = "open"]
    /\ dangling' = dangling \cup {ThreadOf[call[c].target]}
    /\ Step(c, "drive", [call[c] EXCEPT !.node = "tools", !.steps = @ - 1])
    /\ UNCHANGED <<status, age, answers, terminals, timeVars, memVars, reqVars, envVars>>

\* The model answers: the draft is kept until the stream ends.
AgentAnswers(c) ==
    /\ Chunk(c, "agent") /\ ~Cancelled(c)
    /\ Step(c, "drive", [call[c] EXCEPT !.node = "end"])
    /\ UNCHANGED <<dbVars, timeVars, memVars, reqVars, envVars>>

ToolsReturn(c) ==
    /\ \E node \in {"tools", "approved"} : Chunk(c, node)
    /\ ~AtGate(c) /\ ~Cancelled(c)
    /\ cells' = [cells EXCEPT ![call[c].target] = "filled"]
    /\ dangling' = dangling \ {ThreadOf[call[c].target]}
    /\ Step(c, "drive", [call[c] EXCEPT !.node = "agent", !.steps = @ - 1])
    /\ UNCHANGED <<status, age, answers, terminals, timeVars, memVars, reqVars, envVars>>

\* The chunk __interrupt__, after the check of the Event.
InterruptChunk(c) ==
    /\ Chunk(c, "tools") /\ AtGate(c) /\ ~Cancelled(c)
    /\ Goto(c, "pause")
    /\ UNCHANGED <<dbVars, timeVars, memVars, reqVars, envVars>>

\* The model, a tool or the graph raises, or the recursion limit is reached.
StreamFails(c) ==
    /\ pc[c] = "drive" /\ call[c].node # "end"
    /\ Goto(c, "except")
    /\ UNCHANGED <<dbVars, timeVars, memVars, reqVars, envVars>>

\* The stream is exhausted.
StreamEnds(c) ==
    /\ pc[c] = "drive" /\ call[c].node = "end"
    /\ Goto(c, "finalize")
    /\ UNCHANGED <<dbVars, timeVars, memVars, reqVars, envVars>>

\* stream.close(), clear_interrupted_tools, resolve_orphan_tool_cells.
CleanCancelled(c) ==
    /\ pc[c] = "cancel"
    /\ cells' = Resolved(call[c].target)
    /\ dangling' = dangling \ {ThreadOf[call[c].target]}
    /\ Goto(c, "cancel_cas")
    /\ UNCHANGED <<status, age, answers, terminals, timeVars, memVars, reqVars, envVars>>

\* clear_interrupted_tools raises: it is logged, and the run ends all the same.
ClearFails(c) ==
    /\ pc[c] = "cancel" /\ Fault
    /\ cells' = Resolved(call[c].target)
    /\ Goto(c, "cancel_cas")
    /\ UNCHANGED <<status, age, answers, terminals, dangling, timeVars, memVars, reqVars,
                   up, known, crashes>>

EndCancelled(c) ==
    /\ pc[c] = "cancel_cas"
    /\ TryTransition(call[c].target, "running", "interrupted")
    /\ Goto(c, IF status[call[c].target] = "running" THEN "emit" ELSE "pop")
    /\ UNCHANGED <<age, answers, cells, terminals, dangling, timeVars, memVars, reqVars, envVars>>

\* set_run_status(run_id, "awaiting_approval"): no condition on the old status.
\* The unique index raises when another run of the conversation is active.
Pause(c) ==
    /\ pc[c] = "pause"
    /\ IF IndexAllows(call[c].target)
       THEN /\ status' = [status EXCEPT ![call[c].target] = "awaiting_approval"]
            /\ Goto(c, "request")
       ELSE /\ UNCHANGED status
            /\ Goto(c, "except")
    /\ UNCHANGED <<age, answers, cells, terminals, dangling, timeVars, memVars, reqVars, envVars>>

\* set_pending_approval, then approval.requested is emitted and persisted.
RequestApproval(c) ==
    /\ pc[c] = "request"
    /\ Step(c, "pop", [call[c] EXCEPT !.last = "approval"])
    /\ UNCHANGED <<dbVars, timeVars, memVars, reqVars, envVars>>

\* Mutant: the error is emitted and the run is left running.
Except_NoTransition(c) ==
    /\ pc[c] = "except"
    /\ Goto(c, "repair")
    /\ UNCHANGED <<dbVars, timeVars, memVars, reqVars, envVars>>

\* except Exception.
Except(c) ==
    /\ pc[c] = "except"
    /\ TryTransition(call[c].target, "running", "error")
    /\ Goto(c, IF status[call[c].target] = "running" THEN "repair" ELSE "pop")
    /\ UNCHANGED <<age, answers, cells, terminals, dangling, timeVars, memVars, reqVars, envVars>>

\* resolve_orphan_tool_cells of except Exception and of except GeneratorExit.
Repair(c) ==
    /\ pc[c] = "repair"
    /\ cells' = Resolved(call[c].target)
    /\ Goto(c, IF call[c].suspended THEN "pop" ELSE "emit")
    /\ UNCHANGED <<status, age, answers, terminals, dangling, timeVars, memVars, reqVars, envVars>>

\* Mutant: the run is completed whatever its status.
CommitAnswer_Unchecked(c) ==
    /\ pc[c] = "finalize"
    /\ status' = [status EXCEPT ![call[c].target] = "completed"]
    /\ answers' = [answers EXCEPT ![call[c].target] = @ + 1]
    /\ Goto(c, "emit")
    /\ UNCHANGED <<age, cells, terminals, dangling, timeVars, memVars, reqVars, envVars>>

\* Mutant: the answer is inserted before the transition, and not rolled back.
CommitAnswer_NotAtomic(c) ==
    /\ pc[c] = "finalize"
    /\ TryTransition(call[c].target, "running", "completed")
    /\ answers' = [answers EXCEPT ![call[c].target] = @ + 1]
    /\ Goto(c, IF status[call[c].target] = "running" THEN "emit" ELSE "pop")
    /\ UNCHANGED <<age, cells, terminals, dangling, timeVars, memVars, reqVars, envVars>>

\* _finalize: commit_agent_answer, or nothing when the run has been ended.
CommitAnswer(c) ==
    /\ pc[c] = "finalize"
    /\ IF status[call[c].target] = "running"
       THEN /\ status' = [status EXCEPT ![call[c].target] = "completed"]
            /\ answers' = [answers EXCEPT ![call[c].target] = @ + 1]
            /\ Goto(c, "emit")
       ELSE /\ UNCHANGED <<status, answers>>
            /\ Goto(c, "pop")
    /\ UNCHANGED <<age, cells, terminals, dangling, timeVars, memVars, reqVars, envVars>>

\* _finalize: a cited id is not among the frozen citations of the conversation.
CiteForgery(c) ==
    /\ pc[c] = "finalize"
    /\ TryTransition(call[c].target, "running", "error")
    /\ Goto(c, IF status[call[c].target] = "running" THEN "emit" ELSE "pop")
    /\ UNCHANGED <<age, answers, cells, terminals, dangling, timeVars, memVars, reqVars, envVars>>

\* The terminal event is yielded and the pump appends it: inside _drive
\* ("emit") or in run() and resume() ("say").
EmitTerminal(c) ==
    /\ pc[c] \in {"emit", "say"}
    /\ terminals' = [terminals EXCEPT ![call[c].log] = @ + 1]
    /\ Step(c, IF pc[c] = "emit" THEN "pop" ELSE "final",
               [call[c] EXCEPT !.last = "terminal"])
    /\ UNCHANGED <<status, age, answers, cells, dangling, timeVars, memVars, reqVars, envVars>>

\* finally: self._cancels.pop(run_id, None)
PopEvent(c) ==
    /\ pc[c] = "pop"
    /\ cancels' = [cancels EXCEPT ![call[c].at][call[c].target] = Nil]
    /\ IF call[c].suspended THEN Finish(c) ELSE Goto(c, "final")
    /\ UNCHANGED <<dbVars, timeVars, active, raised, reqVars, envVars>>

-----------------------------------------------------------------------------
(* RunManager._spawn_pump: the finally of the pump thread.                 *)

\* A generator the pump has dropped is closed once the pump is finished.
Leave(c) == IF call[c].suspended THEN Goto(c, "close") ELSE Finish(c)

PumpFinally(c) ==
    /\ pc[c] = "final"
    /\ active' = [active EXCEPT ![call[c].at] = @ \ {call[c].log}]
    /\ IF call[c].last = "event" THEN Goto(c, "check") ELSE Leave(c)
    /\ UNCHANGED <<dbVars, timeVars, cancels, raised, reqVars, envVars>>

\* Mutant: a terminal event is synthesized whatever the status.
CheckRun_NotSuppressed(c) ==
    /\ pc[c] = "check"
    /\ Goto(c, "synthesize")
    /\ UNCHANGED <<dbVars, timeVars, memVars, reqVars, envVars>>

\* get_run: a run that has been ended elsewhere gets no second terminal event.
CheckRun(c) ==
    /\ pc[c] = "check"
    /\ IF status[call[c].log] \in EndStatuses THEN Leave(c) ELSE Goto(c, "synthesize")
    /\ UNCHANGED <<dbVars, timeVars, memVars, reqVars, envVars>>

Synthesize(c) ==
    /\ pc[c] = "synthesize"
    /\ terminals' = [terminals EXCEPT ![call[c].log] = @ + 1]
    /\ Leave(c)
    /\ UNCHANGED <<status, age, answers, cells, dangling, timeVars, memVars, reqVars, envVars>>

\* Mutant: the status is set without looking at the old one.
CloseGenerator_Unchecked(c) ==
    /\ pc[c] = "close"
    /\ status' = [status EXCEPT ![call[c].target] = "error"]
    /\ Goto(c, "repair")
    /\ UNCHANGED <<age, answers, cells, terminals, dangling, timeVars, memVars, reqVars, envVars>>

\* GeneratorExit in _drive, when the dropped generator is closed.
CloseGenerator(c) ==
    /\ pc[c] = "close"
    /\ TryTransition(call[c].target, "running", "error")
    /\ Goto(c, IF status[call[c].target] = "running" THEN "repair" ELSE "pop")
    /\ UNCHANGED <<age, answers, cells, terminals, dangling, timeVars, memVars, reqVars, envVars>>

-----------------------------------------------------------------------------
(* Statements that raise.                                                  *)

\* Mutant: an exception ends the pump before its finally.
Handler_NoFinally(label) ==
    CASE label = "user" -> "user_failed"
      [] label \in {"cancel", "cancel_cas", "pause", "request"} -> "except"
      [] label \in {"finalize", "except", "repair", "emit", "close"} -> "pop"
      [] OTHER -> "synthesize"

\* Where the exception of a statement at label is handled: by run(), by the
\* except and the finally of _drive, or by the pump.  A failing get_run in the
\* pump's finally counts as "not ended".
Handler(label) ==
    CASE label = "user" -> "user_failed"
      [] label \in {"cancel", "cancel_cas", "pause", "request"} -> "except"
      [] label \in {"finalize", "except", "repair", "emit", "close"} -> "pop"
      [] label = "check" -> "synthesize"
      [] OTHER -> "final"

StatementFails(c) ==
    /\ pc[c] \in {"user", "user_failed", "find", "approve", "reject", "clean", "prepare",
                  "cancel", "cancel_cas", "pause", "request", "finalize", "except",
                  "repair", "emit", "say", "close", "check"}
    /\ Fault
    /\ Goto(c, Handler(pc[c]))
    /\ UNCHANGED <<dbVars, timeVars, memVars, reqVars, up, known, crashes>>

\* append_run_event raises on an event the generator has yielded, of a chunk or
\* at the end: the pump stops iterating, and a generator inside _drive stays
\* suspended at its yield.  last_name and saw_terminal are set already.
DropEvent(c) ==
    /\ \/ pc[c] = "drive" /\ call[c].steps < RecursionLimit /\ call[c].node # "end"
       \/ pc[c] \in {"request", "emit", "say"}
    /\ Fault
    /\ Step(c, "final",
            [call[c] EXCEPT !.suspended = (pc[c] # "say"),
                            !.last = CASE pc[c] = "drive" -> "event"
                                       [] pc[c] = "request" -> "approval"
                                       [] OTHER -> "terminal"])
    /\ UNCHANGED <<dbVars, timeVars, memVars, reqVars, up, known, crashes>>

\* The synthetic event cannot be appended: the log stays without a terminal one.
SynthesizeFails(c) ==
    /\ pc[c] = "synthesize" /\ Fault
    /\ Leave(c)
    /\ UNCHANGED <<dbVars, timeVars, memVars, reqVars, up, known, crashes>>

-----------------------------------------------------------------------------
(* POST /runs/{id}/interrupt: RunManager.interrupt.                        *)

\* get_run: what to do depends on the status read here.
Interrupt(q, i, r) ==
    /\ rpc[q] = "idle" /\ up[i] /\ r \in known
    /\ req' = [req EXCEPT ![q] = [at |-> i, run |-> r]]
    /\ rpc' = [rpc EXCEPT ![q] = CASE status[r] = "running" -> "flag"
                                   [] status[r] = "awaiting_approval" -> "paused"
                                   [] OTHER -> "done"]
    /\ UNCHANGED <<dbVars, timeVars, memVars, callVars, envVars>>

\* Mutant: a missing Event is not noticed.
RequestCancel_NoCheck(q) ==
    /\ rpc[q] = "flag"
    /\ raised' = raised \cup {cancels[req[q].at][req[q].run]}
    /\ rpc' = [rpc EXCEPT ![q] = "acked"]
    /\ UNCHANGED <<dbVars, timeVars, active, cancels, callVars, req, envVars>>

\* request_cancel: the Event is set if this instance has one for the run.
RequestCancel(q) ==
    LET event == cancels[req[q].at][req[q].run]
    IN  /\ rpc[q] = "flag"
        /\ raised' = raised \cup ({event} \ {Nil})
        /\ rpc' = [rpc EXCEPT ![q] = IF event = Nil THEN "cas" ELSE "acked"]
        /\ UNCHANGED <<dbVars, timeVars, active, cancels, callVars, req, envVars>>

\* A run of another instance, or of none, is ended in the database.
InterruptRemote(q) ==
    /\ rpc[q] = "cas"
    /\ TryTransition(req[q].run, "running", "interrupted")
    /\ rpc' = [rpc EXCEPT ![q] = IF status[req[q].run] = "running" THEN "push" ELSE "done"]
    /\ UNCHANGED <<age, answers, cells, terminals, dangling, timeVars, memVars, callVars, req, envVars>>

\* Mutant: the status is set without looking at the old one.
InterruptPaused_Unchecked(q) ==
    /\ rpc[q] = "paused"
    /\ status' = [status EXCEPT ![req[q].run] = "interrupted"]
    /\ rpc' = [rpc EXCEPT ![q] = "clean"]
    /\ UNCHANGED <<age, answers, cells, terminals, dangling, timeVars, memVars, callVars, req, envVars>>

\* interrupt_paused
InterruptPaused(q) ==
    /\ rpc[q] = "paused"
    /\ TryTransition(req[q].run, "awaiting_approval", "interrupted")
    /\ rpc' = [rpc EXCEPT ![q] =
                  IF status[req[q].run] = "awaiting_approval" THEN "clean" ELSE "done"]
    /\ UNCHANGED <<age, answers, cells, terminals, dangling, timeVars, memVars, callVars, req, envVars>>

CleanPaused(q) ==
    /\ rpc[q] = "clean"
    /\ cells' = Resolved(req[q].run)
    /\ dangling' = dangling \ {ThreadOf[req[q].run]}
    /\ rpc' = [rpc EXCEPT ![q] = "push"]
    /\ UNCHANGED <<status, age, answers, terminals, timeVars, memVars, callVars, req, envVars>>

\* _push_terminal
PushTerminal(q) ==
    /\ rpc[q] = "push"
    /\ terminals' = [terminals EXCEPT ![req[q].run] = @ + 1]
    /\ rpc' = [rpc EXCEPT ![q] = "done"]
    /\ UNCHANGED <<status, age, answers, cells, dangling, timeVars, memVars, callVars, req, envVars>>

\* A statement of the handler raises: the request answers 500 and goes no further.
RequestFails(q) ==
    /\ rpc[q] \in {"cas", "paused", "clean", "push"} /\ Fault
    /\ rpc' = [rpc EXCEPT ![q] = "done"]
    /\ UNCHANGED <<dbVars, timeVars, memVars, callVars, req, up, known, crashes>>

-----------------------------------------------------------------------------
(* Time, RunManager._maintenance_loop, and the instances themselves.       *)

\* One heartbeat period passes.  Every maintenance loop that runs has a turn
\* in each period, and open_run to the submission of the pump takes less.
Tick ==
    /\ \A i \in Instance : maint[i] = "waiting"
    /\ \A c \in Call : pc[c] \notin {"opened", "started"}
    /\ age' = [r \in Run |-> IF age[r] < StaleAge /\ status[r] # "none"
                             THEN age[r] + 1 ELSE age[r]]
    /\ maint' = [i \in Instance |-> IF up[i] THEN "due" ELSE "waiting"]
    /\ UNCHANGED <<status, answers, cells, terminals, dangling, missed, memVars, callVars, reqVars, envVars>>

\* Mutant: the loop sweeps and does not heartbeat.
Heartbeat_None(i) ==
    /\ maint[i] = "due"
    /\ maint' = [maint EXCEPT ![i] = "sweep"]
    /\ UNCHANGED <<dbVars, missed, memVars, callVars, reqVars, envVars>>

\* heartbeat_runs(list(self._active))
Heartbeat(i) ==
    /\ maint[i] = "due"
    /\ age' = [r \in Run |-> IF r \in active[i] /\ status[r] = "running" THEN 0 ELSE age[r]]
    /\ maint' = [maint EXCEPT ![i] = "sweep"]
    /\ missed' = [missed EXCEPT ![i] = 0]
    /\ UNCHANGED <<status, answers, cells, terminals, dangling, memVars, callVars, reqVars, envVars>>

\* heartbeat_runs raises: the loop logs it and skips the rest of the period.
MissHeartbeat(i) ==
    /\ maint[i] = "due" /\ missed[i] < MaxMissed
    /\ maint' = [maint EXCEPT ![i] = "waiting"]
    /\ missed' = [missed EXCEPT ![i] = @ + 1]
    /\ UNCHANGED <<dbVars, memVars, callVars, reqVars, envVars>>

\* Mutant: runs are reconciled at boot only.
Reconcile_BootOnly(i) ==
    /\ maint[i] = "sweep"
    /\ maint' = [maint EXCEPT ![i] = "waiting"]
    /\ UNCHANGED <<dbVars, missed, memVars, callVars, reqVars, envVars>>

Reconcile(i) ==
    /\ maint[i] = "sweep"
    /\ Sweep
    /\ maint' = [maint EXCEPT ![i] = "waiting"]
    /\ UNCHANGED <<age, answers, terminals, dangling, missed, memVars, callVars, reqVars, envVars>>

\* The process dies: its memory, its threads and its requests are gone.
Crash(i) ==
    /\ up[i] /\ crashes < MaxCrashes
    /\ crashes' = crashes + 1
    /\ up' = [up EXCEPT ![i] = FALSE]
    /\ maint' = [maint EXCEPT ![i] = "waiting"]
    /\ missed' = [missed EXCEPT ![i] = 0]
    /\ active' = [active EXCEPT ![i] = {}]
    /\ cancels' = [cancels EXCEPT ![i] = [r \in Run |-> Nil]]
    /\ pc' = [c \in Call |-> IF call[c].at = i THEN "done" ELSE pc[c]]
    /\ call' = [c \in Call |-> IF call[c].at = i THEN NoCall ELSE call[c]]
    /\ rpc' = [q \in Request |-> IF req[q].at = i THEN "done" ELSE rpc[q]]
    /\ UNCHANGED <<dbVars, raised, req, known, faults>>

\* The lifespan of create_app reconciles before it serves.
Restart(i) ==
    /\ ~up[i]
    /\ up' = [up EXCEPT ![i] = TRUE]
    /\ Sweep
    /\ UNCHANGED <<age, answers, terminals, dangling, timeVars, memVars, callVars, reqVars, known, crashes, faults>>

-----------------------------------------------------------------------------
StartStep(c) ==
    \/ NewEvent(c) \/ SpawnPump(c) \/ UserMessage(c) \/ UserFailed(c)

ResumeStep(c) ==
    \/ FindPaused(c) \/ FindNone(c) \/ Approve(c) \/ SetDefault(c) \/ Prepare(c)
    \/ Reject(c) \/ CleanRejected(c)

DriveStep(c) ==
    \/ EnterDrive(c) \/ SeeCancel(c) \/ AgentCallsTools(c) \/ AgentAnswers(c)
    \/ ToolsReturn(c) \/ InterruptChunk(c) \/ StreamFails(c) \/ StreamEnds(c)
    \/ CleanCancelled(c) \/ EndCancelled(c) \/ Pause(c) \/ RequestApproval(c)
    \/ Except(c) \/ Repair(c) \/ CommitAnswer(c) \/ CiteForgery(c)
    \/ EmitTerminal(c) \/ PopEvent(c)

PumpStep(c) == PumpFinally(c) \/ CheckRun(c) \/ Synthesize(c) \/ CloseGenerator(c)

FaultStep(c) ==
    \/ SpawnFails(c) \/ ClearFails(c) \/ StatementFails(c) \/ DropEvent(c) \/ SynthesizeFails(c)

CallStep(c) == StartStep(c) \/ ResumeStep(c) \/ DriveStep(c) \/ PumpStep(c)

RequestStep(q) ==
    \/ RequestCancel(q) \/ InterruptRemote(q) \/ InterruptPaused(q)
    \/ CleanPaused(q) \/ PushTerminal(q)

MaintenanceStep(i) == Heartbeat(i) \/ MissHeartbeat(i) \/ Reconcile(i)

Next ==
    \/ \E c \in Call, i \in Instance, r \in Run : Start(c, i, r) \/ Resume(c, i, r)
    \/ \E c \in Call : CallStep(c) \/ FaultStep(c)
    \/ \E q \in Request, i \in Instance, r \in Run : Interrupt(q, i, r)
    \/ \E q \in Request : RequestStep(q) \/ RequestFails(q)
    \/ Tick
    \/ \E i \in Instance : MaintenanceStep(i) \/ Crash(i) \/ Restart(i)

Spec == Init /\ [][Next]_vars

\* Threads that can take a step do, time passes, and the supervisor restarts
\* an instance that died.  No client has to act, and nothing has to fail.
Fairness ==
    /\ \A c \in Call : WF_vars(CallStep(c))
    /\ \A q \in Request : WF_vars(RequestStep(q))
    /\ WF_vars(Tick)
    /\ \A i \in Instance : WF_vars(MaintenanceStep(i)) /\ WF_vars(Restart(i))

FairSpec == Spec /\ Fairness

-----------------------------------------------------------------------------
(* Who works on a run.                                                     *)

\* The generator has the run to itself: from open_run, or from winning the
\* approval, until it ends the run, pauses it or gives up.
DrivingPC ==
    {"opened", "started", "user", "user_failed", "register", "prepare", "enter", "drive",
     "cancel", "cancel_cas", "pause", "finalize"}

Drives(c) == pc[c] \in DrivingPC

\* It executes the run and its pump has been submitted.
Works(c) ==
    /\ Drives(c) /\ pc[c] \notin {"opened", "started"}
    /\ status[call[c].target] = "running"

\* Nothing is going on about r any more.
Quiet(r) ==
    /\ \A c \in Call : r \in {call[c].log, call[c].target} => pc[c] = "done"
    /\ \A q \in Request : req[q].run = r => rpc[q] \in {"acked", "done"}

-----------------------------------------------------------------------------
(* Safety.                                                                 *)

\* Two generators never drive the same run, however many approvals,
\* interrupts, sweeps and restarts meet: the graph of a conversation is not
\* resumed twice for one approval (RunService.resume, try_transition).
OneDriver ==
    \A c, d \in Call :
        Drives(c) /\ Drives(d) /\ call[c].target = call[d].target => c = d

\* An answer is in the transcript exactly when its run is completed: none for
\* a run ended from outside, none missing, never two (commit_agent_answer).
AnswerIffCompleted ==
    \A r \in Run : answers[r] = IF status[r] = "completed" THEN 1 ELSE 0

\* A sweep, of a maintenance loop or at boot, leaves every run alone whose
\* worker is alive (reconcile_orphan_runs).
LiveRunKept ==
    [][(\E i \in Instance : Reconcile(i) \/ Restart(i)) =>
           \A c \in Call : Works(c) => status'[call[c].target] = "running"]_vars

\* The reason: its heartbeat is younger than the threshold (heartbeat_runs).
LiveRunNotStale ==
    \A c \in Call : Works(c) => age[call[c].target] < StaleAge

\* A run whose worker is alive is in _active of the instance that runs it.
LiveRunActive ==
    \A c \in Call : Works(c) => call[c].target \in active[call[c].at]

\* _active holds only runs some pump of the instance still has: a leaked id
\* would be heartbeated for ever and an orphan would never be swept.
NoLeakedHeartbeat ==
    \A i \in Instance : \A r \in active[i] :
        \E c \in Call : call[c].at = i /\ call[c].log = r /\ pc[c] \notin {"idle", "done"}

\* The log of a run has at most one terminal event, whoever ends the run.
OneTerminalEvent == \A r \in Run : terminals[r] <= 1

\* A terminal event is never in the log of a run that goes on: a stream that
\* stops at it has missed nothing.
TerminalEventMeansEnded ==
    \A r \in Run : terminals[r] > 0 => status[r] \in EndStatuses

\* A conversation on which nothing is going on can take the next message: its
\* graph has no tool calls without results.
ConversationUsable ==
    \A t \in Thread :
        (\A r \in Run : ThreadOf[r] = t => status[r] \notin ActiveStatuses /\ Quiet(r))
        => t \notin dangling

\* A run that has ended never becomes active again, or ends differently.
EndedStays ==
    [][\A r \in Run : status[r] \in EndStatuses => status'[r] = status[r]]_vars

\* The lifecycle implements RunContract.  With REQUIRE_APPROVAL only
\* completed and rejected are final: Pause does not look at the old status.
FinalStatuses == IF RequireApproval THEN {"completed", "rejected"} ELSE EndStatuses

Contract == INSTANCE RunContract WITH Final <- FinalStatuses

ImplementsContract == Contract!Spec

-----------------------------------------------------------------------------
(* Liveness, under FairSpec.                                               *)

\* A run does not stay running: its worker ends it or pauses it, and when the
\* worker is gone a sweep ends it.
RunSettles == \A r \in Run : status[r] = "running" ~> status[r] # "running"
=============================================================================
