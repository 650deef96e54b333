------------------------------ MODULE ToolTurn ------------------------------
(***************************************************************************)
(* The tools of a conversation: which of them run, what the user is shown  *)
(* of them, what the model remembers of them and what it may cite.  Three  *)
(* stores take part, none of which is written together with another: the   *)
(* status of the run, the tool cells of the transcript and the messages of *)
(* the graph (RunService, ReActAgent).  RunLifecycle has the races between *)
(* servers and the crashes; here one server runs the turns of one          *)
(* conversation, requests arrive twice, late and out of date, and a thread *)
(* may fail with its work half done.                                       *)
(*                                                                         *)
(* A stop finds a worker by the Event of its run in _cancels.  The Event   *)
(* is missing after a decision has won and before it has put one there     *)
(* (run_service.py:286-288), and after the generator that asked for the    *)
(* approval has removed the one which the decision kept (430).  A stop     *)
(* that comes then ends the row under the worker; a sweep may do the same  *)
(* to a run that has waited.  Two threads may then drive one graph, which  *)
(* LangGraph makes no promise about: `cut` says that it has happened, and  *)
(* what the stores hold from then on is not claimed to agree.              *)
(*                                                                         *)
(* A tool call is a member of Call, and returns the citation it is named   *)
(* after; Foreign is a citation of another conversation, which the model   *)
(* may guess.  LangGraph is modelled from how the code uses it.            *)
(***************************************************************************)
EXTENDS Naturals, Sequences, FiniteSets

CONSTANTS
    Call, Foreign,
    Gate,           \* REQUIRE_APPROVAL
    MaxTurns,       \* bound: questions asked in the conversation
    MaxWorkers      \* bound: questions, decisions and stops together

ASSUME ToolTurnAssumption ==
    Foreign \notin Call /\ Gate \in BOOLEAN /\ {MaxTurns, MaxWorkers} \subseteq Nat

VARIABLES
    status,     \* the status of the run of each turn
    cells,      \* per call: the turn of its tool cell (0: none), approval_state, tool_result
    graph,      \* the messages of the checkpoint: [kind, of], of being calls or citations
    workers,    \* the threads at work: pumps of questions and decisions, handlers of stops
    flagged,    \* _cancels: the turns whose run has an Event
    stopping,   \* the turns whose Event is set
    linked,     \* message_citations: what the answers of the conversation cite
    shown,      \* the approvals requested of the user: sets of calls
    granted,    \* history: the calls a decision of the user covers
    executed,   \* history: the calls that were run
    blamed,     \* history: the citations taken for forged
    failed,     \* history: what a failure has left undone, in the graph or the cells
    cut         \* history: a run was ended by another thread than the one that drives it

stores == <<status, cells, graph>>
flags == <<flagged, stopping>>
history == <<shown, granted, executed, blamed, failed, cut>>
vars == <<stores, workers, flags, linked, history>>

Turn == 1..MaxTurns
Citation == Call \cup {Foreign}
Active == {"running", "awaiting"}
\* Where a thread is that drives the run of its turn.
Driving == {"user", "agent", "insert", "gate", "tools", "final",
            "flag", "trim", "mark cells", "drive"}
Place == Driving \cup {"mark", "pop", "check", "read", "cas", "cells", "clear", "end", "done"}

TypeOK ==
    /\ Len(status) <= MaxTurns
    /\ \A t \in DOMAIN status :
           status[t] \in Active \cup {"completed", "rejected", "interrupted", "error"}
    /\ cells \in [Call -> [turn : 0..MaxTurns,
                           approval : {"none", "pending", "approved", "rejected"},
                           result : {"none", "result", "refused", "marker"}]]
    /\ \A i \in DOMAIN graph : graph[i] \in
           [kind : {"human", "calls", "tools", "answer"}, of : SUBSET Citation]
    /\ Len(workers) <= MaxWorkers
    /\ \A w \in DOMAIN workers : workers[w] \in
           [at : Place, turn : 0..MaxTurns, whole : BOOLEAN,
            ids : SUBSET Citation, frozen : SUBSET Call, heeds : BOOLEAN]
    /\ flagged \subseteq Turn /\ stopping \subseteq Turn
    /\ linked \subseteq Citation /\ blamed \subseteq Citation
    /\ shown \subseteq SUBSET Call
    /\ granted \subseteq Call /\ executed \subseteq Call
    /\ failed \subseteq {"graph", "cells"} /\ cut \in BOOLEAN

Init ==
    /\ status = <<>>
    /\ cells = [c \in Call |-> [turn |-> 0, approval |-> "none", result |-> "none"]]
    /\ graph = <<>> /\ workers = <<>>
    /\ flagged = {} /\ stopping = {} /\ linked = {} /\ shown = {}
    /\ granted = {} /\ executed = {} /\ blamed = {} /\ failed = {} /\ cut = FALSE

-----------------------------------------------------------------------------
(* The transcript and the checkpoint.                                      *)

\* get_pending_tool_calls: the cells of the turn's run that have no result.
Pending(t) == {c \in Call : cells[c].turn = t /\ cells[c].result = "none"}

\* set_pending_approval.
Approval(t, state) ==
    [c \in Call |-> IF c \in Pending(t) THEN [cells[c] EXCEPT !.approval = state] ELSE cells[c]]

\* Mutant: the cells stay as they are.
Resolved_Never(cs, t, marker) == cs

\* resolve_orphan_tool_cells: no cell of the run stays without a result.
Resolved(cs, t, marker) ==
    [c \in Call |-> IF cs[c].turn = t /\ cs[c].result = "none"
                    THEN [cs[c] EXCEPT !.result = marker] ELSE cs[c]]

\* The statuses of the active run, if there is one.
ActiveTurn == {t \in DOMAIN status : status[t] \in Active}
Awaiting == {t \in DOMAIN status : status[t] = "awaiting"}

Say(kind, of) == Append(graph, [kind |-> kind, of |-> of])

OfKind(g, kind) == {i \in DOMAIN g : g[i].kind = kind}

Last(S) == CHOOSE i \in S : \A j \in S : j <= i

Answered(g, i) == i < Len(g) /\ g[i + 1].kind = "tools"

\* INVALID_CHAT_HISTORY: a tool call without its result, unless it comes last
\* and the tools are about to run.
Dangling(g) == {i \in OfKind(g, "calls") : ~ Answered(g, i)}

\* next = ('tools',): the calls the graph is about to run.
Open(g) == IF g # <<>> /\ g[Len(g)].kind = "calls" THEN g[Len(g)].of ELSE {}

\* What the model has before it: results, and the citations of earlier answers.
Context == UNION {graph[i].of : i \in OfKind(graph, "tools") \cup OfKind(graph, "answer")}

\* Mutant: the message stays.
WithoutLastCalls_Kept(g) == g

\* reject_pending: the last message with tool calls is removed.
WithoutLastCalls(g) ==
    LET calls == OfKind(g, "calls")
    IN  IF calls = {} THEN g
        ELSE SubSeq(g, 1, Last(calls) - 1) \o SubSeq(g, Last(calls) + 1, Len(g))

\* Mutant: the question and the calls of the stopped turn are kept.
Cleared_KeepsAll(g) == g

\* The messages of these kinds among the first n.
Kept(g, n, kinds) ==
    LET kept[i \in 0..n] ==
            IF i = 0 THEN <<>>
            ELSE IF g[i].kind \in kinds THEN Append(kept[i - 1], g[i]) ELSE kept[i - 1]
    IN  kept[n]

\* clear_interrupted_tools: what comes after the last answer goes, and the tools of
\* the answered turns with it; with no answer, the first question stays.
Cleared(g) ==
    LET answers   == OfKind(g, "answer")
        questions == OfKind(g, "human")
        prefix    == IF answers = {} THEN <<>> ELSE Kept(g, Last(answers), {"human", "answer"})
    IN  IF OfKind(g, "calls") = {} THEN g
        ELSE IF prefix # <<>> THEN prefix
        ELSE IF questions = {} THEN g
        ELSE <<g[CHOOSE i \in questions : \A j \in questions : i <= j]>>

-----------------------------------------------------------------------------
(* Threads.                                                                *)

\* heeds: its generator holds the Event of the run.
Thread(at, turn, whole, ids) ==
    [at |-> at, turn |-> turn, whole |-> whole, ids |-> ids, frozen |-> {}, heeds |-> at = "user"]

Spawn(w) == Len(workers) < MaxWorkers /\ workers' = Append(workers, w)

At(w, pc) == w \in DOMAIN workers /\ workers[w].at = pc

Go(w, pc) == workers' = [workers EXCEPT ![w].at = pc]

To(t, s) == status' = [status EXCEPT ![t] = s]

\* cancel.is_set(), at a chunk.
Told(w) == workers[w].heeds /\ workers[w].turn \in stopping

\* The end of _drive, with the run's: nobody looks at its Event any more.
Forget(t) == flagged' = flagged \ {t} /\ stopping' = stopping \ {t}

\* A thread drives the run of t.
Driven(t) == \E w \in DOMAIN workers : workers[w].turn = t /\ workers[w].at \in Driving

\* The run of t was approved: its cells say so, or a thread is about to mark them.
Approved(t) ==
    \/ \E c \in Call : cells[c].turn = t /\ cells[c].approval # "none"
    \/ \E w \in DOMAIN workers : workers[w].turn = t /\ workers[w].at \in {"flag", "trim", "mark cells"}

\* Calls the model has not made yet.
Fresh ==
    {c \in Call : /\ cells[c].turn = 0
                  /\ \A i \in DOMAIN graph : c \notin graph[i].of
                  /\ \A w \in DOMAIN workers : workers[w].at = "insert" => c \notin workers[w].ids}

\* Mutant: the run gets no Event.
Post_NoEvent ==
    /\ Len(status) < MaxTurns /\ ActiveTurn = {}
    /\ status' = Append(status, "running")
    /\ Spawn(Thread("user", Len(status) + 1, FALSE, {}))
    /\ UNCHANGED <<cells, graph, flags, linked, history>>

\* POST /threads/{id}/messages and open_run, whose index allows one active run. Its
\* Event is there before anybody learns the id of the run.
Post ==
    /\ Len(status) < MaxTurns /\ ActiveTurn = {}
    /\ status' = Append(status, "running")
    /\ Spawn(Thread("user", Len(status) + 1, FALSE, {}))
    /\ flagged' = flagged \cup {Len(status) + 1}
    /\ UNCHANGED <<cells, graph, stopping, linked, history>>

\* agent.stream: the question enters the graph.
Ask(w) ==
    /\ At(w, "user")
    /\ graph' = Say("human", {})
    /\ Go(w, "agent")
    /\ UNCHANGED <<status, cells, flags, linked, history>>

\* The model calls tools, and the checkpoint has the message.
CallTools(w) ==
    /\ At(w, "agent") /\ Dangling(graph) = {} /\ ~ Told(w)
    /\ \E calls \in SUBSET Fresh :
           /\ calls # {}
           /\ graph' = Say("calls", calls)
           /\ workers' = [workers EXCEPT ![w].at = "insert", ![w].ids = calls]
    /\ UNCHANGED <<status, cells, flags, linked, history>>

\* Each of them gets its cell, one after the other. Then the graph pauses, or the
\* tools run.
AddCell(w) ==
    /\ At(w, "insert")
    /\ \E c \in workers[w].ids :
           /\ cells[c].turn = 0
           /\ cells' = [cells EXCEPT ![c].turn = workers[w].turn]
           /\ IF \E d \in workers[w].ids \ {c} : cells[d].turn = 0
              THEN UNCHANGED <<workers, executed>>
              ELSE /\ Go(w, IF Gate THEN "gate" ELSE "tools")
                   /\ executed' = IF Gate THEN executed ELSE executed \cup workers[w].ids
    /\ UNCHANGED <<status, graph, flags, linked, shown, granted, blamed, failed, cut>>

\* The interrupt of the gate: the status, whatever it was, unless the index forbids it.
AskApproval(w) ==
    /\ At(w, "gate") /\ ~ Told(w)
    /\ LET t == workers[w].turn IN
       IF ActiveTurn \subseteq {t}
       THEN To(t, "awaiting") /\ Go(w, "mark") /\ UNCHANGED flags
       ELSE UNCHANGED status /\ Go(w, "done") /\ Forget(t)
    /\ UNCHANGED <<cells, graph, linked, history>>

\* Then the cells, which are shown.
MarkPending(w) ==
    /\ At(w, "mark")
    /\ cells' = Approval(workers[w].turn, "pending")
    /\ shown' = shown \cup {Pending(workers[w].turn)}
    /\ Go(w, "pop")
    /\ UNCHANGED <<status, graph, flags, linked, granted, executed, blamed, failed, cut>>

\* The finally of _drive: the Event goes, its own or the one a decision has kept.
PopFlag(w) ==
    /\ At(w, "pop")
    /\ flagged' = flagged \ {workers[w].turn}
    /\ Go(w, "done")
    /\ UNCHANGED <<stores, stopping, linked, history>>

\* A tool returns: _handle_message fills its cell and freezes its citation.
ToolReturns(w) ==
    /\ At(w, "tools") /\ ~ Told(w)
    /\ \E c \in (workers[w].ids \cap Call) \ workers[w].frozen :
           /\ cells' = IF cells[c].turn = workers[w].turn
                       THEN [cells EXCEPT ![c].result = "result"] ELSE cells
           /\ workers' = [workers EXCEPT ![w].frozen = @ \cup {c}]
    /\ UNCHANGED <<status, graph, flags, linked, history>>

\* All have returned: their results enter the checkpoint together.
ToolsDone(w) ==
    /\ At(w, "tools") /\ workers[w].ids \subseteq workers[w].frozen
    /\ graph' = Say("tools", workers[w].ids)
    /\ Go(w, "agent")
    /\ UNCHANGED <<status, cells, flags, linked, history>>

\* The model answers, citing nothing, something it was given, or a guess.
Draft(w) ==
    /\ At(w, "agent") /\ Dangling(graph) = {} /\ ~ Told(w)
    /\ \E cites \in {{}} \cup {{c} : c \in Context \cup {Foreign}} :
           /\ graph' = Say("answer", cites)
           /\ workers' = [workers EXCEPT ![w].at = "final", ![w].ids = cites]
    /\ UNCHANGED <<status, cells, flags, linked, history>>

\* Mutant: any citation in the table will do, another conversation's too.
Valid_Anywhere(w) == Citation

\* What an answer may cite: what this worker froze, and what earlier answers cite.
Valid(w) == workers[w].frozen \cup linked

\* _finalize: the check for forged citations, then commit_agent_answer.
Finalize(w) ==
    /\ At(w, "final")
    /\ LET t == workers[w].turn
           forged == workers[w].ids \ Valid(w)
       IN  /\ IF status[t] # "running"
              THEN UNCHANGED <<status, linked, blamed>>
              ELSE IF forged # {}
              THEN To(t, "error") /\ blamed' = blamed \cup forged /\ UNCHANGED linked
              ELSE To(t, "completed") /\ linked' = linked \cup workers[w].ids /\ UNCHANGED blamed
           /\ Forget(t)
    /\ Go(w, "done")
    /\ UNCHANGED <<cells, graph, shown, granted, executed, failed, cut>>

\* What the graph may hold when the stream ends at this point: a message of the
\* model's may have been committed or not.
InFlight(w) ==
    {graph} \cup CASE At(w, "agent")  -> {Say("answer", {})} \cup {Say("calls", {c}) : c \in Call}
                  [] At(w, "insert") -> {WithoutLastCalls(graph)}
                  [] OTHER           -> {}

\* The handlers of _drive end the row, unless somebody has, and then resolve the
\* cells. Either statement may fail in its turn.
Fails(t, undone) ==
    \/ UNCHANGED <<status, cells>> /\ failed' = failed \cup undone
    \/ /\ status[t] = "running" /\ To(t, "error")
       /\ \/ cells' = Resolved(cells, t, "marker") /\ failed' = failed \cup undone
          \/ UNCHANGED cells /\ failed' = failed \cup undone \cup {"cells"}

\* The set Event is seen at a chunk: the graph is cleared, which may fail, the
\* cells are resolved and the run ends, before which no other can begin.
Stopped(w) ==
    /\ \/ At(w, "agent") \/ At(w, "gate") \/ At(w, "tools")
    /\ Dangling(graph) = {} \/ ~ At(w, "agent")
    /\ Told(w)
    /\ LET t == workers[w].turn IN
       /\ \E g \in InFlight(w), undone \in {{}, {"graph"}} :
              /\ graph' = IF undone = {} THEN Cleared(g) ELSE g
              /\ \/ /\ cells' = Resolved(cells, t, "marker")
                    /\ status' = IF status[t] = "running" THEN [status EXCEPT ![t] = "interrupted"]
                                 ELSE status
                    /\ failed' = failed \cup undone
                 \/ Fails(t, undone)
       /\ Forget(t)
    /\ Go(w, "done")
    /\ UNCHANGED <<linked, shown, granted, executed, blamed, cut>>

\* The stream raises or a statement at one of its chunks does: the model or a tool
\* fails, the history is invalid, the question, a cell or an event is not stored
\* (for an event the generator is closed). Nothing is taken out of the graph. What
\* fails before _drive leaves the Event behind.
StreamFails(w) ==
    /\ workers[w].at \in {"user", "agent", "insert", "gate", "tools"}
    /\ Fails(workers[w].turn, IF At(w, "user") \/ At(w, "agent") THEN {} ELSE {"graph"})
    /\ graph' \in IF At(w, "insert") THEN InFlight(w) ELSE {graph}
    /\ Forget(workers[w].turn) \/ (At(w, "user") /\ UNCHANGED flags)
    /\ Go(w, "done")
    /\ UNCHANGED <<linked, shown, granted, executed, blamed, cut>>

\* A statement fails while the run is being paused, or the event that shows the
\* calls is not stored. A decision may have made the run running again.
PauseFails(w) ==
    /\ At(w, "mark") \/ At(w, "pop")
    /\ Fails(workers[w].turn, {})
    /\ cut' = (cut \/ (status' # status /\ Driven(workers[w].turn)))
    /\ Go(w, "pop")
    /\ UNCHANGED <<graph, flags, linked, shown, granted, executed, blamed>>

\* A statement fails outside of _drive's except: in resume, before _drive, or in
\* _finalize, after it. The run is left running, with nobody to drive it.
WorkerDies(w) ==
    /\ workers[w].at \in {"trim", "mark cells", "drive", "final"}
    /\ IF At(w, "final") THEN Forget(workers[w].turn) /\ UNCHANGED failed
       ELSE UNCHANGED flags /\ failed' = failed \cup {"graph"}
    /\ Go(w, "done")
    /\ UNCHANGED <<stores, linked, shown, granted, executed, blamed, cut>>

\* timeout_stale_runs and reconcile_orphan_runs end a run without heartbeats: nobody
\* drives it, or it was approved after a wait and has had none yet.
Sweep(t) ==
    /\ status[t] = "running"
    /\ Driven(t) => Approved(t)
    /\ To(t, "error")
    /\ cells' = Resolved(cells, t, "marker")
    /\ cut' = (cut \/ Driven(t))
    /\ UNCHANGED <<graph, workers, flags, linked, shown, granted, executed, blamed, failed>>

-----------------------------------------------------------------------------
(* Decisions and stops.                                                    *)

\* The user decides about tools shown, now or long ago: all of them, no list
\* being sent then, or a list, the empty one standing for a rejection.
Decide ==
    \E calls \in shown : \E ids \in SUBSET calls :
        /\ Spawn(Thread("check", 0, ids = calls, ids))
        /\ granted' = granted \cup ids
        /\ UNCHANGED <<stores, flags, linked, shown, executed, blamed, failed, cut>>

\* POST /threads/{id}/approve and RunManager.resume: 409 if no run waits, 422 if
\* none of the tools listed does.
CheckDecision(w) ==
    /\ At(w, "check")
    /\ LET listed == ~ workers[w].whole /\ workers[w].ids # {}
       IN  Go(w, IF \E t \in Awaiting : listed => workers[w].ids \cap Pending(t) # {}
                 THEN "read" ELSE "done")
    /\ UNCHANGED <<stores, flags, linked, history>>

\* RunService.resume: the run that waits, and the tools of it that are approved.
ReadPending(w) ==
    /\ At(w, "read")
    /\ IF Awaiting = {} THEN Go(w, "done")
       ELSE \E t \in Awaiting : workers' =
                [workers EXCEPT ![w].at = "cas", ![w].turn = t,
                     ![w].ids = IF workers[w].whole THEN {} ELSE @ \cap Pending(t)]
    /\ UNCHANGED <<stores, flags, linked, history>>

\* Its compare-and-set, by which one of several decisions goes on.
Win(w) ==
    /\ At(w, "cas")
    /\ LET t == workers[w].turn
           reject == ~ workers[w].whole /\ workers[w].ids = {}
       IN  IF status[t] # "awaiting"
           THEN Go(w, "done") /\ UNCHANGED <<status, granted>>
           ELSE /\ To(t, IF reject THEN "rejected" ELSE "running")
                /\ Go(w, IF reject THEN "cells" ELSE "flag")
                \* An approval without a list is for whatever waits.
                /\ granted' = IF workers[w].whole THEN granted \cup Pending(t) ELSE granted
    /\ UNCHANGED <<cells, graph, flags, linked, shown, executed, blamed, failed, cut>>

\* setdefault: an Event that is still there is kept, set or not.
SetDefault(w) ==
    /\ At(w, "flag")
    /\ LET t == workers[w].turn
       IN  /\ flagged' = flagged \cup {t}
           /\ stopping' = IF t \in flagged THEN stopping ELSE stopping \ {t}
    /\ Go(w, IF workers[w].whole THEN "mark cells" ELSE "trim")
    /\ UNCHANGED <<stores, linked, history>>

\* Mutant: the calls that were not approved stay in the message.
Trimmed_All(g, approved) == g

\* approve_partial: the last message with tool calls keeps the approved ones, and
\* goes if there are none.
Trimmed(g, approved) ==
    LET calls == OfKind(g, "calls")
        kept  == g[Last(calls)].of \cap approved
    IN  IF calls = {} THEN g
        ELSE IF kept = {} THEN WithoutLastCalls(g)
        ELSE [g EXCEPT ![Last(calls)].of = kept]

\* ids becomes the calls that were refused.
Trim(w) ==
    /\ At(w, "trim")
    /\ graph' = Trimmed(graph, workers[w].ids)
    /\ LET calls == OfKind(graph, "calls")
       IN  workers' = [workers EXCEPT ![w].at = "mark cells",
               ![w].ids = IF calls = {} THEN {} ELSE graph[Last(calls)].of \ @]
    /\ UNCHANGED <<status, cells, flags, linked, history>>

\* Mutant: the cells of refused calls are left without a result.
PartiallyApproved_NoMarker(t, refused) == Approval(t, "approved")

\* Mutant: the state is written where the marker goes.
PartiallyApproved_StateAsMarker(t, refused) ==
    [c \in Call |-> IF cells[c].turn = t /\ c \in refused
                    THEN [cells[c] EXCEPT !.result = "rejected"] ELSE cells[c]]

\* mark_partial_approval, in one transaction.
PartiallyApproved(t, refused) ==
    [c \in Call |->
        IF cells[c].turn = t /\ c \in refused
        THEN [cells[c] EXCEPT !.approval = "rejected", !.result = "refused"]
        ELSE IF c \in Pending(t) THEN [cells[c] EXCEPT !.approval = "approved"]
        ELSE cells[c]]

MarkDecided(w) ==
    /\ At(w, "mark cells")
    /\ LET t == workers[w].turn
       IN  cells' = IF workers[w].whole THEN Approval(t, "approved")
                    ELSE PartiallyApproved(t, workers[w].ids)
    /\ Go(w, "drive")
    /\ UNCHANGED <<status, graph, flags, linked, history>>

\* _drive takes the Event, if there is one, and agent.resume runs the tools, unless
\* there is nothing to resume: then the answer is made of an empty draft.
Drive(w) ==
    /\ At(w, "drive")
    /\ executed' = executed \cup Open(graph)
    /\ workers' = [workers EXCEPT ![w].at = IF Open(graph) = {} THEN "final" ELSE "tools",
                                  ![w].ids = Open(graph),
                                  ![w].heeds = workers[w].turn \in flagged]
    /\ UNCHANGED <<stores, flags, linked, shown, granted, blamed, failed, cut>>

\* A rejection, and the stop of a run that waits, after their compare-and-set:
\* the cells, then the graph (_clear_rejected_graph).
CloseCells(w) ==
    /\ At(w, "cells")
    /\ cells' = Resolved(Approval(workers[w].turn, "rejected"), workers[w].turn,
                         IF status[workers[w].turn] = "rejected" THEN "refused" ELSE "marker")
    /\ Go(w, "clear")
    /\ UNCHANGED <<status, graph, flags, linked, history>>

RejectPending(w) ==
    /\ At(w, "clear")
    /\ graph' = WithoutLastCalls(graph)
    /\ Go(w, "done")
    /\ UNCHANGED <<status, cells, flags, linked, history>>

\* One of these statements fails.
CleanupFails(w) ==
    /\ \/ At(w, "cells") /\ failed' = failed \cup {"graph", "cells"}
       \/ At(w, "clear") /\ failed' = failed \cup {"graph"}
    /\ Go(w, "done")
    /\ UNCHANGED <<stores, flags, linked, shown, granted, executed, blamed, cut>>

\* POST /runs/{id}/interrupt. The status was read before, and may be out of date: a run
\* that waits was running once. request_cancel sets the Event of the run, or finds none.
Stop(t) ==
    \/ /\ t \in flagged
       /\ stopping' = stopping \cup {t}
       /\ UNCHANGED <<stores, workers, flagged, linked, history>>
    \/ /\ t \notin flagged /\ status[t] \in Active
       /\ Spawn(Thread("end", t, FALSE, {}))
       /\ UNCHANGED <<stores, flags, linked, history>>
    \/ /\ status[t] = "awaiting"
       /\ To(t, "interrupted")
       /\ Spawn(Thread("cells", t, FALSE, {}))
       /\ UNCHANGED <<cells, graph, flags, linked, history>>

\* The stop that found no Event ends the row, which is all it does.
EndRow(w) ==
    /\ At(w, "end")
    /\ LET t == workers[w].turn
       IN  IF status[t] # "running" THEN UNCHANGED <<status, failed, cut>>
           ELSE /\ To(t, "interrupted")
                /\ failed' = IF Pending(t) = {} THEN failed ELSE failed \cup {"cells"}
                /\ cut' = (cut \/ Driven(t))
    /\ Go(w, "done")
    /\ UNCHANGED <<cells, graph, flags, linked, shown, granted, executed, blamed>>

Step(w) ==
    \/ Ask(w) \/ CallTools(w) \/ AddCell(w) \/ AskApproval(w) \/ MarkPending(w) \/ PopFlag(w)
    \/ ToolReturns(w) \/ ToolsDone(w) \/ Draft(w) \/ Finalize(w)
    \/ Stopped(w) \/ StreamFails(w) \/ PauseFails(w) \/ WorkerDies(w)
    \/ CheckDecision(w) \/ ReadPending(w) \/ Win(w) \/ SetDefault(w)
    \/ Trim(w) \/ MarkDecided(w) \/ Drive(w)
    \/ CloseCells(w) \/ RejectPending(w) \/ CleanupFails(w) \/ EndRow(w)

Next ==
    \/ Post \/ Decide
    \/ \E t \in DOMAIN status : Stop(t) \/ Sweep(t)
    \/ \E w \in DOMAIN workers : Step(w)

Spec == Init /\ [][Next]_vars

-----------------------------------------------------------------------------
\* No tool runs that no decision of the user covers, whatever decisions cross:
\* duplicates, lists that are out of date, a stop (RunService.resume,
\* ReActAgent.approve_partial).
OnlyApprovedRun == Gate /\ ~ cut => executed \subseteq granted

\* The user decides about what would run: while a run waits, its cells without
\* a result are the calls the graph is paused at (get_pending_tool_calls).
PendingIsOpen == ~ cut => \A t \in Awaiting : Pending(t) = Open(graph)

\* A cell tells what happened: a tool that was refused did not run, and when a
\* turn has ended and no thread is at work on it, every cell has a result, unless
\* the clean-up failed or a stop found a run that had lost its worker.
CellsTell == ~ cut =>
    /\ \A c \in Call : cells[c].result = "refused" => c \notin executed
    /\ \A t \in DOMAIN status :
           (/\ "cells" \notin failed /\ status[t] \notin Active
            /\ \A w \in DOMAIN workers : workers[w].turn = t => workers[w].at = "done")
           => Pending(t) = {}

\* The conversation goes on: when no thread is at work and no run waits, the
\* graph takes another question: every call has its results and every result
\* its call, unless a failure left a clean-up undone (reject_pending,
\* clear_interrupted_tools, approve_partial).
Conversable ==
    (/\ ~ cut /\ "graph" \notin failed /\ Awaiting = {}
     /\ \A w \in DOMAIN workers : workers[w].at = "done") =>
        /\ Dangling(graph) = {}
        /\ \A i \in OfKind(graph, "tools") : i > 1 /\ graph[i - 1] = [graph[i] EXCEPT !.kind = "calls"]

\* An answer cites nothing but what a tool of this conversation returned (_finalize),
\* and whoever else ended the run, a tool that ran.
AnswersGrounded ==
    /\ linked \subseteq executed
    /\ ~ cut => \A c \in linked : cells[c].result = "result"

\* A citation a tool of this conversation returned is not taken for forged.
NoFalseForgery == blamed \cap executed = {}

\* On one server nobody ends a run under its worker but in the wake of an approval: a
\* stop finds the Event of any other (request_cancel, _drive), a sweep its heartbeats.
OnlyApprovedCut ==
    [][~ cut /\ cut' => \E t \in DOMAIN status : status[t] = "running" /\ status'[t] # "running" /\ Approved(t)]_vars
=============================================================================
