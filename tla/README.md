# TLA+ models of the conversation backend

The repository is a chat service over Korean statutes: a browser client, a
FastAPI backend that keeps conversations in Postgres, and a LangGraph agent that
calls retrieval tools and, when `REQUIRE_APPROVAL` is set, waits for a human
before it does.  This directory holds TLA+ models of the parts whose behaviour
depends on timing, the TLC configurations that check them on small instances,
and proofs checked by TLAPS.

Everything is translated from the code in `src/`; `PROJECT.json` maps each
definition to its lines, and lists the runs, the mutants (one plausible bug for
each property, which TLC must find), the findings, the hazards and the theorems.

## 1. Inventory

| Component | State | Operations | Correct when |
|---|---|---|---|
| **Run lifecycle**: `run_service.py`, `run_manager.py`, `repositories/conversation.py` (runs, messages), migrations 0001, 0003, 0005 | `runs.status`, `runs.heartbeat_at`; per server `_active`, `_cancels`; per run a generator and a pump thread | `run`, `resume`, `_drive`, `_finalize`; `start`, `resume`, `interrupt`, the pump; `heartbeat_runs`, `reconcile_orphan_runs`; boot | one active run per conversation; one generator per run; an answer exactly when completed; an ended run stays ended; a dead server's run is ended, a live one's is not |
| **Event log and stream**: `run_manager.stream`, `append_run_event`, `next_seq`, `get_run_events_after`, `gc_run_events`, migrations 0004, 0007 | `run_events`, `threads.last_seq`; a cursor per connection | append, poll, replay after a reconnect, synthesised terminal events, garbage collection | events arrive in order, none skipped, and every stream ends when its run has |
| **Transcript and forks**: `get_thread_messages`, `fork_thread`, `RunService.fork`, `delete_thread` | `threads` (fork parent and fork point), `messages` | add a message, fork, delete, read the visible chain | a fork sees its ancestors' messages up to the fork point, for ever, in order |
| **Tool turn and approvals**: `_handle_message`, `_finalize`, `agent.py` (`approve_partial`, `reject_pending`, `clear_interrupted_tools`) | tool cells with approval state and result; the graph's message list; frozen citations | call, approve all or some, reject, interrupt, freeze, verify citations | only approved tools run; cells agree with the graph; a genuine citation is accepted |
| **Chat client**: `sse.ts`, `ChatPage.svelte`, `message-store.svelte.ts` | `threadId`, `activeRunId`, `maxSeq`; `busy`, `awaiting`, `interrupting`; one queue per EventSource | send, approve, interrupt, switch conversation | every event is shown once; the composer is locked exactly while a run is under way |
| Agent configuration, LLM, prompts, tracing | none that a run depends on | | not modelled |
| **Statute index**: `ingest_law`, `LawGoClient`, `parse_law_service`, `split_windows`, `ids.py`, `QdrantVector`, `FusekiGraph`, `RemoteEmbedding`, `RetrievalService`, `search_legal`, `freeze_citation` | points in Qdrant, named graphs in Fuseki, `citations` in Postgres | ingest a statute in steps, demote old versions, search, freeze a citation | after an undisturbed ingest only its version is current and every character of it can be found; the statute never vanishes meanwhile; a citation keeps the text that was read |
| Delegation between statutes: `delegation_build.py`, `expand` | a named graph per base statute | replace, read | not modelled |
| Wiring, pool, migrations, deployment, user interface | | | not modelled |

**How they interact.**  `POST /threads/{id}/messages` opens a run, pulls the first
event of the generator and submits a pump thread.  The pump iterates the generator,
which drives the graph, writes messages and tool cells, allocates a sequence number
from `threads.last_seq` for each event and yields it; the pump inserts it into
`run_events`.  `GET /runs/{id}/stream` polls that table on any server.
`POST /runs/{id}/interrupt` sets an in-memory flag when this server drives the run,
and otherwise ends the row directly.  A maintenance thread per server refreshes the
heartbeats of the runs in `_active` and ends running runs whose heartbeat is stale.
All servers share one Postgres; the pool is autocommit, so each statement outside an
explicit transaction is visible at once, and that is the grain of the models.

**What is hard.**  Two servers act on one row between any two statements of a third;
flags and sets live in one process while the rows they are about are shared; a
generator can be dropped at a yield and closed later; a failing statement ends up in
one of five handlers; heartbeats may be missed; the cleanup of the graph is keyed by
the conversation, not by the run.  A fork copies nothing and so depends on rows
that others may delete.  A turn is spread over three stores (status, tool cells, the
graph's checkpoint) that no transaction spans, and decisions about it arrive
twice or late.  The same holds of an ingest and its two stores.  `hazards` in `PROJECT.json` lists these at their lines.

## 2. Modules

| Module | What it is |
|---|---|
| `RunContract` | What the store promises about a run, without servers, threads or failures: status and answers, with one action per legal change. `Final` is the set of statuses never left. |
| `RunLifecycle` | The detailed model: the rows, the memory of each server, each generator with its pump, each interrupt request, time, crashes and failing statements. |
| `RunStream` | The event log of one run: the writers that number and insert its events, the streams that read it, what ends the run or deletes it meanwhile. |
| `ForkCopy` | What forking promises: a fork behaves as a copy of the prefix. |
| `Transcript` | The tree of conversations: messages, forks that copy nothing, deletions, summaries, on several servers. |
| `ToolTurn` | The turns of one conversation on one server: tool calls, cells, checkpoint, decisions, stops, sweeps, failures, citations. |
| `StatuteIndex` | One statute in the search index: publications, ingests, the two stores, searches, citations. |
| `MCRunLifecycle`, `MCRunStream`, `MCTranscript`, `MCToolTurn`, `MCStatuteIndex` | Symmetry and constants for TLC; the `.cfg` files give the rest. |
| `RunContractProofs`, `RunLifecycleProofs`, `RunStreamProofs`, `TranscriptProofs`, `ToolTurnProofs`, `StatuteIndexProofs` | Theorems and proofs. |

`RunLifecycle` implements `RunContract` (`ImplementsContract`, by `INSTANCE`), and `Transcript`
implements `ForkCopy` (`ImplementsForkCopy`). `RunStream` looks at
the same run from the side of its events: it keeps of the lifecycle who may write an event and when the
status changes, and lets a sweep come at any time. `ToolTurn` refines what `RunLifecycle` collapses (cells, the
graph, the decision of a resume), and leaves out what that has (several servers, crashes, time).

### RunLifecycle and the code

*State.* `status`, `age`, `answers`, `cells`, `terminals` are columns and rows:
`age` is `now() - heartbeat_at` in heartbeat periods, capped at the threshold;
`cells` is the set of tool messages of a run collapsed to none, some without a result,
all with one; `terminals` counts its `run.done` and `error` rows.  `dangling` is the
set of conversations whose LangGraph checkpoint ends in tool calls without results.
`active`, `cancels`, `raised`, `maint`, `missed`, `up` are a server's memory:
`_active`, `_cancels`, the Events that are set, and its maintenance loop.
`pc`/`call` are a generator and the pump that consumes it: `at` the server, `log` the run
the pump writes events for (chosen by `RunManager.resume`), `target` the run the
generator works on (chosen again, later, by `RunService.resume`), `node` the next node
of the graph, `token` the Event that `_drive` looked up once when it began,
`suspended` whether the pump has dropped the generator at a yield.
`rpc`/`req` are an interrupt request.

*Actions.* One per statement, named after what the statement does.
`Start … UserMessage` is `RunService.run` up to `_drive`; `Resume … CleanRejected` is
`RunService.resume`; `EnterDrive … PopEvent` is `_drive` with its `except`, its
`GeneratorExit` handler (`CloseGenerator`) and its `finally` (`PopEvent`);
`PumpFinally`, `CheckRun`, `Synthesize` are the `finally` of the pump;
`Interrupt … PushTerminal` is `RunManager.interrupt`; `Tick`, `Heartbeat`,
`MissHeartbeat`, `Reconcile` are `_maintenance_loop` and time; `Crash` and `Restart` are the
process. `StatementFails` lets any database statement of a call raise and sends control to the
handler that catches it (`Handler`); `DropEvent`, `SynthesizeFails`, `SpawnFails`,
`ClearFails` and `RequestFails` are the failures whose handling differs.

*Abstractions.* Messages have no text; the model's choice between calling tools,
answering and failing is free; the forgery check may reject any answer
(`CiteForgery`). Events other than terminal ones are not counted here.
Several statements are one action when nothing another actor reads or writes changes between
them (`Prepare`, `CleanPaused`, `CleanRejected`, `CleanCancelled`).

*Time.* `Tick` lets one heartbeat period pass; every maintenance loop that is up has its
turn before the next, or misses it because a statement raised, at most `MaxMissed`
times in a row. This is the relation the code states at `run_manager.py:40` (the
threshold is several periods so that misses are tolerated): `MaxMissed + 1 < StaleAge`.
The three statements from `open_run` to the submission of the pump are
assumed to take less than a period.

### RunStream and the code

*State.* `lastSeq` is `threads.last_seq`, `log` the rows of `run_events` of the run, `status` its
row in `runs` (`gone` once the conversation is deleted). A writer is a generator with
its pump, or a request that stops the run from elsewhere: `wpc` is where it is, `held` the event it is about to
number or to insert, `dropped` whether its generator hangs at a yield. A client is one
EventSource: `rpc` is its connection, `cursor` the last number it received (the `Last-Event-ID` it
sends when it comes back), `rows` the rows of the last poll that are still on their way, `got` all
it has received. `early` is a history variable, see below.

*Actions.* `Number` and `AppendEvent` are `next_seq` and `append_run_event`, two statements.
`Progress`, `Pause`, `End`, `CommitAnswer` are what `_drive` does between two events, `PumpFinally`,
`Synthesize`, `CloseGenerator` the end of a pump; `Stop`, `Decide` and `Claim` are requests; `Sweep`,
`CheckDeletion`, `DeleteThread`, `CollectEvents` are the maintenance loop and `DELETE /threads/{id}`.
`Connect`, `Poll`, `Deliver`, `CheckStatus`, `Disconnect` are `stream_run` and
`RunManager.stream`, whose fetch and whose look at the status are two statements.

*Abstractions.* Events have a kind and a number. A chunk of the graph yields one event; the numbers that
messages take from the same counter would only leave gaps. A writer that is finished is used
for the next. `CollectEvents` waits until no writer is at work: the retention time is a week.

### Transcript and the code

*State.* `row`, `parent`, `point`, `lastSeq` are the columns of `threads`, `messages` the rows of
questions and answers, `seed` what `fork_state` wrote into a fork's graph state. `loop` is the fork or
deletion a server's event loop is in: those handlers never await, so a server has one at a time.
`task` is a summary in the thread pool. `raced` is a history variable: the forks that were made after a deletion of
their parent had looked for forks, and the forks of these.

*Actions.* `CheckRunning`, `CheckForks`, `DeleteThread` are `DELETE /threads/{id}`; `ForkThread`,
`ForkRead`, `ForkState` are `RunService.fork`; `Summarize`/`ReadForSummary` and `AddSummary` the two ends of a
summary; `AddMessage` is the transaction that numbers and inserts; `Crash` is a server that dies, or a statement that
raises, in the middle of a handler. `Visible` is the recursive query of `get_thread_messages`.

*Abstractions.* Tool cells, titles, listing and settings are left out. A message cites a source of its own, so
the citations a conversation may use are its visible messages (`Citable`). A conversation that was deleted is not
made again (ids are random).

### ToolTurn and the code

*State.* `status` is the row of each turn's run, `cells` its tool cells, `graph` the messages of the LangGraph
checkpoint, `linked` is `message_citations`. `workers` are the threads at work on the conversation: pumps, and the
handlers of decisions and stops. `flagged` is `_cancels`, the runs that have an Event, `stopping` those whose Event is set; a
worker looks its Event up once, when `_drive` begins (`heeds`). `shown`, `granted`, `executed`, `blamed`, `failed`, `cut` are
history: what the user was shown and approved, what ran, what was called forged, what a failure has left undone
(in the graph or the cells), and whether a run was ended by another thread than the one that drives it.

*Actions.* `Post`, `Ask`, `CallTools`, `AddCell`, `AskApproval`, `MarkPending`, `PopFlag`, `ToolReturns`, `ToolsDone`, `Draft`,
`Finalize`, `Stopped` are a turn (`_drive`, `_handle_message`, `_finalize`): the checkpoint has the calls before the first of
their cells is inserted, one by one. `Decide`, `CheckDecision`, `ReadPending`, `Win`, `SetDefault`, `Trim`, `MarkDecided`, `Drive`,
`CloseCells`, `RejectPending` are a decision, from the page through the request to `RunService.resume`. `Stop` is
`RunManager.interrupt` with `request_cancel` and `interrupt_paused`, `EndRow` the branch of it that found no Event and ends the row;
`Sweep` is `reconcile_orphan_runs`. `StreamFails` is what fails at a chunk, `PauseFails` while the run is being paused, `WorkerDies`
outside of `_drive`'s `except`, `CleanupFails` in the cleanup of a rejection or a stop; in `Fails` the two statements of
the handlers may fail in their turn. `Decide` may repeat any approval that was ever
shown: a double click, a second tab, a request that was on its way while the round changed.
LangGraph is external: that it pauses before its tools, refuses a history with unanswered
calls, and may or may not have committed the node that was running when its stream is closed
(`InFlight`) is how the code uses it.

*A run ended under its worker.* An Event is missing between `try_transition` and `setdefault` of a resume
(`run_service.py:286-288`), and again when the generator that paused pops the one which `setdefault` kept (430). A stop
that comes then ends the row and nothing else, and the conversation is free while the worker goes on. A
sweep does the same to a run approved after a long wait, and so may a failing statement of the generator that paused
it (422). What two threads that drive one graph at once
leave in it is LangGraph's affair, and the code has no promise to keep: `cut` records it, and from then on the properties of
the turn claim nothing but the types, and that what answers cite has run. `OnlyApprovedCut` says how far this reaches: on
one server only a run that a decision has approved can be ended so, for the Event of any other is in its place
as long as a thread drives it.

*Abstractions.* A call is used once and returns the citation it is named after. The frozen citations of a generator are lost
with it, as in the code. Heartbeats are not modelled: a sweep may come whenever a run has no worker, or has
been approved after a wait. The rows of a server that died are those `WorkerDies` leaves.

### StatuteIndex and the code

*State.* `published` is what law.go.kr calls in force, `graphs` the named graphs in Fuseki, `points` the points in
Qdrant, `job` the ingests under way (an ingest is a process somebody starts), `hits` and `cited` the
last search and the answer written from it, `frozen` the table `citations`. `clean` and `overlap` are
history: the last ingest that ran alone and to its end, and whether ingests overlapped since.

*Actions.* `Resolve`, `PutGraph`, `Embed`, `Upsert`, `Supersede` are `ingest_law`, one per external call;
`Fail` ends it after any of them. `Search` is `search_legal` over `RetrievalService`, `Cite` the freezing of what an answer
cites, `Amend` a publication taking effect.

*Abstractions.* One statute: ids, graphs and demotion are keyed by it. A text is its publication and its
length; a window is a range of positions, so that the splitting can be checked against the whole text. Which windows
match a query best is left free. Relations between statutes are left out, with the fallback when they
cannot be read, since nothing is stored from them. A call either has its effect or has not.

## 3. Runs

| Run | Instance | Question |
|---|---|---|
| `stop_race` | 2 servers, 2 runs of one conversation, 2 calls, 1 stop | a stop on either server against workers that finish or fail (no heartbeat is missed here, so no sweep finds anything; `crash_sweep` and `recovery` have sweeps): no revival, one terminal event, only for an ended run; refinement of the contract |
| `approval` | 1 server, 1 run, 3 calls, 1 stop, approvals on | three calls start and approve the run: one driver, answers, refinement |
| `crash_sweep` | 2 servers, 1 run, 2 calls, 1 stop, 1 crash, 1 failing statement, threshold 3 with 1 miss | a sweep never ends a live worker's run, nor revives anything |
| `recovery` | 1 server, 1 run, 2 calls, approvals on, 1 crash, 2 failing statements, fair | no run stays running; `_active` does not leak; answers match completions |
| `v_revived` | 2 servers, 1 run, 1 stop, approvals on | *expected violation*, see Findings |
| `v_poisoned` | 1 server, 1 run | *expected violation*, see Findings |
| `stream` | 2 writers, 1 client, numbers to 2 while a generator works, 1 failure, fair | numbers are unique, events arrive in order, none is skipped; every open stream of an ended run closes; events of a deleted conversation are collected |
| `v_answer_lost` | 2 writers, 1 client | *expected violation*, see Findings |
| `transcript` | 3 conversations, 2 servers, numbers to 3 | forks are copies of a prefix (`ForkCopy`); numbers order what is shown; the graph state of a fork is its prefix; a summary covers what it says |
| `tool_turn` | 3 calls, 2 turns, 4 questions, decisions and stops together, approvals on, up to a cut | only approved tools run; a waiting run's cells are the calls of its graph; a cell tells what happened; the conversation can go on; answers cite what tools returned; no run is ended under its worker unless it was approved |
| `v_forged` | 3 calls, 2 turns | *expected violation*, see Findings |
| `statute_index` | 3 publications, the last two of one date, 2 articles, 2 ingests, windows of 3 that overlap by 1 | after an undisturbed ingest: only its version current, the whole text findable, its graph there; always: the statute does not vanish, citations keep what was read |

*Why these bounds are enough to be interesting.* Two servers are what makes a stop remote;
runs of different conversations do not interact (the index and the graph are per
conversation), so all runs belong to one; two runs of it are what makes the index and
the late cleanup matter. Three calls are a start and two competing approvals. Two failing
statements let a handler's own statement fail. `RecursionLimit = 2` lets the graph call tools and
come back once, and hit the limit. Servers, calls, requests and runs are
interchangeable, and symmetry is used in the runs that check no liveness
property.  `transcript` and the runs of `ToolTurn` disable the deadlock check, because their bounds
stop them: all conversations are deleted, or all turns and calls are used up. The others need not:
time always passes, a settled run can always be collected again, an ingest can always start.

In `stream`, two writers at once are a pump and a stop, or the pumps of two generators; each is used again and
again, so a run is paused, approved, stopped and swept in one behaviour. `MaxSteps` bounds
the number up to which a generator goes on working; endings take up to two numbers more
for each writer. The two liveness properties need the run without symmetry. The one failure is a server that dies, an insertion that raises or a connection that is lost.
Clients do not interact with one another, so one is enough.

In `transcript` three conversations are a chain of two forks, or two forks of one; three numbers let each
go on after the fork point; two servers are what lets a deletion overtake a fork. In `tool_turn` three calls
make a partial approval leave and refuse some, and two rounds of approval in one turn or in two; four workers are, for
instance, a question, two crossing decisions and a stop that found no Event (one that sets it needs no thread). The threads are
interchangeable too, and one that is done does nothing more; and no action asks how a run ended that was not rejected, or looks at
the Event of a run nobody works on. The runs tell states apart by a `VIEW` without these (`View`; `BriefView` of
`tool_turn` leaves out how a run ended, too). `tool_turn` stops at the states in which a run has just been cut from its worker
(`NotCut`): past them its properties say nothing but the types and that what is cited has run, which `TypesHold` and
`AnswersGroundedHolds` prove of every state. In `statute_index` the lengths give articles of no, one, two and three
windows, an exact multiple of the step among them, an article that appears and one that is dropped; three
publications let an ingest that failed be followed by one of another date, and by one of the same date with fewer
windows.

*Fairness* (`FairSpec`, used by `recovery` and `stream`). Weak fairness of each call and of each request:
these are OS threads and asyncio tasks whose every step either returns or raises (the
LLM client has a timeout, `LLM_TIMEOUT`). Weak fairness of `Tick`, of the maintenance
loop, a thread that survives exceptions, and of `Restart`: the compose file says
`restart: unless-stopped` (`src/deploy/docker-compose.app.yml`). No fairness is given to clients
(`Start`, `Resume`, `Interrupt`), to crashes or to failures.  In `stream` each writer and each
open stream goes on (a thread, and a loop that polls every quarter of a second), and the maintenance
loop collects; nobody need connect, stop, approve or delete.

## 4. Findings

Checked, each by a run that TLC must refute:

* **A stopped run comes back** (`v_revived`). `_drive` pauses a run with an unconditional
  `UPDATE` (`run_service.py:386`). A stop on another server, or a sweep, that ended the run
  since the last look is overwritten: the run waits for an approval nobody was asked to give up.
  For this reason `FinalStatuses` has all four end statuses only without approvals.
* **A failed run poisons its conversation** (`v_poisoned`). `except Exception` marks the tool
  cells of the failed run but leaves the tool calls in the graph's state; the next message of the
  conversation, and every one after it, is refused by LangGraph as an invalid history.
* **A stream ends without its answer** (`v_answer_lost`). `commit_agent_answer` completes the run
  before `message.completed` is inserted. A stream that polls in between finds no rows and a run that
  has ended, sends a `run.done` of its own (`run_manager.py:229`) and closes; the answer is
  shown only when the page is loaded again.
* **A source the agent was given is taken for forged** (`v_forged`). `_finalize` accepts what its own generator froze and
  what earlier answers link (`run_service.py:499`). A tool result of an earlier turn that no answer used is in the
  graph's memory and in the table `citations`, but in neither set; an answer that cites it is withheld and
  the run ends in error. The comment two lines above says that what an earlier turn froze is valid.

Seen while modelling, reproduced by TLC in configurations that are not kept as runs (each is
a hazard in `PROJECT.json`, with the reason why no property covers it):

* a run approved later than the threshold is stale until its first heartbeat, and
  may be swept while its worker runs (`run_service.py:286`);
* the first pump's `_active.discard` may follow the resume's `add`, after which the run is
  not heartbeated at all (`run_manager.py:153`);
* the pump of the approval that lost appends a synthetic error to the log of the run
  the winner drives (`run_manager.py:161`), which ends every open stream of it;
* the error of a failed user message is emitted whether or not the transition
  succeeded (`run_service.py:250`);
* a stop takes a run without an Event for a run without a local worker (`run_manager.py:181`). A run that was just
  approved has none until `setdefault` (`run_service.py:286-288`), and loses it again when the generator that asked for the
  approval, still on its way out, pops it (430; the comment at 428 calls that harmless). The row is ended and the worker
  goes on, as it does when the stop is made on another server: its tool cells stay without results, and the next question meets its calls;
* after such a stop the late cleanup of the worker wipes the tool calls the next run of the conversation waits
  with (`run_service.py:376`);
* a cell that cannot be inserted, or a partial approval that fails half-way, leaves the calls in the graph
  (`run_service.py:447`, `:301`), with the consequence `v_poisoned` shows;
* a stop that was acknowledged is lost when the run pauses (`run_manager.py:180`);
* `timeout_stale_approvals` is called by tests only, so a waiting run is never ended
  (`conversation.py:588`);
* a run can be approved as soon as its row says so, before `approval.requested` is in the
  log; two generators then number and insert at once, and a reader that has seen the later number skips
  the earlier one (`run_manager.py:123`). `early` records that this happened, and `NoneSkipped` excuses it;
* a stream that is open when its conversation is deleted finds neither rows nor a run, and polls
  until the client leaves (`run_manager.py:228`);
* a fork made on one server between another's look for forks and its deletion of the parent loses what it
  inherited (`app.py:273`): `raced` records these forks, and the properties of `Transcript` excuse them;
* two ingests of one statute that overlap may demote each other's points, after which no search finds the
  statute until it is ingested again (`lawgo_ingest.py:104`): `overlap`, which `NeverVanishes` excuses;
* two publications with the same effective date share their point ids, so that windows or articles which only the earlier one
  has stay current (`vector_qdrant.py:71` calls a second ingest of a version harmless): `CurrentExact` states that
  nothing else does.

## 5. Proofs

Every invariant and every action property that a passing run checks is proved, and both refinements; what is left
to TLC is liveness. `RunContractProofs` proves the contract's invariants and that final statuses are never
left, for any sets of runs and conversations that satisfy `ContractAssumption`, which `ContractGiven` shows
of `RunLifecycle`. The other modules prove, for every value of the constants (any numbers of servers, runs,
calls, requests, writers, clients, conversations, turns, publications, ingests, crashes and failures):

| Module | Theorem | Statement |
|---|---|---|
| `RunLifecycleProofs` | `TypeCorrect` | `Spec => []TypeOK` |
| | `SingleDriver` | `Spec => []OneDriver` |
| | `AnswersMatch` | `Spec => []AnswerIffCompleted` |
| | `Refinement` | `Spec => ImplementsContract` |
| | `NoLeak` | `Spec => []NoLeakedHeartbeat` |
| | `EndedRunsStay` | `~RequireApproval => (Spec => EndedStays)` |
| | `LiveActive`, `LiveNotStale` | `~RequireApproval => (Spec => []LiveRunActive)`, `… []LiveRunNotStale` |
| | `LiveKept` | `~RequireApproval => (Spec => LiveRunKept)` |
| | `EndToldOnce`, `ToldWhenEnded` | `~RequireApproval /\ MaxFaults = 0 => (Spec => []OneTerminalEvent)`, `… []TerminalEventMeansEnded` |
| `RunStreamProofs` | `StreamTypes` | `Spec => []TypeOK` |
| | `EventsUnique` | `Spec => []NumbersUnique` |
| | `DeliveredInOrder` | `Spec => []InOrder` |
| | `NothingSkipped` | `Spec => []NoneSkipped` |
| `TranscriptProofs` | `TypesHold` | `Spec => []TypeOK` |
| | `NumbersOrderHolds` | `Spec => []NumbersOrder` |
| | `ForkIsCopy` | `Spec => ImplementsForkCopy` |
| | `SeedExactHolds`, `SummaryHonestHolds` | `Spec => []SeedExact`, `… []SummaryHonest` |
| `ToolTurnProofs` | `ToolHolds`, `TypesHold` | `Spec => []Inv`, that is `Base /\ (~cut => ToolInv)`, and `… []TypeOK` |
| | `OnlyApprovedRunHolds` | `Spec => []OnlyApprovedRun` |
| | `PendingIsOpenHolds`, `CellsTellHolds` | `Spec => []PendingIsOpen`, `… []CellsTell` |
| | `ConversableHolds` | `Spec => []Conversable` |
| | `AnswersGroundedHolds`, `OnlyApprovedCutHolds` | `Spec => []AnswersGrounded`, `Spec => OnlyApprovedCut` |
| `StatuteIndexProofs` | `TypesHold` | `Spec => []TypeOK` |
| | `CurrentExactHolds`, `WholeTextHolds` | `Spec => []CurrentExact`, `… []WholeTextSearchable` |
| | `NeverVanishesHolds`, `GraphHolds` | `Spec => []NeverVanishes`, `… []PointHasGraph` |
| | `CitationHolds` | `Spec => []CitationShowsWhatWasRead` |
| | `WindowsCover` | the windows of a text of any length cover it |

*Assumptions.* `LifecycleAssumption`: each run has a conversation, `Nil` is none of the others, the bounds are
naturals and `MaxMissed + 1 < StaleAge`. `StreamAssumption`: there is a writer, the bounds are naturals.
`TranscriptAssumption`: `Nil` is no conversation, `MaxSeq` is a natural, the ranges are pairs of naturals.
`ToolTurnAssumption`: `Foreign` is no call, `Gate` is a Boolean, the bounds are naturals.
`IndexAssumption`: publications follow their dates and have a text; windows overlap by less than their size, as the constants
of `text.py` do. Where a theorem has a hypothesis besides, the code does not keep the property without it, and
section 4 says how it fails: with approvals an ended run may come back, and with approvals or failing
statements a pump may announce the end of a run that goes on, or announce it a second time.

*RunLifecycle.* `OneDriver` and `AnswerIffCompleted` are not inductive by themselves: that a
second generator cannot appear depends on the status. The strengthening, `DriverCore`, adds
`DrivenStatus`, which says that the run a generator drives is running or was ended by somebody
else, and never waits for approval, so that nobody can win an approval of it; and
`PauseGated`, which says that only a configuration with approvals pauses.
`LiveRunActive` and `LiveRunNotStale` need the accounting of time, for the configuration without approvals.
`HeartbeatInv` says that no call resumes, no run waits, and a run has one call (`NoResume`,
`NoWaiting`, `OneCall`), and `Heartbeaten`: the server of a driver is up; until its pump is submitted the
heartbeat is fresh, and from then on the run is in `_active`; its age is at most the
beats the server has missed, plus one while a turn is due.
`NoLeakedHeartbeat` says that an id in `_active` has a call that is under way; but a call is under way also after its
pump has discarded the id, while its dropped generator is closed. `PumpInv` names the part in which it still will
(`Pumping`), so that the step by which a pump leaves that part is the discard itself.
`OneTerminalEvent` and `TerminalEventMeansEnded` follow from `TellInv`: the log of a run that has not ended has no
terminal event and nobody is on the way to add one (`Untold`); a call or a request is on the way only by the transition that
ended the run, which only one of them makes; and a generator that leaves without having made it leaves
a run that has ended (`PastEnd`), for which its pump synthesizes nothing.
`Refinement` maps `status` and `answers` to themselves; each action is a step of the contract or a stutter,
the only delicate one being `Pause`, which maps to `Suspend` only because `Final` excludes
what it may overwrite.

*RunStream.* The invariant `Inv` has three parts besides the types. `NumberInv`: every number in use was handed out,
no two writers hold the same, and none is in the log. `DeliveryInv`: what a client has received lies
before its cursor, in order, and the rows on their way lie behind it. `RowsInv`: rows are on
their way only to a client that is being given them. `NumberInv` needs the one exception that the
code makes, a synthetic terminal event whose number was not handed out; it may not be
followed by another because the connection is finished.
`NoneSkipped` needs to know why a row that is inserted late is never behind a cursor. `Order` says: of all the writers
only one has an event that is not terminal, and while the run waits that is the request for approval (`SoleWriter`); when
such an event is about to be inserted, its number is ahead of the log, of every cursor and of all rows that are on their way, terminal ones
aside (`AtTheEnd`); and what an open stream has passed it has delivered, what it is about to pass it has fetched
(`NothingPassed`). A terminal event may be inserted before or after any other, but a stream that meets it
is finished. `OrderInv` is `Order` until a decision comes while `approval.requested` is on its way (`early`):
then a second generator writes, and `SoleWriter` is lost.

*Transcript.* `TreeInv` says how the rows of `threads` hang together: a conversation with a parent is there and so is its
parent (`Linked`); a message belongs to a conversation that is there and has a number that was handed out (`Numbered`); a fork
point is a message of the parent, older than the fork's own (`Pointed`); there are no cycles, that is, every set of
conversations has one whose parent is not in it (`Grounded`); and the forks of a raced conversation are raced, as are those
a deletion under way has not seen (`RacedKnown`). `Chain` is a recursive function: that its equation has a
solution is proved by giving one (`AncestorsSolve`), and facts about a whole chain by choosing, with `Grounded`, a conversation
that fails them and whose parent does not. Level by level, a fork shows its own messages and what its parent shows up to the fork
point (`ShowsIs`). `ForkIsCopy` maps each conversation to what it shows: a message or a fork is the step of
`ForkCopy` of that name, and a deletion takes nothing from another conversation, but for those in `raced`.
`SeedExact` and `SummaryHonest` add what a request has read and not yet written (`SeedInv`, `TaskInv`): the inherited
messages and no other than shown ones (`Exact`), and a range of the conversation without a gap (`Gapless`).

*ToolTurn.* The invariant has a part that always holds, `Base`, and one that holds until a run is ended under its worker, `ToolInv`.
`Base` has the types, and says that what a thread has frozen and what answers cite was run (`Honest`), which no
overlap of threads can break: `AnswersGrounded` needs nothing else past a cut. As `cut` is never reset (`CutStays`), a step that
is not one leads from `ToolInv` to `ToolInv`; a step that ends a run under a worker need not be looked at any further.
`ToolInv` says what each thread knows, at the line where it is, of the status, the cells and the graph
(`Fits`), and how threads exclude one another: one drives a turn and one answers for the calls that are open (`Single`). The
cells of a run that waits are the calls its graph is paused at, and none of them has run (`Asked`); a cell of an ended run has its
result or a thread is about to write it, unless that failed (`Ended`); calls that lack results are before the user or a thread's to
settle, unless something has failed (`Owned`). Where the handlers may fail, in `Stopped`, `StreamFails` and `PauseFails`, what
they leave of the status and the cells is one lemma (`Handled`). A history of any length is `Sound` when a question comes first, every result follows its
calls and no calls but the last lack theirs. That `Cleared`, `Trimmed` and `WithoutLastCalls` keep it so is proved
from what they keep; `Kept`, a recursive function on the prefixes of the history, is shown to exist (`KeepsExists`) and reasoned
about by the least index that would be an exception.
`OnlyApprovedCut` has an invariant of its own, `Guarded`: a run that a thread drives and nobody has approved has its Event, and no
thread of it is about to remove that or to end the row. Only a decision that has won lets a thread drive again, and once its marks
are on the cells they stay (`Stays`), so that the run counts as approved from then on.

*StatuteIndex.* The invariant, `IndexInv`, ties an ingest's step to what it has written. `Good` says of the
points that ids are unique, that a point's date is that of its publication, and that an article with a point has the one of its first
window, which citations name; upserting and demoting keep all three (`UpsertedGood`, `DemotedGood`) and lose no id.
`AloneIsAlone` makes an ingest that is alone the only one, so that what `Progress` says it has stored is still there when it demotes;
`CleanResult` is what that leaves. `Answering` says that a frozen text is of the date it is cited under. `WindowsCover` takes the first
window that reaches a position, by well-foundedness of `<`: the one before it did not reach it, so this one starts before it.

Each inductive invariant was checked by TLC on a small instance before it was proved.

*Model-checked only.* Liveness under fairness, which the prover does not reach: `RunSettles`, `StreamEnds`,
`OrphansCollected`. The properties of the four runs that expect a violation are false and have no theorem.

## 6. Not modelled

* **Chat client.** Its connection and cursor are in `RunStream`, its decisions in `ToolTurn`. The page's own state is not:
  `maxSeq` is shared by the EventSources of one run, `busy` is cleared by whichever ends first, a stop before the
  run's id is known is dropped. A module `ChatClient` would be fed by a server that sends what `RunStream` promises.
* **Delegation and relations.** `build_delegation` replaces one named graph, and skips the PUT when a statute has no
  delegated ones, so that old edges stay (`delegation_build.py:79`); `expand` reads it, and its failure only
  drops the relations from an answer.
* **Text.** Prompts, the composition of an answer with its effective dates and disclaimer, parsing of law.go.kr's JSON
  beyond the length of an article, markdown. The effective dates of citations frozen before an approval are missing from an
  answer (`run_service.py:537`).
* **Settings, titles, listings, the import of an old store, migrations, wiring, deployment**: single statements on one row,
  construction of objects, scripts.

## 7. Plan

The modules are done but for `ChatClient`, and every safety property of the passing runs is proved. What would add most:

1. An abstract feed of events, a sequence per run of which every client receives a part in order, that
   `RunStream` implements; `NoneSkipped` and `InOrder` are its two halves.
2. The hazards of `RunLifecycle` that have no property, as theorems about the configuration with approvals: which
   stops, crashes and sweeps an ended run survives even then.
3. `ChatClient`, fed by a server that sends what `RunStream` promises.
