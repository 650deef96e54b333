------------------------------ MODULE RunStream ------------------------------
(***************************************************************************)
(* The durable event log of one run and the streams that read it.          *)
(*                                                                         *)
(* An event gets its number from the counter of its conversation           *)
(* (threads.last_seq) in one statement and is inserted into run_events in  *)
(* a later one.  Several writers do so for the same run: the pumps of its  *)
(* generators, and the requests that stop it from another server.  A       *)
(* connection of GET /runs/{id}/stream polls the rows behind its cursor;   *)
(* the browser comes back with Last-Event-ID after a connection is lost.   *)
(*                                                                         *)
(*   Writer   a generator with its pump, or a request that stops the run;  *)
(*            one that is finished is used for the next                    *)
(*   Client   one EventSource, over all its connections                    *)
(*                                                                         *)
(* Who may end a run is the subject of RunLifecycle; here a sweep may come *)
(* at any time, and a chunk of the stream is one event.                    *)
(***************************************************************************)
EXTENDS Naturals, Sequences

CONSTANTS
    Writer, Client,
    MaxSteps,       \* bound: last_seq up to which a generator works on, or pauses
    MaxFailures     \* bound: servers that die, insertions that raise, connections lost

ASSUME StreamAssumption ==
    /\ Writer # {}
    /\ MaxSteps \in Nat /\ MaxFailures \in Nat

VARIABLES
    \* Postgres
    lastSeq,    \* threads.last_seq
    status,     \* runs.status, "gone" once the conversation is deleted
    log,        \* run_events of the run: a set of [seq, event]
    \* a writer
    wpc,
    held,       \* the event it has numbered, or is about to: [seq, event], seq 0 before
    dropped,    \* its generator is suspended inside _drive
    \* a client and its connection
    rpc,
    cursor,     \* the number of the last event received, sent as Last-Event-ID
    rows,       \* rows fetched and not delivered yet
    got,        \* what the client has received, in order: [seq, event]
    \* history: the run was resumed before its request for approval was in the log
    early,
    \* DELETE /threads/{id}, and a bound
    deletion,   \* "none", "checked", "done"
    failures

dbVars     == <<lastSeq, status, log>>
writerVars == <<wpc, held, dropped>>
clientVars == <<rpc, cursor, rows, got>>
vars       == <<dbVars, writerVars, clientVars, early, deletion, failures>>

EndStatuses == {"completed", "interrupted", "rejected", "error"}
Statuses == {"running", "awaiting_approval", "gone"} \cup EndStatuses

Events == {"step", "approval", "answer", "done", "error"}
Terminal == {"done", "error"}

WriterPC == {"idle", "claim", "drive", "number", "append", "final", "synthesize",
             "close"}
ClientPC == {"offline", "poll", "deliver", "check", "finished"}

\* No event is held.
NoEvent == [seq |-> 0, event |-> "done"]

Rows == [seq : Nat, event : Events]

DbTypes ==
    /\ lastSeq \in Nat
    /\ status \in Statuses
    /\ log \subseteq Rows

WriterTypes ==
    /\ wpc \in [Writer -> WriterPC]
    /\ held \in [Writer -> Rows]
    /\ dropped \in [Writer -> BOOLEAN]

ClientTypes ==
    /\ rpc \in [Client -> ClientPC]
    /\ cursor \in [Client -> Nat]
    /\ rows \in [Client -> SUBSET Rows]
    /\ got \in [Client -> Seq(Rows)]

OtherTypes ==
    /\ early \in BOOLEAN
    /\ deletion \in {"none", "checked", "done"}
    /\ failures \in 0..MaxFailures

\* Every number in use was handed out, but for the one of a synthetic terminal
\* event, which may be the next.
Numbered ==
    /\ \A w \in Writer : held[w].seq <= lastSeq
    /\ \A r \in log : r.seq <= lastSeq
    /\ \A k \in Client :
          /\ cursor[k] <= lastSeq + 1
          /\ \A r \in rows[k] : r.seq <= lastSeq
          /\ \A i \in DOMAIN got[k] : got[k][i].seq <= lastSeq + 1

TypeOK == DbTypes /\ WriterTypes /\ ClientTypes /\ OtherTypes /\ Numbered

\* POST /messages has returned the run's id: run.started is in the log and one
\* writer drives the run.
Init ==
    /\ lastSeq = 1
    /\ status = "running"
    /\ log = {[seq |-> 1, event |-> "step"]}
    /\ \E w \in Writer : wpc = [x \in Writer |-> IF x = w THEN "drive" ELSE "idle"]
    /\ held = [w \in Writer |-> NoEvent]
    /\ dropped = [w \in Writer |-> FALSE]
    /\ rpc = [k \in Client |-> "offline"]
    /\ cursor = [k \in Client |-> 0]
    /\ rows = [k \in Client |-> {}]
    /\ got = [k \in Client |-> <<>>]
    /\ early = FALSE
    /\ deletion = "none"
    /\ failures = 0

-----------------------------------------------------------------------------
(* Numbering and appending.                                                *)

Goto(w, label) ==
    /\ wpc' = [wpc EXCEPT ![w] = label]
    /\ held' = [held EXCEPT ![w] = NoEvent]
    /\ UNCHANGED dropped

Failure == failures < MaxFailures /\ failures' = failures + 1

\* The writer is going to emit an event that has no number yet.
Emit(w, event) ==
    /\ wpc' = [wpc EXCEPT ![w] = "number"]
    /\ held' = [held EXCEPT ![w] = [seq |-> 0, event |-> event]]
    /\ UNCHANGED dropped

\* Mutant: the number is read and not taken.
TakeNumber_ReadOnly(w, event) ==
    /\ wpc' = [wpc EXCEPT ![w] = "append"]
    /\ held' = [held EXCEPT ![w] = [seq |-> lastSeq, event |-> event]]
    /\ UNCHANGED <<lastSeq, dropped>>

\* next_seq: UPDATE threads SET last_seq = last_seq + 1 RETURNING last_seq.
TakeNumber(w, event) ==
    /\ lastSeq' = lastSeq + 1
    /\ wpc' = [wpc EXCEPT ![w] = "append"]
    /\ held' = [held EXCEPT ![w] = [seq |-> lastSeq + 1, event |-> event]]
    /\ UNCHANGED dropped

\* The generator and its pump, or the request, are gone.
Finish(w) ==
    /\ wpc' = [wpc EXCEPT ![w] = "idle"]
    /\ held' = [held EXCEPT ![w] = NoEvent]
    /\ dropped' = [dropped EXCEPT ![w] = FALSE]

\* A generator that was dropped is closed once the pump is finished.
Leave(w) == IF dropped[w] THEN Goto(w, "close") ELSE Finish(w)

\* _emit: the number of an event that follows a change of status is a statement
\* of its own.  It raises when the conversation is gone, and the pump stops.
Number(w) ==
    /\ wpc[w] = "number"
    /\ IF status = "gone"
       THEN Goto(w, "final") /\ UNCHANGED lastSeq
       ELSE TakeNumber(w, held[w].event)
    /\ UNCHANGED <<status, log, clientVars, early, deletion, failures>>

\* append_run_event: INSERT ... ON CONFLICT (run_id, seq) DO NOTHING.  The
\* table has no foreign key, so it succeeds for a run that is gone.  After a
\* terminal event or a pause the finally of the pump has nothing to add.
AppendEvent(w) ==
    LET e == held[w]
    IN  /\ wpc[w] = "append"
        /\ log' = IF \E r \in log : r.seq = e.seq THEN log ELSE log \cup {e}
        /\ CASE e.event = "step" -> Goto(w, "drive")
             [] e.event = "answer" -> Emit(w, "done")
             [] OTHER -> Leave(w)
        /\ UNCHANGED <<lastSeq, status, clientVars, early, deletion, failures>>

\* The insertion raises: the pump stops, and a generator that had more to do
\* stays at its yield inside _drive.
AppendFails(w) ==
    LET e == held[w]
    IN  /\ wpc[w] = "append" /\ Failure
        /\ IF e.event \in Terminal
           THEN Leave(w)
           ELSE /\ wpc' = [wpc EXCEPT ![w] = IF e.event = "approval" THEN "close" ELSE "final"]
                /\ held' = [held EXCEPT ![w] = NoEvent]
                /\ dropped' = [dropped EXCEPT ![w] = TRUE]
        /\ UNCHANGED <<dbVars, clientVars, early, deletion>>

-----------------------------------------------------------------------------
(* A generator drives the run.                                             *)

Drive(w) == wpc[w] = "drive" /\ UNCHANGED <<lastSeq, log, clientVars, early, deletion, failures>>

\* tool.call, tool.result, citation.added.
Progress(w) ==
    /\ wpc[w] = "drive" /\ lastSeq < MaxSteps
    /\ IF status = "gone"
       THEN Goto(w, "final") /\ UNCHANGED lastSeq
       ELSE TakeNumber(w, "step")
    /\ UNCHANGED <<status, log, clientVars, early, deletion, failures>>

\* The run is paused, whatever its status was, and approval.requested emitted.
Pause(w) ==
    /\ Drive(w) /\ lastSeq < MaxSteps
    /\ status' = IF status = "gone" THEN status ELSE "awaiting_approval"
    /\ Emit(w, "approval")

\* A stop, a failure or a forged citation ends the run, unless it has ended.
End(w, s) ==
    /\ Drive(w)
    /\ IF status = "running"
       THEN status' = s /\ Emit(w, IF s = "error" THEN "error" ELSE "done")
       ELSE Goto(w, "final") /\ UNCHANGED status

\* commit_agent_answer: the run is completed, the answer gets its number and is
\* stored, in one transaction; message.completed and run.done follow.
CommitAnswer(w) ==
    /\ wpc[w] = "drive"
    /\ IF status = "running"
       THEN status' = "completed" /\ TakeNumber(w, "answer")
       ELSE Goto(w, "final") /\ UNCHANGED <<lastSeq, status>>
    /\ UNCHANGED <<log, clientVars, early, deletion, failures>>

\* The finally of a pump whose last event was neither terminal nor a pause:
\* nothing to do when get_run finds the run ended elsewhere.
PumpFinally(w) ==
    /\ wpc[w] = "final"
    /\ IF status \in EndStatuses THEN Leave(w) ELSE Goto(w, "synthesize")
    /\ UNCHANGED <<dbVars, clientVars, early, deletion, failures>>

\* Mutant: the number is computed and the counter left as it is.
Synthesize_NoUpdate(w) ==
    /\ wpc[w] = "synthesize"
    /\ wpc' = [wpc EXCEPT ![w] = "append"]
    /\ held' = [held EXCEPT ![w] = [seq |-> lastSeq + 1, event |-> "error"]]
    /\ UNCHANGED <<dbVars, dropped, clientVars, early, deletion, failures>>

\* Otherwise a synthetic error is numbered and appended; for a conversation
\* that is gone next_seq raises, and nothing handles it.
Synthesize(w) ==
    /\ wpc[w] = "synthesize"
    /\ IF status = "gone"
       THEN Leave(w) /\ UNCHANGED lastSeq
       ELSE TakeNumber(w, "error")
    /\ UNCHANGED <<status, log, clientVars, early, deletion, failures>>

\* GeneratorExit in a generator that was dropped.
CloseGenerator(w) ==
    /\ wpc[w] = "close"
    /\ status' = IF status = "running" THEN "error" ELSE status
    /\ Finish(w)
    /\ UNCHANGED <<lastSeq, log, clientVars, early, deletion, failures>>

-----------------------------------------------------------------------------
(* Others who act on the run.                                              *)

\* A request that stops the run from another server, or while it waits.
Stop(w) ==
    /\ wpc[w] = "idle"
    /\ status \in {"running", "awaiting_approval"}
    /\ status' = "interrupted"
    /\ Emit(w, "done")
    /\ UNCHANGED <<lastSeq, log, clientVars, early, deletion, failures>>

\* A client decides: RunManager.resume finds the run waiting and submits a pump.
\* The status is all it looks at, so the request for approval may still be on its
\* way to the log.
Decide(w) ==
    /\ wpc[w] = "idle"
    /\ status = "awaiting_approval"
    /\ Goto(w, "claim")
    /\ UNCHANGED <<dbVars, clientVars, early, deletion, failures>>

\* approval.requested is on its way to the log.
RequestPending == \E v \in Writer : wpc[v] \in {"number", "append"} /\ held[v].event = "approval"

\* RunService.resume: the one whose transition succeeds drives or rejects the
\* run; the generator of the other raises.
Claim(w) ==
    /\ wpc[w] = "claim"
    /\ IF status = "awaiting_approval"
       THEN \/ status' = "running" /\ Goto(w, "drive") /\ early' = (early \/ RequestPending)
            \/ status' = "rejected" /\ Emit(w, "done") /\ UNCHANGED early
       ELSE Goto(w, "final") /\ UNCHANGED <<status, early>>
    /\ UNCHANGED <<lastSeq, log, clientVars, deletion, failures>>

\* reconcile_orphan_runs ends the run and writes no event.
Sweep ==
    /\ status = "running"
    /\ status' = "error"
    /\ UNCHANGED <<lastSeq, log, writerVars, clientVars, early, deletion, failures>>

\* The server of a writer dies.
Crash(w) ==
    /\ wpc[w] # "idle" /\ Failure
    /\ Finish(w)
    /\ UNCHANGED <<dbVars, clientVars, early, deletion>>

\* DELETE /threads/{id} refuses a conversation with a running run ...
CheckDeletion ==
    /\ deletion = "none" /\ status # "running"
    /\ deletion' = "checked"
    /\ UNCHANGED <<dbVars, writerVars, clientVars, early, failures>>

\* ... and deletes it later, in a transaction, whatever has happened since.
DeleteThread ==
    /\ deletion = "checked"
    /\ deletion' = "done"
    /\ status' = "gone"
    /\ log' = {}
    /\ UNCHANGED <<lastSeq, writerVars, clientVars, early, failures>>

\* Nothing that writes events of the run is under way: a retention time after
\* its end, or after the row was written, is a week.
Settled == \A w \in Writer : wpc[w] = "idle"

\* Mutant: only events of runs that still exist are collected.
CollectEvents_NoOrphans ==
    /\ Settled /\ status \in EndStatuses \cup {"gone"}
    /\ log' = IF status = "gone" THEN log ELSE {}
    /\ UNCHANGED <<lastSeq, status, writerVars, clientVars, early, deletion, failures>>

\* gc_run_events: old events of ended runs, and of runs that no longer exist.
CollectEvents ==
    /\ Settled /\ status \in EndStatuses \cup {"gone"}
    /\ log' = {}
    /\ UNCHANGED <<lastSeq, status, writerVars, clientVars, early, deletion, failures>>

-----------------------------------------------------------------------------
(* GET /runs/{id}/stream.                                                  *)

\* Mutant: Last-Event-ID is not read.
Connect_FromStart(k) ==
    /\ rpc[k] = "offline" /\ status # "gone"
    /\ rpc' = [rpc EXCEPT ![k] = "poll"]
    /\ cursor' = [cursor EXCEPT ![k] = 0]
    /\ UNCHANGED <<dbVars, writerVars, rows, got, early, deletion, failures>>

\* The browser opens the stream, for the first time or again: the cursor is
\* its Last-Event-ID.  A run that is gone answers 404.
Connect(k) ==
    /\ rpc[k] = "offline"
    /\ rpc' = [rpc EXCEPT ![k] = IF status = "gone" THEN "finished" ELSE "poll"]
    /\ UNCHANGED <<dbVars, writerVars, cursor, rows, got, early, deletion, failures>>

\* get_run_events_after
Poll(k) ==
    LET new == {r \in log : r.seq > cursor[k]}
    IN  /\ rpc[k] = "poll"
        /\ rows' = [rows EXCEPT ![k] = new]
        /\ rpc' = [rpc EXCEPT ![k] = IF new = {} THEN "check" ELSE "deliver"]
        /\ UNCHANGED <<dbVars, writerVars, cursor, got, early, deletion, failures>>

\* The client receives an event.
Receive(k, r) ==
    /\ got' = [got EXCEPT ![k] = Append(@, r)]
    /\ cursor' = [cursor EXCEPT ![k] = r.seq]

\* The rows go out in the order of their numbers; a terminal one ends the stream.
Deliver(k) ==
    /\ rpc[k] = "deliver"
    /\ \E r \in rows[k] :
          /\ \A x \in rows[k] : r.seq <= x.seq
          /\ Receive(k, r)
          /\ rows' = [rows EXCEPT ![k] = IF r.event \in Terminal THEN {} ELSE @ \ {r}]
          /\ rpc' = [rpc EXCEPT ![k] = IF r.event \in Terminal THEN "finished"
                                       ELSE IF rows[k] = {r} THEN "poll" ELSE "deliver"]
    /\ UNCHANGED <<dbVars, writerVars, early, deletion, failures>>

\* Mutant: a stream ends at a terminal row only.
CheckStatus_NoSynthesis(k) ==
    /\ rpc[k] = "check"
    /\ rpc' = [rpc EXCEPT ![k] = "poll"]
    /\ UNCHANGED <<dbVars, writerVars, cursor, rows, got, early, deletion, failures>>

\* Mutant: with nothing new the cursor moves up to the conversation's counter.
CheckStatus_SkipsAhead(k) ==
    /\ rpc[k] = "check"
    /\ rpc' = [rpc EXCEPT ![k] = IF status \in EndStatuses THEN "finished" ELSE "poll"]
    /\ cursor' = [cursor EXCEPT ![k] = lastSeq]
    /\ UNCHANGED <<dbVars, writerVars, rows, got, early, deletion, failures>>

\* No rows: a run that has ended in the database gets a synthetic terminal
\* event, with the next number and the status of the row, and is not stored.
CheckStatus(k) ==
    /\ rpc[k] = "check"
    /\ IF status \in EndStatuses
       THEN /\ Receive(k, [seq |-> cursor[k] + 1,
                           event |-> IF status = "error" THEN "error" ELSE "done"])
            /\ rpc' = [rpc EXCEPT ![k] = "finished"]
       ELSE /\ rpc' = [rpc EXCEPT ![k] = "poll"]
            /\ UNCHANGED <<cursor, got>>
    /\ UNCHANGED <<dbVars, writerVars, rows, early, deletion, failures>>

\* The connection is lost, with the rows that were on their way.
Disconnect(k) ==
    /\ rpc[k] \in {"poll", "deliver", "check"} /\ Failure
    /\ rpc' = [rpc EXCEPT ![k] = "offline"]
    /\ rows' = [rows EXCEPT ![k] = {}]
    /\ UNCHANGED <<dbVars, writerVars, cursor, got, early, deletion>>

-----------------------------------------------------------------------------
WriterStep(w) ==
    \/ Number(w) \/ AppendEvent(w) \/ Progress(w) \/ Pause(w) \/ CommitAnswer(w)
    \/ \E s \in {"interrupted", "error"} : End(w, s)
    \/ PumpFinally(w) \/ Synthesize(w) \/ CloseGenerator(w) \/ Claim(w)

ClientStep(k) == Poll(k) \/ Deliver(k) \/ CheckStatus(k)

Next ==
    \/ \E w \in Writer : WriterStep(w) \/ Stop(w) \/ Decide(w) \/ AppendFails(w) \/ Crash(w)
    \/ \E k \in Client : ClientStep(k) \/ Connect(k) \/ Disconnect(k)
    \/ Sweep \/ CheckDeletion \/ DeleteThread \/ CollectEvents

Spec == Init /\ [][Next]_vars

\* Threads run, open streams poll, and the maintenance loop collects.
Fairness ==
    /\ \A w \in Writer : WF_vars(WriterStep(w))
    /\ \A k \in Client : WF_vars(ClientStep(k))
    /\ WF_vars(CollectEvents)

FairSpec == Spec /\ Fairness

-----------------------------------------------------------------------------
(* Properties.                                                             *)

\* No two events of the run ever have the same number, so that ON CONFLICT DO
\* NOTHING never swallows one (next_seq, append_run_event).
NumbersUnique ==
    \A w \in Writer : wpc[w] = "append" =>
        /\ \A r \in log : r.seq # held[w].seq
        /\ \A v \in Writer \ {w} : wpc[v] = "append" => held[v].seq # held[w].seq

\* A client receives numbers in increasing order and none twice, over all its
\* connections (stream, Last-Event-ID), whatever is inserted behind its cursor.
InOrder ==
    \A k \in Client : \A i, j \in DOMAIN got[k] : i < j => got[k][i].seq < got[k][j].seq

\* A stream that is still open, or that will be opened again, has skipped no
\* event but terminal ones: what is in the log up to the cursor has arrived,
\* although numbers are taken in one order and rows inserted in another, by
\* several writers (next_seq, append_run_event, get_run_events_after).  Unless
\* the run was resumed so early that two generators were writing at once.
NoneSkipped ==
    \A k \in Client : rpc[k] # "finished" /\ ~early =>
        \A r \in log : r.seq <= cursor[k] /\ r.event \notin Terminal =>
            \E i \in DOMAIN got[k] : got[k][i] = r

\* A stream of a completed run that ends with run.done has delivered the answer
\* before: the end of a turn is message.completed, then run.done
\* (frontend/docs/pdca-plan-frontend.md).  The code fails it: CheckStatus finds
\* the run completed before its answer is in the log.
AnswerDelivered ==
    \A k \in Client :
        rpc[k] = "finished" /\ status = "completed" /\ got[k] # <<>>
            /\ got[k][Len(got[k])].event = "done"
            => \E i \in DOMAIN got[k] : got[k][i].event = "answer"

\* An open stream of a run that has ended closes, whatever became of the
\* writers and of the connection's own terminal event, unless it is lost or
\* the conversation is deleted.
StreamEnds ==
    \A k \in Client :
        rpc[k] \in {"poll", "deliver", "check"} /\ status \in EndStatuses
            ~> rpc[k] \in {"finished", "offline"} \/ status \notin EndStatuses

\* Events of a deleted conversation do not stay for ever, although a writer may
\* insert one after the deletion (gc_run_events).
OrphansCollected == status = "gone" ~> [](log = {})
=============================================================================
