----------------------------- MODULE Transcript -----------------------------
(***************************************************************************)
(* Conversations, their messages and their forks.  A fork copies nothing:  *)
(* its row names its parent and a message of the parent, and reading it    *)
(* walks up the parents (ConversationRepository.get_thread_messages).      *)
(*                                                                         *)
(* The handlers of fork and delete are async functions that call the       *)
(* repository synchronously, so a server runs one of them at a time; what  *)
(* interleaves with them, statement by statement, is another server, the   *)
(* pump threads of runs and the summaries in the thread pool.              *)
(*                                                                         *)
(* A message is a row [thread, seq] of a question or an answer; each cites *)
(* a source of its own, so that a set of messages stands for the citations *)
(* linked to them.  Tool cells, which neither a fork's agent nor a summary *)
(* is given, events and titles are left out: they only leave gaps in the   *)
(* numbers.                                                                *)
(***************************************************************************)
EXTENDS Naturals, FiniteSets

CONSTANTS
    Thread, Server, Nil,
    MaxSeq,         \* bound: the number of the last message of a conversation
    Ranges          \* the ranges of numbers a summary is asked for

ASSUME TranscriptAssumption ==
    Nil \notin Thread /\ MaxSeq \in Nat /\ Ranges \subseteq (Nat \X Nat)

VARIABLES
    row,        \* "none", "live" or "deleted": the row of threads
    parent,     \* threads.forked_from_thread_id
    point,      \* threads.fork_point_message_id, the message itself
    lastSeq,    \* threads.last_seq
    messages,   \* the rows of messages
    seed,       \* the messages fork_state wrote to a conversation's graph state
    loop,       \* the handler a server's event loop is in
    task,       \* the messages a summary of the conversation is being made of
    raced       \* history: forks made after the deletion of the parent looked for forks

rows == <<row, parent, point, lastSeq>>
vars == <<rows, messages, seed, loop, task, raced>>

Message == [thread : Thread, seq : 1..MaxSeq]

Live == {t \in Thread : row[t] = "live"}

NoHandler == [op |-> "none", thread |-> Nil, read |-> {}]

TypeOK ==
    /\ row \in [Thread -> {"none", "live", "deleted"}]
    /\ parent \in [Thread -> Thread \cup {Nil}]
    /\ point \in [Thread -> Message \cup {Nil}]
    /\ lastSeq \in [Thread -> 0..MaxSeq]
    /\ messages \subseteq Message
    /\ seed \in [Thread -> SUBSET Message]
    /\ loop \in [Server -> [op : {"none", "forks", "drop", "read", "seed"},
                            thread : Thread \cup {Nil}, read : SUBSET Message]]
    /\ \A s \in Server : loop[s].op # "none" => loop[s].thread \in Thread
    /\ task \in [Thread -> SUBSET Message]
    /\ raced \subseteq Thread

Init ==
    /\ row = [t \in Thread |-> "none"]
    /\ parent = [t \in Thread |-> Nil]
    /\ point = [t \in Thread |-> Nil]
    /\ lastSeq = [t \in Thread |-> 0]
    /\ messages = {}
    /\ seed = [t \in Thread |-> {}]
    /\ loop = [s \in Server |-> NoHandler]
    /\ task = [t \in Thread |-> {}]
    /\ raced = {}

-----------------------------------------------------------------------------
(* What a conversation shows.                                              *)

\* WITH RECURSIVE chain: the conversation and its ancestors.
Chain(t) ==
    LET chain[u \in Thread] ==
            {u} \cup (IF parent[u] = Nil THEN {} ELSE chain[parent[u]])
    IN  chain[t]

\* Mutant: an ancestor is shown whole.
Inherits_NoCut(c, m) == parent[c] = m.thread

\* c shows m of its parent: up to the fork point.  A fork point that has no
\* row gives a NULL cut, which is no bound.
Inherits(c, m) ==
    /\ parent[c] = m.thread
    /\ point[c] \in messages => m.seq <= point[c].seq

\* get_thread_messages, as a set: the number is the order.
Visible(t) ==
    LET chain == Chain(t)
    IN  {m \in messages : m.thread = t \/ \E c \in chain : Inherits(c, m)}

\* get_thread_citations: what a run of t may cite without being called a forger.
Citable(t) == Visible(t)

-----------------------------------------------------------------------------
(* Conversations and their messages.                                       *)

\* create_thread.
CreateThread(t) ==
    /\ row[t] = "none"
    /\ row' = [row EXCEPT ![t] = "live"]
    /\ UNCHANGED <<parent, point, lastSeq, messages, seed, loop, task, raced>>

\* add_message and commit_agent_answer, by the pump of a run: the number and
\* the row in one transaction, which finds no row once the conversation is gone.
AddMessage(t) ==
    /\ t \in Live /\ lastSeq[t] < MaxSeq
    /\ lastSeq' = [lastSeq EXCEPT ![t] = @ + 1]
    /\ messages' = messages \cup {[thread |-> t, seq |-> lastSeq'[t]]}
    /\ UNCHANGED <<row, parent, point, seed, loop, task, raced>>

-----------------------------------------------------------------------------
(* DELETE /threads/{id}: three statements, the last one a transaction.     *)

Enter(s, op, t, read) ==
    loop' = [loop EXCEPT ![s] = [op |-> op, thread |-> t, read |-> read]]

Leave(s) == loop' = [loop EXCEPT ![s] = NoHandler]

\* has_running_run.  Whether a run is running is not modelled: it answers 409,
\* or goes on, and a run may be opened just after.
CheckRunning(s, t) ==
    /\ loop[s] = NoHandler
    /\ t \in Live
    /\ Enter(s, "forks", t, {})
    /\ UNCHANGED <<rows, messages, seed, task, raced>>

\* Mutant: the conversation is deleted whether or not it has forks.
HasForkChildren_Never(t) == FALSE

HasForkChildren(t) == \E u \in Thread : parent[u] = t

\* has_fork_children; a conversation with forks answers 409.
CheckForks(s) ==
    /\ loop[s].op = "forks"
    /\ IF HasForkChildren(loop[s].thread)
       THEN Leave(s)
       ELSE Enter(s, "drop", loop[s].thread, {})
    /\ UNCHANGED <<rows, messages, seed, task, raced>>

\* delete_thread: the messages, the checkpoints, the pointers of forks,
\* and the row.
DeleteThread(s) ==
    /\ loop[s].op = "drop"
    /\ LET t == loop[s].thread IN
       /\ row' = [row EXCEPT ![t] = "deleted"]
       /\ messages' = {m \in messages : m.thread # t}
       /\ parent' = [u \in Thread |-> IF t \in {u, parent[u]} THEN Nil ELSE parent[u]]
       /\ point' = [point EXCEPT ![t] = Nil]
       /\ lastSeq' = [lastSeq EXCEPT ![t] = 0]
       /\ seed' = [seed EXCEPT ![t] = {}]
    /\ Leave(s)
    /\ UNCHANGED <<task, raced>>

-----------------------------------------------------------------------------
(* POST /threads/{id}/fork: RunService.fork.                               *)

\* Mutants: the fork counts its messages from one again, or from the next one.
FirstSeq_Zero(m) == 0

FirstSeq_Next(m) == m.seq + 1

\* The fork goes on counting where the fork point was.
FirstSeq(m) == m.seq

\* A deletion of t has found no forks and is about to delete.
Doomed(t) == \E s \in Server : loop[s].op = "drop" /\ loop[s].thread = t

\* fork_thread: one transaction.  A message of another conversation, an
\* ancestor's too, answers 404.
ForkThread(s, p, m, n) ==
    /\ loop[s] = NoHandler
    /\ row[n] = "none" /\ m \in messages /\ m.thread = p
    /\ row' = [row EXCEPT ![n] = "live"]
    /\ parent' = [parent EXCEPT ![n] = p]
    /\ point' = [point EXCEPT ![n] = m]
    /\ lastSeq' = [lastSeq EXCEPT ![n] = FirstSeq(m)]
    /\ raced' = IF p \in raced \/ Doomed(p) THEN raced \cup {n} ELSE raced
    /\ Enter(s, "read", n, {})
    /\ UNCHANGED <<messages, seed, task>>

\* Mutant: the parent's messages are read, not the fork's.
ForkMessages_Parent(n) == IF parent[n] = Nil THEN {} ELSE Visible(parent[n])

ForkMessages(n) == Visible(n)

ForkRead(s) ==
    /\ loop[s].op = "read"
    /\ Enter(s, "seed", loop[s].thread, ForkMessages(loop[s].thread))
    /\ UNCHANGED <<rows, messages, seed, task, raced>>

\* fork_state: the text of the prefix becomes the state of the fork's graph.
\* State written for a conversation that is gone is garbage to be collected.
ForkState(s) ==
    /\ loop[s].op = "seed"
    /\ LET n == loop[s].thread IN
       seed' = IF n \in Live THEN [seed EXCEPT ![n] = loop[s].read] ELSE seed
    /\ Leave(s)
    /\ UNCHANGED <<rows, messages, task, raced>>

-----------------------------------------------------------------------------
(* POST /threads/{id}/summarize, in the thread pool.                       *)

\* RunService.summarize reads the messages in a range of numbers; with none
\* the request answers 422.
ReadForSummary(t, from, to) ==
    /\ task' = [task EXCEPT ![t] = {m \in Visible(t) : from <= m.seq /\ m.seq <= to}]
    /\ task'[t] # {}
    /\ UNCHANGED <<rows, messages, seed, loop, raced>>

\* The request, for a conversation that exists, offloaded to a thread; one
\* summary at a time is enough here.
Summarize ==
    /\ \A u \in Thread : task[u] = {}
    /\ \E t \in Live, range \in Ranges : ReadForSummary(t, range[1], range[2])

\* Mutant: the summary claims everything there is when it is written.
LastCovered_Now(t) == lastSeq[t]

\* covers_to_seq: the last message the model was shown.
LastCovered(t) == CHOOSE n \in {m.seq : m \in task[t]} : \A m \in task[t] : m.seq <= n

FirstCovered(t) == CHOOSE n \in {m.seq : m \in task[t]} : \A m \in task[t] : n <= m.seq

\* add_summary, when the model has answered, unless the conversation is gone.
\* The row is not kept: it says that task[t] is what lies between the two.
AddSummary(t) ==
    /\ task[t] # {}
    /\ task' = [task EXCEPT ![t] = {}]
    /\ UNCHANGED <<rows, messages, seed, loop, raced>>

\* A server dies in a handler, or its statement fails: nothing is undone.
Crash(s) ==
    /\ loop[s] # NoHandler
    /\ Leave(s)
    /\ UNCHANGED <<rows, messages, seed, task, raced>>

\* What the event loop of a server does next: a statement of the request it is
\* in, or a new request.
Handler(s) ==
    \/ CheckForks(s) \/ DeleteThread(s) \/ ForkRead(s) \/ ForkState(s) \/ Crash(s)
    \/ \E t \in Thread : CheckRunning(s, t)
    \/ \E p, n \in Thread, m \in messages : ForkThread(s, p, m, n)

Next ==
    \/ \E t \in Thread : CreateThread(t) \/ AddMessage(t) \/ AddSummary(t)
    \/ Summarize
    \/ \E s \in Server : Handler(s)

Spec == Init /\ [][Next]_vars

-----------------------------------------------------------------------------
\* A fork behaves as a copy of the prefix: what other conversations say, and
\* their deletion, never changes what it shows, and its own messages come last
\* (fork_thread, get_thread_messages, the 409 of has_fork_children).
Copy == INSTANCE ForkCopy WITH
    live <- Live,
    view <- [t \in Thread |-> IF t \in Live THEN Visible(t) ELSE {}]

ImplementsForkCopy == Copy!Spec

\* The numbers order what a conversation shows, across its ancestors: no two
\* messages share one (ORDER BY m.seq in get_thread_messages).
NumbersOrder ==
    \A t \in Live : \A m, o \in Visible(t) : m.seq = o.seq => m = o

\* The graph state of a seeded fork holds all that it inherited, and nothing
\* its agent may not quote (RunService.fork, fork_state, get_thread_citations).
SeedExact ==
    \A t \in Live \ raced : seed[t] # {} =>
        {m \in Citable(t) : m.thread # t} \subseteq seed[t] /\ seed[t] \subseteq Citable(t)

\* A summary covers what the model was shown: while the model is at work, and so
\* when the row is written, the conversation shows no other message between the
\* first and the last number (RunService.summarize).
SummaryHonest ==
    \A t \in Live \ raced : task[t] # {} =>
        task[t] = {m \in Visible(t) : FirstCovered(t) <= m.seq /\ m.seq <= LastCovered(t)}
=============================================================================
