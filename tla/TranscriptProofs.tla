--------------------------- MODULE TranscriptProofs ---------------------------
(* Theorems about Transcript, for any conversations, servers and bounds.    *)
EXTENDS Transcript, WellFoundedInduction, TLAPS

-----------------------------------------------------------------------------
(* The ancestors of a conversation.                                         *)

Parents == [Thread -> Thread \cup {Nil}]

\* What WITH RECURSIVE computes from the pointers par: a solution of the
\* equation of Chain, and the least one.
Closed(par, S) == \A u \in S : par[u] # Nil => par[u] \in S

Ancestors(par) ==
    [u \in Thread |-> {v \in Thread : \A S \in SUBSET Thread : u \in S /\ Closed(par, S) => v \in S}]

Solves(chain, par) ==
    chain = [u \in Thread |-> {u} \cup (IF par[u] = Nil THEN {} ELSE chain[par[u]])]

LEMMA AncestorsSolve == ASSUME NEW par \in Parents PROVE Solves(Ancestors(par), par)
<1> DEFINE A == Ancestors(par)
<1>1. ASSUME NEW u \in Thread
      PROVE  A[u] = {u} \cup (IF par[u] = Nil THEN {} ELSE A[par[u]])
    <2>1. u \in A[u] /\ A[u] \subseteq Thread
        BY DEF Ancestors
    <2>2. CASE par[u] = Nil
        <3>1. Closed(par, {u})
            BY <2>2 DEF Closed
        <3>2. A[u] \subseteq {u}
            BY <3>1 DEF Ancestors
        <3> QED
            BY <2>1, <2>2, <3>2
    <2>3. CASE par[u] # Nil
        <3>1. par[u] \in Thread
            BY <2>3 DEF Parents
        <3>2. A[par[u]] \subseteq A[u]
            BY <2>3, <3>1 DEF Ancestors, Closed
        <3>3. ASSUME NEW v \in A[u], v # u PROVE v \in A[par[u]]
            <4>1. ASSUME NEW S \in SUBSET Thread, par[u] \in S, Closed(par, S)
                  PROVE  v \in S
                <5>1. Closed(par, S \cup {u})
                    BY <2>3, <4>1 DEF Closed
                <5> QED
                    BY <3>3, <5>1 DEF Ancestors
            <4> QED
                BY <3>1, <3>3, <4>1 DEF Ancestors
        <3> QED
            BY <2>1, <2>3, <3>2, <3>3
    <2> QED
        BY <2>2, <2>3
<1>2. A = [u \in Thread |-> A[u]]
    BY DEF Ancestors
<1> HIDE DEF A
<1> QED
    BY <1>1, <1>2 DEF Solves, A

\* Chain satisfies its equation.
LEMMA ChainIs ==
    ASSUME parent \in Parents, NEW t \in Thread
    PROVE  Chain(t) = {t} \cup (IF parent[t] = Nil THEN {} ELSE Chain(parent[t]))
<1> DEFINE chain == CHOOSE f : Solves(f, parent)
<1>1. Solves(chain, parent)
    BY AncestorsSolve
<1>2. \A u : Chain(u) = chain[u]
    BY DEF Chain, Solves
<1>3. chain[t] = {t} \cup (IF parent[t] = Nil THEN {} ELSE chain[parent[t]])
    <2> HIDE DEF chain
    <2> QED
        BY <1>1 DEF Solves
<1> QED
    BY <1>2, <1>3

-----------------------------------------------------------------------------
(* The inductive invariant: the tree, its rows, and what was raced.         *)

\* A conversation with a parent is there, and so is its parent.
Linked ==
    \A t \in Thread : parent[t] # Nil => t \in Live /\ parent[t] \in Live

\* Messages belong to conversations that are there, and were numbered.
Numbered ==
    \A m \in messages : m.thread \in Live /\ m.seq <= lastSeq[m.thread]

\* A fork point is a row of the parent, older than the fork's own messages.
Pointed ==
    \A t \in Thread : parent[t] # Nil =>
        /\ point[t] \in messages /\ point[t].thread = parent[t]
        /\ point[t].seq <= lastSeq[t]
        /\ \A m \in messages : m.thread = t => point[t].seq < m.seq

\* No cycles: every set of conversations has one whose parent is not in it.
Grounded ==
    \A S \in SUBSET Thread : S # {} => \E u \in S : parent[u] \notin S

\* Forks of a raced conversation are raced, and so is every fork that the
\* deletion of its parent has not seen.
RacedKnown ==
    /\ \A t \in Thread : parent[t] \in raced => t \in raced
    /\ \A s \in Server : loop[s].op = "drop" =>
           \A t \in Thread : parent[t] = loop[s].thread => t \in raced

\* Nothing is known of a conversation before it is made.
Unborn ==
    /\ \A t \in Thread : row[t] = "none" => seed[t] = {} /\ task[t] = {}
    /\ \A s \in Server : loop[s].op # "none" => row[loop[s].thread] # "none"

TreeInv ==
    TypeOK /\ Linked /\ Numbered /\ Pointed /\ Grounded /\ RacedKnown /\ Unborn

-----------------------------------------------------------------------------
(* What a conversation shows, level by level.                               *)

Shows == [t \in Thread |-> Visible(t)]

Inherited(t) ==
    IF parent[t] = Nil THEN {} ELSE {m \in Shows[parent[t]] : m.seq <= point[t].seq}

\* Its own messages, and those its parent shows, up to the fork point.
ShowsIs ==
    \A t \in Thread : Shows[t] = {m \in messages : m.thread = t} \cup Inherited(t)

\* Numbers grow along the chain: what is inherited is not beyond the fork point.
LEMMA InheritedBounded ==
    ASSUME TreeInv
    PROVE  \A t \in Thread : \A c \in Chain(t) : \A m \in messages :
               Inherits(c, m) => parent[t] # Nil /\ m.seq <= point[t].seq
<1> DEFINE Bounded(t) ==
        \A c \in Chain(t) : \A m \in messages :
            Inherits(c, m) => parent[t] # Nil /\ m.seq <= point[t].seq
           Bad == {t \in Thread : ~ Bounded(t)}
<1>1. parent \in Parents
    BY DEF TreeInv, TypeOK, Parents
<1>2. SUFFICES ASSUME Bad # {} PROVE FALSE
    OBVIOUS
<1>3. PICK t \in Bad : parent[t] \notin Bad
    BY <1>2 DEF TreeInv, Grounded
<1>4. ASSUME NEW c \in Chain(t), NEW m \in messages, Inherits(c, m)
      PROVE  parent[t] # Nil /\ m.seq <= point[t].seq
    <2>1. Chain(t) = {t} \cup (IF parent[t] = Nil THEN {} ELSE Chain(parent[t]))
        BY <1>1, ChainIs
    <2>2. CASE c = t
        <3>1. parent[t] # Nil
            BY <1>4, <2>2, TranscriptAssumption DEF Inherits, TreeInv, TypeOK, Message
        <3> QED
            BY <1>4, <2>2, <3>1 DEF Inherits, TreeInv, Pointed
    <2>3. CASE c # t
        <3>1. parent[t] # Nil /\ c \in Chain(parent[t])
            BY <2>1, <2>3
        <3>2. parent[t] \in Thread
            BY <1>1, <3>1 DEF Parents
        <3>3. parent[parent[t]] # Nil /\ m.seq <= point[parent[t]].seq
            BY <1>3, <1>4, <3>1, <3>2
        <3>4. /\ point[t] \in messages /\ point[t].thread = parent[t]
              /\ point[parent[t]] \in messages
              /\ point[parent[t]].seq < point[t].seq
            BY <3>1, <3>2, <3>3 DEF TreeInv, Pointed
        <3>5. m.seq \in Nat /\ point[t].seq \in Nat /\ point[parent[t]].seq \in Nat
            BY <3>4 DEF TreeInv, TypeOK, Message
        <3> QED
            BY <3>1, <3>3, <3>4, <3>5
    <2> QED
        BY <2>2, <2>3
<1> QED
    BY <1>3, <1>4

LEMMA ShowsHolds == TreeInv => ShowsIs
<1> SUFFICES ASSUME TreeInv, NEW t \in Thread
             PROVE  Shows[t] = {m \in messages : m.thread = t} \cup Inherited(t)
    BY DEF ShowsIs
<1> DEFINE Own(u) == {m \in messages : m.thread = u}
           Via(u) == {m \in messages : \E c \in Chain(u) : Inherits(c, m)}
<1>1. parent \in Parents
    BY DEF TreeInv, TypeOK, Parents
<1>2. \A u \in Thread : Shows[u] = Own(u) \cup Via(u)
    BY DEF Shows, Visible
<1>3. Chain(t) = {t} \cup (IF parent[t] = Nil THEN {} ELSE Chain(parent[t]))
    BY <1>1, ChainIs
<1>4. CASE parent[t] = Nil
    <2>1. Via(t) = {}
        BY <1>4, InheritedBounded
    <2> QED
        BY <1>2, <1>4, <2>1 DEF Inherited
<1>5. CASE parent[t] # Nil
    <2>1. parent[t] \in Thread /\ point[t] \in messages
        BY <1>1, <1>5 DEF Parents, TreeInv, Pointed
    <2>2. Via(t) \subseteq {m \in Shows[parent[t]] : m.seq <= point[t].seq}
        <3>1. ASSUME NEW m \in Via(t)
              PROVE  m.seq <= point[t].seq /\ m \in Own(parent[t]) \cup Via(parent[t])
            <4>1. m.seq <= point[t].seq
                BY InheritedBounded
            <4>2. PICK c \in Chain(t) : Inherits(c, m)
                OBVIOUS
            <4>3. CASE c = t
                BY <4>1, <4>2, <4>3 DEF Inherits
            <4>4. CASE c # t
                BY <1>3, <1>5, <4>1, <4>2, <4>4
            <4> QED
                BY <4>3, <4>4
        <3> QED
            BY <1>2, <2>1, <3>1
    <2>3. {m \in Shows[parent[t]] : m.seq <= point[t].seq} \subseteq Via(t)
        <3>1. ASSUME NEW m \in Own(parent[t]) \cup Via(parent[t]), m.seq <= point[t].seq
              PROVE  m \in Via(t)
            <4>1. CASE m \in Own(parent[t])
                <5>1. Inherits(t, m) /\ t \in Chain(t)
                    BY <1>3, <3>1, <4>1 DEF Inherits
                <5> QED
                    BY <4>1, <5>1
            <4>2. CASE m \in Via(parent[t])
                BY <1>3, <1>5, <4>2
            <4> QED
                BY <3>1, <4>1, <4>2
        <3> QED
            BY <1>2, <2>1, <3>1
    <2> QED
        BY <1>2, <1>5, <2>2, <2>3 DEF Inherited
<1> QED
    BY <1>4, <1>5

LEMMA ShowsHoldsNext == TreeInv' => ShowsIs'
BY ShowsHolds, PTL

-----------------------------------------------------------------------------
(* Every step keeps the invariant.                                          *)

LoopTypes ==
    /\ loop \in [Server -> [op : {"none", "forks", "drop", "read", "seed"},
                            thread : Thread \cup {Nil}, read : SUBSET Message]]
    /\ \A s \in Server : loop[s].op # "none" => loop[s].thread \in Thread

RowTypes ==
    /\ row \in [Thread -> {"none", "live", "deleted"}]
    /\ parent \in [Thread -> Thread \cup {Nil}]
    /\ point \in [Thread -> Message \cup {Nil}]
    /\ lastSeq \in [Thread -> 0..MaxSeq]
    /\ messages \subseteq Message

WorkTypes ==
    /\ seed \in [Thread -> SUBSET Message]
    /\ task \in [Thread -> SUBSET Message]
    /\ raced \subseteq Thread

LEMMA TypesSplit == TypeOK <=> RowTypes /\ LoopTypes /\ WorkTypes
BY DEF TypeOK, RowTypes, LoopTypes, WorkTypes

Tree == Linked /\ Numbered /\ Pointed /\ Grounded

\* The tree stays while its rows do.
LEMMA TreeKept ==
    ASSUME RowTypes, Tree, UNCHANGED <<rows, messages>>
    PROVE  RowTypes' /\ Tree'
BY DEF Tree, RowTypes, Linked, Numbered, Pointed, Grounded, rows, Live

\* A server enters the next step of a handler, or leaves it.
LEMMA EnterIs ==
    ASSUME LoopTypes, NEW s \in Server, NEW op \in {"forks", "drop", "read", "seed"},
           NEW t \in Thread, NEW read \in SUBSET Message, Enter(s, op, t, read)
    PROVE  /\ LoopTypes'
           /\ loop'[s].op = op /\ loop'[s].thread = t /\ loop'[s].read = read
           /\ \A r \in Server \ {s} : loop'[r] = loop[r]
BY DEF LoopTypes, Enter

LEMMA LeaveIs ==
    ASSUME LoopTypes, NEW s \in Server, Leave(s)
    PROVE  /\ LoopTypes'
           /\ loop'[s].op = "none"
           /\ \A r \in Server \ {s} : loop'[r] = loop[r]
BY DEF LoopTypes, Leave, NoHandler

LEMMA TreeInit == Init => TreeInv
<1> SUFFICES ASSUME Init PROVE TreeInv
    OBVIOUS
<1>1. TypeOK
    <2>1. MaxSeq \in Nat /\ 0 \in 0..MaxSeq
        BY TranscriptAssumption
    <2> QED
        BY <2>1 DEF Init, TypeOK, NoHandler
<1>2. Linked /\ Numbered /\ Pointed
    BY DEF Init, Linked, Numbered, Pointed
<1>3. Grounded
    BY TranscriptAssumption DEF Init, Grounded
<1>4. RacedKnown /\ Unborn
    BY DEF Init, RacedKnown, Unborn, NoHandler
<1> QED
    BY <1>1, <1>2, <1>3, <1>4 DEF TreeInv

LEMMA CreateStep == ASSUME TreeInv, NEW t \in Thread, CreateThread(t) PROVE TreeInv'
<1> USE DEF TreeInv, CreateThread
<1>1. TypeOK'
    BY DEF TypeOK
<1>2. Linked' /\ Numbered' /\ Pointed' /\ Grounded'
    BY DEF TypeOK, Linked, Numbered, Pointed, Grounded, Live
<1>3. RacedKnown' /\ Unborn'
    BY DEF TypeOK, RacedKnown, Unborn
<1> QED
    BY <1>1, <1>2, <1>3

\* The message a conversation gets next.
NextMessage(t) == [thread |-> t, seq |-> lastSeq[t] + 1]

LEMMA AddIs ==
    ASSUME TypeOK, NEW t \in Thread, AddMessage(t)
    PROVE  /\ NextMessage(t) \in Message /\ NextMessage(t).thread = t
           /\ NextMessage(t).seq = lastSeq[t] + 1
           /\ messages' = messages \cup {NextMessage(t)}
           /\ lastSeq'[t] = lastSeq[t] + 1 /\ lastSeq'[t] \in 0..MaxSeq
           /\ \A u \in Thread \ {t} : lastSeq'[u] = lastSeq[u]
           /\ lastSeq' \in [Thread -> 0..MaxSeq]
           /\ t \in Live
           /\ UNCHANGED <<row, parent, point, seed, loop, task, raced>>
<1>1. lastSeq[t] \in 0..MaxSeq /\ lastSeq[t] < MaxSeq /\ MaxSeq \in Nat
    BY TranscriptAssumption DEF TypeOK, AddMessage
<1>2. /\ lastSeq' = [lastSeq EXCEPT ![t] = @ + 1]
      /\ lastSeq'[t] = lastSeq[t] + 1
    BY DEF TypeOK, AddMessage
<1> QED
    BY <1>1, <1>2 DEF TypeOK, AddMessage, NextMessage, Message

LEMMA AddStep == ASSUME TreeInv, NEW t \in Thread, AddMessage(t) PROVE TreeInv'
<1>1. /\ NextMessage(t) \in Message /\ NextMessage(t).thread = t
      /\ NextMessage(t).seq = lastSeq[t] + 1
      /\ messages' = messages \cup {NextMessage(t)}
      /\ lastSeq'[t] = lastSeq[t] + 1
      /\ \A u \in Thread \ {t} : lastSeq'[u] = lastSeq[u]
      /\ lastSeq' \in [Thread -> 0..MaxSeq]
      /\ t \in Live
      /\ UNCHANGED <<row, parent, point, seed, loop, task, raced>>
    BY AddIs DEF TreeInv
<1>2. RowTypes' /\ LoopTypes' /\ WorkTypes'
    BY <1>1, TypesSplit DEF TreeInv, RowTypes, LoopTypes, WorkTypes
<1>3. \A u \in Thread : lastSeq[u] \in Nat /\ lastSeq'[u] \in Nat /\ lastSeq[u] <= lastSeq'[u]
    BY <1>1 DEF TreeInv, TypeOK
<1>4. \A m \in messages : m.thread \in Thread /\ m.seq \in Nat
    BY DEF TreeInv, TypeOK, Message
<1>5. Numbered'
    BY <1>1, <1>3, <1>4 DEF TreeInv, Numbered, Live
<1>6. Pointed'
    <2>1. ASSUME NEW u \in Thread, parent[u] # Nil
          PROVE  /\ point[u] \in messages' /\ point[u].thread = parent[u]
                 /\ point[u].seq <= lastSeq'[u]
                 /\ \A m \in messages' : m.thread = u => point[u].seq < m.seq
        <3>1. /\ point[u] \in messages /\ point[u].thread = parent[u]
              /\ point[u].seq <= lastSeq[u] /\ point[u].seq \in Nat
              /\ \A m \in messages : m.thread = u => point[u].seq < m.seq
            BY <1>4, <2>1 DEF TreeInv, Pointed
        <3> QED
            BY <1>1, <1>3, <3>1
    <2> QED
        BY <1>1, <2>1 DEF Pointed
<1>7. Linked' /\ Grounded' /\ RacedKnown' /\ Unborn'
    BY <1>1 DEF TreeInv, Linked, Grounded, RacedKnown, Unborn, Live
<1> QED
    BY <1>2, <1>5, <1>6, <1>7, TypesSplit, PTL DEF TreeInv

\* Steps of a handler that only move it.
LEMMA MoveStep ==
    ASSUME TreeInv, NEW s \in Server, UNCHANGED <<rows, messages, seed, task, raced>>,
           LoopTypes', \A r \in Server \ {s} : loop'[r] = loop[r],
           loop'[s].op # "none" => row[loop'[s].thread] # "none",
           loop'[s].op = "drop" =>
               \A t \in Thread : parent[t] = loop'[s].thread => t \in raced
    PROVE  TreeInv'
<1>1. RowTypes' /\ Tree'
    BY TypesSplit, TreeKept DEF TreeInv, Tree
<1>2. WorkTypes'
    BY TypesSplit DEF TreeInv, WorkTypes
<1>3. RacedKnown' /\ Unborn'
    BY DEF TreeInv, RacedKnown, Unborn, rows
<1> QED
    BY <1>1, <1>2, <1>3, TypesSplit, PTL DEF TreeInv, Tree

LEMMA CheckRunningStep ==
    ASSUME TreeInv, NEW s \in Server, NEW t \in Thread, CheckRunning(s, t)
    PROVE  TreeInv'
<1>1. /\ LoopTypes' /\ loop'[s].op = "forks" /\ loop'[s].thread = t
      /\ \A r \in Server \ {s} : loop'[r] = loop[r]
    BY EnterIs, TypesSplit DEF TreeInv, CheckRunning
<1>2. row[t] # "none"
    BY DEF CheckRunning, Live
<1> QED
    BY <1>1, <1>2, MoveStep DEF CheckRunning

LEMMA CheckForksStep ==
    ASSUME TreeInv, NEW s \in Server, CheckForks(s)
    PROVE  TreeInv'
<1> DEFINE t == loop[s].thread
<1>1. t \in Thread /\ row[t] # "none" /\ LoopTypes
    BY TypesSplit DEF TreeInv, LoopTypes, Unborn, CheckForks
<1>2. CASE HasForkChildren(t)
    <2>1. LoopTypes' /\ loop'[s].op = "none" /\ \A r \in Server \ {s} : loop'[r] = loop[r]
        BY <1>1, <1>2, LeaveIs DEF CheckForks
    <2> QED
        BY <2>1, MoveStep DEF CheckForks
<1>3. CASE ~ HasForkChildren(t)
    <2>1. /\ LoopTypes' /\ loop'[s].thread = t
          /\ \A r \in Server \ {s} : loop'[r] = loop[r]
        BY <1>1, <1>3, EnterIs DEF CheckForks
    <2>2. \A u \in Thread : parent[u] # t
        BY <1>3 DEF HasForkChildren
    <2> QED
        BY <1>1, <2>1, <2>2, MoveStep DEF CheckForks
<1> QED
    BY <1>2, <1>3

LEMMA CrashStep ==
    ASSUME TreeInv, NEW s \in Server, Crash(s)
    PROVE  TreeInv'
<1>1. LoopTypes' /\ loop'[s].op = "none" /\ \A r \in Server \ {s} : loop'[r] = loop[r]
    BY LeaveIs, TypesSplit DEF TreeInv, Crash
<1> QED
    BY <1>1, MoveStep DEF Crash

\* What a conversation shows are messages.
LEMMA VisibleAreMessages == \A t : Visible(t) \subseteq messages
BY DEF Visible

LEMMA ForkReadStep ==
    ASSUME TreeInv, NEW s \in Server, ForkRead(s)
    PROVE  TreeInv'
<1> DEFINE t == loop[s].thread
<1>1. t \in Thread /\ row[t] # "none" /\ LoopTypes
    BY TypesSplit DEF TreeInv, LoopTypes, Unborn, ForkRead
<1>2. ForkMessages(t) \in SUBSET Message
    BY VisibleAreMessages DEF ForkMessages, TreeInv, TypeOK
<1>3. /\ LoopTypes' /\ loop'[s].op = "seed" /\ loop'[s].thread = t
      /\ \A r \in Server \ {s} : loop'[r] = loop[r]
    BY <1>1, <1>2, EnterIs DEF ForkRead
<1> QED
    BY <1>1, <1>3, MoveStep DEF ForkRead

LEMMA ForkStateStep ==
    ASSUME TreeInv, NEW s \in Server, ForkState(s)
    PROVE  TreeInv'
<1> DEFINE n == loop[s].thread
<1>1. /\ n \in Thread /\ row[n] # "none" /\ LoopTypes /\ loop[s].read \subseteq Message
    BY TypesSplit DEF TreeInv, LoopTypes, Unborn, ForkState
<1>2. LoopTypes' /\ loop'[s].op = "none" /\ \A r \in Server \ {s} : loop'[r] = loop[r]
    BY <1>1, LeaveIs DEF ForkState
<1>3. UNCHANGED <<rows, messages, task, raced>>
    BY DEF ForkState
<1>4. WorkTypes' /\ \A t \in Thread \ {n} : seed'[t] = seed[t]
    BY <1>1, TypesSplit DEF TreeInv, WorkTypes, ForkState
<1>5. RowTypes' /\ Tree'
    BY <1>3, TypesSplit, TreeKept DEF TreeInv, Tree
<1>6. RacedKnown' /\ Unborn'
    BY <1>1, <1>2, <1>3, <1>4 DEF TreeInv, RacedKnown, Unborn, rows
<1> QED
    BY <1>2, <1>4, <1>5, <1>6, TypesSplit, PTL DEF TreeInv, Tree

\* Steps of a summary only change its task, of a conversation that is there.
LEMMA TaskStep ==
    ASSUME TreeInv, UNCHANGED <<rows, messages, seed, loop, raced>>,
           NEW t \in Thread, NEW read \in SUBSET Message,
           task' = [task EXCEPT ![t] = read], row[t] # "none" \/ read = {}
    PROVE  TreeInv'
<1>1. RowTypes' /\ Tree'
    BY TypesSplit, TreeKept DEF TreeInv, Tree
<1>2. WorkTypes' /\ LoopTypes'
    BY TypesSplit DEF TreeInv, WorkTypes, LoopTypes
<1>3. RacedKnown' /\ Unborn'
    BY DEF TreeInv, TypeOK, RacedKnown, Unborn, rows
<1> QED
    BY <1>1, <1>2, <1>3, TypesSplit, PTL DEF TreeInv, Tree

LEMMA SummarizeStep == ASSUME TreeInv, Summarize PROVE TreeInv'
<1>1. PICK t \in Live, range \in Ranges : ReadForSummary(t, range[1], range[2])
    BY DEF Summarize
<1>2. t \in Thread /\ row[t] # "none"
    BY DEF Live
<1>3. {m \in Visible(t) : range[1] <= m.seq /\ m.seq <= range[2]} \in SUBSET Message
    BY VisibleAreMessages DEF TreeInv, TypeOK
<1> QED
    BY <1>1, <1>2, <1>3, TaskStep DEF ReadForSummary

LEMMA AddSummaryStep == ASSUME TreeInv, NEW t \in Thread, AddSummary(t) PROVE TreeInv'
BY TaskStep DEF AddSummary

LEMMA DeleteStep ==
    ASSUME TreeInv, NEW s \in Server, DeleteThread(s)
    PROVE  TreeInv'
<1> DEFINE t == loop[s].thread
<1>1. t \in Thread /\ t # Nil /\ LoopTypes
    BY TypesSplit, TranscriptAssumption DEF TreeInv, LoopTypes, DeleteThread
<1>2. /\ row' = [row EXCEPT ![t] = "deleted"]
      /\ messages' = {m \in messages : m.thread # t}
      /\ parent' = [u \in Thread |-> IF t \in {u, parent[u]} THEN Nil ELSE parent[u]]
      /\ point' = [point EXCEPT ![t] = Nil]
      /\ lastSeq' = [lastSeq EXCEPT ![t] = 0]
      /\ seed' = [seed EXCEPT ![t] = {}]
      /\ UNCHANGED <<task, raced>>
    BY DEF DeleteThread
<1>3. LoopTypes' /\ loop'[s].op = "none" /\ \A r \in Server \ {s} : loop'[r] = loop[r]
    BY <1>1, LeaveIs DEF DeleteThread
<1>4. RowTypes' /\ WorkTypes'
    <2>1. 0 \in 0..MaxSeq
        BY TranscriptAssumption
    <2> QED
        BY <1>1, <1>2, <2>1, TypesSplit DEF TreeInv, RowTypes, WorkTypes
<1>5. /\ parent'[t] = Nil
      /\ \A u \in Thread : parent'[u] # Nil =>
             /\ u # t /\ parent'[u] = parent[u] /\ parent[u] # t
             /\ point'[u] = point[u] /\ lastSeq'[u] = lastSeq[u] /\ row'[u] = row[u]
    BY <1>1, <1>2 DEF TreeInv, TypeOK
<1>6. Linked'
    BY <1>1, <1>2, <1>5 DEF TreeInv, TypeOK, Linked, Live
<1>7. Numbered'
    BY <1>1, <1>2 DEF TreeInv, TypeOK, Numbered, Live
<1>8. Pointed'
    BY <1>1, <1>2, <1>5 DEF TreeInv, Pointed
<1>9. Grounded'
    <2>1. ASSUME NEW S \in SUBSET Thread, S # {} PROVE \E u \in S : parent'[u] \notin S
        <3>1. PICK u \in S : parent[u] \notin S
            BY <2>1 DEF TreeInv, Grounded
        <3>2. parent'[u] = Nil \/ parent'[u] = parent[u]
            BY <1>2
        <3> QED
            BY <3>1, <3>2, TranscriptAssumption
    <2> QED
        BY <2>1 DEF Grounded
<1>10. RacedKnown'
    <2>1. ASSUME NEW u \in Thread, parent'[u] # Nil PROVE parent'[u] = parent[u]
        BY <1>5, <2>1
    <2>2. Nil \notin raced
        BY TranscriptAssumption DEF TreeInv, TypeOK
    <2>3. \A r \in Server : loop'[r].op = "drop" => loop[r].op = "drop" /\ loop'[r] = loop[r]
                                                   /\ loop[r].thread # Nil
        BY <1>1, <1>3, TranscriptAssumption DEF LoopTypes
    <2> QED
        BY <1>2, <2>1, <2>2, <2>3 DEF TreeInv, RacedKnown
<1>11. Unborn'
    BY <1>1, <1>2, <1>3 DEF TreeInv, TypeOK, Unborn
<1> QED
    BY <1>3, <1>4, <1>6, <1>7, <1>8, <1>9, <1>10, <1>11, TypesSplit, PTL DEF TreeInv

\* What fork_thread does to the pointers: n is new, so nobody's parent.
LEMMA ForkIs ==
    ASSUME TreeInv, NEW s \in Server, NEW p \in Thread, NEW m \in messages,
           NEW n \in Thread, ForkThread(s, p, m, n)
    PROVE  /\ p \in Live /\ p # n /\ p # Nil /\ n \notin Live
           /\ \A u \in Thread : parent[u] # n
           /\ \A o \in messages : o.thread # n
           /\ parent[n] = Nil /\ seed[n] = {} /\ task[n] = {}
           /\ m \in Message /\ m.thread = p
           /\ row'[n] = "live" /\ parent'[n] = p /\ point'[n] = m /\ lastSeq'[n] = m.seq
           /\ \A u \in Thread \ {n} :
                  /\ row'[u] = row[u] /\ parent'[u] = parent[u]
                  /\ point'[u] = point[u] /\ lastSeq'[u] = lastSeq[u]
           /\ RowTypes' /\ UNCHANGED <<messages, seed, task>>
<1>1. row[n] = "none" /\ m.thread = p /\ m \in Message
    BY DEF ForkThread, TreeInv, TypeOK
<1>2. p \in Live /\ n \notin Live /\ p # Nil
    BY <1>1, TranscriptAssumption DEF TreeInv, Numbered, Live
<1>3. \A u \in Thread : parent[u] # n
    BY <1>2, TranscriptAssumption DEF TreeInv, Linked
<1>4. parent[n] = Nil /\ seed[n] = {} /\ task[n] = {}
    BY <1>1, <1>2 DEF TreeInv, Linked, Unborn
<1>5. \A o \in messages : o.thread # n
    BY <1>2 DEF TreeInv, Numbered
<1>6. /\ row' = [row EXCEPT ![n] = "live"]
      /\ parent' = [parent EXCEPT ![n] = p]
      /\ point' = [point EXCEPT ![n] = m]
      /\ lastSeq' = [lastSeq EXCEPT ![n] = m.seq]
      /\ UNCHANGED <<messages, seed, task>>
    BY DEF ForkThread, FirstSeq
<1>7. m.seq \in 0..MaxSeq
    BY <1>1, TranscriptAssumption DEF Message
<1>8. RowTypes'
    BY <1>1, <1>6, <1>7, TypesSplit DEF TreeInv, RowTypes
<1> QED
    BY <1>1, <1>2, <1>3, <1>4, <1>5, <1>6, <1>8 DEF TreeInv, TypeOK

LEMMA ForkStep ==
    ASSUME TreeInv, NEW s \in Server, NEW p \in Thread, NEW m \in messages,
           NEW n \in Thread, ForkThread(s, p, m, n)
    PROVE  TreeInv'
<1>1. /\ p \in Live /\ p # n /\ p # Nil /\ n \notin Live
      /\ \A u \in Thread : parent[u] # n
      /\ \A o \in messages : o.thread # n
      /\ m \in Message /\ m.thread = p
      /\ row'[n] = "live" /\ parent'[n] = p /\ point'[n] = m /\ lastSeq'[n] = m.seq
      /\ \A u \in Thread \ {n} :
             /\ row'[u] = row[u] /\ parent'[u] = parent[u]
             /\ point'[u] = point[u] /\ lastSeq'[u] = lastSeq[u]
      /\ RowTypes' /\ UNCHANGED <<messages, seed, task>>
    BY ForkIs
<1>2. raced' = IF p \in raced \/ Doomed(p) THEN raced \cup {n} ELSE raced
    BY DEF ForkThread
<1>3. /\ LoopTypes' /\ loop'[s].op = "read" /\ loop'[s].thread = n
      /\ \A r \in Server \ {s} : loop'[r] = loop[r]
    BY EnterIs, TypesSplit DEF TreeInv, ForkThread
<1>4. WorkTypes'
    BY <1>1, <1>2, TypesSplit DEF TreeInv, WorkTypes
<1>5. Linked'
    BY <1>1 DEF TreeInv, Linked, Live
<1>6. Numbered'
    BY <1>1 DEF TreeInv, Numbered, Live
<1>7. Pointed'
    <2>1. m.seq \in Nat
        BY <1>1 DEF Message
    <2> QED
        BY <1>1, <2>1 DEF TreeInv, Pointed
<1>8. Grounded'
    <2>1. ASSUME NEW S \in SUBSET Thread, S # {} PROVE \E u \in S : parent'[u] \notin S
        <3>1. CASE S \subseteq {n}
            BY <1>1, <2>1, <3>1
        <3>2. CASE ~ (S \subseteq {n})
            <4>1. PICK u \in S \ {n} : parent[u] \notin S \ {n}
                BY <3>2 DEF TreeInv, Grounded
            <4> QED
                BY <1>1, <4>1
        <3> QED
            BY <3>1, <3>2
    <2> QED
        BY <2>1 DEF Grounded
<1>9. RacedKnown'
    <2>1. \A r \in Server : loop'[r].op = "drop" => r # s /\ loop'[r] = loop[r]
        BY <1>3
    <2>2. \A r \in Server : loop'[r].op = "drop" /\ loop'[r].thread = p => n \in raced'
        BY <1>2, <2>1 DEF Doomed
    <2>3. \A u \in Thread : parent'[u] # n
        BY <1>1
    <2>4. raced \subseteq raced' /\ raced' \subseteq raced \cup {n} /\ (p \in raced => n \in raced')
        BY <1>2
    <2> QED
        BY <1>1, <2>1, <2>2, <2>3, <2>4 DEF TreeInv, RacedKnown
<1>10. Unborn'
    BY <1>1, <1>3 DEF TreeInv, TypeOK, Unborn
<1> QED
    BY <1>1, <1>3, <1>4, <1>5, <1>6, <1>7, <1>8, <1>9, <1>10, TypesSplit, PTL DEF TreeInv

LEMMA TreeStep == TreeInv /\ [Next]_vars => TreeInv'
<1> SUFFICES ASSUME TreeInv, [Next]_vars PROVE TreeInv'
    OBVIOUS
<1>1. ASSUME NEW t \in Thread, CreateThread(t) \/ AddMessage(t) \/ AddSummary(t)
      PROVE  TreeInv'
    BY <1>1, CreateStep, AddStep, AddSummaryStep
<1>2. CASE Summarize
    BY <1>2, SummarizeStep
<1>3. ASSUME NEW s \in Server, Handler(s) PROVE TreeInv'
    BY <1>3, CheckForksStep, DeleteStep, ForkReadStep, ForkStateStep, CrashStep,
       CheckRunningStep, ForkStep DEF Handler
<1>4. CASE UNCHANGED vars
    BY <1>4, TypesSplit DEF vars, rows, TreeInv, TypeOK, Linked, Numbered, Pointed,
                            Grounded, RacedKnown, Unborn, Live
<1> QED
    BY <1>1, <1>2, <1>3, <1>4 DEF Next

THEOREM TreeHolds == Spec => []TreeInv
BY TreeInit, TreeStep, PTL DEF Spec

\* All variables keep their types.
THEOREM TypesHold == Spec => []TypeOK
<1>1. TreeInv => TypeOK
    BY DEF TreeInv
<1> QED
    BY <1>1, TreeHolds, PTL

-----------------------------------------------------------------------------
(* The numbers order what a conversation shows.                             *)

\* Nothing shown is numbered beyond the counter of who shows it.
LEMMA ShownBounded ==
    ASSUME TreeInv
    PROVE  \A t \in Thread : \A m \in Shows[t] :
               m \in messages /\ m.seq \in Nat /\ m.seq <= lastSeq[t]
<1> SUFFICES ASSUME NEW t \in Thread, NEW m \in Shows[t]
             PROVE  m \in messages /\ m.seq \in Nat /\ m.seq <= lastSeq[t]
    OBVIOUS
<1>1. m \in messages /\ m.seq \in Nat
    BY VisibleAreMessages DEF Shows, TreeInv, TypeOK, Message
<1>2. CASE m.thread = t
    BY <1>1, <1>2 DEF TreeInv, Numbered
<1>3. CASE m.thread # t
    <2>1. parent[t] # Nil /\ m.seq <= point[t].seq
        BY <1>3, ShowsHolds DEF ShowsIs, Inherited
    <2>2. point[t].seq \in Nat /\ lastSeq[t] \in Nat /\ point[t].seq <= lastSeq[t]
        BY <2>1 DEF TreeInv, Pointed, TypeOK, Message
    <2> QED
        BY <1>1, <2>1, <2>2
<1> QED
    BY <1>2, <1>3

LEMMA NumbersDiffer == TreeInv => NumbersOrder
<1> DEFINE Ordered(t) == \A m, o \in Shows[t] : m.seq = o.seq => m = o
           Bad == {t \in Thread : ~ Ordered(t)}
<1> SUFFICES ASSUME TreeInv PROVE Bad = {}
    BY DEF NumbersOrder, Live, Shows
<1>1. SUFFICES ASSUME Bad # {} PROVE FALSE
    OBVIOUS
<1>2. PICK t \in Bad : parent[t] \notin Bad
    BY <1>1 DEF TreeInv, Grounded
<1>3. ASSUME NEW m \in Shows[t], NEW o \in Shows[t], m.seq = o.seq PROVE m = o
    <2>1. /\ m \in messages /\ o \in messages /\ m.seq \in Nat /\ o.seq \in Nat
        BY ShownBounded
    <2>2. /\ m.thread = t \/ (parent[t] # Nil /\ m \in Shows[parent[t]] /\ m.seq <= point[t].seq)
          /\ o.thread = t \/ (parent[t] # Nil /\ o \in Shows[parent[t]] /\ o.seq <= point[t].seq)
        BY ShowsHolds DEF ShowsIs, Inherited
    <2>3. CASE m.thread = t /\ o.thread = t
        BY <1>3, <2>1, <2>3 DEF TreeInv, TypeOK, Message
    <2>4. CASE parent[t] # Nil /\ m \in Shows[parent[t]] /\ o \in Shows[parent[t]]
        <3>1. parent[t] \in Thread
            BY <2>4 DEF TreeInv, TypeOK
        <3> QED
            BY <1>2, <1>3, <2>4, <3>1
    <2>5. CASE parent[t] # Nil /\ ((m.thread = t /\ o.seq <= point[t].seq)
                                   \/ (o.thread = t /\ m.seq <= point[t].seq))
        <3>1. /\ point[t].seq \in Nat
              /\ \A x \in messages : x.thread = t => point[t].seq < x.seq
            BY <2>5 DEF TreeInv, Pointed, TypeOK, Message
        <3> QED
            BY <1>3, <2>1, <2>5, <3>1
    <2> QED
        BY <2>2, <2>3, <2>4, <2>5
<1> QED
    BY <1>2, <1>3

\* ORDER BY m.seq in get_thread_messages orders what a conversation shows.
THEOREM NumbersOrderHolds == Spec => []NumbersOrder
BY NumbersDiffer, TreeHolds, PTL

-----------------------------------------------------------------------------
(* How steps change what is shown.                                          *)

\* Conversations whose chains are not touched show what they showed.
LEMMA ShowsSame ==
    ASSUME TreeInv, TreeInv', NEW U \in SUBSET Thread,
           \A u \in U : /\ parent'[u] = parent[u] /\ point'[u] = point[u]
                        /\ parent[u] # Nil => parent[u] \in U
                        /\ {m \in messages' : m.thread = u} = {m \in messages : m.thread = u}
    PROVE  \A u \in U : Shows'[u] = Shows[u]
<1> DEFINE Bad == {u \in U : Shows'[u] # Shows[u]}
<1>1. SUFFICES ASSUME Bad # {} PROVE FALSE
    OBVIOUS
<1>2. PICK u \in Bad : parent[u] \notin Bad
    BY <1>1 DEF TreeInv, Grounded
<1>3. /\ Shows[u] = {m \in messages : m.thread = u} \cup Inherited(u)
      /\ Shows'[u] = {m \in messages' : m.thread = u} \cup Inherited(u)'
    BY ShowsHolds, ShowsHoldsNext DEF ShowsIs
<1>4. Inherited(u)' = Inherited(u)
    BY <1>2 DEF Inherited
<1> QED
    BY <1>2, <1>3, <1>4

\* Nothing is shown anew when the rows stay.
LEMMA ShowsKept ==
    ASSUME TreeInv, TreeInv', UNCHANGED <<parent, point, messages>>
    PROVE  \A u \in Thread : Shows'[u] = Shows[u]
BY ShowsSame DEF TreeInv, TypeOK

\* A new message is shown by its own conversation, after everything else, and
\* by no other: it is beyond the fork point of every fork.
LEMMA ShowsAdded ==
    ASSUME TreeInv, TreeInv', NEW t \in Thread, AddMessage(t)
    PROVE  /\ Shows'[t] = Shows[t] \cup {NextMessage(t)}
           /\ \A m \in Shows[t] : m.seq < NextMessage(t).seq
           /\ \A u \in Thread \ {t} : Shows'[u] = Shows[u]
<1> DEFINE new == NextMessage(t)
           Grown(u) == Shows[u] \cup (IF u = t THEN {new} ELSE {})
           Bad == {u \in Thread : Shows'[u] # Grown(u)}
<1>1. /\ new \in Message /\ new.thread = t /\ new.seq = lastSeq[t] + 1
      /\ messages' = messages \cup {new}
      /\ UNCHANGED <<parent, point>>
    BY AddIs DEF TreeInv
<1>2. lastSeq[t] \in Nat
    BY DEF TreeInv, TypeOK
<1> HIDE DEF new
<1>3. \A m \in Shows[t] : m.seq < new.seq
    BY <1>1, <1>2, ShownBounded
<1>4. Bad = {}
    <2>1. SUFFICES ASSUME Bad # {} PROVE FALSE
        OBVIOUS
    <2>2. PICK u \in Bad : parent[u] \notin Bad
        BY <2>1 DEF TreeInv, Grounded
    <2>3. /\ Shows[u] = {m \in messages : m.thread = u} \cup Inherited(u)
          /\ Shows'[u] = {m \in messages' : m.thread = u} \cup Inherited(u)'
        BY ShowsHolds, ShowsHoldsNext DEF ShowsIs
    <2>4. {m \in messages' : m.thread = u} =
              {m \in messages : m.thread = u} \cup (IF u = t THEN {new} ELSE {})
        BY <1>1
    <2>5. Inherited(u)' = Inherited(u)
        <3>1. CASE parent[u] = Nil
            BY <1>1, <3>1 DEF Inherited
        <3>2. CASE parent[u] # Nil
            <4>1. parent[u] \in Thread
                BY <3>2 DEF TreeInv, TypeOK
            <4>2. Shows'[parent[u]] = Grown(parent[u])
                BY <2>2, <4>1
            <4>3. CASE parent[u] # t
                BY <1>1, <4>2, <4>3 DEF Inherited
            <4>4. CASE parent[u] = t
                <5>1. point[u].seq \in Nat /\ point[u].seq <= lastSeq[t]
                    BY <3>2, <4>4 DEF TreeInv, Pointed, Numbered, TypeOK, Message
                <5>2. ~ (new.seq <= point[u].seq)
                    BY <1>1, <1>2, <5>1
                <5> QED
                    BY <1>1, <4>2, <4>4, <5>2 DEF Inherited
            <4> QED
                BY <4>3, <4>4
        <3> QED
            BY <3>1, <3>2
    <2> QED
        BY <2>2, <2>3, <2>4, <2>5
<1> QED
    BY <1>3, <1>4 DEF new

\* A fork shows the prefix of its parent; the others are as they were.
LEMMA ShowsForked ==
    ASSUME TreeInv, TreeInv', NEW s \in Server, NEW p \in Thread, NEW m \in messages,
           NEW n \in Thread, ForkThread(s, p, m, n)
    PROVE  /\ Shows'[n] = {x \in Shows[p] : x.seq <= m.seq}
           /\ m \in Shows[p]
           /\ \A u \in Thread \ {n} : Shows'[u] = Shows[u]
<1>1. /\ p # n /\ p # Nil /\ m.thread = p
      /\ \A u \in Thread : parent[u] # n
      /\ \A o \in messages : o.thread # n
      /\ parent'[n] = p /\ point'[n] = m /\ messages' = messages
      /\ \A u \in Thread \ {n} : parent'[u] = parent[u] /\ point'[u] = point[u]
    BY ForkIs
<1>2. \A u \in Thread \ {n} : Shows'[u] = Shows[u]
    <2>1. \A u \in Thread \ {n} : parent[u] # Nil => parent[u] \in Thread \ {n}
        BY <1>1 DEF TreeInv, TypeOK
    <2> QED
        BY <1>1, <2>1, ShowsSame
<1>3. Shows'[n] = {o \in messages' : o.thread = n} \cup Inherited(n)'
    BY ShowsHoldsNext DEF ShowsIs
<1>4. Inherited(n)' = {x \in Shows'[p] : x.seq <= m.seq}
    BY <1>1 DEF Inherited
<1>5. {o \in messages' : o.thread = n} = {}
    BY <1>1
<1>6. m \in Shows[p]
    BY <1>1, ShowsHolds DEF ShowsIs
<1> QED
    BY <1>1, <1>2, <1>3, <1>4, <1>5, <1>6

\* A deletion takes messages from raced forks only.
LEMMA ShowsDeleted ==
    ASSUME TreeInv, TreeInv', NEW s \in Server, DeleteThread(s)
    PROVE  /\ \A u \in Thread \ {loop[s].thread} : Shows'[u] \subseteq Shows[u]
           /\ \A u \in Thread \ {loop[s].thread} : u \notin raced => Shows'[u] = Shows[u]
<1> DEFINE t == loop[s].thread
           U == {u \in Thread : u # t /\ u \notin raced}
           Bad == {u \in Thread \ {t} : ~ (Shows'[u] \subseteq Shows[u])}
<1>1. /\ t \in Thread /\ t # Nil /\ loop[s].op = "drop"
      /\ messages' = {m \in messages : m.thread # t}
      /\ parent' = [u \in Thread |-> IF t \in {u, parent[u]} THEN Nil ELSE parent[u]]
      /\ \A u \in Thread \ {t} : point'[u] = point[u]
    BY TranscriptAssumption DEF DeleteThread, TreeInv, TypeOK
<1>2. ASSUME NEW u \in U
      PROVE  /\ parent'[u] = parent[u] /\ point'[u] = point[u]
             /\ parent[u] # Nil => parent[u] \in U
             /\ {m \in messages' : m.thread = u} = {m \in messages : m.thread = u}
    <2>1. parent[u] # t /\ parent[u] \notin raced
        BY <1>1 DEF TreeInv, RacedKnown
    <2> QED
        BY <1>1, <2>1 DEF TreeInv, TypeOK
<1>3. \A u \in U : Shows'[u] = Shows[u]
    <2>1. U \in SUBSET Thread
        OBVIOUS
    <2> HIDE DEF U
    <2> QED
        BY <1>2, <2>1, ShowsSame
<1>4. Bad = {}
    <2>1. SUFFICES ASSUME Bad # {} PROVE FALSE
        OBVIOUS
    <2>2. PICK u \in Bad : parent[u] \notin Bad
        BY <2>1 DEF TreeInv, Grounded
    <2>3. /\ Shows[u] = {m \in messages : m.thread = u} \cup Inherited(u)
          /\ Shows'[u] = {m \in messages' : m.thread = u} \cup Inherited(u)'
        BY ShowsHolds, ShowsHoldsNext DEF ShowsIs
    <2>4. {m \in messages' : m.thread = u} \subseteq {m \in messages : m.thread = u}
        BY <1>1
    <2>5. Inherited(u)' \subseteq Inherited(u)
        <3>1. CASE parent'[u] = Nil
            BY <3>1 DEF Inherited
        <3>2. CASE parent'[u] # Nil
            <4>1. parent'[u] = parent[u] /\ parent[u] \in Thread \ {t} /\ point'[u] = point[u]
                BY <1>1, <3>2 DEF TreeInv, TypeOK
            <4>2. Shows'[parent[u]] \subseteq Shows[parent[u]]
                BY <2>2, <4>1
            <4> QED
                BY <3>2, <4>1, <4>2 DEF Inherited
        <3> QED
            BY <3>1, <3>2
    <2> QED
        BY <2>2, <2>3, <2>4, <2>5
<1> QED
    BY <1>3, <1>4

-----------------------------------------------------------------------------
(* Transcript implements ForkCopy.                                          *)

\* The refinement mapping of view, and what it is.
View == [t \in Thread |-> IF t \in Live THEN Visible(t) ELSE {}]
ViewIs == View = [t \in Thread |-> IF t \in Live THEN Shows[t] ELSE {}]

LEMMA ViewHolds == ViewIs
BY DEF View, ViewIs, Shows

LEMMA ViewHoldsNext == ViewIs'
BY ViewHolds, PTL

\* What is shown and who is there stay: a stutter.
LEMMA CopyStutter ==
    ASSUME UNCHANGED <<row, raced>>, \A t \in Thread : Shows'[t] = Shows[t]
    PROVE  UNCHANGED Copy!vars
<1>1. Live' = Live
    BY DEF Live
<1>2. View' = View
    BY <1>1, ViewHolds, ViewHoldsNext DEF ViewIs
<1> QED
    BY <1>1, <1>2 DEF Copy!vars, View

LEMMA CopySay ==
    ASSUME TreeInv, TreeInv', NEW t \in Thread, AddMessage(t)
    PROVE  Copy!Say
<1>1. /\ Live' = Live /\ raced' = raced /\ t \in Live
    BY DEF AddMessage, Live
<1>2. /\ Shows'[t] = Shows[t] \cup {NextMessage(t)}
      /\ \A m \in Shows[t] : m.seq < NextMessage(t).seq
      /\ \A u \in Thread \ {t} : Shows'[u] = Shows[u]
    BY ShowsAdded
<1>3. View[t] = Shows[t] /\ View'[t] = Shows'[t]
    BY <1>1, ViewHolds, ViewHoldsNext DEF ViewIs
<1>4. View' = [View EXCEPT ![t] = @ \cup {NextMessage(t)}]
    BY <1>1, <1>2, ViewHolds, ViewHoldsNext DEF ViewIs
<1>5. NextMessage(t) \in View'[t] \ View[t]
    <2>1. NextMessage(t).seq \in Nat
        BY AddIs DEF TreeInv, Message
    <2> QED
        BY <1>2, <1>3, <2>1
<1> HIDE DEF View
<1>6. \E u \in Live : \E m \in View'[u] \ View[u] :
          /\ \A x \in View[u] : x.seq < m.seq
          /\ View' = [View EXCEPT ![u] = @ \cup {m}]
    BY <1>1, <1>2, <1>3, <1>4, <1>5
<1> QED
    BY <1>1, <1>6 DEF Copy!Say, View

LEMMA CopyCreate ==
    ASSUME TreeInv, TreeInv', NEW t \in Thread, CreateThread(t)
    PROVE  Copy!Create(t)
<1>1. t \notin Live /\ Live' = Live \cup {t} /\ raced' = raced
    BY DEF CreateThread, Live, TreeInv, TypeOK
<1>2. \A u \in Thread : Shows'[u] = Shows[u]
    BY ShowsKept DEF CreateThread
<1>3. Shows[t] = {}
    BY <1>1, ShowsHolds DEF ShowsIs, Inherited, TreeInv, Linked, Numbered
<1>4. View' = View
    BY <1>1, <1>2, <1>3, ViewHolds, ViewHoldsNext DEF ViewIs
<1> QED
    BY <1>1, <1>4 DEF Copy!Create, View

LEMMA CopyFork ==
    ASSUME TreeInv, TreeInv', NEW s \in Server, NEW p \in Thread, NEW m \in messages,
           NEW n \in Thread, ForkThread(s, p, m, n)
    PROVE  Copy!Fork(p, n)
<1>1. p \in Live /\ n \notin Live /\ Live' = Live \cup {n}
    <2>1. /\ p \in Live /\ n \notin Live /\ row'[n] = "live"
          /\ \A u \in Thread \ {n} : row'[u] = row[u]
        BY ForkIs
    <2> QED
        BY <2>1 DEF Live
<1>2. /\ Shows'[n] = {x \in Shows[p] : x.seq <= m.seq} /\ m \in Shows[p]
      /\ \A u \in Thread \ {n} : Shows'[u] = Shows[u]
    BY ShowsForked
<1>3. m \in View[p] /\ View[p] = Shows[p]
    BY <1>1, <1>2, ViewHolds DEF ViewIs
<1>4. View' = [View EXCEPT ![n] = {x \in View[p] : x.seq <= m.seq}]
    BY <1>1, <1>2, <1>3, ViewHolds, ViewHoldsNext DEF ViewIs
<1>5. raced' \in {raced, raced \cup {n}}
    BY DEF ForkThread
<1> HIDE DEF View
<1>6. \E x \in View[p] : View' = [View EXCEPT ![n] = {y \in View[p] : y.seq <= x.seq}]
    BY <1>3, <1>4
<1> QED
    BY <1>1, <1>5, <1>6 DEF Copy!Fork, View

\* The second of two deletions of one conversation is a stutter.
LEMMA CopyDelete ==
    ASSUME TreeInv, TreeInv', NEW s \in Server, DeleteThread(s),
           NEW t \in Thread, loop[s].thread = t
    PROVE  Copy!Delete(t) \/ UNCHANGED Copy!vars
<1>1. t \in Thread /\ Live' = Live \ {t} /\ raced' = raced
    BY DEF DeleteThread, Live, TreeInv, TypeOK
<1>2. /\ \A u \in Thread \ {t} : Shows'[u] \subseteq Shows[u]
      /\ \A u \in Thread \ {t} : u \notin raced => Shows'[u] = Shows[u]
    BY ShowsDeleted
<1>3. CASE t \in Live
    <2>1. View'[t] = {}
        BY <1>1, ViewHoldsNext DEF ViewIs
    <2>2. \A u \in Thread \ {t} : IF u \in raced THEN View'[u] \subseteq View[u]
                                  ELSE View'[u] = View[u]
        BY <1>1, <1>2, ViewHolds, ViewHoldsNext DEF ViewIs
    <2> HIDE DEF View
    <2> QED
        BY <1>1, <1>3, <2>1, <2>2 DEF Copy!Delete, View
<1>4. CASE t \notin Live
    <2>1. Live' = Live
        BY <1>1, <1>4
    <2>2. \A u \in Thread \ {t} :
              /\ parent'[u] = parent[u] /\ point'[u] = point[u]
              /\ parent[u] # Nil => parent[u] \in Thread \ {t}
              /\ {m \in messages' : m.thread = u} = {m \in messages : m.thread = u}
        <3>1. \A u \in Thread : parent[u] # t
            BY <1>1, <1>4, TranscriptAssumption DEF TreeInv, Linked
        <3> QED
            BY <1>1, <3>1 DEF DeleteThread, TreeInv, TypeOK
    <2>3. \A u \in Thread \ {t} : Shows'[u] = Shows[u]
        BY <2>2, ShowsSame
    <2>4. View' = View
        BY <1>4, <2>1, <2>3, ViewHolds, ViewHoldsNext DEF ViewIs
    <2> QED
        BY <1>1, <2>1, <2>4 DEF Copy!vars, View
<1> QED
    BY <1>3, <1>4

\* Every step of Transcript is a step of ForkCopy or none.
LEMMA CopyStep == TreeInv /\ TreeInv' /\ [Next]_vars => [Copy!Next]_(Copy!vars)
<1> SUFFICES ASSUME TreeInv, TreeInv', [Next]_vars
             PROVE  Copy!Next \/ UNCHANGED Copy!vars
    OBVIOUS
<1>1. ASSUME NEW t \in Thread, CreateThread(t) PROVE Copy!Next
    BY <1>1, CopyCreate DEF Copy!Next
<1>2. ASSUME NEW t \in Thread, AddMessage(t) PROVE Copy!Next
    BY <1>2, CopySay DEF Copy!Next
<1>3. ASSUME NEW s \in Server, NEW p \in Thread, NEW n \in Thread, NEW m \in messages,
             ForkThread(s, p, m, n)
      PROVE  Copy!Next
    BY <1>3, CopyFork DEF Copy!Next
<1>4. ASSUME NEW s \in Server, DeleteThread(s) PROVE Copy!Next \/ UNCHANGED Copy!vars
    <2>1. PICK t \in Thread : loop[s].thread = t
        BY <1>4 DEF DeleteThread, TreeInv, TypeOK
    <2>2. Copy!Delete(t) \/ UNCHANGED Copy!vars
        BY <1>4, <2>1, CopyDelete
    <2> QED
        BY <2>2 DEF Copy!Next
<1>5. ASSUME UNCHANGED <<rows, messages, raced>> PROVE UNCHANGED Copy!vars
    <2>1. UNCHANGED <<parent, point, messages, row, raced>>
        BY <1>5 DEF rows
    <2> QED
        BY <2>1, ShowsKept, CopyStutter
<1>6. ASSUME NEW t \in Thread, AddSummary(t) PROVE UNCHANGED Copy!vars
    BY <1>5, <1>6 DEF AddSummary
<1>7. CASE Summarize
    BY <1>5, <1>7 DEF Summarize, ReadForSummary
<1>8. ASSUME NEW s \in Server,
             CheckForks(s) \/ ForkRead(s) \/ ForkState(s) \/ Crash(s)
                 \/ \E t \in Thread : CheckRunning(s, t)
      PROVE  UNCHANGED Copy!vars
    BY <1>5, <1>8 DEF CheckForks, ForkRead, ForkState, Crash, CheckRunning
<1>9. CASE UNCHANGED vars
    BY <1>5, <1>9 DEF vars
<1> QED
    BY <1>1, <1>2, <1>3, <1>4, <1>6, <1>7, <1>8, <1>9 DEF Next, Handler

\* fork_thread, which copies nothing, behaves like a copy of the prefix: for any
\* tree of conversations, servers, deletions and crashes.
THEOREM ForkIsCopy == Spec => ImplementsForkCopy
<1>1. Init => Copy!Init
    <2>1. Init => TreeInv
        BY TreeInit
    <2> SUFFICES ASSUME Init PROVE Copy!Init
        OBVIOUS
    <2>2. Live = {} /\ raced = {}
        BY DEF Init, Live
    <2> QED
        BY <2>2 DEF Copy!Init
<1> QED
    BY <1>1, CopyStep, TreeHolds, PTL DEF Spec, ImplementsForkCopy, Copy!Spec

-----------------------------------------------------------------------------
(* The graph state of forks.                                                *)

\* The text of the prefix: all that is inherited, nothing that may not be quoted.
Exact(t, read) ==
    {m \in Shows[t] : m.thread # t} \subseteq read /\ read \subseteq Shows[t]

\* What was written, or is about to be, is the prefix.
SeedInv ==
    /\ \A t \in Live \ raced : seed[t] # {} => Exact(t, seed[t])
    /\ \A s \in Server : loop[s].op = "seed" /\ loop[s].thread \in Live \ raced =>
           Exact(loop[s].thread, loop[s].read)

\* What steps do to a conversation that is there and not raced: nothing, or
\* it gets a message of its own, after all it shows.
Grows(t) ==
    \/ Shows'[t] = Shows[t]
    \/ \E m : /\ m.thread = t /\ \A x \in Shows[t] : x.seq < m.seq
              /\ Shows'[t] = Shows[t] \cup {m}

LEMMA ShowsGrow ==
    ASSUME TreeInv, TreeInv', [Next]_vars, NEW t \in Thread, t \in Live \ raced, t \in Live'
    PROVE  Grows(t)
<1>1. ASSUME UNCHANGED <<parent, point, messages>> PROVE Grows(t)
    BY <1>1, ShowsKept DEF Grows
<1>2. ASSUME NEW u \in Thread, AddMessage(u) PROVE Grows(t)
    <2>1. /\ Shows'[u] = Shows[u] \cup {NextMessage(u)} /\ NextMessage(u).thread = u
          /\ \A m \in Shows[u] : m.seq < NextMessage(u).seq
          /\ \A v \in Thread \ {u} : Shows'[v] = Shows[v]
        BY <1>2, ShowsAdded, AddIs DEF TreeInv
    <2> QED
        BY <2>1 DEF Grows
<1>3. ASSUME NEW s \in Server, NEW p \in Thread, NEW n \in Thread, NEW m \in messages,
             ForkThread(s, p, m, n)
      PROVE  Grows(t)
    <2>1. n \notin Live
        BY <1>3, ForkIs
    <2>2. \A u \in Thread \ {n} : Shows'[u] = Shows[u]
        BY <1>3, ShowsForked
    <2> QED
        BY <2>1, <2>2 DEF Grows
<1>4. ASSUME NEW s \in Server, DeleteThread(s) PROVE Grows(t)
    <2>1. t # loop[s].thread
        BY <1>4 DEF DeleteThread, Live, TreeInv, TypeOK
    <2> QED
        BY <1>4, <2>1, ShowsDeleted DEF Grows
<1> QED
    BY <1>1, <1>2, <1>3, <1>4
       DEF Next, Handler, CreateThread, AddSummary, Summarize, ReadForSummary, CheckRunning,
           CheckForks, ForkRead, ForkState, Crash, vars, rows

\* Conversations come to be once, without a seed or a task, and stay raced.
LEMMA LifeStep ==
    ASSUME TreeInv, [Next]_vars
    PROVE  /\ raced \subseteq raced'
           /\ \A t \in Thread : t \in Live' =>
                  t \in Live \/ (row[t] = "none" /\ seed'[t] = {} /\ task'[t] = {})
<1> DEFINE Fine == /\ raced \subseteq raced'
                   /\ \A t \in Thread : t \in Live' =>
                          t \in Live \/ (row[t] = "none" /\ seed'[t] = {} /\ task'[t] = {})
<1> SUFFICES Fine
    OBVIOUS
<1>1. \A t \in Thread : row[t] = "none" => seed[t] = {} /\ task[t] = {}
    BY DEF TreeInv, Unborn
<1>2. ASSUME UNCHANGED <<row, raced>> PROVE Fine
    BY <1>2 DEF Live
<1>3. ASSUME NEW t \in Thread, CreateThread(t) PROVE Fine
    BY <1>1, <1>3 DEF CreateThread, Live, TreeInv, TypeOK
<1>4. ASSUME NEW s \in Server, NEW p \in Thread, NEW n \in Thread, NEW m \in messages,
             ForkThread(s, p, m, n)
      PROVE  Fine
    BY <1>1, <1>4 DEF ForkThread, Live, TreeInv, TypeOK
<1>5. ASSUME NEW s \in Server, DeleteThread(s) PROVE Fine
    BY <1>5 DEF DeleteThread, Live, TreeInv, TypeOK
<1> QED
    BY <1>2, <1>3, <1>4, <1>5
       DEF Next, Handler, AddMessage, AddSummary, Summarize, ReadForSummary, CheckRunning,
           CheckForks, ForkRead, ForkState, Crash, vars, rows

\* Who is there and not raced was so before, if it has ever been.
LEMMA WasThere ==
    ASSUME TreeInv, [Next]_vars, NEW t \in Thread, t \in Live' \ raced'
    PROVE  /\ t \notin raced
           /\ seed'[t] # {} \/ task'[t] # {} \/ row[t] # "none" => t \in Live
BY LifeStep DEF Live, TreeInv, TypeOK

LEMMA SeedStep == TreeInv /\ TreeInv' /\ SeedInv /\ [Next]_vars => SeedInv'
<1> SUFFICES ASSUME TreeInv, TreeInv', SeedInv, [Next]_vars PROVE SeedInv'
    OBVIOUS
<1>1. ASSUME NEW t \in Thread, t \in Live \ raced, t \in Live' \ raced',
             NEW read, Exact(t, read)
      PROVE  Exact(t, read)'
    <2>1. Grows(t)
        BY <1>1, ShowsGrow
    <2> QED
        BY <1>1, <2>1 DEF Grows, Exact
<1>2. ASSUME NEW t \in Thread, seed'[t] # {}
      PROVE  \/ seed'[t] = seed[t]
             \/ \E s \in Server : loop[s].op = "seed" /\ loop[s].thread = t /\ seed'[t] = loop[s].read
    <2>1. ASSUME UNCHANGED seed PROVE seed'[t] = seed[t]
        BY <2>1
    <2>2. ASSUME NEW s \in Server, ForkState(s)
          PROVE  seed'[t] = seed[t] \/ (loop[s].op = "seed" /\ loop[s].thread = t
                                        /\ seed'[t] = loop[s].read)
        BY <2>2 DEF ForkState, TreeInv, TypeOK
    <2>3. ASSUME NEW s \in Server, DeleteThread(s) PROVE seed'[t] = seed[t]
        BY <1>2, <2>3 DEF DeleteThread, TreeInv, TypeOK
    <2> QED
        BY <2>1, <2>2, <2>3
           DEF Next, Handler, CreateThread, AddMessage, AddSummary, Summarize, ReadForSummary,
               CheckRunning, CheckForks, ForkThread, ForkRead, Crash, vars
<1>3. ASSUME NEW s \in Server, loop'[s].op = "seed"
      PROVE  \/ loop'[s] = loop[s]
             \/ /\ loop[s].op = "read" /\ loop'[s].thread = loop[s].thread
                /\ loop'[s].read = Shows[loop[s].thread]
    <2>1. ASSUME UNCHANGED loop PROVE loop'[s] = loop[s]
        BY <2>1
    <2>2. ASSUME NEW r \in Server, ForkRead(r)
          PROVE  \/ loop'[s] = loop[s]
                 \/ /\ loop[s].op = "read" /\ loop'[s].thread = loop[s].thread
                    /\ loop'[s].read = Shows[loop[s].thread]
        <3>1. loop[r].thread \in Thread /\ Shows[loop[r].thread] = Visible(loop[r].thread)
            BY <2>2 DEF ForkRead, TreeInv, TypeOK, Shows
        <3>2. loop' = [loop EXCEPT ![r] = [op |-> "seed", thread |-> loop[r].thread,
                                           read |-> Shows[loop[r].thread]]]
            BY <2>2, <3>1 DEF ForkRead, Enter, ForkMessages
        <3> HIDE DEF Shows
        <3> QED
            BY <2>2, <3>2 DEF ForkRead, TreeInv, TypeOK
    <2>3. ASSUME NEW r \in Server, NEW op \in {"forks", "drop", "read"}, NEW t, NEW read,
                 Enter(r, op, t, read)
          PROVE  loop'[s] = loop[s]
        BY <1>3, <2>3 DEF Enter, TreeInv, TypeOK
    <2>4. ASSUME NEW r \in Server, Leave(r) PROVE loop'[s] = loop[s]
        BY <1>3, <2>4 DEF Leave, NoHandler, TreeInv, TypeOK
    <2> QED
        BY <2>1, <2>2, <2>3, <2>4
           DEF Next, Handler, CreateThread, AddMessage, AddSummary, Summarize, ReadForSummary,
               CheckRunning, CheckForks, DeleteThread, ForkThread, ForkState, Crash, vars
<1>4. ASSUME NEW t \in Thread, t \in Live' \ raced', NEW read, seed'[t] = read, read # {}
      PROVE  Exact(t, read)'
    <2>1. t \in Live \ raced
        BY <1>4, WasThere
    <2>2. Exact(t, read)
        BY <1>2, <1>4, <2>1 DEF SeedInv
    <2> QED
        BY <1>1, <1>4, <2>1, <2>2
<1>5. ASSUME NEW s \in Server, loop'[s].op = "seed", NEW t \in Thread, loop'[s].thread = t,
             t \in Live' \ raced', NEW read, loop'[s].read = read
      PROVE  Exact(t, read)'
    <2>1. loop[s].op # "none" /\ loop[s].thread = t
        BY <1>3, <1>5
    <2>2. t \in Live \ raced
        BY <1>5, <2>1, WasThere DEF TreeInv, Unborn
    <2>3. CASE loop'[s] = loop[s]
        <3>1. Exact(t, read)
            BY <1>5, <2>2, <2>3 DEF SeedInv
        <3> QED
            BY <1>1, <1>5, <2>2, <3>1
    <2>4. CASE loop'[s].read = Shows[t]
        <3>1. Exact(t, read)
            BY <1>5, <2>4 DEF Exact
        <3> QED
            BY <1>1, <1>5, <2>2, <3>1
    <2> QED
        BY <1>3, <1>5, <2>1, <2>3, <2>4
<1>6. \A t \in Thread : t \in Live' \ raced' /\ seed'[t] # {} => Exact(t, seed[t])'
    BY <1>4 DEF Exact
<1>7. \A s \in Server : loop'[s].op = "seed" /\ loop'[s].thread \in Live' \ raced' =>
          Exact(loop[s].thread, loop[s].read)'
    <2>1. ASSUME NEW s \in Server, loop'[s].op = "seed", loop'[s].thread \in Live' \ raced'
          PROVE  Exact(loop[s].thread, loop[s].read)'
        <3>1. PICK t \in Thread : loop'[s].thread = t
            BY <2>1 DEF Live
        <3>2. PICK read : loop'[s].read = read
            OBVIOUS
        <3>3. Exact(t, read)'
            BY <1>5, <2>1, <3>1, <3>2
        <3> QED
            BY <3>1, <3>2, <3>3 DEF Exact
    <2> QED
        BY <2>1
<1> QED
    BY <1>6, <1>7 DEF SeedInv, Live

\* A seeded fork knows what it inherited, and nothing it may not quote
\* (RunService.fork, fork_state), unless the deletion of its parent raced it.
THEOREM SeedExactHolds == Spec => []SeedExact
<1>1. Init => SeedInv
    BY DEF Init, SeedInv, NoHandler, Live
<1>2. SeedInv => SeedExact
    BY DEF SeedInv, SeedExact, Exact, Citable, Shows, Live
<1> QED
    BY <1>1, <1>2, SeedStep, TreeHolds, PTL DEF Spec

-----------------------------------------------------------------------------
(* Summaries.                                                               *)

\* A set of numbers with a bound has a least and a greatest.
LEMMA LeastAndGreatest ==
    ASSUME NEW bound \in Nat, NEW S \in SUBSET (0..bound), S # {}
    PROVE  /\ \E lo \in S : \A n \in S : lo <= n
           /\ \E hi \in S : \A n \in S : n <= hi
<1>1. PICK lo \in S : \A n \in S : ~ (<<n, lo>> \in OpToRel(<, Nat))
    <2>1. S \subseteq Nat
        OBVIOUS
    <2> QED
        BY <2>1, WFMin, NatLessThanWellFounded
<1>2. ASSUME NEW n \in S PROVE lo <= n
    <2>1. n \in Nat /\ lo \in Nat
        OBVIOUS
    <2>2. ~ (n < lo)
        <3>1. n < lo => <<n, lo>> \in OpToRel(<, Nat)
            BY <2>1 DEF OpToRel
        <3> QED
            BY <1>1, <3>1
    <2> QED
        BY <2>1, <2>2
<1> DEFINE T == {bound - n : n \in S}
<1>3. PICK k \in T : \A n \in T : ~ (<<n, k>> \in OpToRel(<, Nat))
    <2>1. T \subseteq Nat /\ T # {}
        OBVIOUS
    <2> HIDE DEF T
    <2> QED
        BY <2>1, WFMin, NatLessThanWellFounded
<1>4. PICK hi \in S : k = bound - hi
    OBVIOUS
<1>5. ASSUME NEW n \in S PROVE n <= hi
    <2>1. n \in Nat /\ hi \in Nat /\ bound - n \in Nat /\ k \in Nat /\ bound - n \in T
        BY <1>4
    <2>2. ~ (bound - n < k)
        <3>1. bound - n < k => <<bound - n, k>> \in OpToRel(<, Nat)
            BY <2>1 DEF OpToRel
        <3> HIDE DEF T
        <3> QED
            BY <1>3, <2>1, <3>1
    <2> QED
        BY <1>4, <2>1, <2>2
<1> QED
    BY <1>2, <1>5

\* What a summary is made of lies between two of its messages, without a gap.
Gapless(t, read) ==
    \E lo, hi \in read : read = {m \in Shows[t] : lo.seq <= m.seq /\ m.seq <= hi.seq}

TaskInv == \A t \in Live \ raced : task[t] # {} => Gapless(t, task[t])

\* RunService.summarize cuts out a range: what it reads has no gap.
LEMMA RangeGapless ==
    ASSUME TreeInv, NEW t \in Thread, NEW from, NEW to,
           NEW read, read = {m \in Shows[t] : from <= m.seq /\ m.seq <= to}, read # {},
           from \in Nat, to \in Nat
    PROVE  Gapless(t, read)
<1> DEFINE Numbers == {m.seq : m \in read}
<1>1. \A m \in Shows[t] : m.seq \in 0..MaxSeq
    BY VisibleAreMessages, TranscriptAssumption DEF Shows, TreeInv, TypeOK, Message
<1>2. Numbers \in SUBSET (0..MaxSeq) /\ Numbers # {}
    BY <1>1
<1>3. /\ \E lo \in read : \A m \in read : lo.seq <= m.seq
      /\ \E hi \in read : \A m \in read : m.seq <= hi.seq
    <2>1. MaxSeq \in Nat
        BY TranscriptAssumption
    <2>2. /\ \E lo \in Numbers : \A n \in Numbers : lo <= n
          /\ \E hi \in Numbers : \A n \in Numbers : n <= hi
        <3> HIDE DEF Numbers
        <3> QED
            BY <1>2, <2>1, LeastAndGreatest
    <2> QED
        BY <2>2
<1>4. PICK lo \in read : \A m \in read : lo.seq <= m.seq
    BY <1>3
<1>5. PICK hi \in read : \A m \in read : m.seq <= hi.seq
    BY <1>3
<1>6. \A m \in Shows[t] : (lo.seq <= m.seq /\ m.seq <= hi.seq) <=> m \in read
    BY <1>1, <1>4, <1>5
<1>7. read = {m \in Shows[t] : lo.seq <= m.seq /\ m.seq <= hi.seq}
    BY <1>6
<1> QED
    BY <1>4, <1>5, <1>7 DEF Gapless

ShownNumbers == \A t \in Thread : \A m \in Shows[t] : m.seq \in Nat

LEMMA ShownNumbersHold == TreeInv => ShownNumbers
    BY ShownBounded DEF ShownNumbers

LEMMA ShownNumbersNext == TreeInv' => ShownNumbers'
    BY ShownNumbersHold, PTL

LEMMA SummaryStep == TreeInv /\ TreeInv' /\ TaskInv /\ [Next]_vars => TaskInv'
<1> SUFFICES ASSUME TreeInv, TreeInv', TaskInv, [Next]_vars PROVE TaskInv'
    OBVIOUS
<1>1. ASSUME NEW t \in Thread, t \in Live \ raced, t \in Live' \ raced',
             NEW read, Gapless(t, read), read \subseteq Shows[t]
      PROVE  Gapless(t, read)'
    <2>1. PICK lo \in read, hi \in read :
              read = {m \in Shows[t] : lo.seq <= m.seq /\ m.seq <= hi.seq}
        BY <1>1 DEF Gapless
    <2>2. \A m \in Shows[t] : m.seq \in Nat
        BY ShownBounded
    <2>3. CASE Shows'[t] = Shows[t]
        BY <2>1, <2>3 DEF Gapless
    <2>4. ASSUME NEW m, \A x \in Shows[t] : x.seq < m.seq, Shows'[t] = Shows[t] \cup {m}
          PROVE  Gapless(t, read)'
        <3>1. m.seq \in Nat
            BY <2>4, ShownNumbersNext DEF ShownNumbers
        <3>2. hi.seq \in Nat /\ hi.seq < m.seq
            BY <1>1, <2>2, <2>4
        <3>3. read = {o \in Shows'[t] : lo.seq <= o.seq /\ o.seq <= hi.seq}
            BY <2>1, <2>4, <3>1, <3>2
        <3> QED
            BY <2>1, <3>3 DEF Gapless
    <2> QED
        BY <1>1, <2>3, <2>4, ShowsGrow DEF Grows
<1>2. ASSUME NEW t \in Thread, task'[t] # {}
      PROVE  \/ task'[t] = task[t]
             \/ /\ t \in Live /\ UNCHANGED <<rows, messages, raced>>
                /\ \E range \in Ranges :
                       task'[t] = {m \in Shows[t] : range[1] <= m.seq /\ m.seq <= range[2]}
    <2>1. CASE Summarize
        <3>1. PICK u \in Live, range \in Ranges : ReadForSummary(u, range[1], range[2])
            BY <2>1 DEF Summarize
        <3>2. u \in Thread /\ Shows[u] = Visible(u)
            BY DEF Live, Shows
        <3>3. task' = [task EXCEPT ![u] = {m \in Shows[u] : range[1] <= m.seq /\ m.seq <= range[2]}]
            BY <3>1, <3>2 DEF ReadForSummary
        <3>4. UNCHANGED <<rows, messages, raced>>
            BY <3>1 DEF ReadForSummary
        <3> HIDE DEF Shows
        <3> QED
            BY <3>2, <3>3, <3>4 DEF TreeInv, TypeOK
    <2>2. ASSUME NEW u \in Thread, AddSummary(u) PROVE task'[t] = task[t]
        BY <1>2, <2>2 DEF AddSummary, TreeInv, TypeOK
    <2> QED
        BY <2>1, <2>2
           DEF Next, Handler, CreateThread, AddMessage, CheckRunning, CheckForks, DeleteThread,
               ForkThread, ForkRead, ForkState, Crash, vars
<1>3. ASSUME NEW t \in Thread, t \in Live' \ raced', NEW read, task'[t] = read, read # {}
      PROVE  Gapless(t, read)'
    <2>1. t \in Live \ raced
        BY <1>3, WasThere
    <2>2. CASE task'[t] = task[t]
        <3>1. Gapless(t, read)
            BY <1>3, <2>1, <2>2 DEF TaskInv
        <3>2. read \subseteq Shows[t]
            BY <3>1 DEF Gapless
        <3> QED
            BY <1>1, <1>3, <2>1, <3>1, <3>2
    <2>3. ASSUME NEW range \in Ranges,
                 read = {m \in Shows[t] : range[1] <= m.seq /\ m.seq <= range[2]}
          PROVE  Gapless(t, read)'
        <3>1. range[1] \in Nat /\ range[2] \in Nat
            BY TranscriptAssumption
        <3>2. Gapless(t, read)
            BY <1>3, <2>3, <3>1, RangeGapless
        <3> QED
            BY <1>1, <1>3, <2>1, <2>3, <3>2
    <2> QED
        BY <1>2, <1>3, <2>2, <2>3
<1>4. \A t \in Thread : t \in Live' \ raced' /\ task'[t] # {} => Gapless(t, task[t])'
    BY <1>3 DEF Gapless
<1> QED
    BY <1>4 DEF TaskInv, Live

LEMMA SummaryFollows == TreeInv /\ TaskInv => SummaryHonest
<1> SUFFICES ASSUME TreeInv, TaskInv, NEW t \in Live \ raced, task[t] # {}
             PROVE  task[t] = {m \in Visible(t) : FirstCovered(t) <= m.seq /\ m.seq <= LastCovered(t)}
    BY DEF SummaryHonest
<1>1. t \in Thread /\ Shows[t] = Visible(t)
    BY DEF Live, Shows
<1>2. PICK lo \in task[t], hi \in task[t] :
          task[t] = {m \in Shows[t] : lo.seq <= m.seq /\ m.seq <= hi.seq}
    BY DEF TaskInv, Gapless
<1>3. \A m \in task[t] : m.seq \in Nat
    BY <1>1, <1>2, ShownBounded
<1>4. FirstCovered(t) = lo.seq
    <2>1. lo.seq \in {m.seq : m \in task[t]} /\ \A m \in task[t] : lo.seq <= m.seq
        BY <1>2
    <2>2. /\ FirstCovered(t) \in {m.seq : m \in task[t]}
          /\ \A m \in task[t] : FirstCovered(t) <= m.seq
        BY <2>1 DEF FirstCovered
    <2> QED
        BY <1>3, <2>1, <2>2
<1>5. LastCovered(t) = hi.seq
    <2>1. hi.seq \in {m.seq : m \in task[t]} /\ \A m \in task[t] : m.seq <= hi.seq
        BY <1>2
    <2>2. /\ LastCovered(t) \in {m.seq : m \in task[t]}
          /\ \A m \in task[t] : m.seq <= LastCovered(t)
        BY <2>1 DEF LastCovered
    <2> QED
        BY <1>3, <2>1, <2>2
<1> QED
    BY <1>1, <1>2, <1>4, <1>5

\* While the model is at work, the conversation gets no other message between
\* the first and the last the summary will say it covers.
THEOREM SummaryHonestHolds == Spec => []SummaryHonest
<1>1. Init => TaskInv
    BY DEF Init, TaskInv, Live
<1> QED
    BY <1>1, SummaryStep, SummaryFollows, TreeHolds, PTL DEF Spec

=============================================================================
