--------------------------- MODULE RunStreamProofs ---------------------------
(* Theorems about RunStream, for any writers, clients and bounds. *)
EXTENDS RunStream, TLAPS

-----------------------------------------------------------------------------
(* What the helpers of the writers do to the types.                        *)

\* Moving on, emitting, numbering and finishing keep the types of the writers.
LEMMA GotoTypes ==
    ASSUME WriterTypes, NEW w \in Writer, NEW label \in WriterPC, Goto(w, label)
    PROVE  WriterTypes'
BY DEF WriterTypes, Goto, NoEvent, Rows, Events

LEMMA EmitTypes ==
    ASSUME WriterTypes, NEW w \in Writer, NEW event \in Events, Emit(w, event)
    PROVE  WriterTypes'
BY DEF WriterTypes, Emit, WriterPC, Rows

LEMMA FinishTypes ==
    ASSUME WriterTypes, NEW w \in Writer, Finish(w)
    PROVE  WriterTypes'
BY DEF WriterTypes, Finish, NoEvent, Rows, Events, WriterPC

LEMMA LeaveTypes ==
    ASSUME WriterTypes, NEW w \in Writer, Leave(w)
    PROVE  WriterTypes'
BY GotoTypes, FinishTypes DEF Leave, WriterPC

LEMMA TakeNumberTypes ==
    ASSUME WriterTypes, lastSeq \in Nat, NEW w \in Writer, NEW event \in Events,
           TakeNumber(w, event)
    PROVE  WriterTypes' /\ lastSeq' \in Nat
BY DEF WriterTypes, TakeNumber, WriterPC, Rows

\* The client's state is left alone.
LEMMA ClientTypesKept ==
    ASSUME ClientTypes, UNCHANGED clientVars
    PROVE  ClientTypes'
BY DEF ClientTypes, clientVars

\* The writers are left alone.
LEMMA WriterTypesKept ==
    ASSUME WriterTypes, UNCHANGED writerVars
    PROVE  WriterTypes'
BY DEF WriterTypes, writerVars

\* A client receives a row.
LEMMA ReceiveTypes ==
    ASSUME ClientTypes, NEW k \in Client, NEW r \in Rows, NEW pc \in ClientPC,
           Receive(k, r), rpc' = [rpc EXCEPT ![k] = pc],
           rows' \in [Client -> SUBSET Rows]
    PROVE  ClientTypes'
<1>1. Append(got[k], r) \in Seq(Rows)
    BY DEF ClientTypes
<1>2. got' \in [Client -> Seq(Rows)]
    BY <1>1 DEF ClientTypes, Receive
<1>3. rpc' \in [Client -> ClientPC] /\ cursor' \in [Client -> Nat]
    BY DEF ClientTypes, Receive, Rows
<1> QED
    BY <1>2, <1>3 DEF ClientTypes

-----------------------------------------------------------------------------
(* Types are kept by every step.                                           *)

Types == DbTypes /\ WriterTypes /\ ClientTypes /\ OtherTypes

\* Every step keeps the types.
LEMMA TypeStep == ASSUME Types, [Next]_vars PROVE Types'
<1> USE DEF Types
<1>1. ASSUME NEW w \in Writer, Number(w) PROVE Types'
    <2>1. held[w].event \in Events
        BY DEF WriterTypes, Rows
    <2>2. WriterTypes' /\ lastSeq' \in Nat
        BY <1>1, <2>1, GotoTypes, TakeNumberTypes DEF Number, DbTypes, WriterPC
    <2> QED
        BY <1>1, <2>2, ClientTypesKept DEF Number, DbTypes, OtherTypes
<1>2. ASSUME NEW w \in Writer, AppendEvent(w) PROVE Types'
    <2>1. held[w] \in Rows /\ held[w].event \in Events
        BY DEF WriterTypes, Rows
    <2>2. WriterTypes'
        <3>1. CASE held[w].event = "step"
            BY <1>2, <3>1, GotoTypes DEF AppendEvent, WriterPC
        <3>2. CASE held[w].event = "answer"
            BY <1>2, <3>2, EmitTypes DEF AppendEvent, Events
        <3>3. CASE held[w].event \notin {"step", "answer"}
            BY <1>2, <3>3, LeaveTypes DEF AppendEvent
        <3> QED
            BY <3>1, <3>2, <3>3
    <2>3. (log \subseteq Rows)'
        BY <1>2, <2>1 DEF AppendEvent, DbTypes
    <2> QED
        BY <1>2, <2>2, <2>3, ClientTypesKept DEF AppendEvent, DbTypes, OtherTypes
<1>3. ASSUME NEW w \in Writer, AppendFails(w) PROVE Types'
    <2>1. WriterTypes'
        <3>1. CASE held[w].event \in Terminal
            BY <1>3, <3>1, LeaveTypes DEF AppendFails
        <3>2. CASE held[w].event \notin Terminal
            <4>1. PICK pc \in {"close", "final"} : wpc' = [wpc EXCEPT ![w] = pc]
                BY <1>3, <3>2 DEF AppendFails
            <4>2. NoEvent \in Rows
                BY DEF NoEvent, Rows, Events
            <4>3. held' = [held EXCEPT ![w] = NoEvent] /\ dropped' = [dropped EXCEPT ![w] = TRUE]
                BY <1>3, <3>2 DEF AppendFails
            <4> QED
                BY <4>1, <4>2, <4>3 DEF WriterTypes, WriterPC
        <3> QED
            BY <3>1, <3>2
    <2> QED
        BY <1>3, <2>1, ClientTypesKept, StreamAssumption
        DEF AppendFails, Failure, dbVars, DbTypes, OtherTypes
<1>4. ASSUME NEW w \in Writer, Progress(w) PROVE Types'
    <2>1. WriterTypes' /\ lastSeq' \in Nat
        BY <1>4, GotoTypes, TakeNumberTypes DEF Progress, DbTypes, WriterPC, Events
    <2> QED
        BY <1>4, <2>1, ClientTypesKept DEF Progress, DbTypes, OtherTypes
<1>5. ASSUME NEW w \in Writer, Pause(w) PROVE Types'
    <2>1. WriterTypes'
        BY <1>5, EmitTypes DEF Pause, Events
    <2> QED
        BY <1>5, <2>1, ClientTypesKept DEF Pause, Drive, DbTypes, OtherTypes, Statuses
<1>6. ASSUME NEW w \in Writer, NEW s \in {"interrupted", "error"}, End(w, s) PROVE Types'
    <2>1. WriterTypes'
        BY <1>6, EmitTypes, GotoTypes DEF End, Events, WriterPC
    <2> QED
        BY <1>6, <2>1, ClientTypesKept DEF End, Drive, DbTypes, OtherTypes, Statuses, EndStatuses
<1>7. ASSUME NEW w \in Writer, CommitAnswer(w) PROVE Types'
    <2>1. WriterTypes' /\ lastSeq' \in Nat
        BY <1>7, GotoTypes, TakeNumberTypes DEF CommitAnswer, DbTypes, WriterPC, Events
    <2> QED
        BY <1>7, <2>1, ClientTypesKept
        DEF CommitAnswer, DbTypes, OtherTypes, Statuses, EndStatuses
<1>8. ASSUME NEW w \in Writer, PumpFinally(w) PROVE Types'
    <2>1. WriterTypes'
        BY <1>8, GotoTypes, LeaveTypes DEF PumpFinally, WriterPC
    <2> QED
        BY <1>8, <2>1, ClientTypesKept DEF PumpFinally, dbVars, DbTypes, OtherTypes
<1>9. ASSUME NEW w \in Writer, Synthesize(w) PROVE Types'
    <2>1. WriterTypes' /\ lastSeq' \in Nat
        BY <1>9, LeaveTypes, TakeNumberTypes DEF Synthesize, DbTypes, Events
    <2> QED
        BY <1>9, <2>1, ClientTypesKept DEF Synthesize, DbTypes, OtherTypes
<1>10. ASSUME NEW w \in Writer, CloseGenerator(w) PROVE Types'
    BY <1>10, FinishTypes, ClientTypesKept
    DEF CloseGenerator, DbTypes, OtherTypes, Statuses, EndStatuses
<1>11. ASSUME NEW w \in Writer, Stop(w) PROVE Types'
    BY <1>11, EmitTypes, ClientTypesKept
    DEF Stop, DbTypes, OtherTypes, Statuses, EndStatuses, Events
<1>12. ASSUME NEW w \in Writer, Decide(w) PROVE Types'
    BY <1>12, GotoTypes, ClientTypesKept DEF Decide, dbVars, DbTypes, OtherTypes, WriterPC
<1>13. ASSUME NEW w \in Writer, Claim(w) PROVE Types'
    <2>1. WriterTypes'
        BY <1>13, GotoTypes, EmitTypes DEF Claim, WriterPC, Events
    <2>2. early' \in BOOLEAN
        BY <1>13 DEF Claim, OtherTypes, RequestPending
    <2> QED
        BY <1>13, <2>1, <2>2, ClientTypesKept
        DEF Claim, DbTypes, OtherTypes, Statuses, EndStatuses
<1>14. ASSUME NEW w \in Writer, Crash(w) PROVE Types'
    BY <1>14, FinishTypes, ClientTypesKept, StreamAssumption
    DEF Crash, Failure, dbVars, DbTypes, OtherTypes
<1>15. CASE Sweep \/ CheckDeletion \/ DeleteThread \/ CollectEvents
    BY <1>15, WriterTypesKept, ClientTypesKept
    DEF Sweep, CheckDeletion, DeleteThread, CollectEvents, dbVars, DbTypes, OtherTypes,
        Statuses, EndStatuses
<1>16. ASSUME NEW k \in Client, Connect(k) PROVE Types'
    BY <1>16, WriterTypesKept DEF Connect, dbVars, DbTypes, OtherTypes, ClientTypes, ClientPC
<1>17. ASSUME NEW k \in Client, Poll(k) PROVE Types'
    BY <1>17, WriterTypesKept DEF Poll, dbVars, DbTypes, OtherTypes, ClientTypes, ClientPC
<1>18. ASSUME NEW k \in Client, Deliver(k) PROVE Types'
    <2> PICK r \in rows[k] :
          /\ Receive(k, r)
          /\ rows' = [rows EXCEPT ![k] = IF r.event \in Terminal THEN {} ELSE @ \ {r}]
          /\ rpc' = [rpc EXCEPT ![k] = IF r.event \in Terminal THEN "finished"
                                       ELSE IF rows[k] = {r} THEN "poll" ELSE "deliver"]
        BY <1>18 DEF Deliver
    <2>1. r \in Rows /\ rows' \in [Client -> SUBSET Rows]
        BY DEF ClientTypes
    <2>2. ClientTypes'
        BY <2>1, ReceiveTypes DEF ClientPC
    <2> QED
        BY <1>18, <2>2, WriterTypesKept DEF Deliver, dbVars, DbTypes, OtherTypes
<1>19. ASSUME NEW k \in Client, CheckStatus(k) PROVE Types'
    <2> DEFINE r == [seq |-> cursor[k] + 1, event |-> IF status = "error" THEN "error" ELSE "done"]
    <2>1. r \in Rows
        BY DEF ClientTypes, Rows, Events
    <2>2. CASE status \in EndStatuses
        <3>1. Receive(k, r) /\ rpc' = [rpc EXCEPT ![k] = "finished"] /\ rows' = rows
            BY <1>19, <2>2 DEF CheckStatus
        <3>2. ClientTypes'
            BY <2>1, <3>1, ReceiveTypes DEF ClientPC, ClientTypes
        <3> QED
            BY <1>19, <3>2, WriterTypesKept DEF CheckStatus, dbVars, DbTypes, OtherTypes
    <2>3. CASE status \notin EndStatuses
        BY <1>19, <2>3, WriterTypesKept
        DEF CheckStatus, dbVars, DbTypes, OtherTypes, ClientTypes, ClientPC
    <2> QED
        BY <2>2, <2>3
<1>20. ASSUME NEW k \in Client, Disconnect(k) PROVE Types'
    BY <1>20, WriterTypesKept, StreamAssumption
    DEF Disconnect, Failure, dbVars, DbTypes, OtherTypes, ClientTypes, ClientPC
<1>21. CASE UNCHANGED vars
    BY <1>21, WriterTypesKept, ClientTypesKept DEF vars, dbVars, DbTypes, OtherTypes
<1> QED
    BY <1>1, <1>2, <1>3, <1>4, <1>5, <1>6, <1>7, <1>8, <1>9, <1>10, <1>11, <1>12, <1>13,
       <1>14, <1>15, <1>16, <1>17, <1>18, <1>19, <1>20, <1>21 DEF Next, WriterStep, ClientStep

-----------------------------------------------------------------------------
(* Numbers: those in use were handed out, and none twice.                  *)

\* The numbers of the log are distinct, and those about to be inserted are
\* neither in it nor held by two writers.
NumberInv ==
    /\ Numbered
    /\ NumbersUnique
    /\ \A r, s \in log : r.seq = s.seq => r = s
    /\ \A k \in Client : rpc[k] # "finished" => cursor[k] <= lastSeq

\* What a client has received lies before its cursor and is in order; the rows on
\* their way to it lie behind.
DeliveryInv ==
    /\ InOrder
    /\ \A k \in Client :
          /\ \A i \in DOMAIN got[k] : got[k][i].seq <= cursor[k]
          /\ \A r \in rows[k] : r.seq > cursor[k]
          /\ \A r, s \in rows[k] : r.seq = s.seq => r = s

\* Rows are on their way to a client only while it is given them.
RowsInv == \A k \in Client : rpc[k] # "deliver" => rows[k] = {}

Inv == Types /\ NumberInv /\ DeliveryInv /\ RowsInv

\* The same, split into what is about clients and what is about writers and rows.
ClientNumbered ==
    \A k \in Client :
        /\ cursor[k] <= lastSeq + 1
        /\ \A r \in rows[k] : r.seq <= lastSeq
        /\ \A i \in DOMAIN got[k] : got[k][i].seq <= lastSeq + 1
        /\ rpc[k] # "finished" => cursor[k] <= lastSeq

WriterNumbered ==
    /\ \A w \in Writer : held[w].seq <= lastSeq
    /\ \A r \in log : r.seq <= lastSeq
    /\ \A r, s \in log : r.seq = s.seq => r = s
    /\ NumbersUnique

\* The two halves are the whole.
LEMMA NumberInvSplit == NumberInv <=> ClientNumbered /\ WriterNumbered
BY DEF NumberInv, Numbered, ClientNumbered, WriterNumbered

\* Moving on, emitting and finishing keep the numbers of the writers, even when
\* rows are deleted meanwhile; numbering takes a new one.
LEMMA GotoNumbered ==
    ASSUME WriterTypes, WriterNumbered, lastSeq \in Nat, log' \subseteq log, lastSeq' = lastSeq,
           NEW w \in Writer, NEW label \in WriterPC \ {"append"}, Goto(w, label)
    PROVE  WriterNumbered'
BY DEF WriterNumbered, WriterTypes, Goto, NoEvent, NumbersUnique

LEMMA EmitNumbered ==
    ASSUME WriterTypes, WriterNumbered, lastSeq \in Nat, log' \subseteq log, lastSeq' = lastSeq,
           NEW w \in Writer, NEW event \in Events, Emit(w, event)
    PROVE  WriterNumbered'
BY DEF WriterNumbered, WriterTypes, Emit, NumbersUnique

LEMMA FinishNumbered ==
    ASSUME WriterTypes, WriterNumbered, lastSeq \in Nat, log' \subseteq log, lastSeq' = lastSeq,
           NEW w \in Writer, Finish(w)
    PROVE  WriterNumbered'
BY DEF WriterNumbered, WriterTypes, Finish, NoEvent, NumbersUnique

LEMMA TakeNumberNumbered ==
    ASSUME WriterTypes, WriterNumbered, log \subseteq Rows, lastSeq \in Nat, log' = log,
           NEW w \in Writer, NEW event \in Events, TakeNumber(w, event)
    PROVE  WriterNumbered'
BY DEF WriterNumbered, WriterTypes, TakeNumber, NumbersUnique, Rows

\* The counter only grows.
LEMMA ClientNumberedKept ==
    ASSUME ClientTypes, ClientNumbered, lastSeq \in Nat, lastSeq' \in {lastSeq, lastSeq + 1},
           UNCHANGED clientVars
    PROVE  ClientNumbered'
<1> SUFFICES ASSUME NEW k \in Client
             PROVE  /\ cursor[k] <= lastSeq' + 1
                    /\ \A r \in rows[k] : r.seq <= lastSeq'
                    /\ \A i \in DOMAIN got[k] : got[k][i].seq <= lastSeq' + 1
                    /\ rpc[k] # "finished" => cursor[k] <= lastSeq'
    BY DEF ClientNumbered, clientVars
<1>1. cursor[k] \in Nat /\ (\A r \in rows[k] : r.seq \in Nat)
    BY DEF ClientTypes, Rows
<1>2. \A i \in DOMAIN got[k] : got[k][i].seq \in Nat
    <2>1. got[k] \in Seq(Rows)
        BY DEF ClientTypes
    <2>2. \A i \in DOMAIN got[k] : got[k][i] \in Rows
        BY <2>1
    <2> QED
        BY <2>2 DEF Rows
<1> QED
    BY <1>1, <1>2 DEF ClientNumbered

\* A client receives a row with a number that was handed out, or the next.
LEMMA ReceiveNumbered ==
    ASSUME ClientTypes, ClientNumbered, lastSeq \in Nat, lastSeq' = lastSeq,
           NEW k \in Client, NEW r \in Rows, r.seq <= lastSeq + 1,
           NEW pc \in ClientPC, pc # "finished" => r.seq <= lastSeq,
           Receive(k, r), rpc' = [rpc EXCEPT ![k] = pc],
           \A c \in Client : rows'[c] \subseteq rows[c]
    PROVE  ClientNumbered'
<1> SUFFICES ASSUME NEW c \in Client
             PROVE  /\ cursor'[c] <= lastSeq + 1
                    /\ \A x \in rows'[c] : x.seq <= lastSeq
                    /\ \A i \in DOMAIN got'[c] : got'[c][i].seq <= lastSeq + 1
                    /\ rpc'[c] # "finished" => cursor'[c] <= lastSeq
    BY DEF ClientNumbered
<1>1. CASE c = k
    <2>1. got[k] \in Seq(Rows)
        BY DEF ClientTypes
    <2>2. got'[k] = Append(got[k], r) /\ cursor'[k] = r.seq /\ rpc'[k] = pc
        BY DEF Receive, ClientTypes
    <2>3. \A i \in DOMAIN got'[k] :
             \/ i \in DOMAIN got[k] /\ got'[k][i] = got[k][i]
             \/ got'[k][i] = r
        BY <2>1, <2>2
    <2>4. \A i \in DOMAIN got'[k] : got'[k][i].seq <= lastSeq + 1
        BY <2>3 DEF ClientNumbered
    <2> QED
        BY <1>1, <2>2, <2>4 DEF ClientNumbered
<1>2. CASE c # k
    <2>1. got'[c] = got[c] /\ cursor'[c] = cursor[c] /\ rpc'[c] = rpc[c]
        BY <1>2 DEF Receive, ClientTypes
    <2> QED
        BY <2>1 DEF ClientNumbered
<1> QED
    BY <1>1, <1>2

\* Leaving is moving on or finishing.
LEMMA LeaveNumbered ==
    ASSUME WriterTypes, WriterNumbered, lastSeq \in Nat, log' \subseteq log, lastSeq' = lastSeq,
           NEW w \in Writer, Leave(w)
    PROVE  WriterNumbered'
BY GotoNumbered, FinishNumbered DEF Leave, WriterPC

\* The row of a writer goes into the log, and the writer holds it no longer.
LEMMA AppendNumbered ==
    ASSUME WriterTypes, WriterNumbered, log \subseteq Rows, lastSeq \in Nat, lastSeq' = lastSeq,
           NEW w \in Writer, wpc[w] = "append",
           log' = IF \E r \in log : r.seq = held[w].seq THEN log ELSE log \cup {held[w]},
           NEW pc \in WriterPC \ {"append"}, wpc' = [wpc EXCEPT ![w] = pc],
           NEW event \in Events, held' = [held EXCEPT ![w] = [seq |-> 0, event |-> event]]
    PROVE  WriterNumbered'
<1>1. log' = log \cup {held[w]} /\ held[w] \in Rows
    BY DEF WriterNumbered, NumbersUnique, WriterTypes
<1>2. (\A v \in Writer : held[v].seq <= lastSeq)'
    BY DEF WriterNumbered, WriterTypes
<1>3. (\A r \in log : r.seq <= lastSeq)'
    BY <1>1 DEF WriterNumbered
<1>4. (\A r, s \in log : r.seq = s.seq => r = s)'
    BY <1>1 DEF WriterNumbered, NumbersUnique
<1>5. NumbersUnique'
    BY <1>1 DEF WriterNumbered, NumbersUnique, WriterTypes
<1> QED
    BY <1>2, <1>3, <1>4, <1>5 DEF WriterNumbered

-----------------------------------------------------------------------------
(* Deliveries.                                                             *)

\* Deliveries are not disturbed by others.
LEMMA DeliveryKept ==
    ASSUME DeliveryInv, UNCHANGED clientVars
    PROVE  DeliveryInv'
BY DEF DeliveryInv, InOrder, clientVars

\* A client receives a row that lies behind its cursor, and before the rows left.
LEMMA ReceiveDelivery ==
    ASSUME ClientTypes, DeliveryInv, NEW k \in Client, NEW r \in Rows, NEW rest \in SUBSET rows[k],
           r.seq > cursor[k], \A x \in rest : x.seq > r.seq,
           Receive(k, r), rows' = [rows EXCEPT ![k] = rest]
    PROVE  DeliveryInv'
<1> SUFFICES ASSUME NEW c \in Client
             PROVE  /\ \A i, j \in DOMAIN got'[c] : i < j => got'[c][i].seq < got'[c][j].seq
                    /\ \A i \in DOMAIN got'[c] : got'[c][i].seq <= cursor'[c]
                    /\ \A x \in rows'[c] : x.seq > cursor'[c]
                    /\ \A x, y \in rows'[c] : x.seq = y.seq => x = y
    BY DEF DeliveryInv, InOrder
<1>1. CASE c = k
    <2>1. got[k] \in Seq(Rows) /\ cursor[k] \in Nat /\ r.seq \in Nat
        BY DEF ClientTypes, Rows
    <2>2. got'[k] = Append(got[k], r) /\ cursor'[k] = r.seq /\ rows'[k] = rest
        BY DEF Receive, ClientTypes
    <2>3. DOMAIN got[k] = 1..Len(got[k]) /\ DOMAIN got'[k] = 1..Len(got[k]) + 1 /\ Len(got[k]) \in Nat
        BY <2>1, <2>2
    <2>4. \A i \in DOMAIN got[k] : got'[k][i] = got[k][i] /\ got[k][i].seq \in Nat
        <3>1. \A i \in DOMAIN got[k] : got'[k][i] = got[k][i] /\ got[k][i] \in Rows
            BY <2>1, <2>2, <2>3
        <3> QED
            BY <3>1 DEF Rows
    <2>5. got'[k][Len(got[k]) + 1] = r
        BY <2>1, <2>2
    <2>6. \A i \in DOMAIN got[k] : got[k][i].seq <= cursor[k]
        BY DEF DeliveryInv
    <2>7. \A i \in DOMAIN got'[k] : got'[k][i].seq <= r.seq
        <3> SUFFICES ASSUME NEW i \in DOMAIN got'[k] PROVE got'[k][i].seq <= r.seq
            OBVIOUS
        <3>1. CASE i = Len(got[k]) + 1
            BY <2>1, <2>5, <3>1
        <3>2. CASE i \in DOMAIN got[k]
            BY <2>1, <2>4, <2>6, <3>2
        <3>3. i \in DOMAIN got[k] \/ i = Len(got[k]) + 1
            BY <2>3, SMT
        <3> QED
            BY <3>1, <3>2, <3>3
    <2>8. \A i, j \in DOMAIN got'[k] : i < j => got'[k][i].seq < got'[k][j].seq
        <3> SUFFICES ASSUME NEW i \in DOMAIN got'[k], NEW j \in DOMAIN got'[k], i < j
                     PROVE  got'[k][i].seq < got'[k][j].seq
            OBVIOUS
        <3>1. i \in DOMAIN got[k]
            BY <2>3, SMT
        <3>2. CASE j = Len(got[k]) + 1
            <4>1. got[k][i].seq <= cursor[k] /\ got'[k][i] = got[k][i] /\ got'[k][j] = r
                BY <2>4, <2>5, <2>6, <3>1, <3>2
            <4> QED
                BY <2>1, <2>4, <3>1, <4>1
        <3>3. CASE j \in DOMAIN got[k]
            BY <2>4, <3>1, <3>3 DEF DeliveryInv, InOrder
        <3>4. j \in DOMAIN got[k] \/ j = Len(got[k]) + 1
            BY <2>3, SMT
        <3> QED
            BY <3>2, <3>3, <3>4
    <2> QED
        BY <1>1, <2>2, <2>7, <2>8 DEF DeliveryInv
<1>2. CASE c # k
    <2>1. got'[c] = got[c] /\ cursor'[c] = cursor[c] /\ rows'[c] = rows[c]
        BY <1>2 DEF Receive, ClientTypes
    <2> QED
        BY <2>1 DEF DeliveryInv, InOrder
<1> QED
    BY <1>1, <1>2

-----------------------------------------------------------------------------
(* The inductive invariant.                                                *)

\* A step of a writer or of the database: the clients are left alone, and numbers
\* are handed out one at a time.
LEMMA NoClientStep ==
    ASSUME Inv, Types', UNCHANGED clientVars, lastSeq' \in {lastSeq, lastSeq + 1},
           WriterNumbered'
    PROVE  Inv'
<1>1. ClientNumbered'
    BY ClientNumberedKept, NumberInvSplit DEF Inv, Types, DbTypes
<1>2. NumberInv'
    BY <1>1, NumberInvSplit DEF NumberInv, Numbered, ClientNumbered, WriterNumbered
<1>3. RowsInv'
    BY DEF Inv, RowsInv, clientVars
<1> QED
    BY <1>2, <1>3, DeliveryKept DEF Inv

\* A step of a client: nothing is numbered or inserted.
LEMMA ClientOnlyStep ==
    ASSUME Inv, Types', UNCHANGED <<dbVars, writerVars>>, ClientNumbered', DeliveryInv',
           RowsInv'
    PROVE  Inv'
<1>1. WriterNumbered'
    BY NumberInvSplit DEF Inv, WriterNumbered, NumbersUnique, dbVars, writerVars
<1> QED
    BY <1>1 DEF Inv, NumberInv, Numbered, ClientNumbered, WriterNumbered

\* Every step keeps the invariant.
LEMMA InvStep == ASSUME Inv, [Next]_vars PROVE Inv'
<1>0. Types /\ Types' /\ WriterTypes /\ ClientTypes /\ lastSeq \in Nat /\ log \subseteq Rows
    BY TypeStep DEF Inv, Types, DbTypes
<1>a. WriterNumbered /\ ClientNumbered /\ DeliveryInv /\ RowsInv
    BY NumberInvSplit DEF Inv
<1> USE <1>0, <1>a
<1>1. ASSUME NEW w \in Writer, Number(w) PROVE Inv'
    <2>1. held[w].event \in Events
        BY DEF WriterTypes, Rows
    <2>2. WriterNumbered'
        BY <1>1, <2>1, GotoNumbered, TakeNumberNumbered DEF Number, WriterPC
    <2> QED
        BY <1>1, <2>2, NoClientStep DEF Number, TakeNumber
<1>2. ASSUME NEW w \in Writer, AppendEvent(w) PROVE Inv'
    <2>1. PICK pc \in WriterPC \ {"append"}, event \in Events :
             /\ wpc' = [wpc EXCEPT ![w] = pc]
             /\ held' = [held EXCEPT ![w] = [seq |-> 0, event |-> event]]
        <3>1. CASE held[w].event = "step"
            BY <1>2, <3>1 DEF AppendEvent, Goto, NoEvent, WriterPC, Events
        <3>2. CASE held[w].event = "answer"
            BY <1>2, <3>2 DEF AppendEvent, Emit, WriterPC, Events
        <3>3. CASE held[w].event \notin {"step", "answer"}
            BY <1>2, <3>3 DEF AppendEvent, Leave, Goto, Finish, NoEvent, WriterPC, Events
        <3> QED
            BY <3>1, <3>2, <3>3
    <2>2. WriterNumbered'
        BY <1>2, <2>1, AppendNumbered DEF AppendEvent
    <2> QED
        BY <1>2, <2>2, NoClientStep DEF AppendEvent
<1>3. ASSUME NEW w \in Writer, AppendFails(w) PROVE Inv'
    <2>1. WriterNumbered'
        <3>1. CASE held[w].event \in Terminal
            BY <1>3, <3>1, LeaveNumbered DEF AppendFails, dbVars
        <3>2. CASE held[w].event \notin Terminal
            <4>1. PICK pc \in {"close", "final"} : wpc' = [wpc EXCEPT ![w] = pc]
                BY <1>3, <3>2 DEF AppendFails
            <4>2. held' = [held EXCEPT ![w] = NoEvent] /\ log' = log /\ lastSeq' = lastSeq
                BY <1>3, <3>2 DEF AppendFails, dbVars
            <4> QED
                BY <4>1, <4>2 DEF WriterNumbered, WriterTypes, NoEvent, NumbersUnique
        <3> QED
            BY <3>1, <3>2
    <2> QED
        BY <1>3, <2>1, NoClientStep DEF AppendFails, dbVars
<1>4. ASSUME NEW w \in Writer, Progress(w) PROVE Inv'
    <2>1. WriterNumbered'
        BY <1>4, GotoNumbered, TakeNumberNumbered DEF Progress, WriterPC, Events
    <2> QED
        BY <1>4, <2>1, NoClientStep DEF Progress, TakeNumber
<1>5. ASSUME NEW w \in Writer, Pause(w) PROVE Inv'
    <2>1. WriterNumbered'
        BY <1>5, EmitNumbered DEF Pause, Drive, Events
    <2> QED
        BY <1>5, <2>1, NoClientStep DEF Pause, Drive
<1>6. ASSUME NEW w \in Writer, NEW s \in {"interrupted", "error"}, End(w, s) PROVE Inv'
    <2>1. WriterNumbered'
        BY <1>6, EmitNumbered, GotoNumbered DEF End, Drive, Events, WriterPC
    <2> QED
        BY <1>6, <2>1, NoClientStep DEF End, Drive
<1>7. ASSUME NEW w \in Writer, CommitAnswer(w) PROVE Inv'
    <2>1. WriterNumbered'
        BY <1>7, GotoNumbered, TakeNumberNumbered DEF CommitAnswer, WriterPC, Events
    <2> QED
        BY <1>7, <2>1, NoClientStep DEF CommitAnswer, TakeNumber
<1>8. ASSUME NEW w \in Writer, PumpFinally(w) PROVE Inv'
    <2>1. WriterNumbered'
        BY <1>8, GotoNumbered, LeaveNumbered DEF PumpFinally, dbVars, WriterPC
    <2> QED
        BY <1>8, <2>1, NoClientStep DEF PumpFinally, dbVars
<1>9. ASSUME NEW w \in Writer, Synthesize(w) PROVE Inv'
    <2>1. WriterNumbered'
        BY <1>9, LeaveNumbered, TakeNumberNumbered DEF Synthesize, Events
    <2> QED
        BY <1>9, <2>1, NoClientStep DEF Synthesize, TakeNumber
<1>10. ASSUME NEW w \in Writer, CloseGenerator(w) PROVE Inv'
    BY <1>10, FinishNumbered, NoClientStep DEF CloseGenerator
<1>11. ASSUME NEW w \in Writer, Stop(w) PROVE Inv'
    BY <1>11, EmitNumbered, NoClientStep DEF Stop, Events
<1>12. ASSUME NEW w \in Writer, Decide(w) PROVE Inv'
    BY <1>12, GotoNumbered, NoClientStep DEF Decide, dbVars, WriterPC
<1>13. ASSUME NEW w \in Writer, Claim(w) PROVE Inv'
    <2>1. WriterNumbered'
        BY <1>13, GotoNumbered, EmitNumbered DEF Claim, WriterPC, Events
    <2> QED
        BY <1>13, <2>1, NoClientStep DEF Claim
<1>14. ASSUME NEW w \in Writer, Crash(w) PROVE Inv'
    BY <1>14, FinishNumbered, NoClientStep DEF Crash, dbVars
<1>15. CASE Sweep \/ CheckDeletion \/ DeleteThread \/ CollectEvents
    <2>1. UNCHANGED <<writerVars, clientVars, lastSeq>> /\ log' \subseteq log
        BY <1>15 DEF Sweep, CheckDeletion, DeleteThread, CollectEvents, dbVars
    <2>2. WriterNumbered'
        BY <2>1 DEF WriterNumbered, NumbersUnique, writerVars
    <2> QED
        BY <2>1, <2>2, NoClientStep
<1>16. ASSUME NEW k \in Client, Connect(k) PROVE Inv'
    <2>1. ClientNumbered'
        BY <1>16 DEF Connect, dbVars, ClientNumbered, ClientTypes
    <2>2. DeliveryInv'
        BY <1>16 DEF Connect, DeliveryInv, InOrder
    <2>3. RowsInv'
        BY <1>16 DEF Connect, RowsInv, ClientTypes
    <2> QED
        BY <1>16, <2>1, <2>2, <2>3, ClientOnlyStep DEF Connect
<1>17. ASSUME NEW k \in Client, Poll(k) PROVE Inv'
    <2>1. ClientNumbered'
        BY <1>17 DEF Poll, dbVars, ClientNumbered, ClientTypes, WriterNumbered
    <2>2. DeliveryInv'
        BY <1>17 DEF Poll, DeliveryInv, InOrder, ClientTypes, WriterNumbered
    <2>3. RowsInv'
        BY <1>17 DEF Poll, RowsInv, ClientTypes
    <2> QED
        BY <1>17, <2>1, <2>2, <2>3, ClientOnlyStep DEF Poll
<1>18. ASSUME NEW k \in Client, Deliver(k) PROVE Inv'
    <2> PICK r \in rows[k] :
          /\ \A x \in rows[k] : r.seq <= x.seq
          /\ Receive(k, r)
          /\ rows' = [rows EXCEPT ![k] = IF r.event \in Terminal THEN {} ELSE @ \ {r}]
          /\ rpc' = [rpc EXCEPT ![k] = IF r.event \in Terminal THEN "finished"
                                       ELSE IF rows[k] = {r} THEN "poll" ELSE "deliver"]
        BY <1>18 DEF Deliver
    <2> DEFINE rest == IF r.event \in Terminal THEN {} ELSE rows[k] \ {r}
    <2>1. rows[k] \subseteq Rows /\ r \in Rows /\ rest \in SUBSET rows[k]
        BY DEF ClientTypes
    <2>2. r.seq > cursor[k]
        BY DEF DeliveryInv
    <2>3. \A x \in rest : x.seq > r.seq
        BY <2>1 DEF DeliveryInv, Rows
    <2>4. rows' = [rows EXCEPT ![k] = rest]
        OBVIOUS
    <2>5. DeliveryInv'
        BY <2>1, <2>2, <2>3, <2>4, ReceiveDelivery
    <2>6. r.seq <= lastSeq
        BY DEF ClientNumbered
    <2>7. PICK pc \in ClientPC :
             /\ rpc' = [rpc EXCEPT ![k] = pc]
             /\ pc # "deliver" => rest = {}
        BY DEF ClientPC
    <2>8. ClientNumbered'
        <3>1. r.seq <= lastSeq + 1 /\ \A c \in Client : rows'[c] \subseteq rows[c]
            BY <2>1, <2>4, <2>6 DEF ClientTypes, Rows
        <3>2. Receive(k, r) /\ lastSeq' = lastSeq
            BY <1>18 DEF Deliver, dbVars
        <3>3. pc # "finished" => r.seq <= lastSeq
            BY <2>6
        <3>4. rpc' = [rpc EXCEPT ![k] = pc]
            BY <2>7
        <3>5. r \in Rows
            BY <2>1
        <3> QED
            BY <3>1, <3>2, <3>3, <3>4, <3>5, ReceiveNumbered
    <2>9. RowsInv'
        BY <2>4, <2>7 DEF RowsInv, ClientTypes
    <2> QED
        BY <1>18, <2>5, <2>8, <2>9, ClientOnlyStep DEF Deliver
<1>19. ASSUME NEW k \in Client, CheckStatus(k) PROVE Inv'
    <2> DEFINE r == [seq |-> cursor[k] + 1, event |-> IF status = "error" THEN "error" ELSE "done"]
    <2>1. r \in Rows /\ cursor[k] \in Nat /\ r.seq = cursor[k] + 1
        BY DEF ClientTypes, Rows, Events
    <2>2. rpc[k] = "check" /\ rows[k] = {} /\ rows' = rows /\ lastSeq' = lastSeq
        BY <1>19 DEF CheckStatus, RowsInv, dbVars
    <2>3. CASE status \in EndStatuses
        <3>1. Receive(k, r) /\ rpc' = [rpc EXCEPT ![k] = "finished"]
            BY <1>19, <2>3 DEF CheckStatus
        <3>2. DeliveryInv'
            <4>1. rows' = [rows EXCEPT ![k] = {}] /\ r.seq > cursor[k]
                BY <2>1, <2>2 DEF ClientTypes
            <4> QED
                BY <2>1, <3>1, <4>1, ReceiveDelivery
        <3>3. r.seq <= lastSeq + 1
            BY <2>1, <2>2 DEF ClientNumbered
        <3>4. ClientNumbered'
            BY <2>1, <2>2, <3>1, <3>3, ReceiveNumbered DEF ClientPC
        <3>5. RowsInv'
            BY <2>2, <3>1 DEF RowsInv, ClientTypes
        <3> QED
            BY <1>19, <3>2, <3>4, <3>5, ClientOnlyStep DEF CheckStatus
    <2>4. CASE status \notin EndStatuses
        <3>1. rpc' = [rpc EXCEPT ![k] = "poll"] /\ UNCHANGED <<cursor, got>>
            BY <1>19, <2>4 DEF CheckStatus
        <3>2. ClientNumbered'
            BY <2>2, <3>1 DEF ClientNumbered, ClientTypes
        <3>3. DeliveryInv'
            BY <2>2, <3>1 DEF DeliveryInv, InOrder
        <3>4. RowsInv'
            BY <2>2, <3>1 DEF RowsInv, ClientTypes
        <3> QED
            BY <1>19, <3>2, <3>3, <3>4, ClientOnlyStep DEF CheckStatus
    <2> QED
        BY <2>3, <2>4
<1>20. ASSUME NEW k \in Client, Disconnect(k) PROVE Inv'
    <2>1. ClientNumbered'
        BY <1>20 DEF Disconnect, dbVars, ClientNumbered, ClientTypes
    <2>2. DeliveryInv'
        BY <1>20 DEF Disconnect, DeliveryInv, InOrder, ClientTypes
    <2>3. RowsInv'
        BY <1>20 DEF Disconnect, RowsInv, ClientTypes
    <2> QED
        BY <1>20, <2>1, <2>2, <2>3, ClientOnlyStep DEF Disconnect
<1>21. CASE UNCHANGED vars
    <2>1. WriterNumbered'
        BY <1>21 DEF vars, dbVars, writerVars, WriterNumbered, NumbersUnique
    <2> QED
        BY <1>21, <2>1, NoClientStep DEF vars, dbVars
<1> QED
    BY <1>1, <1>2, <1>3, <1>4, <1>5, <1>6, <1>7, <1>8, <1>9, <1>10, <1>11, <1>12, <1>13,
       <1>14, <1>15, <1>16, <1>17, <1>18, <1>19, <1>20, <1>21 DEF Next, WriterStep, ClientStep

\* It holds initially, and therefore always.
LEMMA InvInit == Init => Inv
<1> SUFFICES ASSUME Init PROVE Inv
    OBVIOUS
<1>1. Types
    <2>1. DbTypes
        BY DEF Init, DbTypes, Statuses, Rows, Events
    <2>2. OtherTypes
        <3>1. early \in BOOLEAN /\ deletion \in {"none", "checked", "done"}
            BY DEF Init
        <3>2. failures \in 0..MaxFailures
            BY StreamAssumption DEF Init
        <3> QED
            BY <3>1, <3>2 DEF OtherTypes
    <2>3. WriterTypes
        BY DEF Init, WriterTypes, WriterPC, NoEvent, Rows, Events
    <2>4. ClientTypes
        BY DEF Init, ClientTypes, ClientPC
    <2> QED
        BY <2>1, <2>2, <2>3, <2>4 DEF Types
<1>2. WriterNumbered
    BY DEF Init, WriterNumbered, NumbersUnique, NoEvent
<1>3. ClientNumbered
    BY DEF Init, ClientNumbered
<1>4. DeliveryInv /\ RowsInv
    BY DEF Init, DeliveryInv, InOrder, RowsInv
<1> QED
    BY <1>1, <1>2, <1>3, <1>4, NumberInvSplit DEF Inv

\* The invariant holds in every behaviour.
LEMMA SpecInv == Spec => []Inv
<1>1. Inv /\ [Next]_vars => Inv'
    BY InvStep
<1> QED
    BY InvInit, <1>1, PTL DEF Spec

-----------------------------------------------------------------------------
(* No event is skipped.                                                     *)

\* A generator is at work: it drives, or an event that does not end the stream is
\* on its way to the log.
Writing(w) ==
    \/ wpc[w] = "drive"
    \/ wpc[w] \in {"number", "append"} /\ held[w].event \notin Terminal

\* One generator writes, and while the run waits it is the one that asks.
SoleWriter ==
    /\ \A v, w \in Writer : Writing(v) /\ Writing(w) => v = w
    /\ status = "awaiting_approval" =>
           \A w \in Writer : Writing(w) => wpc[w] # "drive" /\ held[w].event = "approval"

\* No stream has passed the number n, or is about to with an event that does not
\* end it; nor has such an event in the log.
Before(k, n) == cursor[k] < n /\ \A r \in rows[k] : r.event \notin Terminal => r.seq < n

Ahead(n) ==
    /\ \A r \in log : r.event \notin Terminal => r.seq < n
    /\ \A k \in Client : rpc[k] # "finished" => Before(k, n)

AtTheEnd == \A w \in Writer :
    wpc[w] = "append" /\ held[w].event \notin Terminal => Ahead(held[w].seq)

\* What a stream has passed it has delivered, and what it is about to pass it has
\* fetched.
Passed(k) ==
    /\ \A r \in log : r.seq <= cursor[k] /\ r.event \notin Terminal =>
           \E i \in DOMAIN got[k] : got[k][i] = r
    /\ \A r \in log, s \in rows[k] :
           r.event \notin Terminal /\ s.event \notin Terminal /\ r.seq > cursor[k] /\ r.seq <= s.seq
               => r \in rows[k]

NothingPassed == \A k \in Client : rpc[k] # "finished" => Passed(k)

Order == SoleWriter /\ AtTheEnd /\ NothingPassed

OrderInv == ~ early => Order

\* The number after the last is ahead of everything.
LEMMA NextAhead == ASSUME Inv PROVE Ahead(lastSeq + 1)
<1>1. lastSeq \in Nat /\ log \subseteq Rows /\ ClientTypes /\ WriterNumbered /\ ClientNumbered
    BY NumberInvSplit DEF Inv, Types, DbTypes
<1>2. \A r \in log : r.seq < lastSeq + 1
    BY <1>1 DEF WriterNumbered, Rows
<1>3. ASSUME NEW k \in Client, rpc[k] # "finished" PROVE Before(k, lastSeq + 1)
    <2>1. cursor[k] \in Nat /\ cursor[k] <= lastSeq
        BY <1>1, <1>3 DEF ClientTypes, ClientNumbered
    <2>2. \A r \in rows[k] : r.seq \in Nat /\ r.seq <= lastSeq
        BY <1>1 DEF ClientTypes, ClientNumbered, Rows
    <2> QED
        BY <1>1, <2>1, <2>2 DEF Before
<1> QED
    BY <1>2, <1>3 DEF Ahead

\* A writer moves, and no row is inserted.
LEMMA WriterMoves ==
    ASSUME WriterTypes, Order, NEW w \in Writer, NEW pc, NEW e,
           wpc' = [wpc EXCEPT ![w] = pc], held' = [held EXCEPT ![w] = e],
           UNCHANGED clientVars, log' \subseteq log,
           Writing(w)' => Writing(w) \/ \A v \in Writer : ~ Writing(v),
           status' = "awaiting_approval" /\ Writing(w)' => pc # "drive" /\ e.event = "approval",
           status' = "awaiting_approval" => status = "awaiting_approval" \/ Writing(w),
           pc = "append" /\ e.event \notin Terminal => Ahead(e.seq)
    PROVE  Order'
<1>1. /\ wpc'[w] = pc /\ held'[w] = e
      /\ \A v \in Writer \ {w} : wpc'[v] = wpc[v] /\ held'[v] = held[v]
    BY DEF WriterTypes
<1>2. \A v \in Writer \ {w} : Writing(v)' <=> Writing(v)
    BY <1>1 DEF Writing
<1>3. SoleWriter'
    <2>1. ASSUME NEW v \in Writer, NEW u \in Writer, Writing(v)', Writing(u)' PROVE v = u
        BY <1>2, <2>1 DEF Order, SoleWriter
    <2>2. ASSUME status' = "awaiting_approval", NEW v \in Writer, Writing(v)'
          PROVE  wpc'[v] # "drive" /\ held'[v].event = "approval"
        <3>1. CASE v = w
            BY <1>1, <2>2, <3>1
        <3>2. CASE v # w
            <4>1. Writing(v)
                BY <1>2, <2>2, <3>2
            <4>2. status = "awaiting_approval"
                BY <2>2, <3>2, <4>1 DEF Order, SoleWriter
            <4> QED
                BY <1>1, <3>2, <4>1, <4>2 DEF Order, SoleWriter
        <3> QED
            BY <3>1, <3>2
    <2> QED
        BY <2>1, <2>2 DEF SoleWriter
<1>4. AtTheEnd'
    BY <1>1 DEF Order, AtTheEnd, Ahead, Before, clientVars
<1>5. NothingPassed'
    BY DEF Order, NothingPassed, Passed, clientVars
<1> QED
    BY <1>3, <1>4, <1>5 DEF Order

\* The writer has no event any more that could be skipped.
LEMMA WriterRests ==
    ASSUME WriterTypes, Order, NEW w \in Writer, NEW pc, NEW e, pc # "drive", e.event \in Terminal,
           wpc' = [wpc EXCEPT ![w] = pc], held' = [held EXCEPT ![w] = e],
           UNCHANGED clientVars, log' \subseteq log,
           status' = "awaiting_approval" => status = "awaiting_approval"
    PROVE  Order'
<1>1. wpc'[w] = pc /\ held'[w] = e
    BY DEF WriterTypes
<1>2. ~ Writing(w)'
    BY <1>1 DEF Writing
<1> QED
    BY <1>2, WriterMoves

\* A row is inserted behind everything that is skipped over.
LEMMA RowInserted ==
    ASSUME WriterTypes, ClientTypes, log \subseteq Rows, Order,
           NEW w \in Writer, wpc[w] = "append",
           log' = IF \E r \in log : r.seq = held[w].seq THEN log ELSE log \cup {held[w]},
           NEW pc, pc # "append", wpc' = [wpc EXCEPT ![w] = pc],
           NEW e, held' = [held EXCEPT ![w] = e],
           pc = "drive" => held[w].event = "step",
           pc = "number" => e.event \in Terminal,
           UNCHANGED <<status, clientVars>>
    PROVE  Order'
<1>1. /\ wpc'[w] = pc /\ held'[w] = e
      /\ \A v \in Writer \ {w} : wpc'[v] = wpc[v] /\ held'[v] = held[v]
    BY DEF WriterTypes
<1>2. \A v \in Writer \ {w} : Writing(v)' <=> Writing(v)
    BY <1>1 DEF Writing
<1>3. Writing(w)' => Writing(w) /\ held[w].event = "step" /\ wpc'[w] = "drive"
    BY <1>1 DEF Writing, Terminal
<1>4. SoleWriter'
    <2>1. ASSUME NEW v \in Writer, NEW u \in Writer, Writing(v)', Writing(u)' PROVE v = u
        BY <1>2, <1>3, <2>1 DEF Order, SoleWriter
    <2>2. ASSUME status = "awaiting_approval", NEW v \in Writer, Writing(v)'
          PROVE  wpc'[v] # "drive" /\ held'[v].event = "approval"
        BY <1>1, <1>2, <1>3, <2>2 DEF Order, SoleWriter
    <2> QED
        BY <2>1, <2>2 DEF SoleWriter
<1>5. PICK row \in Rows : row = held[w] /\ log' \subseteq log \cup {row}
    BY DEF WriterTypes
<1>6. CASE row.event \in Terminal
    <2>1. AtTheEnd'
        <3> SUFFICES ASSUME NEW v \in Writer, wpc'[v] = "append", held'[v].event \notin Terminal
                     PROVE  /\ \A r \in log' : r.event \notin Terminal => r.seq < held'[v].seq
                            /\ \A k \in Client : rpc'[k] # "finished" =>
                                   /\ cursor'[k] < held'[v].seq
                                   /\ \A r \in rows'[k] : r.event \notin Terminal => r.seq < held'[v].seq
            BY DEF AtTheEnd, Ahead, Before
        <3>1. v # w /\ wpc[v] = "append" /\ held[v] = held'[v]
            BY <1>1
        <3>2. Ahead(held[v].seq)
            BY <3>1 DEF Order, AtTheEnd
        <3> QED
            BY <1>5, <1>6, <3>1, <3>2 DEF Ahead, Before, clientVars
    <2>2. NothingPassed'
        BY <1>5, <1>6 DEF Order, NothingPassed, Passed, clientVars
    <2> QED
        BY <1>4, <2>1, <2>2 DEF Order
<1>7. CASE row.event \notin Terminal
    <2>1. Writing(w) /\ Ahead(row.seq)
        BY <1>5, <1>7 DEF Writing, Order, AtTheEnd
    <2>2. AtTheEnd'
        <3> SUFFICES ASSUME NEW v \in Writer, wpc'[v] = "append", held'[v].event \notin Terminal
                     PROVE  FALSE
            BY DEF AtTheEnd
        <3>1. v # w /\ Writing(v)
            BY <1>1 DEF Writing
        <3> QED
            BY <2>1, <3>1 DEF Order, SoleWriter
    <2>3. ASSUME NEW k \in Client, rpc[k] # "finished" PROVE Passed(k)'
        <3>1. cursor[k] < row.seq /\ \A s \in rows[k] : s.event \notin Terminal => s.seq < row.seq
            BY <2>1, <2>3 DEF Ahead, Before
        <3>2. /\ cursor[k] \in Nat /\ row.seq \in Nat /\ \A s \in rows[k] : s.seq \in Nat
            BY DEF ClientTypes, Rows
        <3>3. Passed(k)
            BY <2>3 DEF Order, NothingPassed
        <3>4. ~ (row.seq <= cursor[k]) /\ \A s \in rows[k] : s.event \notin Terminal => ~ (row.seq <= s.seq)
            BY <3>1, <3>2
        <3>5. cursor' = cursor /\ got' = got /\ rows' = rows
            BY DEF clientVars
        <3> QED
            BY <1>5, <3>3, <3>4, <3>5 DEF Passed
    <2>4. NothingPassed'
        BY <2>3 DEF NothingPassed, clientVars
    <2> QED
        BY <1>4, <2>2, <2>4 DEF Order
<1> QED
    BY <1>6, <1>7

\* A client moves.
LEMMA ClientMoves ==
    ASSUME Order, NEW k \in Client, UNCHANGED <<status, log, wpc, held>>,
           \A c \in Client \ {k} :
               rpc'[c] = rpc[c] /\ cursor'[c] = cursor[c] /\ rows'[c] = rows[c] /\ got'[c] = got[c],
           rpc'[k] # "finished" =>
               rpc[k] # "finished" /\ Passed(k)' /\ \A n : Ahead(n) => Before(k, n)'
    PROVE  Order'
<1>1. SoleWriter'
    BY DEF Order, SoleWriter, Writing
<1>2. AtTheEnd'
    <2> SUFFICES ASSUME NEW w \in Writer, wpc[w] = "append", held[w].event \notin Terminal,
                        NEW n, n = held[w].seq
                 PROVE  Ahead(n)'
        BY DEF AtTheEnd
    <2>1. Ahead(n)
        BY DEF Order, AtTheEnd
    <2>2. ASSUME NEW c \in Client, rpc'[c] # "finished" PROVE Before(c, n)'
        <3>1. CASE c = k
            BY <2>1, <2>2, <3>1
        <3>2. CASE c # k
            BY <2>1, <2>2, <3>2 DEF Ahead, Before
        <3> QED
            BY <3>1, <3>2
    <2> QED
        BY <2>1, <2>2 DEF Ahead
<1>3. NothingPassed'
    <2> SUFFICES ASSUME NEW c \in Client, rpc'[c] # "finished" PROVE Passed(c)'
        BY DEF NothingPassed
    <2>1. CASE c = k
        BY <2>1
    <2>2. CASE c # k
        BY <2>2 DEF Order, NothingPassed, Passed
    <2> QED
        BY <2>1, <2>2
<1> QED
    BY <1>1, <1>2, <1>3 DEF Order

\* Moving on, finishing and leaving, and emitting a terminal event, are such rests.
LEMMA GotoRests ==
    ASSUME WriterTypes, Order, NEW w \in Writer, NEW label, label # "drive", Goto(w, label),
           UNCHANGED clientVars, log' \subseteq log,
           status' = "awaiting_approval" => status = "awaiting_approval"
    PROVE  Order'
<1>1. NoEvent.event \in Terminal
    BY DEF NoEvent, Terminal
<1> QED
    BY <1>1, WriterRests DEF Goto

LEMMA LeaveRests ==
    ASSUME WriterTypes, Order, NEW w \in Writer, Leave(w) \/ Finish(w),
           UNCHANGED clientVars, log' \subseteq log,
           status' = "awaiting_approval" => status = "awaiting_approval"
    PROVE  Order'
<1>1. NoEvent.event \in Terminal
    BY DEF NoEvent, Terminal
<1>2. CASE Finish(w)
    BY <1>1, <1>2, WriterRests DEF Finish
<1>3. CASE Goto(w, "close")
    BY <1>3, GotoRests
<1> QED
    BY <1>2, <1>3 DEF Leave

LEMMA EmitRests ==
    ASSUME WriterTypes, Order, NEW w \in Writer, NEW event \in Terminal, Emit(w, event),
           UNCHANGED clientVars, log' \subseteq log,
           status' = "awaiting_approval" => status = "awaiting_approval"
    PROVE  Order'
<1>1. PICK e : e = [seq |-> 0, event |-> event]
    OBVIOUS
<1>2. e.event \in Terminal
    BY <1>1
<1> QED
    BY <1>1, <1>2, WriterRests DEF Emit

\* A generator takes the next number for an event it was writing, or for the answer.
LEMMA TakeNumberMoves ==
    ASSUME Inv, Order, NEW w \in Writer, NEW event, TakeNumber(w, event),
           event \in Terminal \/ Writing(w),
           status' = "awaiting_approval" => status = "awaiting_approval" /\ event \in {"approval"} \cup Terminal,
           UNCHANGED <<log, clientVars>>
    PROVE  Order'
<1>e. PICK e : e = [seq |-> lastSeq + 1, event |-> event]
    OBVIOUS
<1>1. e = [seq |-> lastSeq + 1, event |-> event] /\ e.event = event /\ e.seq = lastSeq + 1
    BY <1>e
<1>2. wpc' = [wpc EXCEPT ![w] = "append"] /\ held' = [held EXCEPT ![w] = e]
    BY <1>1 DEF TakeNumber
<1>3. WriterTypes /\ wpc'[w] = "append" /\ held'[w] = e
    BY <1>2 DEF Inv, Types, WriterTypes
<1>4. Writing(w)' => event \notin Terminal /\ Writing(w)
    BY <1>1, <1>3 DEF Writing
<1>5. status' = "awaiting_approval" /\ Writing(w)' => e.event = "approval"
    BY <1>1, <1>4
<1>6. Ahead(e.seq)
    BY <1>1, NextAhead
<1>7. log' \subseteq log /\ UNCHANGED clientVars
    OBVIOUS
<1> QED
    BY <1>2, <1>3, <1>4, <1>5, <1>6, <1>7, WriterMoves

\* Nobody moves, and at most rows are deleted.
LEMMA NobodyMoves ==
    ASSUME Order, UNCHANGED <<wpc, held, clientVars>>, log' \subseteq log,
           status' = "awaiting_approval" => status = "awaiting_approval"
    PROVE  Order'
<1>1. SoleWriter'
    BY DEF Order, SoleWriter, Writing
<1>2. AtTheEnd'
    BY DEF Order, AtTheEnd, Ahead, Before, clientVars
<1>3. NothingPassed'
    BY DEF Order, NothingPassed, Passed, clientVars
<1> QED
    BY <1>1, <1>2, <1>3 DEF Order

\* Every step keeps the order, as long as the run is not resumed early.
LEMMA OrderStep ==
    ASSUME Inv, OrderInv, [Next]_vars
    PROVE  OrderInv'
<1> SUFFICES ASSUME ~ early' PROVE Order'
    BY DEF OrderInv
<1>a. UNCHANGED early \/ \E w \in Writer : Claim(w)
    BY DEF Next, WriterStep, ClientStep, Number, AppendEvent, AppendFails, Progress, Pause, Drive, End,
       CommitAnswer, PumpFinally, Synthesize, CloseGenerator, Stop, Decide, Sweep, Crash,
       CheckDeletion, DeleteThread, CollectEvents, Connect, Poll, Deliver, CheckStatus, Disconnect, vars
<1>b. ~ early
    BY <1>a DEF Claim, Inv, Types, OtherTypes
<1>c. Order
    BY <1>b DEF OrderInv
<1>d. Types /\ DbTypes /\ WriterTypes /\ ClientTypes /\ log \subseteq Rows
    BY DEF Inv, Types, DbTypes
<1>1. ASSUME NEW w \in Writer, Number(w) PROVE Order'
    <2>1. UNCHANGED <<status, log, clientVars>>
        BY <1>1 DEF Number
    <2>2. CASE status = "gone"
        BY <1>1, <1>c, <1>d, <2>1, <2>2, GotoRests DEF Number
    <2>3. CASE status # "gone"
        <3>1. PICK event : event = held[w].event /\ TakeNumber(w, event) /\ wpc[w] = "number"
            BY <1>1, <2>3 DEF Number
        <3>2. event \in Terminal \/ Writing(w)
            BY <3>1 DEF Writing
        <3>3. status = "awaiting_approval" => event \in {"approval"} \cup Terminal
            BY <1>c, <3>1, <3>2 DEF Order, SoleWriter
        <3> QED
            BY <1>c, <2>1, <3>1, <3>2, <3>3, TakeNumberMoves
    <2> QED
        BY <2>2, <2>3
<1>2. ASSUME NEW w \in Writer, AppendEvent(w) PROVE Order'
    <2>1. /\ wpc[w] = "append" /\ UNCHANGED <<status, clientVars>>
          /\ log' = IF \E r \in log : r.seq = held[w].seq THEN log ELSE log \cup {held[w]}
        BY <1>2 DEF AppendEvent
    <2>2. PICK pc, e : /\ wpc' = [wpc EXCEPT ![w] = pc] /\ held' = [held EXCEPT ![w] = e]
                       /\ pc # "append"
                       /\ pc = "drive" => held[w].event = "step"
                       /\ pc = "number" => e.event \in Terminal
        <3>1. CASE held[w].event = "step"
            BY <1>2, <3>1 DEF AppendEvent, Goto
        <3>2. CASE held[w].event = "answer"
            <4>1. Emit(w, "done")
                BY <1>2, <3>2 DEF AppendEvent
            <4>2. PICK e : e = [seq |-> 0, event |-> "done"]
                OBVIOUS
            <4>3. e.event \in Terminal
                BY <4>2 DEF Terminal
            <4> QED
                BY <4>1, <4>2, <4>3 DEF Emit
        <3>3. CASE held[w].event \notin {"step", "answer"}
            BY <1>2, <3>3 DEF AppendEvent, Leave, Goto, Finish
        <3> QED
            BY <3>1, <3>2, <3>3
    <2> QED
        BY <1>c, <1>d, <2>1, <2>2, RowInserted
<1>3. ASSUME NEW w \in Writer, AppendFails(w) PROVE Order'
    <2>1. UNCHANGED clientVars /\ log' \subseteq log /\ status' = status
        BY <1>3 DEF AppendFails, dbVars
    <2>2. CASE held[w].event \in Terminal
        BY <1>3, <1>c, <1>d, <2>1, <2>2, LeaveRests DEF AppendFails
    <2>3. CASE held[w].event \notin Terminal
        <3>1. PICK pc \in {"close", "final"} : wpc' = [wpc EXCEPT ![w] = pc]
            BY <1>3, <2>3 DEF AppendFails
        <3>2. held' = [held EXCEPT ![w] = NoEvent] /\ NoEvent.event \in Terminal /\ pc # "drive"
            BY <1>3, <2>3 DEF AppendFails, NoEvent, Terminal
        <3> QED
            BY <1>c, <1>d, <2>1, <3>1, <3>2, WriterRests
    <2> QED
        BY <2>2, <2>3
<1>4. ASSUME NEW w \in Writer, Progress(w) PROVE Order'
    <2>1. UNCHANGED <<status, log, clientVars>> /\ Writing(w) /\ wpc[w] = "drive"
        BY <1>4 DEF Progress, Writing
    <2>2. status # "awaiting_approval"
        BY <1>c, <2>1 DEF Order, SoleWriter
    <2>3. CASE status = "gone"
        BY <1>4, <1>c, <1>d, <2>1, <2>3, GotoRests DEF Progress
    <2>4. CASE status # "gone"
        <3>1. TakeNumber(w, "step")
            BY <1>4, <2>4 DEF Progress
        <3> QED
            BY <1>c, <2>1, <2>2, <3>1, TakeNumberMoves
    <2> QED
        BY <2>3, <2>4
<1>5. ASSUME NEW w \in Writer, Pause(w) PROVE Order'
    <2>1. UNCHANGED clientVars /\ log' \subseteq log /\ Writing(w)
        BY <1>5 DEF Pause, Drive, Writing
    <2>e. PICK e : e = [seq |-> 0, event |-> "approval"]
        OBVIOUS
    <2>2. e = [seq |-> 0, event |-> "approval"] /\ e.event = "approval"
        BY <2>e
    <2>3. wpc' = [wpc EXCEPT ![w] = "number"] /\ held' = [held EXCEPT ![w] = e]
        BY <1>5, <2>2 DEF Pause, Emit
    <2> QED
        BY <1>c, <1>d, <2>1, <2>2, <2>3, WriterMoves
<1>6. ASSUME NEW w \in Writer, NEW s \in {"interrupted", "error"}, End(w, s) PROVE Order'
    <2>1. UNCHANGED clientVars /\ log' \subseteq log
        BY <1>6 DEF End, Drive
    <2>2. CASE status = "running"
        BY <1>6, <1>c, <1>d, <2>1, <2>2, EmitRests DEF End, Terminal
    <2>3. CASE status # "running"
        BY <1>6, <1>c, <1>d, <2>1, <2>3, GotoRests DEF End
    <2> QED
        BY <2>2, <2>3
<1>7. ASSUME NEW w \in Writer, CommitAnswer(w) PROVE Order'
    <2>1. UNCHANGED <<log, clientVars>> /\ Writing(w)
        BY <1>7 DEF CommitAnswer, Writing
    <2>2. CASE status = "running"
        BY <1>7, <1>c, <2>1, <2>2, TakeNumberMoves DEF CommitAnswer
    <2>3. CASE status # "running"
        BY <1>7, <1>c, <1>d, <2>1, <2>3, GotoRests DEF CommitAnswer
    <2> QED
        BY <2>2, <2>3
<1>8. ASSUME NEW w \in Writer, PumpFinally(w) PROVE Order'
    <2>1. UNCHANGED clientVars /\ log' \subseteq log /\ status' = status
        BY <1>8 DEF PumpFinally, dbVars
    <2> QED
        BY <1>8, <1>c, <1>d, <2>1, GotoRests, LeaveRests DEF PumpFinally
<1>9. ASSUME NEW w \in Writer, Synthesize(w) PROVE Order'
    <2>1. UNCHANGED <<status, log, clientVars>>
        BY <1>9 DEF Synthesize
    <2>2. CASE status = "gone"
        BY <1>9, <1>c, <1>d, <2>1, <2>2, LeaveRests DEF Synthesize
    <2>3. CASE status # "gone"
        BY <1>9, <1>c, <2>1, <2>3, TakeNumberMoves DEF Synthesize, Terminal
    <2> QED
        BY <2>2, <2>3
<1>10. ASSUME NEW w \in Writer, CloseGenerator(w) PROVE Order'
    BY <1>10, <1>c, <1>d, LeaveRests DEF CloseGenerator
<1>11. ASSUME NEW w \in Writer, Stop(w) PROVE Order'
    BY <1>11, <1>c, <1>d, EmitRests DEF Stop, Terminal
<1>12. ASSUME NEW w \in Writer, Decide(w) PROVE Order'
    BY <1>12, <1>c, <1>d, GotoRests DEF Decide, dbVars
<1>13. ASSUME NEW w \in Writer, Claim(w) PROVE Order'
    <2>1. UNCHANGED clientVars /\ log' \subseteq log
        BY <1>13 DEF Claim
    <2>2. CASE status # "awaiting_approval"
        BY <1>13, <1>c, <1>d, <2>1, <2>2, GotoRests DEF Claim
    <2>3. CASE status' = "rejected" /\ Emit(w, "done")
        BY <1>c, <1>d, <2>1, <2>3, EmitRests DEF Terminal
    <2>4. CASE status = "awaiting_approval" /\ status' = "running" /\ Goto(w, "drive")
               /\ early' = (early \/ RequestPending)
        <3>1. ~ RequestPending
            BY <2>4
        <3>2. ASSUME NEW v \in Writer PROVE ~ Writing(v)
            BY <1>c, <2>4, <3>1 DEF RequestPending, Order, SoleWriter, Writing
        <3> QED
            BY <1>c, <1>d, <2>1, <2>4, <3>2, WriterMoves DEF Goto
    <2> QED
        BY <1>13, <2>2, <2>3, <2>4 DEF Claim
<1>14. ASSUME NEW w \in Writer, Crash(w) PROVE Order'
    BY <1>14, <1>c, <1>d, LeaveRests DEF Crash, dbVars
<1>15. CASE Sweep \/ CheckDeletion \/ DeleteThread \/ CollectEvents
    BY <1>15, <1>c, NobodyMoves
    DEF Sweep, CheckDeletion, DeleteThread, CollectEvents, dbVars, writerVars
<1>16. ASSUME NEW k \in Client, Connect(k) PROVE Order'
    <2>1. UNCHANGED <<status, log, wpc, held>> /\ UNCHANGED <<cursor, rows, got>>
        BY <1>16 DEF Connect, dbVars, writerVars
    <2>2. rpc[k] # "finished" /\ \A c \in Client \ {k} : rpc'[c] = rpc[c]
        BY <1>16, <1>d DEF Connect, ClientTypes
    <2>3. Passed(k)'
        BY <1>c, <2>1, <2>2 DEF Order, NothingPassed, Passed
    <2>4. \A n : Ahead(n) => Before(k, n)'
        BY <2>1, <2>2 DEF Ahead, Before
    <2> QED
        BY <1>c, <2>1, <2>2, <2>3, <2>4, ClientMoves
<1>17. ASSUME NEW k \in Client, Poll(k) PROVE Order'
    <2>1. UNCHANGED <<status, log, wpc, held>> /\ UNCHANGED <<cursor, got>>
        BY <1>17 DEF Poll, dbVars, writerVars
    <2>2. rpc[k] # "finished" /\ \A c \in Client \ {k} : rpc'[c] = rpc[c] /\ rows'[c] = rows[c]
        BY <1>17, <1>d DEF Poll, ClientTypes
    <2>3. rows'[k] = {r \in log : r.seq > cursor[k]}
        BY <1>17, <1>d DEF Poll, ClientTypes
    <2>4. Passed(k)'
        BY <1>c, <2>1, <2>2, <2>3 DEF Order, NothingPassed, Passed
    <2>5. \A n : Ahead(n) => Before(k, n)'
        BY <2>1, <2>2, <2>3 DEF Ahead, Before
    <2> QED
        BY <1>c, <2>1, <2>2, <2>4, <2>5, ClientMoves
<1>18. ASSUME NEW k \in Client, Deliver(k) PROVE Order'
    <2> PICK r \in rows[k] :
          /\ \A x \in rows[k] : r.seq <= x.seq
          /\ Receive(k, r)
          /\ rows' = [rows EXCEPT ![k] = IF r.event \in Terminal THEN {} ELSE @ \ {r}]
          /\ rpc' = [rpc EXCEPT ![k] = IF r.event \in Terminal THEN "finished"
                                       ELSE IF rows[k] = {r} THEN "poll" ELSE "deliver"]
        BY <1>18 DEF Deliver
    <2>1. UNCHANGED <<status, log, wpc, held>> /\ rpc[k] = "deliver"
        BY <1>18 DEF Deliver, dbVars, writerVars
    <2>2. \A c \in Client \ {k} :
             rpc'[c] = rpc[c] /\ cursor'[c] = cursor[c] /\ rows'[c] = rows[c] /\ got'[c] = got[c]
        BY <1>d DEF Receive, ClientTypes
    <2>3. CASE r.event \in Terminal
        <3>1. rpc'[k] = "finished"
            BY <1>d, <2>3 DEF ClientTypes
        <3> QED
            BY <1>c, <2>1, <2>2, <3>1, ClientMoves
    <2>4. CASE r.event \notin Terminal
        <3>1. cursor'[k] = r.seq /\ rows'[k] = rows[k] \ {r} /\ got'[k] = Append(got[k], r)
            BY <1>d, <2>4 DEF ClientTypes, Receive
        <3>a. rows[k] \subseteq Rows /\ cursor[k] \in Nat /\ got[k] \in Seq(Rows)
            BY <1>d DEF ClientTypes
        <3>b. \A x \in Rows : x.seq \in Nat
            BY DEF Rows
        <3>2. /\ \A x \in rows[k] : x \in Rows /\ x.seq \in Nat
              /\ \A x \in log : x.seq \in Nat
              /\ cursor[k] \in Nat /\ got[k] \in Seq(Rows) /\ r \in Rows
            BY <1>d, <3>a, <3>b
        <3>3. \A x \in rows[k] : x.seq = r.seq => x = r
            BY DEF Inv, DeliveryInv
        <3>4. \A i \in DOMAIN got[k] : i \in DOMAIN got'[k] /\ got'[k][i] = got[k][i]
            BY <3>1, <3>2
        <3>5. \E i \in DOMAIN got'[k] : got'[k][i] = r
            <4>1. Len(got[k]) + 1 \in DOMAIN got'[k] /\ got'[k][Len(got[k]) + 1] = r
                BY <3>1, <3>2
            <4> QED
                BY <4>1
        <3>6. Passed(k)
            BY <1>c, <2>1 DEF Order, NothingPassed
        <3>7. ASSUME NEW x \in log, x.seq <= r.seq, x.event \notin Terminal
              PROVE  \E i \in DOMAIN got'[k] : got'[k][i] = x
            <4>1. CASE x.seq <= cursor[k]
                BY <3>4, <3>6, <3>7, <4>1 DEF Passed
            <4>2. CASE x.seq > cursor[k]
                <5>1. x \in rows[k]
                    BY <2>4, <3>6, <3>7, <4>2 DEF Passed
                <5>2. x = r
                    BY <3>2, <3>3, <3>7, <5>1
                <5> QED
                    BY <3>5, <5>2
            <4> QED
                BY <3>2, <4>1, <4>2
        <3>8. ASSUME NEW x \in log, NEW s \in rows'[k], x.event \notin Terminal, s.event \notin Terminal,
                     x.seq > r.seq, x.seq <= s.seq
              PROVE  x \in rows'[k]
            <4>1. cursor[k] < r.seq
                BY <3>2 DEF Inv, DeliveryInv
            <4>2. x.seq > cursor[k] /\ x # r
                BY <3>2, <3>8, <4>1
            <4>3. x \in rows[k]
                BY <3>1, <3>6, <3>8, <4>2 DEF Passed
            <4> QED
                BY <3>1, <4>2, <4>3
        <3>9. Passed(k)'
            BY <2>1, <3>1, <3>7, <3>8 DEF Passed
        <3>10. \A n : Ahead(n) => Before(k, n)'
            BY <2>1, <2>4, <3>1 DEF Ahead, Before
        <3> QED
            BY <1>c, <2>1, <2>2, <3>9, <3>10, ClientMoves
    <2> QED
        BY <2>3, <2>4
<1>19. ASSUME NEW k \in Client, CheckStatus(k) PROVE Order'
    <2>1. UNCHANGED <<status, log, wpc, held>> /\ rpc[k] = "check" /\ rows' = rows
        BY <1>19 DEF CheckStatus, dbVars, writerVars
    <2>2. \A c \in Client \ {k} :
             rpc'[c] = rpc[c] /\ cursor'[c] = cursor[c] /\ rows'[c] = rows[c] /\ got'[c] = got[c]
        BY <1>19, <1>d DEF CheckStatus, Receive, ClientTypes
    <2>3. CASE status \in EndStatuses
        <3>1. rpc'[k] = "finished"
            BY <1>19, <1>d, <2>3 DEF CheckStatus, ClientTypes
        <3> QED
            BY <1>c, <2>1, <2>2, <3>1, ClientMoves
    <2>4. CASE status \notin EndStatuses
        <3>1. UNCHANGED <<cursor, got>>
            BY <1>19, <2>4 DEF CheckStatus
        <3>2. Passed(k)'
            BY <1>c, <2>1, <3>1 DEF Order, NothingPassed, Passed
        <3>3. \A n : Ahead(n) => Before(k, n)'
            BY <2>1, <3>1 DEF Ahead, Before
        <3> QED
            BY <1>c, <2>1, <2>2, <3>2, <3>3, ClientMoves
    <2> QED
        BY <2>3, <2>4
<1>20. ASSUME NEW k \in Client, Disconnect(k) PROVE Order'
    <2>1. UNCHANGED <<status, log, wpc, held>> /\ UNCHANGED <<cursor, got>>
        BY <1>20 DEF Disconnect, dbVars, writerVars
    <2>2. rpc[k] # "finished" /\ \A c \in Client \ {k} : rpc'[c] = rpc[c] /\ rows'[c] = rows[c]
        BY <1>20, <1>d DEF Disconnect, ClientTypes
    <2>3. rows'[k] = {}
        BY <1>20, <1>d DEF Disconnect, ClientTypes
    <2>4. Passed(k)'
        BY <1>c, <2>1, <2>2, <2>3 DEF Order, NothingPassed, Passed
    <2>5. \A n : Ahead(n) => Before(k, n)'
        BY <2>1, <2>2, <2>3 DEF Ahead, Before
    <2> QED
        BY <1>c, <2>1, <2>2, <2>4, <2>5, ClientMoves
<1>21. CASE UNCHANGED vars
    BY <1>21, <1>c, NobodyMoves DEF vars, dbVars, writerVars
<1> QED
    BY <1>1, <1>2, <1>3, <1>4, <1>5, <1>6, <1>7, <1>8, <1>9, <1>10, <1>11, <1>12, <1>13,
       <1>14, <1>15, <1>16, <1>17, <1>18, <1>19, <1>20, <1>21 DEF Next, WriterStep, ClientStep

\* It holds initially.
LEMMA OrderInit == Init => OrderInv
<1> SUFFICES ASSUME Init PROVE Order
    BY DEF OrderInv
<1>1. PICK w \in Writer : wpc = [x \in Writer |-> IF x = w THEN "drive" ELSE "idle"]
    BY DEF Init
<1>2. SoleWriter
    BY <1>1 DEF Init, SoleWriter, Writing
<1>3. AtTheEnd
    BY <1>1 DEF AtTheEnd
<1>4. NothingPassed
    BY DEF Init, NothingPassed, Passed
<1> QED
    BY <1>2, <1>3, <1>4 DEF Order

-----------------------------------------------------------------------------
(* Theorems.                                                               *)

\* Every variable keeps its type, and every number in use was handed out.
THEOREM StreamTypes == Spec => []TypeOK
<1>1. Inv => TypeOK
    BY DEF Inv, Types, NumberInv, TypeOK
<1> QED
    BY SpecInv, <1>1, PTL

\* Whoever writes events of the run, and whenever it fails, a number is inserted
\* once (next_seq, append_run_event).
THEOREM EventsUnique == Spec => []NumbersUnique
<1>1. Inv => NumbersUnique
    BY DEF Inv, NumberInv
<1> QED
    BY SpecInv, <1>1, PTL

\* A client receives events in increasing order over all its connections, for any
\* number of clients, writers and failures (stream).
THEOREM DeliveredInOrder == Spec => []InOrder
<1>1. Inv => InOrder
    BY DEF Inv, DeliveryInv
<1> QED
    BY SpecInv, <1>1, PTL
\* A stream that is open or will be opened again has skipped no event that does not
\* end it, for any writers, clients and failures, unless a decision resumed the run
\* before its request for approval was in the log (next_seq, append_run_event,
\* get_run_events_after).
THEOREM NothingSkipped == Spec => []NoneSkipped
<1>1. Inv /\ OrderInv /\ [Next]_vars => OrderInv'
    BY OrderStep
<1>2. OrderInv => NoneSkipped
    BY DEF OrderInv, Order, NothingPassed, Passed, NoneSkipped
<1> QED
    BY SpecInv, OrderInit, <1>1, <1>2, PTL DEF Spec
=============================================================================
