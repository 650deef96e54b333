------------------------- MODULE StatuteIndexProofs -------------------------
(* Theorems about StatuteIndex, for any publications, any windows and any  *)
(* number of ingests.                                                      *)
EXTENDS StatuteIndex, WellFoundedInduction, TLAPS

-----------------------------------------------------------------------------
(* The windows of a text cover it.                                         *)

\* A window starts at least as far into the text as its number.
LEMMA Multiples ==
    ASSUME NEW s \in Nat \ {0}, NEW w \in Nat
    PROVE  /\ w * s \in Nat /\ w <= w * s
           /\ w # 0 => (w - 1) * s = w * s - s /\ (w - 1) * s \in Nat
<1>1. w * s \in Nat
    BY SMT
<1>2. w <= w * s
    BY SMT
<1>3. ASSUME w # 0 PROVE (w - 1) * s = w * s - s /\ (w - 1) * s \in Nat
    BY <1>3, SMT
<1> QED
    BY <1>1, <1>2, <1>3

\* There is a first window that reaches a position.
LEMMA FirstReaching ==
    ASSUME NEW s \in Nat \ {0}, NEW m \in Nat, NEW i \in Nat
    PROVE  \E w \in Nat : /\ i <= w * s + m
                          /\ w # 0 => (w - 1) * s + m < i
<1> DEFINE Reaching == {w \in Nat : i <= w * s + m}
<1>1. i \in Reaching
    <2>1. i * s \in Nat /\ i <= i * s
        BY Multiples
    <2> QED
        BY <2>1
<1>2. PICK w \in Reaching : \A v \in Reaching : ~ (<<v, w>> \in OpToRel(<, Nat))
    <2>1. Reaching \subseteq Nat /\ Reaching # {}
        BY <1>1
    <2> HIDE DEF Reaching
    <2> QED
        BY <2>1, WFMin, NatLessThanWellFounded
<1>3. ASSUME w # 0 PROVE (w - 1) * s + m < i
    <2>1. w - 1 \in Nat /\ w - 1 < w
        BY <1>3
    <2>2. <<w - 1, w>> \in OpToRel(<, Nat)
        BY <2>1 DEF OpToRel
    <2>3. w - 1 \notin Reaching
        BY <1>2, <2>2
    <2>4. (w - 1) * s \in Nat
        BY <1>3, Multiples
    <2> QED
        BY <2>1, <2>3, <2>4
<1> QED
    BY <1>2, <1>3

\* The step from one window to the next is positive: windows do not repeat.
LEMMA StepPositive == Step \in Nat \ {0}
BY IndexAssumption DEF Step

\* split_windows leaves nothing out: every position lies in a window.
THEOREM WindowsCover ==
    ASSUME NEW len \in Nat, NEW i \in 1 .. len
    PROVE  \E w \in Windows(len) : i \in Positions(w, len)
<1>1. MaxChars \in Nat \ {0} /\ Step \in Nat \ {0} /\ Step <= MaxChars
    BY IndexAssumption DEF Step
<1>2. PICK w \in Nat : /\ i <= w * Step + MaxChars
                       /\ w # 0 => (w - 1) * Step + MaxChars < i
    <2>1. i \in Nat /\ Step \in Nat \ {0} /\ MaxChars \in Nat
        BY <1>1
    <2> QED
        BY <2>1, FirstReaching, Zenon
<1>3. /\ w * Step \in Nat /\ w <= w * Step
      /\ w # 0 => (w - 1) * Step = w * Step - Step
    BY <1>1, Multiples
<1>4. w * Step < i
    BY <1>1, <1>2, <1>3
<1>5. w \in 0 .. len /\ len > 0
    BY <1>3, <1>4
<1>6. w # 0 => (w - 1) * Step + MaxChars < len
    BY <1>1, <1>2, <1>3
<1>7. w \in Windows(len)
    BY <1>5, <1>6 DEF Windows
<1> QED
    BY <1>2, <1>4, <1>7 DEF Positions

\* A text has a first window, an empty text has none.
LEMMA FirstWindow ==
    ASSUME NEW len \in Nat
    PROVE  /\ len > 0 => 0 \in Windows(len)
           /\ len = 0 => Windows(len) = {}
           /\ Windows(len) \subseteq Nat
BY DEF Windows

-----------------------------------------------------------------------------
(* Points: what replacing and demoting does to them.                       *)

Points == [date : Date, article : Article, seq : Nat, pub : Pub, current : BOOLEAN]

\* The date of a point is that of its publication.
Dated(S) == \A p \in S : p.date = EffDate[p.pub]

\* Ids are unique.
UniqueIds(S) == \A p, q \in S : PointId(p) = PointId(q) => p = q

\* An article that has a point has the point of its first window.
HasFirst(S, u) == \E q \in S : PointId(q) = <<u, 0>>
Rooted(S) == \A p \in S : HasFirst(S, Uri(p))

\* A good set of points: what the collection is at any time.
Good(S) == S \subseteq Points /\ Dated(S) /\ UniqueIds(S) /\ Rooted(S)

\* Publications have dates, and texts.
LEMMA Publications ==
    ASSUME NEW p \in Pub
    PROVE  /\ EffDate[p] \in Date
           /\ Length[p] \in [Article -> Nat]
           /\ \E a \in Article : Length[p][a] > 0
           /\ p # 0
BY IndexAssumption DEF Date, Pub

\* A chunk, spelled out.
LEMMA ChunkIs ==
    ASSUME NEW p \in Pub, NEW c
    PROVE  c \in Chunks(p) <=>
               \E a \in Article : \E w \in Windows(Length[p][a]) :
                   /\ Length[p][a] > 0
                   /\ c = [date |-> EffDate[p], article |-> a, seq |-> w,
                           pub |-> p, current |-> TRUE]
BY DEF Chunks, Articles

\* The chunks of a publication are good, current, and there are some.
LEMMA ChunksGood ==
    ASSUME NEW p \in Pub
    PROVE  /\ Good(Chunks(p))
           /\ Chunks(p) # {}
           /\ \A c \in Chunks(p) : c.current /\ c.pub = p /\ c.date = EffDate[p]
<1> DEFINE Chunk(a, w) == [date |-> EffDate[p], article |-> a, seq |-> w,
                           pub |-> p, current |-> TRUE]
<1>1. \A c \in Chunks(p) : \E a \in Article : \E w \in Windows(Length[p][a]) :
          Length[p][a] > 0 /\ c = Chunk(a, w)
    BY ChunkIs
<1>2. \A a \in Article : Length[p][a] > 0 =>
          Chunk(a, 0) \in Chunks(p) /\ Windows(Length[p][a]) \subseteq Nat
    <2>1. ASSUME NEW a \in Article, Length[p][a] > 0
          PROVE  Chunk(a, 0) \in Chunks(p) /\ Windows(Length[p][a]) \subseteq Nat
        <3>1. Length[p][a] \in Nat
            BY Publications
        <3>2. 0 \in Windows(Length[p][a]) /\ Windows(Length[p][a]) \subseteq Nat
            BY <2>1, <3>1, FirstWindow
        <3> QED
            BY <2>1, <3>2, ChunkIs
    <2> QED
        BY <2>1
<1>3. \A c \in Chunks(p) :
          /\ c \in Points /\ c.current /\ c.pub = p /\ c.date = EffDate[p]
          /\ Chunk(c.article, 0) \in Chunks(p)
          /\ c = Chunk(c.article, c.seq)
    <2>1. ASSUME NEW c \in Chunks(p)
          PROVE  /\ c \in Points /\ c.current /\ c.pub = p /\ c.date = EffDate[p]
                 /\ Chunk(c.article, 0) \in Chunks(p)
                 /\ c = Chunk(c.article, c.seq)
        <3>0. PICK a \in Article : \E w \in Windows(Length[p][a]) :
                  Length[p][a] > 0 /\ c = Chunk(a, w)
            BY <1>1
        <3>1. PICK w \in Windows(Length[p][a]) :
                  Length[p][a] > 0 /\ c = Chunk(a, w)
            BY <3>0
        <3>2. w \in Nat /\ Chunk(a, 0) \in Chunks(p)
            BY <1>2, <3>1
        <3>3. c.article = a /\ c.seq = w
            BY <3>1
        <3>4. c \in Points /\ c.current /\ c.pub = p /\ c.date = EffDate[p]
            BY <3>1, <3>2, Publications DEF Points
        <3> HIDE DEF Chunk
        <3> QED
            BY <3>1, <3>2, <3>3, <3>4
    <2> QED
        BY <2>1
<1>4. Dated(Chunks(p))
    BY <1>3 DEF Dated
<1>5. UniqueIds(Chunks(p))
    <2>1. ASSUME NEW c \in Chunks(p), NEW d \in Chunks(p), PointId(c) = PointId(d)
          PROVE  c = d
        <3>1. c.article = d.article /\ c.seq = d.seq
            BY <2>1 DEF PointId, Uri
        <3> HIDE DEF Chunk
        <3> QED
            BY <1>3, <3>1
    <2> QED
        BY <2>1 DEF UniqueIds
<1>6. Rooted(Chunks(p))
    <2>1. ASSUME NEW c \in Chunks(p) PROVE HasFirst(Chunks(p), Uri(c))
        <3>1. Chunk(c.article, 0) \in Chunks(p) /\ c.date = EffDate[p]
            BY <1>3
        <3>2. PointId(Chunk(c.article, 0)) = <<Uri(c), 0>>
            BY <3>1 DEF PointId, Uri
        <3> QED
            BY <3>1, <3>2 DEF HasFirst
    <2> QED
        BY <2>1 DEF Rooted
<1>7. Chunks(p) # {}
    BY <1>2, Publications
<1> QED
    BY <1>3, <1>4, <1>5, <1>6, <1>7 DEF Good

\* Upserting good points into good points keeps them good and loses no id.
LEMMA UpsertedGood ==
    ASSUME Good(points), NEW new, Good(new)
    PROVE  /\ Good(Upserted(new))
           /\ new \subseteq Upserted(new)
           /\ \A p \in points : \E q \in Upserted(new) : PointId(q) = PointId(p)
           /\ \A q \in Upserted(new) : q \in points \/ q \in new
<1> DEFINE U == Upserted(new)
<1>1. new \subseteq U /\ \A q \in U : q \in points \/ q \in new
    BY DEF Upserted
<1>2. ASSUME NEW p \in points PROVE \E q \in U : PointId(q) = PointId(p)
    BY DEF Upserted
<1>3. UniqueIds(U)
    BY DEF Upserted, Good, UniqueIds
<1>4. U \subseteq Points /\ Dated(U)
    BY <1>1 DEF Good, Dated
<1>5. Rooted(U)
    <2>1. ASSUME NEW p \in U PROVE HasFirst(U, Uri(p))
        <3>1. CASE p \in new
            BY <1>1, <3>1 DEF Good, Rooted, HasFirst
        <3>2. CASE p \in points
            <4>1. PICK f \in points : PointId(f) = <<Uri(p), 0>>
                BY <3>2 DEF Good, Rooted, HasFirst
            <4> QED
                BY <4>1, <1>2 DEF HasFirst
        <3> QED
            BY <1>1, <3>1, <3>2
    <2> QED
        BY <2>1 DEF Rooted
<1> QED
    BY <1>1, <1>2, <1>3, <1>4, <1>5 DEF Good

\* A point after a demotion, and the point it was.
After(p, date) == [p EXCEPT !.current = @ /\ p.date = date]

LEMMA AfterIs ==
    ASSUME NEW p \in Points, NEW date
    PROVE  /\ After(p, date) \in Points
           /\ After(p, date).date = p.date /\ After(p, date).pub = p.pub
           /\ PointId(After(p, date)) = PointId(p)
           /\ Uri(After(p, date)) = Uri(p)
           /\ After(p, date).current => p.date = date
           /\ p.current /\ p.date = date => After(p, date) = p
<1>1. After(p, date) =
          [date |-> p.date, article |-> p.article, seq |-> p.seq, pub |-> p.pub,
           current |-> (p.current /\ p.date = date)]
    BY DEF After, Points
<1>2. (p.current /\ p.date = date) \in BOOLEAN
    OBVIOUS
<1>3. p = [date |-> p.date, article |-> p.article, seq |-> p.seq, pub |-> p.pub,
           current |-> p.current]
    BY DEF Points
<1>4. p.current /\ p.date = date => After(p, date) = p
    <2>1. ASSUME p.current, p.date = date PROVE After(p, date) = p
        <3>1. p.current = TRUE
            BY <2>1 DEF Points
        <3>2. (p.current /\ p.date = date) = TRUE
            BY <2>1
        <3> QED
            BY <1>1, <1>3, <3>1, <3>2
    <2> QED
        BY <2>1
<1>5. /\ After(p, date).date = p.date /\ After(p, date).article = p.article
      /\ After(p, date).seq = p.seq /\ After(p, date).pub = p.pub
      /\ After(p, date).current = (p.current /\ p.date = date)
    BY <1>1
<1>6. After(p, date) \in Points
    BY <1>1, <1>2 DEF Points
<1>7. PointId(After(p, date)) = PointId(p) /\ Uri(After(p, date)) = Uri(p)
    BY <1>5 DEF PointId, Uri
<1>8. After(p, date).current => p.date = date
    BY <1>5
<1> QED
    BY <1>4, <1>5, <1>6, <1>7, <1>8

\* Demoting keeps good points good, keeps every id, and leaves nothing of
\* another date current.
LEMMA DemotedGood ==
    ASSUME Good(points), NEW date
    PROVE  /\ Good(Demoted(date))
           /\ \A p \in points : \E q \in Demoted(date) : PointId(q) = PointId(p)
           /\ \A q \in Demoted(date) : /\ q.current => q.date = date
                                       /\ \E p \in points : q.date = p.date
           /\ \A p \in points : p.current /\ p.date = date => p \in Demoted(date)
<1>1. Demoted(date) = {After(p, date) : p \in points}
    BY DEF Demoted, After
<1>2. \A p \in points : /\ After(p, date) \in Points
                        /\ After(p, date).date = p.date
                        /\ After(p, date).pub = p.pub
                        /\ PointId(After(p, date)) = PointId(p)
                        /\ Uri(After(p, date)) = Uri(p)
                        /\ After(p, date).current => p.date = date
                        /\ p.current /\ p.date = date => After(p, date) = p
    BY AfterIs DEF Good
<1> HIDE DEF After
<1>3. /\ Demoted(date) \subseteq Points /\ Dated(Demoted(date))
      /\ UniqueIds(Demoted(date))
    BY <1>1, <1>2 DEF Good, Dated, UniqueIds
<1>4. Rooted(Demoted(date))
    <2>1. ASSUME NEW p \in points PROVE HasFirst(Demoted(date), Uri(p))
        <3>1. PICK f \in points : PointId(f) = <<Uri(p), 0>>
            BY DEF Good, Rooted, HasFirst
        <3> QED
            BY <1>1, <1>2, <3>1 DEF HasFirst
    <2> QED
        BY <1>1, <1>2, <2>1 DEF Rooted
<1> QED
    BY <1>1, <1>2, <1>3, <1>4 DEF Good

-----------------------------------------------------------------------------
(* The inductive invariant.                                                *)

Past == {"embed", "upsert", "supersede"}
Steps == {"idle", "put"} \cup Past

JobTypes ==
    /\ published \in Pub
    /\ job \in [Job -> [at : Steps, pub : Pub \cup {0}, alone : BOOLEAN]]
    /\ \A j \in Job : Busy(j) => job[j].pub \in Pub

StoreTypes ==
    /\ graphs \in [Date -> Pub \cup {0}]
    /\ frozen \in [Date \X Article -> Pub \cup {0}]
    /\ clean \in Pub \cup {0}
    /\ overlap \in BOOLEAN

\* An ingest that is alone has no other beside it; without overlap all are.
AloneIsAlone ==
    /\ \A j, k \in Job : Busy(j) /\ Busy(k) /\ job[j].alone => j = k
    /\ ~overlap => \A j \in Job : Busy(j) => job[j].alone

\* An ingest past its graph has it stored; one about to demote, its points.
Progress ==
    \A j \in Job :
        /\ job[j].at \in Past =>
               /\ graphs[EffDate[job[j].pub]] # 0
               /\ job[j].alone => graphs[EffDate[job[j].pub]] = job[j].pub
        /\ job[j].at = "supersede" /\ job[j].alone => Chunks(job[j].pub) \subseteq points

\* Points have their graph, and some are current unless ingests overlapped.
Stored ==
    /\ \A p \in points : graphs[p.date] # 0
    /\ points # {} /\ ~overlap => Current # {}

\* What an ingest that was alone to its end leaves.
CleanResult ==
    clean # 0 =>
        /\ Chunks(clean) \subseteq points
        /\ \A p \in Current : p.date = EffDate[clean]
        /\ graphs[EffDate[clean]] = clean

\* What was read has its date and its first window; what was cited is frozen,
\* at a publication of the date it is cited under.
WasRead(h) == h \in Points /\ h.date = EffDate[h.pub] /\ HasFirst(points, Uri(h))

Answering ==
    /\ \A h \in hits \cup cited : WasRead(h)
    /\ \A h \in cited : frozen[Uri(h)] # 0
    /\ \A u \in Date \X Article : frozen[u] # 0 => EffDate[frozen[u]] = u[1]

IndexInv ==
    /\ JobTypes /\ StoreTypes /\ Good(points)
    /\ AloneIsAlone /\ Progress /\ Stored /\ CleanResult /\ Answering

-----------------------------------------------------------------------------
(* The invariant holds initially and is kept by every step.                *)

LEMMA InvInit == Init => IndexInv
<1> SUFFICES ASSUME Init PROVE IndexInv
    OBVIOUS
<1>1. 1 \in Pub
    BY IndexAssumption DEF Pub
<1>2. \A j \in Job : job[j] = Idle /\ ~Busy(j)
    BY DEF Init, Idle, Busy
<1>3. JobTypes /\ StoreTypes
    BY <1>1, <1>2 DEF Init, JobTypes, StoreTypes, Idle, Steps
<1>4. Good(points)
    BY DEF Init, Good, Dated, UniqueIds, Rooted
<1>5. AloneIsAlone /\ Progress
    BY <1>2 DEF AloneIsAlone, Progress, Idle, Past
<1>6. Stored /\ CleanResult /\ Answering
    BY DEF Init, Stored, CleanResult, Answering
<1> QED
    BY <1>3, <1>4, <1>5, <1>6 DEF IndexInv

\* The answers stay good while no id disappears.
LEMMA AnsweringKept ==
    ASSUME Answering, UNCHANGED answering,
           \A p \in points : \E q \in points' : PointId(q) = PointId(p)
    PROVE  Answering'
<1>1. \A h : WasRead(h) => WasRead(h)'
    <2>1. ASSUME NEW h, WasRead(h) PROVE WasRead(h)'
        <3>1. PICK p \in points : PointId(p) = <<Uri(h), 0>>
            BY <2>1 DEF WasRead, HasFirst
        <3>2. PICK q \in points' : PointId(q) = PointId(p)
            OBVIOUS
        <3> QED
            BY <2>1, <3>1, <3>2 DEF WasRead, HasFirst
    <2> QED
        BY <2>1
<1> QED
    BY <1>1 DEF Answering, answering

\* What the index holds stays true while the index stays.
LEMMA IndexKept ==
    ASSUME Stored, CleanResult, UNCHANGED <<index, clean>>, overlap \in BOOLEAN,
           overlap' \in BOOLEAN, overlap => overlap'
    PROVE  Stored' /\ CleanResult'
BY DEF Stored, CleanResult, index, Current

\* Steps of an ingest that only move it.
LEMMA AmendStep == ASSUME IndexInv, Amend PROVE IndexInv'
<1> USE DEF IndexInv, Amend
<1>1. JobTypes' /\ StoreTypes' /\ AloneIsAlone' /\ Progress'
    BY DEF JobTypes, StoreTypes, AloneIsAlone, Progress, Busy, index, answering, history
<1>2. Good(points)' /\ Answering'
    BY AnsweringKept DEF index, answering
<1>3. Stored' /\ CleanResult'
    BY IndexKept DEF index, history, StoreTypes
<1> QED
    BY <1>1, <1>2, <1>3

LEMMA ResolveStep == ASSUME IndexInv, NEW j \in Job, Resolve(j) PROVE IndexInv'
<1>1. /\ JobTypes /\ StoreTypes /\ AloneIsAlone /\ Progress
      /\ published' = published /\ UNCHANGED <<index, answering, clean>>
    BY DEF IndexInv, Resolve
<1>2. /\ job'[j] = [at |-> "put", pub |-> published, alone |-> Others(j) = {}]
      /\ \A k \in Job \ {j} :
             job'[k] = [job[k] EXCEPT !.alone = @ /\ ~Busy(k)]
    BY <1>1 DEF Resolve, JobTypes
<1>3. \A k \in Job \ {j} :
          /\ job'[k].at = job[k].at /\ job'[k].pub = job[k].pub
          /\ job'[k].alone = (job[k].alone /\ ~Busy(k))
          /\ job'[k].alone \in BOOLEAN
    BY <1>1, <1>2 DEF JobTypes
<1>4. JobTypes'
    <2>1. job' \in [Job -> [at : Steps, pub : Pub \cup {0}, alone : BOOLEAN]]
        <3>1. \A k \in Job : job'[k] \in [at : Steps, pub : Pub \cup {0}, alone : BOOLEAN]
            <4>1. job'[j] \in [at : Steps, pub : Pub \cup {0}, alone : BOOLEAN]
                BY <1>1, <1>2 DEF JobTypes, Steps
            <4>2. ASSUME NEW k \in Job \ {j}
                  PROVE  job'[k] \in [at : Steps, pub : Pub \cup {0}, alone : BOOLEAN]
                <5>1. job'[k] = [at |-> job[k].at, pub |-> job[k].pub,
                                 alone |-> (job[k].alone /\ ~Busy(k))]
                    BY <1>1, <1>2 DEF JobTypes
                <5>2. (job[k].alone /\ ~Busy(k)) \in BOOLEAN
                    OBVIOUS
                <5> QED
                    BY <1>1, <5>1, <5>2 DEF JobTypes
            <4> QED
                BY <4>1, <4>2
        <3> QED
            BY <3>1 DEF Resolve
    <2>2. \A k \in Job : Busy(k)' => job'[k].pub \in Pub
        BY <1>1, <1>2, <1>3 DEF JobTypes, Busy
    <2> QED
        BY <1>1, <2>1, <2>2 DEF JobTypes
<1>5. StoreTypes'
    BY <1>1 DEF StoreTypes, Resolve, index, answering
<1>6. AloneIsAlone'
    <2>1. \A k \in Job \ {j} : /\ Busy(k)' <=> Busy(k)
                               /\ Busy(k) => ~job'[k].alone
        BY <1>3 DEF Busy
    <2>2. job'[j].alone => \A k \in Job \ {j} : ~Busy(k)
        <3>1. job'[j].alone = (Others(j) = {})
            BY <1>2
        <3> QED
            BY <3>1 DEF Others
    <2>3. ~overlap' => \A k \in Job \ {j} : ~Busy(k)
        BY DEF Resolve, Others
    <2>4. ~overlap' => job'[j].alone
        BY <1>2 DEF Resolve
    <2> QED
        BY <2>1, <2>2, <2>3, <2>4 DEF AloneIsAlone
<1>7. Progress'
    <2>1. job'[j].at = "put"
        BY <1>2
    <2> QED
        BY <1>1, <1>3, <2>1 DEF Progress, Past, index
<1>8. Good(points)' /\ Answering'
    BY <1>1, AnsweringKept DEF IndexInv, index
<1>9. Stored' /\ CleanResult'
    <2>1. overlap' \in BOOLEAN /\ (overlap => overlap')
        BY DEF Resolve
    <2> QED
        BY <1>1, <2>1, IndexKept DEF IndexInv, StoreTypes
<1> QED
    BY <1>4, <1>5, <1>6, <1>7, <1>8, <1>9 DEF IndexInv

\* An ingest goes on to its next step.
LEMMA MoveOn ==
    ASSUME JobTypes, AloneIsAlone, NEW j \in Job, Busy(j), NEW at \in Past,
           job' = [job EXCEPT ![j].at = at], published' = published,
           overlap' = overlap
    PROVE  /\ JobTypes' /\ AloneIsAlone'
           /\ \A k \in Job : job'[k].pub = job[k].pub /\ job'[k].alone = job[k].alone
           /\ \A k \in Job \ {j} : job'[k] = job[k]
           /\ job'[j].at = at
<1>1. /\ \A k \in Job : job'[k].pub = job[k].pub /\ job'[k].alone = job[k].alone
      /\ \A k \in Job \ {j} : job'[k] = job[k]
      /\ job'[j].at = at
    BY DEF JobTypes
<1>2. \A k \in Job : Busy(k)' <=> Busy(k)
    BY <1>1 DEF Busy, Past
<1>3. JobTypes'
    BY <1>1, <1>2 DEF JobTypes, Steps
<1>4. AloneIsAlone'
    BY <1>1, <1>2 DEF AloneIsAlone
<1> QED
    BY <1>1, <1>3, <1>4

\* An ingest ends, in one way or another.
LEMMA GoIdle ==
    ASSUME JobTypes, NEW j \in Job, job' = [job EXCEPT ![j] = Idle],
           published' = published
    PROVE  /\ JobTypes'
           /\ \A k \in Job \ {j} : job'[k] = job[k]
           /\ job'[j].at = "idle"
           /\ ~Busy(j)' /\ \A k \in Job \ {j} : Busy(k)' <=> Busy(k)
<1>1. /\ \A k \in Job \ {j} : job'[k] = job[k]
      /\ job'[j] = Idle
    BY DEF JobTypes
<1>2. ~Busy(j)' /\ \A k \in Job \ {j} : Busy(k)' <=> Busy(k)
    BY <1>1 DEF Busy, Idle
<1>3. JobTypes'
    BY <1>1, <1>2 DEF JobTypes, Idle, Steps
<1> QED
    BY <1>1, <1>2, <1>3 DEF Idle

LEMMA FailStep == ASSUME IndexInv, NEW j \in Job, Fail(j) PROVE IndexInv'
<1>1. /\ JobTypes' /\ job'[j].at = "idle" /\ \A k \in Job \ {j} : job'[k] = job[k]
      /\ ~Busy(j)' /\ \A k \in Job \ {j} : Busy(k)' <=> Busy(k)
    BY GoIdle DEF IndexInv, Fail
<1>2. StoreTypes' /\ Good(points)'
    BY DEF IndexInv, Fail, StoreTypes, index, answering, history
<1>3. AloneIsAlone'
    BY <1>1 DEF IndexInv, Fail, AloneIsAlone, history
<1>4. Progress'
    BY <1>1 DEF IndexInv, Fail, Progress, Past, index
<1>5. Stored' /\ CleanResult' /\ Answering'
    BY IndexKept, AnsweringKept DEF IndexInv, Fail, StoreTypes, index, history
<1> QED
    BY <1>1, <1>2, <1>3, <1>4, <1>5 DEF IndexInv

LEMMA EmbedStep == ASSUME IndexInv, NEW j \in Job, Embed(j) PROVE IndexInv'
<1>1. /\ JobTypes' /\ AloneIsAlone' /\ job'[j].at = "upsert"
      /\ \A k \in Job : job'[k].pub = job[k].pub /\ job'[k].alone = job[k].alone
      /\ \A k \in Job \ {j} : job'[k] = job[k]
    <2>1. Busy(j) /\ "upsert" \in Past
        BY DEF Embed, Busy, Past
    <2> QED
        BY <2>1, MoveOn DEF IndexInv, Embed, history
<1>2. StoreTypes' /\ Good(points)'
    BY DEF IndexInv, Embed, StoreTypes, index, answering, history
<1>3. Progress'
    BY <1>1 DEF IndexInv, Embed, Progress, Past, index
<1>4. Stored' /\ CleanResult' /\ Answering'
    BY IndexKept, AnsweringKept DEF IndexInv, Embed, StoreTypes, index, history
<1> QED
    BY <1>1, <1>2, <1>3, <1>4 DEF IndexInv

LEMMA PutGraphStep == ASSUME IndexInv, NEW j \in Job, PutGraph(j) PROVE IndexInv'
<1> DEFINE p == job[j].pub
<1>1. /\ JobTypes' /\ AloneIsAlone' /\ job'[j].at = "embed"
      /\ \A k \in Job : job'[k].pub = job[k].pub /\ job'[k].alone = job[k].alone
      /\ \A k \in Job \ {j} : job'[k] = job[k]
    <2>1. Busy(j) /\ "embed" \in Past
        BY DEF PutGraph, Busy, Past
    <2> QED
        BY <2>1, MoveOn DEF IndexInv, PutGraph
<1>2. Busy(j) /\ p \in Pub /\ p # 0 /\ EffDate[p] \in Date
    BY Publications DEF IndexInv, JobTypes, PutGraph, Busy
<1>3. /\ graphs' = [graphs EXCEPT ![EffDate[p]] = p] /\ clean' = 0
      /\ UNCHANGED <<points, answering, overlap>>
    BY DEF PutGraph, Replaced
<1>4. StoreTypes' /\ Good(points)'
    BY <1>2, <1>3 DEF IndexInv, StoreTypes, answering
<1>5. graphs'[EffDate[p]] = p /\ \A d \in Date : graphs[d] # 0 => graphs'[d] # 0
    BY <1>2, <1>3 DEF IndexInv, StoreTypes
<1>6. Progress'
    <2>1. ASSUME NEW k \in Job \ {j} PROVE Progress!(k)'
        <3>1. k \in Job /\ Progress!(k) /\ job'[k] = job[k]
            BY <1>1 DEF IndexInv, Progress
        <3>2. job[k].at \in Past => Busy(k) /\ job[k].pub \in Pub /\ ~job[k].alone
            BY <1>2 DEF IndexInv, JobTypes, AloneIsAlone, Busy, Past
        <3>3. job[k].at \in Past => EffDate[job[k].pub] \in Date
            BY <3>2, Publications
        <3> QED
            BY <1>3, <1>5, <3>1, <3>2, <3>3 DEF Past
    <2>2. Progress!(j)'
        BY <1>1, <1>2, <1>5 DEF Past
    <2> QED
        BY <2>1, <2>2 DEF Progress
<1>7. Stored'
    <2>1. \A q \in points : q.date \in Date
        BY DEF IndexInv, Good, Points
    <2> QED
        BY <1>3, <1>5, <2>1 DEF IndexInv, Stored, Current
<1>8. CleanResult' /\ Answering'
    BY <1>3, AnsweringKept DEF IndexInv, CleanResult
<1> QED
    BY <1>1, <1>4, <1>6, <1>7, <1>8 DEF IndexInv

LEMMA UpsertStep == ASSUME IndexInv, NEW j \in Job, Upsert(j) PROVE IndexInv'
<1> DEFINE p == job[j].pub
<1>1. /\ JobTypes' /\ AloneIsAlone' /\ job'[j].at = "supersede"
      /\ \A k \in Job : job'[k].pub = job[k].pub /\ job'[k].alone = job[k].alone
      /\ \A k \in Job \ {j} : job'[k] = job[k]
    <2>1. Busy(j) /\ "supersede" \in Past
        BY DEF Upsert, Busy, Past
    <2> QED
        BY <2>1, MoveOn DEF IndexInv, Upsert
<1>2. Busy(j) /\ p \in Pub /\ job[j].at \in Past
    BY DEF IndexInv, JobTypes, Upsert, Busy, Past
<1>3. /\ points' = Upserted(Chunks(p)) /\ clean' = 0
      /\ UNCHANGED <<graphs, answering, overlap>>
    BY DEF Upsert
<1>4. /\ Good(Chunks(p)) /\ Chunks(p) # {}
      /\ \A c \in Chunks(p) : c.current /\ c.pub = p /\ c.date = EffDate[p]
    BY <1>2, ChunksGood
<1>5. /\ Good(points') /\ Chunks(p) \subseteq points'
      /\ \A q \in points : \E r \in points' : PointId(r) = PointId(q)
      /\ \A r \in points' : r \in points \/ r \in Chunks(p)
    <2>1. Good(points)
        BY DEF IndexInv
    <2> QED
        BY <1>3, <1>4, <2>1, UpsertedGood
<1>6. StoreTypes'
    BY <1>3 DEF IndexInv, StoreTypes, answering
<1>7. Progress'
    <2>1. ASSUME NEW k \in Job \ {j} PROVE Progress!(k)'
        <3>1. k \in Job /\ Progress!(k) /\ job'[k] = job[k]
            BY <1>1 DEF IndexInv, Progress
        <3>2. job[k].at \in Past => ~job[k].alone
            BY <1>2 DEF IndexInv, AloneIsAlone, Busy, Past
        <3> QED
            BY <1>3, <3>1, <3>2 DEF Past
    <2>2. Progress!(j)'
        BY <1>1, <1>2, <1>3, <1>5 DEF IndexInv, Progress
    <2> QED
        BY <2>1, <2>2 DEF Progress
<1>8. Stored'
    <2>1. graphs[EffDate[p]] # 0
        BY <1>2 DEF IndexInv, Progress
    <2>2. Current' # {}
        BY <1>4, <1>5 DEF Current
    <2> QED
        BY <1>3, <1>4, <1>5, <2>1, <2>2 DEF IndexInv, Stored
<1>9. CleanResult' /\ Answering'
    BY <1>3, <1>5, AnsweringKept DEF IndexInv, CleanResult
<1> QED
    BY <1>1, <1>5, <1>6, <1>7, <1>8, <1>9 DEF IndexInv

LEMMA SupersedeStep == ASSUME IndexInv, NEW j \in Job, Supersede(j) PROVE IndexInv'
<1> DEFINE p == job[j].pub
<1>1. /\ JobTypes' /\ job'[j].at = "idle" /\ \A k \in Job \ {j} : job'[k] = job[k]
      /\ ~Busy(j)' /\ \A k \in Job \ {j} : Busy(k)' <=> Busy(k)
    BY GoIdle DEF IndexInv, Supersede
<1>2. /\ Busy(j) /\ p \in Pub /\ p # 0 /\ job[j].at \in Past
      /\ job[j].at = "supersede" /\ EffDate[p] \in Date
    BY Publications DEF IndexInv, JobTypes, Supersede, Busy, Past
<1>3. /\ points' = Demoted(EffDate[p])
      /\ clean' = IF job[j].alone THEN p ELSE 0
      /\ overlap' = (overlap /\ ~job[j].alone)
      /\ UNCHANGED <<graphs, answering>>
    BY DEF Supersede
<1>4. /\ Good(points')
      /\ \A q \in points : \E r \in points' : PointId(r) = PointId(q)
      /\ \A r \in points' : /\ r.current => r.date = EffDate[p]
                            /\ \E q \in points : r.date = q.date
      /\ \A q \in points : q.current /\ q.date = EffDate[p] => q \in points'
    <2>1. Good(points)
        BY DEF IndexInv
    <2> QED
        BY <1>3, <2>1, DemotedGood
<1>5. StoreTypes'
    <2>1. clean' \in Pub \cup {0} /\ overlap' \in BOOLEAN
        BY <1>2, <1>3
    <2> QED
        BY <1>3, <2>1 DEF IndexInv, StoreTypes, answering
<1>6. job[j].alone => \A k \in Job : ~Busy(k)'
    BY <1>1, <1>2 DEF IndexInv, AloneIsAlone
<1>7. ~job[j].alone => overlap /\ overlap'
    BY <1>2, <1>3 DEF IndexInv, AloneIsAlone
<1>8. AloneIsAlone'
    <2>1. \A k, l \in Job : Busy(k)' /\ Busy(l)' /\ job'[k].alone => k = l
        BY <1>1 DEF IndexInv, AloneIsAlone
    <2>2. ~overlap' => \A k \in Job : ~Busy(k)'
        BY <1>6, <1>7
    <2> QED
        BY <2>1, <2>2 DEF AloneIsAlone
<1>9. Progress'
    <2>1. ASSUME NEW k \in Job \ {j} PROVE Progress!(k)'
        <3>1. k \in Job /\ Progress!(k) /\ job'[k] = job[k]
            BY <1>1 DEF IndexInv, Progress
        <3>2. job[k].at \in Past => ~job[k].alone
            BY <1>2 DEF IndexInv, AloneIsAlone, Busy, Past
        <3> QED
            BY <1>3, <3>1, <3>2 DEF Past
    <2>2. Progress!(j)'
        BY <1>1 DEF Past
    <2> QED
        BY <2>1, <2>2 DEF Progress
<1>10. job[j].alone => Chunks(p) \subseteq points' /\ Chunks(p) # {}
    <2>1. /\ Chunks(p) # {}
          /\ \A c \in Chunks(p) : c.current /\ c.date = EffDate[p]
        BY <1>2, ChunksGood
    <2>2. job[j].alone => Chunks(p) \subseteq points
        BY <1>2 DEF IndexInv, Progress
    <2> QED
        BY <1>4, <2>1, <2>2
<1>11. Stored'
    <2>1. job[j].alone => Current' # {}
        <3>1. \A c \in Chunks(p) : c.current
            BY <1>2, ChunksGood
        <3> QED
            BY <1>10, <3>1 DEF Current
    <2>2. \A r \in points' : graphs'[r.date] # 0
        BY <1>3, <1>4 DEF IndexInv, Stored
    <2> QED
        BY <1>7, <2>1, <2>2 DEF Stored
<1>12. CleanResult'
    <2>1. job[j].alone => graphs[EffDate[p]] = p
        BY <1>2 DEF IndexInv, Progress
    <2>2. \A r \in Current' : r.date = EffDate[p]
        BY <1>4 DEF Current
    <2> QED
        BY <1>3, <1>10, <2>1, <2>2 DEF CleanResult
<1>13. Answering'
    BY <1>3, <1>4, AnsweringKept DEF IndexInv
<1> QED
    BY <1>1, <1>4, <1>5, <1>8, <1>9, <1>11, <1>12, <1>13 DEF IndexInv

\* A search returns points.
LEMMA SearchReturns ==
    ASSUME NEW s \in Rankings
    PROVE  BestOfArticles(s) \subseteq points
<1>1. \A i \in DOMAIN s : s[i] \in Current
    BY DEF Rankings
<1>2. BestOfArticles(s) \subseteq {s[i] : i \in DOMAIN s}
    BY DEF BestOfArticles
<1> QED
    BY <1>1, <1>2 DEF Current

LEMMA SearchStep == ASSUME IndexInv, Search PROVE IndexInv'
<1>1. /\ hits' \subseteq points /\ cited' = {}
      /\ UNCHANGED <<published, job, index, frozen, history>>
    BY SearchReturns DEF Search
<1>2. JobTypes' /\ StoreTypes' /\ AloneIsAlone' /\ Progress' /\ Good(points)'
    BY <1>1 DEF IndexInv, JobTypes, StoreTypes, AloneIsAlone, Progress, Busy, index, history
<1>3. Stored' /\ CleanResult'
    BY <1>1, IndexKept DEF IndexInv, history, StoreTypes
<1>4. \A h \in points : WasRead(h)'
    BY <1>1 DEF IndexInv, Good, Dated, Rooted, WasRead, HasFirst, index
<1>5. Answering'
    BY <1>1, <1>4 DEF IndexInv, Answering
<1> QED
    BY <1>2, <1>3, <1>5 DEF IndexInv

LEMMA CiteStep == ASSUME IndexInv, Cite PROVE IndexInv'
<1>1. PICK C \in SUBSET hits \ {{}} :
          /\ cited' = C
          /\ frozen' = [u \in DOMAIN frozen |->
                           IF frozen[u] = 0 /\ \E h \in C : Uri(h) = u
                           THEN (CHOOSE h \in C : Uri(h) = u).pub
                           ELSE frozen[u]]
    BY DEF Cite
<1>2. hits' = {} /\ UNCHANGED <<published, job, index, history>>
    BY DEF Cite
<1>3. /\ frozen \in [Date \X Article -> Pub \cup {0}] /\ DOMAIN frozen = Date \X Article
      /\ \A u \in Date \X Article : frozen[u] # 0 => EffDate[frozen[u]] = u[1]
    BY DEF IndexInv, StoreTypes, Answering
<1>4. \A h \in C : /\ WasRead(h) /\ WasRead(h)' /\ h.pub \in Pub /\ h.pub # 0
                   /\ Uri(h) \in Date \X Article /\ EffDate[h.pub] = Uri(h)[1]
    <2>1. ASSUME NEW h \in C
          PROVE  /\ WasRead(h) /\ WasRead(h)' /\ h.pub \in Pub /\ h.pub # 0
                 /\ Uri(h) \in Date \X Article /\ EffDate[h.pub] = Uri(h)[1]
        <3>1. WasRead(h)
            BY DEF IndexInv, Answering
        <3>2. WasRead(h)'
            BY <1>2, <3>1 DEF WasRead, HasFirst, index
        <3>3. h.pub \in Pub /\ h.date \in Date /\ h.article \in Article
            BY <3>1 DEF WasRead, Points
        <3> QED
            BY <3>1, <3>2, <3>3, Publications DEF WasRead, Uri
    <2> QED
        BY <2>1
<1>5. ASSUME NEW u \in Date \X Article
      PROVE  /\ frozen'[u] \in Pub \cup {0}
             /\ frozen'[u] # 0 => EffDate[frozen'[u]] = u[1]
             /\ (\E h \in C : Uri(h) = u) => frozen'[u] # 0
    <2>1. CASE frozen[u] = 0 /\ \E h \in C : Uri(h) = u
        <3>1. frozen'[u] = (CHOOSE h \in C : Uri(h) = u).pub
            BY <1>1, <1>3, <2>1
        <3>2. (CHOOSE h \in C : Uri(h) = u) \in C
              /\ Uri(CHOOSE h \in C : Uri(h) = u) = u
            BY <2>1
        <3> QED
            BY <1>4, <3>1, <3>2
    <2>2. CASE ~(frozen[u] = 0 /\ \E h \in C : Uri(h) = u)
        <3>1. frozen'[u] = frozen[u]
            BY <1>1, <1>3, <2>2
        <3> QED
            BY <1>3, <2>2, <3>1
    <2> QED
        BY <2>1, <2>2
<1>6. frozen' \in [Date \X Article -> Pub \cup {0}]
    <2>1. frozen' = [u \in Date \X Article |-> frozen'[u]]
        BY <1>1, <1>3
    <2> QED
        BY <1>5, <2>1
<1>7. JobTypes' /\ StoreTypes' /\ AloneIsAlone' /\ Progress' /\ Good(points)'
    BY <1>2, <1>6 DEF IndexInv, JobTypes, StoreTypes, AloneIsAlone, Progress, Busy,
                      index, history
<1>8. Stored' /\ CleanResult'
    BY <1>2, IndexKept DEF IndexInv, history, StoreTypes
<1>9. Answering'
    BY <1>1, <1>2, <1>4, <1>5 DEF Answering
<1> QED
    BY <1>7, <1>8, <1>9 DEF IndexInv

\* Every step keeps the invariant.
LEMMA InvStep == IndexInv /\ [Next]_vars => IndexInv'
<1> SUFFICES ASSUME IndexInv, [Next]_vars PROVE IndexInv'
    OBVIOUS
<1>1. CASE Amend
    BY <1>1, AmendStep
<1>2. CASE Search
    BY <1>2, SearchStep
<1>3. CASE Cite
    BY <1>3, CiteStep
<1>4. ASSUME NEW j \in Job, Ingest(j) PROVE IndexInv'
    BY <1>4, ResolveStep, PutGraphStep, EmbedStep, UpsertStep, SupersedeStep, FailStep
       DEF Ingest
<1>5. CASE UNCHANGED vars
    <2>1. JobTypes' /\ StoreTypes' /\ AloneIsAlone' /\ Progress' /\ Good(points)'
        BY <1>5 DEF IndexInv, JobTypes, StoreTypes, AloneIsAlone, Progress, Busy, vars
    <2>2. Stored' /\ CleanResult' /\ Answering'
        BY <1>5, IndexKept, AnsweringKept
           DEF IndexInv, StoreTypes, vars, index, answering, history
    <2> QED
        BY <2>1, <2>2 DEF IndexInv
<1> QED
    BY <1>1, <1>2, <1>3, <1>4, <1>5 DEF Next

\* The invariant holds always.
THEOREM IndexInvHolds == Spec => []IndexInv
BY InvInit, InvStep, PTL DEF Spec

-----------------------------------------------------------------------------
(* What follows from the invariant.                                        *)

\* All variables keep their types, and Qdrant holds one point per id.
THEOREM TypesHold == Spec => []TypeOK
<1>1. IndexInv => TypeOK
    BY DEF IndexInv, JobTypes, StoreTypes, Good, UniqueIds, Points, Steps, Past, TypeOK
<1> QED
    BY <1>1, IndexInvHolds, PTL

\* ingest_law, alone to its end, leaves its version as the only current one,
\* up to windows of another publication of its date that it does not have.
THEOREM CurrentExactHolds == Spec => []CurrentExact
<1>1. IndexInv => CurrentExact
    <2> SUFFICES ASSUME IndexInv, clean # 0, NEW p \in Current
                 PROVE  /\ p.date = EffDate[clean]
                        /\ p.pub = clean \/ p.seq \notin Windows(Length[clean][p.article])
        BY DEF CurrentExact
    <2>1. /\ clean \in Pub /\ p \in points /\ p \in Points
          /\ p.date = EffDate[clean] /\ Chunks(clean) \subseteq points
        BY DEF IndexInv, StoreTypes, CleanResult, Current, Good
    <2>2. ASSUME p.seq \in Windows(Length[clean][p.article]) PROVE p.pub = clean
        <3> DEFINE c == [date |-> EffDate[clean], article |-> p.article, seq |-> p.seq,
                         pub |-> clean, current |-> TRUE]
        <3>1. p.article \in Article /\ Length[clean][p.article] \in Nat
            BY <2>1, Publications DEF Points
        <3>2. Length[clean][p.article] > 0
            BY <2>2, <3>1, FirstWindow
        <3>3. c \in Chunks(clean)
            BY <2>1, <2>2, <3>1, <3>2, ChunkIs
        <3>4. PointId(c) = PointId(p)
            BY <2>1 DEF PointId, Uri
        <3>5. c = p
            BY <2>1, <3>3, <3>4 DEF IndexInv, Good, UniqueIds
        <3> QED
            BY <3>5
    <2> QED
        BY <2>1, <2>2
<1> QED
    BY <1>1, IndexInvHolds, PTL

\* After such an ingest a search can find every position of every article,
\* because split_windows covers it and all its windows are stored.
THEOREM WholeTextHolds == Spec => []WholeTextSearchable
<1>1. IndexInv => WholeTextSearchable
    <2> SUFFICES ASSUME IndexInv, clean # 0,
                        NEW a \in Article, NEW i \in 1 .. Length[clean][a]
                 PROVE  \E p \in Current :
                            /\ p.article = a /\ p.pub = clean
                            /\ i \in Positions(p.seq, Length[clean][a])
        BY DEF WholeTextSearchable
    <2>1. clean \in Pub /\ Chunks(clean) \subseteq points
        BY DEF IndexInv, StoreTypes, CleanResult
    <2>2. Length[clean][a] \in Nat /\ Length[clean][a] > 0
        <3>1. Length[clean][a] \in Nat
            BY <2>1, Publications
        <3> QED
            BY <3>1
    <2>3. PICK w \in Windows(Length[clean][a]) : i \in Positions(w, Length[clean][a])
        BY <2>2, WindowsCover
    <2> DEFINE c == [date |-> EffDate[clean], article |-> a, seq |-> w,
                     pub |-> clean, current |-> TRUE]
    <2>4. c \in Chunks(clean)
        BY <2>1, <2>2, <2>3, ChunkIs
    <2>5. c \in Current
        BY <2>1, <2>4 DEF Current
    <2> QED
        BY <2>3, <2>5
<1> QED
    BY <1>1, IndexInvHolds, PTL

\* The statute does not vanish from the index unless two ingests overlap.
THEOREM NeverVanishesHolds == Spec => []NeverVanishes
<1>1. IndexInv => NeverVanishes
    BY DEF IndexInv, Stored, NeverVanishes
<1> QED
    BY <1>1, IndexInvHolds, PTL

\* A point has its graph, and the last undisturbed ingest the graph of its text.
THEOREM GraphHolds == Spec => []PointHasGraph
<1>1. IndexInv => PointHasGraph
    BY DEF IndexInv, Stored, CleanResult, PointHasGraph
<1> QED
    BY <1>1, IndexInvHolds, PTL

\* freeze_citation keeps what the answer was written from, whatever happens to
\* the index meanwhile, if no other publication has that date.
THEOREM CitationHolds == Spec => []CitationShowsWhatWasRead
<1>1. IndexInv => CitationShowsWhatWasRead
    <2> SUFFICES ASSUME IndexInv, NEW h \in cited
                 PROVE  /\ (\A p \in Pub : EffDate[p] = h.date => p = h.pub) =>
                               frozen[Uri(h)] = h.pub
                        /\ \E p \in points : PointId(p) = <<Uri(h), 0>>
        BY DEF CitationShowsWhatWasRead
    <2>1. /\ WasRead(h) /\ frozen[Uri(h)] # 0
          /\ \A u \in Date \X Article : frozen[u] # 0 => EffDate[frozen[u]] = u[1]
        BY DEF IndexInv, Answering
    <2>2. Uri(h) \in Date \X Article /\ Uri(h)[1] = h.date
        BY <2>1 DEF WasRead, Points, Uri
    <2>3. frozen[Uri(h)] \in Pub /\ EffDate[frozen[Uri(h)]] = h.date
        BY <2>1, <2>2 DEF IndexInv, StoreTypes
    <2> QED
        BY <2>1, <2>3 DEF WasRead, HasFirst
<1> QED
    BY <1>1, IndexInvHolds, PTL

=============================================================================
