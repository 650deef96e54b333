---------------------------- MODULE StatuteIndex ----------------------------
(***************************************************************************)
(* How one statute gets into the search index, stays there while it is     *)
(* amended, and is quoted in an answer: ingest_law of db-admin, the        *)
(* adapters of legal_infra, RetrievalService and the freezing of           *)
(* citations.  Statutes do not interact: ids, graphs and the demotion of   *)
(* old points are all keyed by the statute.                                *)
(*                                                                         *)
(* An ingest is a process of an operator: it asks law.go.kr for the        *)
(* publication in force, PUTs its RDF graph into Fuseki, embeds the        *)
(* windows of its articles, upserts them into Qdrant and demotes the       *)
(* points of other effective dates.  No transaction spans the two stores,  *)
(* any call may fail, the process may be killed, and nothing keeps two     *)
(* ingests of one statute apart.                                           *)
(*                                                                         *)
(* A text is known by its publication and its length: a window is a range  *)
(* of positions.  Two amendments may take effect on one day, and then      *)
(* share their effective date, hence their graph and point ids.            *)
(***************************************************************************)
EXTENDS Naturals, Sequences, FiniteSets

CONSTANTS
    Article,        \* article numbers of the statute, branch number included
    EffDate,        \* EffDate[p]: the effective date of the p-th publication
    Length,         \* Length[p][a]: the length of article a in it, 0 if none
    Job,            \* the ingests that may run at the same time
    MaxChars,       \* text.py MAX_CHARS
    Overlap,        \* text.py OVERLAP
    SearchLimit,    \* windows a search asks for (30)
    TopK            \* articles an answer gets (8)

Pub == 1 .. Len(EffDate)
Date == {EffDate[p] : p \in Pub}

\* Publications follow their dates; each has a text; windows do not leave gaps.
ASSUME IndexAssumption ==
    /\ EffDate \in Seq(Nat \ {0}) /\ EffDate # <<>>
    /\ \A p, q \in Pub : p < q => EffDate[p] <= EffDate[q]
    /\ Length \in [Pub -> [Article -> Nat]]
    /\ \A p \in Pub : \E a \in Article : Length[p][a] > 0
    /\ MaxChars \in Nat /\ Overlap \in Nat /\ Overlap < MaxChars
    /\ SearchLimit \in Nat \ {0} /\ TopK \in Nat \ {0}

VARIABLES
    published,  \* the publication law.go.kr calls in force
    job,        \* each ingest: its next step, its publication, whether alone
    graphs,     \* Fuseki: the publication in the named graph of a date, or 0
    points,     \* Qdrant: the points of the statute
    hits,       \* the articles the last search gave the model
    cited,      \* those of them that its answer cites
    frozen,     \* table citations: publication whose text is kept for an id
    clean,      \* history: the last ingest that ran alone to its end, until
                \* a later one writes; 0 if there is none
    overlap     \* history: ingests overlapped since the last one that did not

vars == <<published, job, graphs, points, hits, cited, frozen, clean, overlap>>
index == <<graphs, points>>
answering == <<hits, cited, frozen>>
history == <<clean, overlap>>

Idle == [at |-> "idle", pub |-> 0, alone |-> TRUE]

-----------------------------------------------------------------------------
(* Windows, ids and points. *)

Step == MaxChars - Overlap

\* Mutant: the text that is left over is not worth a window of its own.
Windows_NoTail(len) ==
    {w \in 0 .. len : len > 0 /\ (w = 0 \/ w * Step + MaxChars <= len)}

\* split_windows: the w-th window starts at w * Step; the one that reaches the
\* end of the text is the last.
Windows(len) ==
    {w \in 0 .. len : len > 0 /\ (w = 0 \/ (w - 1) * Step + MaxChars < len)}

Positions(w, len) ==
    {i \in 1 .. len : w * Step < i /\ i <= w * Step + MaxChars}

\* Mutant: the address of an article does not tell the version.
Uri_NoDate(p) == <<EffDate[1], p.article>>

\* article_iri: the address of an article in the version of a date; also the id
\* of its citation.
Uri(p) == <<p.date, p.article>>

\* point_id: the id of the point of a window.
PointId(p) == <<Uri(p), p.seq>>

\* parse_law_service, flatten_article: the articles that have a text.
Articles(p) == {a \in Article : Length[p][a] > 0}

\* _build_chunks: one point per window of an article that has a text.
Chunks(p) ==
    UNION {{[date |-> EffDate[p], article |-> a, seq |-> w, pub |-> p, current |-> TRUE] :
                w \in Windows(Length[p][a])} : a \in Articles(p)}

\* FusekiGraph.add_nt: the named graph of a date is replaced.
Replaced(date, p) == [graphs EXCEPT ![date] = p]

\* Mutant: a point gets a fresh id each time.
Upserted_Append(new) == points \cup new

\* QdrantVector.upsert: a point with the same id is replaced.
Upserted(new) ==
    {p \in points : \A n \in new : PointId(p) # PointId(n)} \cup new

\* Mutant: upserting is taken to be enough.
Demoted_Nothing(date) == points

\* QdrantVector.supersede: points of other dates stay, but are not current.
Demoted(date) ==
    {[p EXCEPT !.current = @ /\ p.date = date] : p \in points}

-----------------------------------------------------------------------------
Init ==
    /\ published = 1
    /\ job = [j \in Job |-> Idle]
    /\ graphs = [d \in Date |-> 0]
    /\ points = {}
    /\ hits = {} /\ cited = {}
    /\ frozen = [u \in Date \X Article |-> 0]
    /\ clean = 0
    /\ overlap = FALSE

\* The next publication takes effect.
Amend ==
    /\ published + 1 \in Pub
    /\ published' = published + 1
    /\ UNCHANGED <<job, index, answering, history>>

Busy(j) == job[j].at # "idle"
Others(j) == {k \in Job \ {j} : Busy(k)}

\* resolve_current: the one publication in force (its number fixes the text
\* that is fetched later).
Resolve(j) ==
    /\ ~Busy(j)
    /\ job' = [k \in Job |->
                  IF k = j
                  THEN [at |-> "put", pub |-> published, alone |-> Others(j) = {}]
                  ELSE [job[k] EXCEPT !.alone = @ /\ ~Busy(k)]]
    /\ overlap' = (overlap \/ Others(j) # {})
    /\ UNCHANGED <<published, index, answering, clean>>

\* Mutant: the graph is written when everything else is.
PutGraph_Later(j) ==
    /\ job[j].at = "put"
    /\ job' = [job EXCEPT ![j].at = "embed"]
    /\ clean' = 0
    /\ UNCHANGED <<published, index, answering, overlap>>

\* Fetch, parse, and replace the named graph of the effective date.
PutGraph(j) ==
    /\ job[j].at = "put"
    /\ graphs' = Replaced(EffDate[job[j].pub], job[j].pub)
    /\ job' = [job EXCEPT ![j].at = "embed"]
    /\ clean' = 0
    /\ UNCHANGED <<published, points, answering, overlap>>

\* Mutant: the old version is demoted before the new one is there.
Embed_DemoteFirst(j) ==
    /\ job[j].at = "embed"
    /\ points' = Demoted(EffDate[job[j].pub])
    /\ job' = [job EXCEPT ![j].at = "upsert"]
    /\ clean' = 0
    /\ UNCHANGED <<published, graphs, answering, overlap>>

\* All windows are embedded, batch by batch, before any is stored.
Embed(j) ==
    /\ job[j].at = "embed"
    /\ job' = [job EXCEPT ![j].at = "upsert"]
    /\ UNCHANGED <<published, index, answering, history>>

Upsert(j) ==
    /\ job[j].at = "upsert"
    /\ points' = Upserted(Chunks(job[j].pub))
    /\ job' = [job EXCEPT ![j].at = "supersede"]
    /\ clean' = 0
    /\ UNCHANGED <<published, graphs, answering, overlap>>

Supersede(j) ==
    /\ job[j].at = "supersede"
    /\ points' = Demoted(EffDate[job[j].pub])
    /\ job' = [job EXCEPT ![j] = Idle]
    /\ clean' = IF job[j].alone THEN job[j].pub ELSE 0
    /\ overlap' = (overlap /\ ~job[j].alone)
    /\ UNCHANGED <<published, graphs, answering>>

\* A call fails, or the process is killed: what was done stays done.
Fail(j) ==
    /\ Busy(j)
    /\ job' = [job EXCEPT ![j] = Idle]
    /\ UNCHANGED <<published, index, answering, history>>

-----------------------------------------------------------------------------
(* Search and citation. *)

Current == {p \in points : p.current}

\* What a search, reranked or not, may return: the best windows that are
\* current, best first.  Which are best is for the embedding to say.
Rankings ==
    LET n == IF Cardinality(Current) < SearchLimit THEN Cardinality(Current)
             ELSE SearchLimit
    IN  {s \in [1 .. n -> Current] : \A i, j \in 1 .. n : s[i] = s[j] => i = j}

\* _dedup_by_article, then the first TopK: the best window of each article.
BestOfArticles(s) ==
    LET first == {i \in DOMAIN s : \A j \in 1 .. i - 1 : Uri(s[j]) # Uri(s[i])}
    IN  {s[i] : i \in {i \in first : Cardinality({j \in first : j <= i}) <= TopK}}

\* search_legal, retrieve.
Search ==
    /\ Current # {}
    /\ hits' \in {BestOfArticles(s) : s \in Rankings}
    /\ cited' = {}
    /\ UNCHANGED <<published, job, index, frozen, history>>

\* freeze_citation, for each article the answer cites: the first text stays.
Cite ==
    /\ hits # {}
    /\ \E C \in SUBSET hits \ {{}} :
        /\ cited' = C
        /\ frozen' = [u \in DOMAIN frozen |->
                         IF frozen[u] = 0 /\ \E h \in C : Uri(h) = u
                         THEN (CHOOSE h \in C : Uri(h) = u).pub
                         ELSE frozen[u]]
    /\ hits' = {}
    /\ UNCHANGED <<published, job, index, history>>

Ingest(j) ==
    \/ Resolve(j) \/ PutGraph(j) \/ Embed(j) \/ Upsert(j) \/ Supersede(j) \/ Fail(j)

Next == Amend \/ Search \/ Cite \/ \E j \in Job : Ingest(j)

Spec == Init /\ [][Next]_vars

-----------------------------------------------------------------------------
TypeOK ==
    /\ published \in Pub
    /\ job \in [Job -> [at : {"idle", "put", "embed", "upsert", "supersede"},
                        pub : Pub \cup {0}, alone : BOOLEAN]]
    /\ \A j \in Job : Busy(j) => job[j].pub \in Pub
    /\ graphs \in [Date -> Pub \cup {0}]
    /\ \A p \in points :
        /\ p \in [date : Date, article : Article, seq : Nat, pub : Pub, current : BOOLEAN]
        /\ \A q \in points : PointId(p) = PointId(q) => p = q
    /\ frozen \in [Date \X Article -> Pub \cup {0}]
    /\ clean \in Pub \cup {0}
    /\ overlap \in BOOLEAN

\* An ingest that ran alone to its end leaves its version as the only current
\* one, whatever earlier ingests did halfway or at the same time; what is left
\* of another text are windows this publication does not have, and only of
\* another publication of the same date (supersede, lawgo_ingest.py:102-104).
CurrentExact ==
    clean # 0 =>
        \A p \in Current :
            /\ p.date = EffDate[clean]
            /\ p.pub = clean \/ p.seq \notin Windows(Length[clean][p.article])

\* After such an ingest every position of every article lies in a window of
\* that text that a search can find (split_windows, _build_chunks).
WholeTextSearchable ==
    clean # 0 =>
        \A a \in Article : \A i \in 1 .. Length[clean][a] :
            \E p \in Current :
                p.article = a /\ p.pub = clean /\ i \in Positions(p.seq, Length[clean][a])

\* A statute that is in the index stays findable while it is ingested again,
\* fails halfway and is amended, unless two ingests of it overlap: the new
\* points are there before the old ones are demoted.
NeverVanishes ==
    points # {} /\ ~overlap => Current # {}

\* Every point has the graph of its version in the other store, whatever call
\* failed; and the graph of the version an undisturbed ingest left is the one
\* of its text (add_nt before upsert, lawgo_ingest.py:87-101).
PointHasGraph ==
    /\ \A p \in points : graphs[p.date] # 0
    /\ clean # 0 => graphs[EffDate[clean]] = clean

\* The text kept for a citation is the one the answer was written from, unless
\* two publications share the date: ids tell versions apart, and demotion
\* keeps the point they name (ids.py:50-56, freeze_citation).
CitationShowsWhatWasRead ==
    \A h \in cited :
        /\ (\A p \in Pub : EffDate[p] = h.date => p = h.pub) => frozen[Uri(h)] = h.pub
        /\ \E p \in points : PointId(p) = <<Uri(h), 0>>
=============================================================================
