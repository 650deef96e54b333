--------------------------- MODULE ToolTurnProofs ---------------------------
(* Theorems about ToolTurn, for any calls, turns, decisions and stops, with *)
(* approvals and without.                                                   *)
EXTENDS ToolTurn, WellFoundedInduction, TLAPS

-----------------------------------------------------------------------------
(* The messages of the checkpoint.                                          *)

Message == [kind : {"human", "calls", "tools", "answer"}, of : SUBSET Citation]

\* A history the model can be given: a question comes first, every result
\* follows its calls, and no calls but the last can lack their results.
Sound(g) ==
    /\ g \in Seq(Message)
    /\ g # <<>> => g[1].kind = "human"
    /\ \A i \in OfKind(g, "calls") : g[i].of \subseteq Call /\ g[i].of # {}
    /\ \A i \in OfKind(g, "tools") : i > 1 /\ g[i - 1].kind = "calls" /\ g[i - 1].of = g[i].of
    /\ \A i \in Dangling(g), j \in OfKind(g, "calls") : j <= i

\* A set of positions has a last one.
LEMMA LastIs ==
    ASSUME NEW g \in Seq(Message), NEW S \in SUBSET DOMAIN g, S # {}
    PROVE  Last(S) \in S /\ \A j \in S : j <= Last(S)
<1> DEFINE n == Len(g)
           T == {n - i : i \in S}
<1>1. n \in Nat /\ \A i \in S : i \in 1..n
    OBVIOUS
<1>2. T \subseteq Nat /\ T # {}
    BY <1>1
<1>3. PICK k \in T : \A m \in T : ~ (<<m, k>> \in OpToRel(<, Nat))
    <2> HIDE DEF T
    <2> QED
        BY <1>2, WFMin, NatLessThanWellFounded
<1>4. PICK last \in S : k = n - last
    OBVIOUS
<1>5. ASSUME NEW j \in S PROVE j <= last
    <2>1. j \in Nat /\ last \in Nat /\ n - j \in Nat /\ k \in Nat /\ n - j \in T
        BY <1>1, <1>4
    <2>2. ~ (n - j < k)
        <3>1. n - j < k => <<n - j, k>> \in OpToRel(<, Nat)
            BY <2>1 DEF OpToRel
        <3> HIDE DEF T
        <3> QED
            BY <1>3, <2>1, <3>1
    <2> QED
        BY <1>1, <1>4, <2>1, <2>2
<1> QED
    BY <1>5 DEF Last

\* The calls the graph is about to run are the last message, and lack their results.
LEMMA OpenDangles ==
    ASSUME NEW g, Sound(g)
    PROVE  /\ Open(g) \subseteq Call
           /\ Open(g) # {} => Len(g) \in Dangling(g) /\ Open(g) = g[Len(g)].of
           /\ (g # <<>> /\ g[Len(g)].kind = "calls") <=> Open(g) # {}
           /\ Dangling(g) # {} => g # <<>>
<1>1. g \in Seq(Message)
    BY DEF Sound
<1>2. g # <<>> => Len(g) \in DOMAIN g
    BY <1>1
<1>3. g # <<>> /\ g[Len(g)].kind = "calls" => Len(g) \in OfKind(g, "calls") /\ Open(g) = g[Len(g)].of
    BY <1>2 DEF OfKind, Open
<1> QED
    BY <1>1, <1>2, <1>3 DEF Sound, Open, Dangling, Answered, OfKind

\* A question or an answer is added.
LEMMA SaidSound ==
    ASSUME NEW g, Sound(g), NEW m \in Message, m.kind \in {"human", "answer"},
           g = <<>> => m.kind = "human"
    PROVE  Sound(Append(g, m)) /\ Dangling(Append(g, m)) = Dangling(g) /\ Open(Append(g, m)) = {}
<1> DEFINE h == Append(g, m)
<1>1. g \in Seq(Message)
    BY DEF Sound
<1>2. /\ h \in Seq(Message) /\ Len(h) = Len(g) + 1 /\ Len(g) \in Nat
      /\ DOMAIN h = 1..(Len(g) + 1) /\ DOMAIN g = 1..Len(g)
      /\ h[Len(g) + 1] = m /\ \A i \in DOMAIN g : h[i] = g[i]
    BY <1>1
<1> HIDE DEF h
<1>3. OfKind(h, "calls") = OfKind(g, "calls") /\ OfKind(h, "tools") = OfKind(g, "tools")
    BY <1>2 DEF OfKind
<1>4. \A i \in OfKind(g, "calls") : Answered(h, i) <=> Answered(g, i)
    BY <1>2 DEF OfKind, Answered
<1>5. Dangling(h) = Dangling(g)
    BY <1>3, <1>4 DEF Dangling
<1>6. Open(h) = {}
    BY <1>2 DEF Open
<1>7. Sound(h)
    <2>1. h[1].kind = "human"
        BY <1>1, <1>2 DEF Sound
    <2>2. \A i \in OfKind(h, "calls") : h[i].of \subseteq Call /\ h[i].of # {}
        BY <1>2, <1>3 DEF Sound, OfKind
    <2>3. \A i \in OfKind(h, "tools") : i > 1 /\ h[i - 1].kind = "calls" /\ h[i - 1].of = h[i].of
        <3>1. \A i \in OfKind(g, "tools") : i \in 1..Len(g) /\ i > 1 /\ i - 1 \in 1..Len(g)
            BY <1>2 DEF Sound, OfKind
        <3> QED
            BY <1>2, <1>3, <3>1 DEF Sound
    <2> QED
        BY <1>2, <1>3, <1>5, <2>1, <2>2, <2>3 DEF Sound
<1> QED
    BY <1>5, <1>6, <1>7 DEF h

\* Calls are added to a history in which none lacks its results.
LEMMA CalledSound ==
    ASSUME NEW g, Sound(g), g # <<>>, Dangling(g) = {}, NEW calls \in SUBSET Call, calls # {}
    PROVE  LET h == Append(g, [kind |-> "calls", of |-> calls])
           IN  Sound(h) /\ Open(h) = calls
<1> DEFINE m == [kind |-> "calls", of |-> calls]
           h == Append(g, m)
<1>1. g \in Seq(Message) /\ m \in Message
    BY DEF Sound, Message, Citation
<1>2. /\ h \in Seq(Message) /\ Len(h) = Len(g) + 1 /\ Len(g) \in Nat
      /\ DOMAIN h = 1..(Len(g) + 1) /\ DOMAIN g = 1..Len(g)
      /\ h[Len(g) + 1] = m /\ \A i \in DOMAIN g : h[i] = g[i]
    BY <1>1
<1>3. m.kind = "calls" /\ m.of = calls
    OBVIOUS
<1> HIDE DEF h, m
<1>4. OfKind(h, "calls") = OfKind(g, "calls") \cup {Len(g) + 1} /\ OfKind(h, "tools") = OfKind(g, "tools")
    BY <1>2, <1>3 DEF OfKind
<1>5. Dangling(h) \subseteq {Len(g) + 1}
    BY <1>2, <1>4 DEF Dangling, Answered, OfKind
<1>6. Open(h) = calls
    BY <1>2, <1>3 DEF Open
<1>7. Sound(h)
    <2>1. h[1].kind = "human"
        BY <1>1, <1>2 DEF Sound
    <2>2. \A i \in OfKind(h, "calls") : h[i].of \subseteq Call /\ h[i].of # {}
        BY <1>2, <1>3, <1>4 DEF Sound, OfKind
    <2>3. \A i \in OfKind(h, "tools") : i > 1 /\ h[i - 1].kind = "calls" /\ h[i - 1].of = h[i].of
        <3>1. \A i \in OfKind(g, "tools") : i \in 1..Len(g) /\ i > 1 /\ i - 1 \in 1..Len(g)
            BY <1>2 DEF Sound, OfKind
        <3> QED
            BY <1>2, <1>4, <3>1 DEF Sound
    <2>4. \A i \in Dangling(h), j \in OfKind(h, "calls") : j <= i
        BY <1>2, <1>4, <1>5 DEF OfKind
    <2> QED
        BY <1>2, <2>1, <2>2, <2>3, <2>4 DEF Sound
<1> QED
    BY <1>6, <1>7 DEF h, m

\* Their results are added.
LEMMA ReturnedSound ==
    ASSUME NEW g, Sound(g), Open(g) # {}
    PROVE  LET h == Append(g, [kind |-> "tools", of |-> Open(g)])
           IN  Sound(h) /\ Open(h) = {} /\ Dangling(h) = {}
<1> DEFINE m == [kind |-> "tools", of |-> Open(g)]
           h == Append(g, m)
<1>1. g \in Seq(Message) /\ m \in Message
    BY OpenDangles DEF Sound, Message, Citation
<1>2. /\ h \in Seq(Message) /\ Len(h) = Len(g) + 1 /\ Len(g) \in Nat
      /\ DOMAIN h = 1..(Len(g) + 1) /\ DOMAIN g = 1..Len(g)
      /\ h[Len(g) + 1] = m /\ \A i \in DOMAIN g : h[i] = g[i]
    BY <1>1
<1>3. m.kind = "tools" /\ m.of = Open(g)
    OBVIOUS
<1>4. /\ g # <<>> /\ Len(g) \in Dangling(g) /\ Open(g) = g[Len(g)].of /\ g[Len(g)].kind = "calls"
      /\ g[Len(g)] \in Message
    BY <1>1, <1>2, OpenDangles
<1> HIDE DEF h, m
<1>6. OfKind(h, "calls") = OfKind(g, "calls") /\ OfKind(h, "tools") = OfKind(g, "tools") \cup {Len(g) + 1}
    BY <1>2, <1>3 DEF OfKind
<1>7. Dangling(h) = {}
    <2>1. \A i \in OfKind(g, "calls") : i \in 1..Len(g) /\ i <= Len(g)
        BY <1>2 DEF OfKind
    <2>2. \A i \in OfKind(g, "calls") : i < Len(g) => Answered(g, i)
        BY <1>2, <1>4, <2>1 DEF Sound, Dangling
    <2>3. \A i \in OfKind(g, "calls") : Answered(h, i)
        BY <1>2, <1>3, <2>1, <2>2 DEF Answered
    <2> QED
        BY <1>6, <2>3 DEF Dangling
<1>8. Open(h) = {}
    BY <1>2, <1>3 DEF Open
<1>9. Sound(h)
    <2>1. h[1].kind = "human"
        BY <1>1, <1>2, <1>4 DEF Sound
    <2>2. \A i \in OfKind(h, "calls") : h[i].of \subseteq Call /\ h[i].of # {}
        BY <1>2, <1>6 DEF Sound, OfKind
    <2>3. \A i \in OfKind(h, "tools") : i > 1 /\ h[i - 1].kind = "calls" /\ h[i - 1].of = h[i].of
        <3>1. \A i \in OfKind(g, "tools") : i \in 1..Len(g) /\ i > 1 /\ i - 1 \in 1..Len(g)
            BY <1>2 DEF Sound, OfKind
        <3>2. Len(g) + 1 > 1 /\ h[Len(g)] = g[Len(g)]
            BY <1>1, <1>2, <1>4
        <3> QED
            BY <1>2, <1>3, <1>4, <1>6, <3>1, <3>2 DEF Sound
    <2> QED
        BY <1>2, <1>7, <2>1, <2>2, <2>3 DEF Sound
<1> QED
    BY <1>7, <1>8, <1>9 DEF h, m

\* A refusal takes the calls that lack their results out.
LEMMA WithoutSound ==
    ASSUME NEW g, Sound(g), Dangling(g) # {}
    PROVE  /\ Sound(WithoutLastCalls(g)) /\ Dangling(WithoutLastCalls(g)) = {}
           /\ WithoutLastCalls(g) # <<>>
           /\ Open(g) # {} => Open(WithoutLastCalls(g)) = {}
<1> DEFINE calls == OfKind(g, "calls")
<1>0. PICK n \in Nat : n = Len(g)
    BY DEF Sound
<1>1. g \in Seq(Message) /\ n \in Nat /\ DOMAIN g = 1..n
    BY <1>0 DEF Sound
<1>2. calls \in SUBSET DOMAIN g /\ calls # {} /\ \A i \in calls : g[i].kind = "calls"
    BY DEF OfKind, Dangling
<1>3. PICK k \in calls : k = Last(calls) /\ \A j \in calls : j <= k
    BY <1>1, <1>2, LastIs
<1> DEFINE before == SubSeq(g, 1, k - 1)
           after == SubSeq(g, k + 1, n)
           h == before \o after
<1>4. k \in Dangling(g)
    <2>1. PICK d \in Dangling(g) : TRUE
        OBVIOUS
    <2>2. d \in calls /\ k <= d /\ d <= k
        BY <1>3, <2>1 DEF Dangling, Sound
    <2> QED
        BY <1>1, <1>2, <1>3, <2>1, <2>2
<1>5. WithoutLastCalls(g) = h
    BY <1>0, <1>2, <1>3 DEF WithoutLastCalls
<1>6. k \in 2..n
    <2>1. k # 1
        BY <1>1, <1>2, <1>3 DEF Sound
    <2> QED
        BY <1>1, <1>2, <1>3, <2>1
<1> HIDE DEF calls
<1>7. /\ h \in Seq(Message) /\ Len(h) = n - 1 /\ DOMAIN h = 1..(n - 1)
      /\ \A i \in 1..(k - 1) : h[i] = g[i]
      /\ \A i \in k..(n - 1) : h[i] = g[i + 1]
    <2>1. before \in Seq(Message) /\ Len(before) = k - 1 /\ \A i \in 1..(k - 1) : before[i] = g[i]
        BY <1>0, <1>1, <1>6
    <2>2. /\ after \in Seq(Message) /\ Len(after) = n - k
          /\ \A i \in 1..(n - k) : after[i] = g[k + i]
        BY <1>0, <1>1, <1>6
    <2> HIDE DEF before, after
    <2>3. h \in Seq(Message) /\ Len(h) = n - 1
        <3>1. h \in Seq(Message) /\ Len(h) = Len(before) + Len(after)
            BY <2>1, <2>2
        <3>2. (k - 1) + (n - k) = n - 1
            BY <1>1, <1>6
        <3> QED
            BY <2>1, <2>2, <3>1, <3>2
    <2>4. \A i \in 1..(k - 1) : h[i] = g[i]
        BY <1>1, <1>6, <2>1, <2>2
    <2>5. ASSUME NEW i \in k..(n - 1) PROVE h[i] = g[i + 1]
        <3>1. i - (k - 1) \in 1..(n - k) /\ k + (i - (k - 1)) = i + 1
            BY <1>1, <1>6, <2>5
        <3>2. h[i] = after[i - (k - 1)]
            BY <1>1, <1>6, <2>1, <2>2, <2>5
        <3> QED
            BY <2>2, <3>1, <3>2
    <2> HIDE DEF h
    <2>6. DOMAIN h = 1..(n - 1)
        BY <2>3
    <2> QED
        BY <2>3, <2>4, <2>5, <2>6
<1> HIDE DEF h
<1>8. \A i \in calls \ {k} : i \in 1..(k - 1) /\ i + 1 \in 1..(k - 1) /\ g[i + 1].kind = "tools"
    <2>1. ASSUME NEW i \in calls \ {k}
          PROVE  i \in 1..(k - 1) /\ i + 1 \in 1..(k - 1) /\ g[i + 1].kind = "tools"
        <3>1. i \in 1..(k - 1)
            BY <1>1, <1>2, <1>3, <1>6, <2>1
        <3>2. i \notin Dangling(g)
            BY <1>1, <1>3, <1>6, <3>1 DEF Sound, calls
        <3>3. g[i + 1].kind = "tools"
            BY <2>1, <3>2 DEF Dangling, Answered, calls
        <3>4. i + 1 # k
            BY <1>2, <1>3, <3>3
        <3> QED
            BY <1>6, <3>1, <3>3, <3>4
    <2> QED
        BY <2>1
<1>9. OfKind(h, "calls") = calls \ {k}
    <2>1. \A i \in OfKind(h, "calls") : i \in calls \ {k}
        <3>1. \A i \in k..(n - 1) : i + 1 \in DOMAIN g /\ i + 1 > k
            BY <1>1, <1>6
        <3>2. \A i \in k..(n - 1) : i + 1 \notin calls
            BY <1>1, <1>3, <1>6, <3>1
        <3>3. \A i \in k..(n - 1) : h[i].kind # "calls"
            BY <1>7, <3>1, <3>2 DEF calls, OfKind
        <3>4. \A i \in 1..(n - 1) : i \in 1..(k - 1) \/ i \in k..(n - 1)
            BY <1>1, <1>6
        <3>5. \A i \in 1..(k - 1) : i \in DOMAIN g /\ i # k
            BY <1>1, <1>6
        <3> QED
            BY <1>7, <3>3, <3>4, <3>5 DEF calls, OfKind
    <2>2. \A i \in calls \ {k} : i \in OfKind(h, "calls")
        <3>1. \A i \in calls \ {k} : i \in DOMAIN h
            BY <1>1, <1>6, <1>7, <1>8
        <3> QED
            BY <1>2, <1>7, <1>8, <3>1 DEF OfKind
    <2> QED
        BY <2>1, <2>2
<1>10. \A i \in OfKind(h, "calls") : Answered(h, i)
    <2>1. \A i \in calls \ {k} : i < n - 1 /\ h[i + 1] = g[i + 1]
        BY <1>1, <1>6, <1>7, <1>8
    <2> QED
        BY <1>7, <1>8, <1>9, <2>1 DEF Answered
<1>11. Dangling(h) = {}
    BY <1>10 DEF Dangling
<1>12. \A i \in OfKind(h, "tools") : i \in 1..(k - 1) /\ i \in OfKind(g, "tools")
    <2>1. ASSUME NEW i \in k..(n - 1) PROVE h[i].kind # "tools"
        <3>1. SUFFICES ASSUME g[i + 1].kind = "tools" PROVE FALSE
            BY <1>7, <2>1
        <3>2. i \in Nat /\ i + 1 \in DOMAIN g /\ (i + 1) - 1 = i /\ i \in DOMAIN g /\ i >= k
            BY <1>1, <1>6, <2>1
        <3>3. i + 1 \in OfKind(g, "tools")
            BY <3>1, <3>2 DEF OfKind
        <3>4. g[i].kind = "calls"
            BY <3>2, <3>3 DEF Sound
        <3>5. i \in calls
            BY <3>2, <3>4 DEF calls, OfKind
        <3>6. i = k
            BY <1>3, <1>6, <3>2, <3>5
        <3> QED
            BY <1>1, <1>4, <1>6, <2>1, <3>1, <3>6 DEF Dangling, Answered
    <2>2. \A i \in 1..(n - 1) : i \in 1..(k - 1) \/ i \in k..(n - 1)
        BY <1>1, <1>6
    <2>3. \A i \in 1..(k - 1) : i \in DOMAIN g
        BY <1>1, <1>6
    <2> QED
        BY <1>7, <2>1, <2>2, <2>3 DEF OfKind
<1>13. Sound(h)
    <2>1. h[1].kind = "human"
        <3>1. g # <<>> /\ 1 \in 1..(k - 1)
            BY <1>1, <1>6
        <3> QED
            BY <1>7, <3>1 DEF Sound
    <2>2. \A i \in OfKind(h, "calls") : h[i].of \subseteq Call /\ h[i].of # {}
        BY <1>7, <1>8, <1>9 DEF Sound, calls
    <2>3. \A i \in OfKind(h, "tools") : i > 1 /\ h[i - 1].kind = "calls" /\ h[i - 1].of = h[i].of
        <3>1. \A i \in OfKind(h, "tools") : i > 1 /\ i - 1 \in 1..(k - 1)
            BY <1>1, <1>6, <1>12 DEF Sound
        <3> QED
            BY <1>7, <1>12, <3>1 DEF Sound
    <2> QED
        BY <1>7, <1>11, <2>1, <2>2, <2>3 DEF Sound
<1>14. h # <<>>
    BY <1>1, <1>6, <1>7
<1>15. ASSUME Open(g) # {} PROVE Open(h) = {}
    <2>1. g[n].kind = "calls" /\ n \in Dangling(g)
        BY <1>0, <1>15, OpenDangles
    <2>2. k = n
        <3>1. n \in calls
            BY <2>1 DEF Dangling, calls
        <3> QED
            BY <1>1, <1>3, <1>6, <3>1
    <2>3. n - 1 \notin calls
        <3>1. SUFFICES ASSUME n - 1 \in calls PROVE FALSE
            OBVIOUS
        <3>2. n - 1 + 1 = n /\ n - 1 # k
            BY <1>1, <2>2
        <3> QED
            BY <1>8, <2>1, <3>1, <3>2
    <2>4. n - 1 \in DOMAIN g /\ h[n - 1] = g[n - 1]
        BY <1>1, <1>6, <1>7, <2>2
    <2> QED
        BY <1>7, <2>3, <2>4 DEF Open, calls, OfKind
<1> QED
    BY <1>5, <1>11, <1>13, <1>14, <1>15

\* A partial approval leaves the calls that were approved.
LEMMA TrimmedSound ==
    ASSUME NEW g, Sound(g), Open(g) # {}, NEW approved
    PROVE  LET h == Trimmed(g, approved)
           IN  /\ Sound(h) /\ h # <<>>
               /\ Open(h) = Open(g) \cap approved
               /\ Open(h) = {} => Dangling(h) = {}
               /\ OfKind(g, "calls") # {} /\ g[Last(OfKind(g, "calls"))].of = Open(g)
<1> DEFINE calls == OfKind(g, "calls")
           kept == Open(g) \cap approved
<1>0. PICK n \in Nat : n = Len(g)
    BY DEF Sound
<1>1. g \in Seq(Message) /\ n \in Nat /\ DOMAIN g = 1..n
    BY <1>0 DEF Sound
<1> DEFINE h == [g EXCEPT ![n].of = kept]
<1>2. /\ n \in Dangling(g) /\ n \in calls /\ g # <<>> /\ Open(g) = g[n].of /\ g[n].kind = "calls"
      /\ Open(g) \subseteq Call
    BY <1>0, OpenDangles DEF Dangling
<1>3. Last(calls) = n
    <2>1. calls \in SUBSET DOMAIN g
        BY DEF OfKind
    <2>2. Last(calls) \in calls /\ \A j \in calls : j <= Last(calls)
        BY <1>1, <1>2, <2>1, LastIs
    <2> QED
        BY <1>1, <1>2, <2>1, <2>2
<1>4. Trimmed(g, approved) = IF kept = {} THEN WithoutLastCalls(g) ELSE h
    BY <1>2, <1>3 DEF Trimmed
<1>5. CASE kept = {}
    BY <1>2, <1>3, <1>4, <1>5, WithoutSound
<1>6. CASE kept # {}
    <2>0. [g[n] EXCEPT !.of = kept] \in Message /\ n \in DOMAIN g
        <3>1. n \in DOMAIN g /\ g[n] \in Message
            BY <1>1, <1>2 DEF Dangling, OfKind
        <3>2. kept \in SUBSET Citation
            BY <1>2 DEF Citation
        <3> HIDE DEF kept
        <3> QED
            BY <3>1, <3>2 DEF Message
    <2>1. /\ h \in Seq(Message) /\ Len(h) = n /\ DOMAIN h = DOMAIN g
          /\ \A i \in DOMAIN g : i # n => h[i] = g[i]
          /\ h[n].kind = "calls" /\ h[n].of = kept
        BY <1>1, <1>2, <2>0 DEF Message
    <2> HIDE DEF h
    <2>2. \A i \in DOMAIN g : h[i].kind = g[i].kind
        BY <1>2, <2>1
    <2>3. OfKind(h, "calls") = calls /\ OfKind(h, "tools") = OfKind(g, "tools")
        BY <2>1, <2>2 DEF OfKind
    <2>4. \A i \in calls : Answered(h, i) <=> Answered(g, i)
        <3>1. \A i \in calls : i < n => i + 1 \in DOMAIN g
            BY <1>1 DEF OfKind
        <3> QED
            BY <2>1, <2>2, <3>1 DEF Answered
    <2>5. Dangling(h) = Dangling(g)
        BY <2>3, <2>4 DEF Dangling
    <2>6. Sound(h)
        <3>1. h[1].kind = "human"
            BY <1>1, <1>2, <2>2 DEF Sound
        <3>2. \A i \in OfKind(h, "calls") : h[i].of \subseteq Call /\ h[i].of # {}
            BY <1>2, <1>6, <2>1, <2>3 DEF Sound, OfKind
        <3>3. \A i \in OfKind(h, "tools") : i > 1 /\ h[i - 1].kind = "calls" /\ h[i - 1].of = h[i].of
            <4>1. ASSUME NEW i \in OfKind(g, "tools") PROVE i # n /\ i - 1 # n /\ i - 1 \in DOMAIN g /\ i \in DOMAIN g
                BY <1>1, <1>2 DEF Sound, OfKind
            <4> QED
                BY <2>1, <2>3, <4>1 DEF Sound
        <3> QED
            BY <2>1, <2>3, <2>5, <3>1, <3>2, <3>3 DEF Sound
    <2>7. Open(h) = kept
        BY <1>0, <1>1, <1>2, <2>1 DEF Open
    <2> QED
        BY <1>1, <1>2, <1>3, <1>4, <1>6, <2>1, <2>6, <2>7
<1> QED
    BY <1>5, <1>6

\* Kept is a recursive function: its equation has a solution on every 0..n.
Grown(g, kinds, sofar, i) ==
    IF g[i].kind \in kinds THEN Append(sofar, g[i]) ELSE sofar

Keeps(kept, g, n, kinds) ==
    kept = [i \in 0..n |-> IF i = 0 THEN <<>> ELSE Grown(g, kinds, kept[i - 1], i)]

LEMMA KeepsExists ==
    ASSUME NEW g, NEW kinds, NEW n \in Nat
    PROVE  \E kept : Keeps(kept, g, n, kinds)
<1> DEFINE Bad == {m \in Nat : ~ \E kept : Keeps(kept, g, m, kinds)}
<1>1. SUFFICES ASSUME Bad # {} PROVE FALSE
    OBVIOUS
<1>2. PICK m \in Bad : \A j \in Bad : ~ (<<j, m>> \in OpToRel(<, Nat))
    <2>1. Bad \subseteq Nat
        OBVIOUS
    <2> HIDE DEF Bad
    <2> QED
        BY <1>1, <2>1, WFMin, NatLessThanWellFounded
<1>3. m # 0
    <2>1. Keeps([i \in 0..0 |-> <<>>], g, 0, kinds)
        BY DEF Keeps
    <2> QED
        BY <2>1
<1>4. m - 1 \in Nat /\ m - 1 \notin Bad
    <2>1. m - 1 \in Nat /\ m - 1 < m
        BY <1>3
    <2>2. <<m - 1, m>> \in OpToRel(<, Nat)
        BY <2>1 DEF OpToRel
    <2> QED
        BY <1>2, <2>1, <2>2
<1>5. PICK prev : Keeps(prev, g, m - 1, kinds)
    BY <1>4
<1> DEFINE kept == [i \in 0..m |-> IF i = m THEN Grown(g, kinds, prev[m - 1], m) ELSE prev[i]]
<1>6. \A i \in 0..(m - 1) : prev[i] = IF i = 0 THEN <<>> ELSE Grown(g, kinds, prev[i - 1], i)
    BY <1>5 DEF Keeps
<1>7. ASSUME NEW i \in 0..m
      PROVE  kept[i] = IF i = 0 THEN <<>> ELSE Grown(g, kinds, kept[i - 1], i)
    <2>1. CASE i = m
        BY <1>3, <1>4, <2>1
    <2>2. CASE i # m
        <3>1. i \in 0..(m - 1) /\ kept[i] = prev[i]
            BY <2>2
        <3>2. i # 0 => i - 1 \in 0..m /\ i - 1 # m
            BY <3>1
        <3> QED
            BY <1>6, <3>1, <3>2
    <2> QED
        BY <2>1, <2>2
<1>8. Keeps(kept, g, m, kinds)
    <2>1. kept = [i \in 0..m |-> kept[i]]
        OBVIOUS
    <2> HIDE DEF kept
    <2> QED
        BY <1>7, <2>1 DEF Keeps
<1> QED
    BY <1>2, <1>8

\* What is kept is of those kinds, and begins where the history begins.
LEMMA KeptIs ==
    ASSUME NEW g \in Seq(Message), NEW n \in 0..Len(g), NEW kinds
    PROVE  LET h == Kept(g, n, kinds)
           IN  /\ h \in Seq(Message)
               /\ \A i \in DOMAIN h : h[i].kind \in kinds
               /\ n > 0 /\ g[1].kind \in kinds => h # <<>> /\ h[1] = g[1]
<1> DEFINE kept == CHOOSE f : Keeps(f, g, n, kinds)
           Fine(i, h) == /\ h \in Seq(Message)
                         /\ \A j \in DOMAIN h : h[j].kind \in kinds
                         /\ i > 0 /\ g[1].kind \in kinds => h # <<>> /\ h[1] = g[1]
           Bad == {i \in 0..n : ~ Fine(i, kept[i])}
<1>1. n \in Nat /\ Len(g) \in Nat
    OBVIOUS
<1>2. Keeps(kept, g, n, kinds)
    BY <1>1, KeepsExists
<1>3. Kept(g, n, kinds) = kept[n]
    BY DEF Kept, Keeps, Grown
<1> HIDE DEF kept
<1>4. \A i \in 0..n : kept[i] = IF i = 0 THEN <<>> ELSE Grown(g, kinds, kept[i - 1], i)
    BY <1>2 DEF Keeps
<1>5. ASSUME Bad # {} PROVE FALSE
    <2>1. PICK m \in Bad : \A j \in Bad : ~ (<<j, m>> \in OpToRel(<, Nat))
        <3>1. Bad \subseteq Nat
            BY <1>1
        <3> HIDE DEF Bad
        <3> QED
            BY <1>5, <3>1, WFMin, NatLessThanWellFounded
    <2>2. m \in 0..n /\ ~ Fine(m, kept[m])
        OBVIOUS
    <2>3. m # 0
        <3>1. Fine(0, <<>>)
            OBVIOUS
        <3> QED
            BY <1>4, <2>2, <3>1
    <2>4. m - 1 \in 0..n /\ m \in Nat /\ m - 1 \in Nat /\ m - 1 < m
        BY <1>1, <2>2, <2>3
    <2>5. Fine(m - 1, kept[m - 1])
        <3>1. <<m - 1, m>> \in OpToRel(<, Nat)
            BY <2>4 DEF OpToRel
        <3> HIDE DEF Fine
        <3> QED
            BY <2>1, <2>4, <3>1
    <2>6. kept[m] = Grown(g, kinds, kept[m - 1], m)
        BY <1>4, <2>2, <2>3
    <2>7. m \in DOMAIN g /\ g[m] \in Message /\ g # <<>>
        BY <1>1, <2>2, <2>3
    <2>8. CASE g[m].kind \notin kinds
        BY <2>2, <2>5, <2>6, <2>8 DEF Grown
    <2>9. CASE g[m].kind \in kinds
        <3> DEFINE h == kept[m - 1]
                   k == Append(h, g[m])
        <3>1. h \in Seq(Message) /\ kept[m] = k
            BY <2>5, <2>6, <2>9 DEF Grown
        <3>2. /\ k \in Seq(Message) /\ Len(k) = Len(h) + 1 /\ k[Len(h) + 1] = g[m]
              /\ Len(h) \in Nat /\ DOMAIN k = 1..(Len(h) + 1) /\ DOMAIN h = 1..Len(h)
              /\ \A i \in 1..Len(h) : k[i] = h[i]
            BY <2>7, <3>1
        <3>3. \A j \in DOMAIN k : k[j].kind \in kinds
            BY <2>5, <2>9, <3>2
        <3>4. g[1].kind \in kinds => k # <<>> /\ k[1] = g[1]
            <4> SUFFICES ASSUME g[1].kind \in kinds PROVE k # <<>> /\ k[1] = g[1]
                OBVIOUS
            <4>1. CASE m - 1 > 0
                <5>1. 1 \in 1..Len(h) /\ h[1] = g[1]
                    BY <2>5, <3>1, <4>1
                <5> QED
                    BY <3>2, <5>1
            <4>2. CASE ~ (m - 1 > 0)
                <5>1. m = 1 /\ h = <<>>
                    BY <1>4, <2>4, <4>2
                <5> QED
                    BY <3>2, <5>1
            <4> QED
                BY <4>1, <4>2
        <3> QED
            BY <2>2, <3>1, <3>2, <3>3, <3>4
    <2> QED
        BY <2>8, <2>9
<1>6. Fine(n, kept[n])
    BY <1>1, <1>5
<1> QED
    BY <1>3, <1>6

\* Stopping a run leaves a history in which no calls lack their results.
LEMMA ClearedSound ==
    ASSUME NEW g, Sound(g)
    PROVE  Sound(Cleared(g)) /\ Dangling(Cleared(g)) = {}
<1> DEFINE h == Cleared(g)
           answers == OfKind(g, "answer")
           kinds == {"human", "answer"}
           prefix == IF answers = {} THEN <<>> ELSE Kept(g, Last(answers), kinds)
<1>1. CASE OfKind(g, "calls") = {}
    <2>1. h = g /\ Dangling(g) = {}
        BY <1>1 DEF Cleared, Dangling
    <2> QED
        BY <2>1
<1>2. CASE OfKind(g, "calls") # {}
    <2>1. g \in Seq(Message) /\ g # <<>> /\ g[1].kind = "human" /\ 1 \in DOMAIN g
        BY <1>2 DEF Sound, OfKind
    <2>2. /\ h \in Seq(Message) /\ h # <<>> /\ h[1].kind = "human"
          /\ \A i \in DOMAIN h : h[i].kind \in kinds
        <3>1. CASE answers # {}
            <4>1. answers \subseteq DOMAIN g
                BY DEF OfKind
            <4>2. PICK n \in answers : n = Last(answers)
                BY <2>1, <3>1, <4>1, LastIs
            <4>3. n \in 0..Len(g) /\ n > 0
                BY <2>1, <4>1, <4>2
            <4>4. /\ prefix \in Seq(Message) /\ prefix # <<>> /\ prefix[1] = g[1]
                  /\ \A i \in DOMAIN prefix : prefix[i].kind \in kinds
                <5>1. prefix = Kept(g, n, kinds)
                    BY <3>1, <4>2
                <5>2. g[1].kind \in kinds
                    BY <2>1
                <5> HIDE DEF prefix, kinds
                <5> QED
                    BY <2>1, <4>3, <5>1, <5>2, KeptIs
            <4>5. h = prefix
                BY <1>2, <4>4 DEF Cleared
            <4> QED
                BY <2>1, <4>4, <4>5
        <3>2. CASE answers = {}
            <4> DEFINE questions == OfKind(g, "human")
            <4>1. 1 \in questions /\ \A j \in questions : j \in Nat /\ 1 <= j
                BY <2>1 DEF OfKind
            <4>2. (CHOOSE i \in questions : \A j \in questions : i <= j) = 1
                BY <4>1
            <4>3. h = <<g[1]>>
                BY <1>2, <3>2, <4>1, <4>2 DEF Cleared
            <4>4. g[1] \in Message
                BY <2>1
            <4> QED
                BY <2>1, <4>3, <4>4
        <3> QED
            BY <3>1, <3>2
    <2> HIDE DEF h
    <2>3. OfKind(h, "calls") = {} /\ OfKind(h, "tools") = {}
        BY <2>2 DEF OfKind
    <2>4. Sound(h) /\ Dangling(h) = {}
        BY <2>2, <2>3 DEF Sound, Dangling
    <2> QED
        BY <2>4 DEF h
<1> QED
    BY <1>1, <1>2

\* The lists of messages in which only tools are called.
Legal == {m \in Message : m.kind = "calls" => m.of \subseteq Call}

\* A set of positions has a first one.
LEMMA FirstIs ==
    ASSUME NEW S \in SUBSET Nat, S # {}
    PROVE  LET first == CHOOSE i \in S : \A j \in S : i <= j IN first \in S
<1>1. PICK k \in S : \A m \in S : ~ (<<m, k>> \in OpToRel(<, Nat))
    BY WFMin, NatLessThanWellFounded
<1>2. ASSUME NEW j \in S PROVE k <= j
    <2>1. j \in Nat /\ k \in Nat
        OBVIOUS
    <2>2. j < k => <<j, k>> \in OpToRel(<, Nat)
        BY <2>1 DEF OpToRel
    <2>3. ~ (j < k)
        BY <1>1, <2>2
    <2> QED
        BY <2>1, <2>3
<1> QED
    BY <1>2

\* Whatever is taken out of the graph, what stays is legal.
LEMMA LegalEdits ==
    ASSUME NEW g \in Seq(Legal)
    PROVE  /\ WithoutLastCalls(g) \in Seq(Legal) /\ Cleared(g) \in Seq(Legal)
           /\ Open(g) \subseteq Call
           /\ \A approved : Trimmed(g, approved) \in Seq(Legal)
<1>1. g \in Seq(Message) /\ DOMAIN g = 1..Len(g) /\ Len(g) \in Nat /\ \A i \in DOMAIN g : g[i] \in Legal
    <2>1. \A i \in DOMAIN g : g[i] \in Message
        BY DEF Legal
    <2> QED
        BY <2>1 DEF Legal
<1> DEFINE calls == OfKind(g, "calls")
<1>2. calls \in SUBSET DOMAIN g
    BY DEF OfKind
<1>3. ASSUME calls # {} PROVE Last(calls) \in DOMAIN g
    <2> HIDE DEF calls
    <2> QED
        BY <1>1, <1>2, <1>3, LastIs
<1>4. WithoutLastCalls(g) \in Seq(Legal)
    <2>1. CASE calls = {}
        BY <2>1 DEF WithoutLastCalls
    <2>2. CASE calls # {}
        <3>1. PICK k \in 1..Len(g) : k = Last(calls)
            BY <1>1, <1>3, <2>2
        <3>2. SubSeq(g, 1, k - 1) \in Seq(Legal) /\ SubSeq(g, k + 1, Len(g)) \in Seq(Legal)
            BY <1>1
        <3>3. WithoutLastCalls(g) = SubSeq(g, 1, k - 1) \o SubSeq(g, k + 1, Len(g))
            BY <2>2, <3>1 DEF WithoutLastCalls
        <3> QED
            BY <3>2, <3>3
    <2> QED
        BY <2>1, <2>2
<1>5. Open(g) \subseteq Call
    BY <1>1 DEF Open, Legal
<1>6. ASSUME NEW approved PROVE Trimmed(g, approved) \in Seq(Legal)
    <2>1. CASE calls = {}
        BY <2>1 DEF Trimmed
    <2>2. CASE calls # {}
        <3>1. PICK k \in DOMAIN g : k = Last(calls)
            BY <1>3, <2>2
        <3> DEFINE kept == g[k].of \cap approved
                   m == [g[k] EXCEPT !.of = kept]
        <3>2. Trimmed(g, approved) = IF kept = {} THEN WithoutLastCalls(g) ELSE [g EXCEPT ![k] = m]
            BY <2>2, <3>1 DEF Trimmed
        <3>3. m \in Legal
            <4>1. g[k] \in Message /\ kept \subseteq g[k].of
                BY <1>1 DEF Legal
            <4>2. g[k].of \subseteq Citation /\ (g[k].kind = "calls" => g[k].of \subseteq Call)
                BY <1>1 DEF Legal, Message
            <4>3. kept \in SUBSET Citation /\ (g[k].kind = "calls" => kept \subseteq Call)
                BY <4>1, <4>2
            <4> HIDE DEF kept
            <4> QED
                BY <4>1, <4>3 DEF Legal, Message
        <3> HIDE DEF m, kept
        <3>4. [g EXCEPT ![k] = m] \in Seq(Legal)
            BY <3>3
        <3> QED
            BY <1>4, <3>2, <3>4
    <2> QED
        BY <2>1, <2>2
<1>7. Cleared(g) \in Seq(Legal)
    <2> DEFINE answers == OfKind(g, "answer")
               questions == OfKind(g, "human")
               kinds == {"human", "answer"}
               prefix == IF answers = {} THEN <<>> ELSE Kept(g, Last(answers), kinds)
    <2>1. prefix \in Seq(Legal)
        <3>1. CASE answers = {}
            BY <3>1
        <3>2. CASE answers # {}
            <4>1. answers \in SUBSET DOMAIN g
                BY DEF OfKind
            <4>2. Last(answers) \in 0..Len(g)
                <5> HIDE DEF answers
                <5> QED
                    BY <1>1, <3>2, <4>1, LastIs
            <4>3. PICK h : h = prefix /\ h \in Seq(Message) /\ \A i \in DOMAIN h : h[i].kind \in kinds
                <5> HIDE DEF kinds, answers
                <5> QED
                    BY <1>1, <3>2, <4>2, KeptIs
            <4>4. \A i \in DOMAIN h : h[i] \in Legal
                BY <4>3 DEF Legal
            <4>5. h \in Seq(Legal)
                BY <4>3, <4>4
            <4> QED
                BY <4>3, <4>5
        <3> QED
            BY <3>1, <3>2
    <2>2. ASSUME questions # {}
          PROVE  <<g[CHOOSE i \in questions : \A j \in questions : i <= j]>> \in Seq(Legal)
        <3>1. questions \in SUBSET DOMAIN g /\ questions \in SUBSET Nat
            BY <1>1 DEF OfKind
        <3>2. (CHOOSE i \in questions : \A j \in questions : i <= j) \in questions
            <4> HIDE DEF questions
            <4> QED
                BY <2>2, <3>1, FirstIs
        <3> QED
            BY <1>1, <3>1, <3>2
    <2> HIDE DEF prefix
    <2>3. Cleared(g) = IF OfKind(g, "calls") = {} THEN g
                       ELSE IF prefix # <<>> THEN prefix
                       ELSE IF questions = {} THEN g
                       ELSE <<g[CHOOSE i \in questions : \A j \in questions : i <= j]>>
        BY DEF Cleared, prefix
    <2> QED
        BY <2>1, <2>2, <2>3
<1> QED
    BY <1>4, <1>5, <1>6, <1>7

-----------------------------------------------------------------------------
(* What holds whoever ends a run: the stores and the threads keep their     *)
(* types, and what a thread has frozen, or an answer cites, has run.        *)

Status == Active \cup {"completed", "rejected", "interrupted", "error"}

Cell == [turn : 0..MaxTurns, approval : {"none", "pending", "approved", "rejected"},
         result : {"none", "result", "refused", "marker"}]

Worker == [at : Place, turn : 0..MaxTurns, whole : BOOLEAN, ids : SUBSET Citation,
           frozen : SUBSET Call, heeds : BOOLEAN]

StoreTypes ==
    /\ status \in Seq(Status) /\ Len(status) <= MaxTurns
    /\ cells \in [Call -> Cell]
    /\ graph \in Seq(Legal)
    /\ flagged \subseteq Turn /\ stopping \subseteq Turn
    /\ linked \subseteq Citation /\ blamed \subseteq Citation
    /\ shown \subseteq SUBSET Call
    /\ granted \subseteq Call /\ executed \subseteq Call
    /\ failed \subseteq {"graph", "cells"} /\ cut \in BOOLEAN

WorkerTypes == workers \in Seq(Worker) /\ Len(workers) <= MaxWorkers

Honest(W) ==
    /\ W.at \notin {"check", "read", "done"} => W.turn \in DOMAIN status
    /\ W.frozen \subseteq executed
    /\ W.at = "insert" => W.ids \subseteq Call
    /\ W.at = "tools" => W.ids \cap Call \subseteq executed

Base ==
    /\ StoreTypes /\ WorkerTypes /\ linked \subseteq executed
    /\ \A w \in DOMAIN workers : \A W \in Worker : workers[w] = W => Honest(W)

-----------------------------------------------------------------------------
(* The inductive invariant: what each thread, where it stands, knows of the *)
(* status, of the cells and of the graph, as long as no run is ended under  *)
(* its worker.                                                              *)

\* A thread that closes a run that has ended, and one that answers for the calls
\* which lack their results.
Closing == {"cells", "clear"}
Owning == {"insert", "gate", "tools", "flag", "trim", "mark cells", "drive"} \cup Closing

Waiting == [t \in Turn |-> Pending(t)]
Opened == Open(graph)
Loose == Dangling(graph)
Returned == {c \in executed : cells[c].result = "result"}

GraphInv == Sound(graph)

\* A cell belongs to a turn that was asked; a call without a cell did not run,
\* and neither did a call that was refused.
CellsInv == \A c \in Call :
    /\ cells[c].turn <= Len(status)
    /\ cells[c].turn = 0 => cells[c].result = "none" /\ c \notin executed
    /\ cells[c].result = "refused" => c \notin executed

LastActive == \A t \in DOMAIN status : status[t] \in Active => t = Len(status)

\* The calls before the user: those of the cells, those of the graph, none run.
Ready(t) == Opened # {} /\ Waiting[t] = Opened /\ Opened \cap executed = {}

Fits(W) ==
    /\ W.at \notin {"check", "read", "done"} => W.turn \in DOMAIN status
    /\ W.at \in Driving => status[W.turn] = "running"
    /\ W.at \in Closing => status[W.turn] \notin Active /\ Loose # {} /\ Awaiting = {}
    /\ W.at \in {"check", "read", "cas", "flag", "trim"} => W.ids \subseteq granted
    /\ W.at \in {"cas", "flag", "mark cells"} /\ W.whole => W.ids = {}
    /\ W.at = "trim" => ~ W.whole
    /\ W.frozen \subseteq Returned
    /\ W.at \in {"user", "agent", "final"} => Waiting[W.turn] = {}
    /\ W.at = "agent" => graph # <<>>
    /\ W.at = "insert" =>
           /\ Opened # {} /\ W.ids = Opened /\ Opened \cap executed = {}
           /\ Waiting[W.turn] \subseteq Opened
           /\ \A c \in Opened \ Waiting[W.turn] : cells[c].turn = 0
    /\ W.at \in {"gate", "flag", "trim"} => Ready(W.turn)
    /\ W.at = "flag" /\ W.whole => Opened \subseteq granted
    /\ W.at = "tools" =>
           /\ Opened # {} /\ W.ids = Opened /\ Opened \subseteq executed
           /\ Waiting[W.turn] \subseteq Opened
           /\ \A c \in Opened : cells[c].turn = W.turn
    /\ W.at = "mark cells" =>
           /\ W.ids \subseteq Waiting[W.turn] /\ Waiting[W.turn] \ W.ids = Opened
           /\ Waiting[W.turn] \cap executed = {} /\ Waiting[W.turn] # {}
    /\ W.at = "drive" => Waiting[W.turn] = Opened /\ Opened \cap executed = {}
    /\ W.at \in {"mark cells", "drive"} => Opened \subseteq granted /\ (Opened = {} => Loose = {})
    /\ W.at = "cells" => Waiting[W.turn] \cap executed = {}

WorkersInv == \A w \in DOMAIN workers : \A W \in Worker : workers[w] = W => Fits(W)

\* One thread drives, and one answers for the open calls.
Single == \A v, w \in DOMAIN workers :
    /\ workers[v].at \in Driving /\ workers[w].at \in Driving => v = w
    /\ workers[v].at \in Owning /\ workers[w].at \in Owning => v = w

Asked == \A t \in Awaiting : Ready(t)

\* The cells of an ended run have results, or a thread is about to write them.
Ended == "cells" \notin failed =>
    \A t \in DOMAIN status : status[t] \notin Active /\ Waiting[t] # {} =>
        \E w \in DOMAIN workers : workers[w].turn = t /\ workers[w].at = "cells"

\* Calls that lack their results are before the user, or a thread's to settle.
Owned == "graph" \notin failed /\ Loose # {} =>
    Awaiting # {} \/ \E w \in DOMAIN workers : workers[w].at \in Owning

Genuine == linked \subseteq Returned

Approvals == Gate => executed \subseteq granted

ToolInv ==
    /\ StoreTypes /\ WorkerTypes /\ GraphInv /\ CellsInv /\ LastActive /\ WorkersInv /\ Single
    /\ Asked /\ Ended /\ Owned /\ Genuine /\ Approvals

-----------------------------------------------------------------------------
(* One thread moves.                                                        *)

Moved(V, pc) == [V EXCEPT !.at = pc]

LEMMA MovesTyped ==
    ASSUME NEW V \in Worker, NEW pc \in Place
    PROVE  /\ Moved(V, pc) \in Worker
           /\ Moved(V, pc).at = pc /\ Moved(V, pc).turn = V.turn /\ Moved(V, pc).whole = V.whole
           /\ Moved(V, pc).ids = V.ids /\ Moved(V, pc).frozen = V.frozen
<1>1. [V EXCEPT !.at = pc] \in Worker
    BY DEF Worker
<1> QED
    BY <1>1 DEF Worker, Moved

LEMMA GoesTyped ==
    ASSUME WorkerTypes, NEW w \in DOMAIN workers, NEW V \in Worker, V = workers[w],
           NEW pc \in Place, Go(w, pc)
    PROVE  workers' = [workers EXCEPT ![w] = Moved(V, pc)]
    BY DEF WorkerTypes, Go, Moved

LEMMA Goes ==
    ASSUME ToolInv, NEW w \in DOMAIN workers, NEW V \in Worker, V = workers[w],
           NEW pc \in Place, Go(w, pc)
    PROVE  /\ Moved(V, pc) \in Worker /\ workers' = [workers EXCEPT ![w] = Moved(V, pc)]
           /\ Moved(V, pc).at = pc /\ Moved(V, pc).turn = V.turn /\ Moved(V, pc).whole = V.whole
           /\ Moved(V, pc).ids = V.ids /\ Moved(V, pc).frozen = V.frozen
    BY MovesTyped, GoesTyped DEF ToolInv

\* A thread as V, but for where it is and what it carries.
As(V, pc, t, ids, frozen) ==
    [at |-> pc, turn |-> t, whole |-> V.whole, ids |-> ids, frozen |-> frozen, heeds |-> V.heeds]

LEMMA AsTyped ==
    ASSUME NEW V \in Worker, NEW pc \in Place, NEW t \in 0..MaxTurns, NEW ids \in SUBSET Citation,
           NEW frozen \in SUBSET Call
    PROVE  LET W == As(V, pc, t, ids, frozen)
           IN  /\ W \in Worker /\ W.at = pc /\ W.turn = t /\ W.whole = V.whole
               /\ W.ids = ids /\ W.frozen = frozen
    BY DEF As, Worker

LEMMA AsIs ==
    ASSUME NEW V \in Worker, NEW pc, NEW ids
    PROVE  [V EXCEPT !.at = pc, !.ids = ids] = As(V, pc, V.turn, ids, V.frozen)
<1> DEFINE X == [V EXCEPT !.at = pc]
           Y == [X EXCEPT !.ids = ids]
<1>1. X = As(V, pc, V.turn, V.ids, V.frozen)
    BY DEF Worker, As
<1>2. Y = As(V, pc, V.turn, ids, V.frozen)
    <2> HIDE DEF X
    <2> QED
        BY <1>1 DEF As
<1>3. Y = [V EXCEPT !.at = pc, !.ids = ids]
    OBVIOUS
<1> QED
    BY <1>2, <1>3

LEMMA MovedTurn ==
    ASSUME NEW V \in Worker, NEW pc, NEW t, NEW ids
    PROVE  [V EXCEPT !.at = pc, !.turn = t, !.ids = ids] = As(V, pc, t, ids, V.frozen)
<1> DEFINE X == [V EXCEPT !.at = pc]
           Y == [X EXCEPT !.turn = t]
           Z == [Y EXCEPT !.ids = ids]
<1>1. X = As(V, pc, V.turn, V.ids, V.frozen)
    BY DEF Worker, As
<1>2. Y = As(V, pc, t, V.ids, V.frozen)
    <2> HIDE DEF X
    <2> QED
        BY <1>1 DEF As
<1>3. Z = As(V, pc, t, ids, V.frozen)
    <2> HIDE DEF Y
    <2> QED
        BY <1>2 DEF As
<1>4. Z = [V EXCEPT !.at = pc, !.turn = t, !.ids = ids]
    OBVIOUS
<1> QED
    BY <1>3, <1>4

\* The thread that takes the Event of its run as it starts to drive.
Heeding(V, pc, ids, heeds) == [V EXCEPT !.at = pc, !.ids = ids, !.heeds = heeds]

LEMMA MovedHeeds ==
    ASSUME NEW V \in Worker, NEW pc \in Place, NEW ids \in SUBSET Citation, NEW heeds \in BOOLEAN
    PROVE  LET W == Heeding(V, pc, ids, heeds)
           IN  /\ W \in Worker /\ W.at = pc /\ W.turn = V.turn /\ W.ids = ids /\ W.frozen = V.frozen
<1> DEFINE X == As(V, pc, V.turn, ids, V.frozen)
           W == [X EXCEPT !.heeds = heeds]
<1>1. Heeding(V, pc, ids, heeds) = W
    <2>1. [V EXCEPT !.at = pc, !.ids = ids] = X
        BY AsIs
    <2>2. Heeding(V, pc, ids, heeds) = [[V EXCEPT !.at = pc, !.ids = ids] EXCEPT !.heeds = heeds]
        BY DEF Heeding
    <2> QED
        BY <2>1, <2>2
<1>2. /\ X \in Worker /\ X.at = pc /\ X.turn = V.turn /\ X.ids = ids /\ X.frozen = V.frozen
    <2>1. V.turn \in 0..MaxTurns /\ V.frozen \in SUBSET Call
        BY DEF Worker
    <2> QED
        BY <2>1, AsTyped
<1> HIDE DEF X
<1>3. W \in Worker /\ W.at = pc /\ W.turn = V.turn /\ W.ids = ids /\ W.frozen = V.frozen
    BY <1>2 DEF Worker
<1> QED
    BY <1>1, <1>3

LEMMA WaitingIs ==
    \A t \in Turn :
        /\ Waiting[t] = {c \in Call : cells[c].turn = t /\ cells[c].result = "none"}
        /\ Waiting'[t] = {c \in Call : cells'[c].turn = t /\ cells'[c].result = "none"}
    BY DEF Waiting, Pending

LEMMA ApprovalCells ==
    ASSUME cells \in [Call -> Cell], NEW t, NEW state \in {"pending", "approved", "rejected"}
    PROVE  LET cs == Approval(t, state)
           IN  /\ cs \in [Call -> Cell]
               /\ \A c \in Call : cs[c].turn = cells[c].turn /\ cs[c].result = cells[c].result
<1> DEFINE cs == Approval(t, state)
<1>1. ASSUME NEW c \in Call
      PROVE  cs[c] \in Cell /\ cs[c].turn = cells[c].turn /\ cs[c].result = cells[c].result
    <2>1. CASE c \in Pending(t)
        <3>1. cs[c] = [cells[c] EXCEPT !.approval = state] /\ cells[c] \in Cell
            BY <2>1 DEF Approval
        <3> QED
            BY <3>1 DEF Cell
    <2>2. CASE c \notin Pending(t)
        BY <2>2 DEF Approval
    <2> QED
        BY <2>1, <2>2
<1>2. cs = [c \in Call |-> cs[c]]
    BY DEF Approval
<1> HIDE DEF cs
<1>3. cs \in [Call -> Cell] /\ \A c \in Call : cs[c].turn = cells[c].turn /\ cs[c].result = cells[c].result
    BY <1>1, <1>2
<1> QED
    BY <1>3 DEF cs

LEMMA ResolvedCells ==
    ASSUME NEW cs \in [Call -> Cell], NEW t, NEW marker \in {"refused", "marker"}
    PROVE  LET ds == Resolved(cs, t, marker)
           IN  /\ ds \in [Call -> Cell]
               /\ \A c \in Call :
                      /\ ds[c].turn = cs[c].turn
                      /\ ds[c].result = IF cs[c].turn = t /\ cs[c].result = "none" THEN marker
                                        ELSE cs[c].result
<1> DEFINE ds == Resolved(cs, t, marker)
<1>1. ASSUME NEW c \in Call
      PROVE  /\ ds[c] \in Cell /\ ds[c].turn = cs[c].turn
             /\ ds[c].result = IF cs[c].turn = t /\ cs[c].result = "none" THEN marker
                               ELSE cs[c].result
    <2>1. CASE cs[c].turn = t /\ cs[c].result = "none"
        <3>1. ds[c] = [cs[c] EXCEPT !.result = marker] /\ cs[c] \in Cell
            BY <2>1 DEF Resolved
        <3> QED
            BY <2>1, <3>1 DEF Cell
    <2>2. CASE ~ (cs[c].turn = t /\ cs[c].result = "none")
        BY <2>2 DEF Resolved
    <2> QED
        BY <2>1, <2>2
<1>2. ds = [c \in Call |-> ds[c]]
    BY DEF Resolved
<1> HIDE DEF ds
<1>3. /\ ds \in [Call -> Cell]
      /\ \A c \in Call :
             /\ ds[c].turn = cs[c].turn
             /\ ds[c].result = IF cs[c].turn = t /\ cs[c].result = "none" THEN marker
                               ELSE cs[c].result
    BY <1>1, <1>2
<1> QED
    BY <1>3 DEF ds

LEMMA PartialCells ==
    ASSUME cells \in [Call -> Cell], NEW t, NEW refused
    PROVE  LET cs == PartiallyApproved(t, refused)
           IN  /\ cs \in [Call -> Cell]
               /\ \A c \in Call :
                      /\ cs[c].turn = cells[c].turn
                      /\ cs[c].result = IF cells[c].turn = t /\ c \in refused THEN "refused"
                                        ELSE cells[c].result
<1> DEFINE cs == PartiallyApproved(t, refused)
<1>1. ASSUME NEW c \in Call
      PROVE  /\ cs[c] \in Cell /\ cs[c].turn = cells[c].turn
             /\ cs[c].result = IF cells[c].turn = t /\ c \in refused THEN "refused" ELSE cells[c].result
    <2>1. CASE cells[c].turn = t /\ c \in refused
        <3>1. cs[c] = [cells[c] EXCEPT !.approval = "rejected", !.result = "refused"] /\ cells[c] \in Cell
            BY <2>1 DEF PartiallyApproved
        <3> QED
            BY <2>1, <3>1 DEF Cell
    <2>2. CASE ~ (cells[c].turn = t /\ c \in refused) /\ c \in Pending(t)
        <3>1. cs[c] = [cells[c] EXCEPT !.approval = "approved"] /\ cells[c] \in Cell
            BY <2>2 DEF PartiallyApproved
        <3> QED
            BY <2>2, <3>1 DEF Cell
    <2>3. CASE ~ (cells[c].turn = t /\ c \in refused) /\ c \notin Pending(t)
        BY <2>3 DEF PartiallyApproved
    <2> QED
        BY <2>1, <2>2, <2>3
<1>2. cs = [c \in Call |-> cs[c]]
    BY DEF PartiallyApproved
<1> HIDE DEF cs
<1>3. /\ cs \in [Call -> Cell]
      /\ \A c \in Call :
             /\ cs[c].turn = cells[c].turn
             /\ cs[c].result = IF cells[c].turn = t /\ c \in refused THEN "refused" ELSE cells[c].result
    BY <1>1, <1>2
<1> QED
    BY <1>3 DEF cs

LEMMA CellsPut ==
    ASSUME cells \in [Call -> Cell], NEW c \in Call
    PROVE  /\ \A t \in 0..MaxTurns :
                  LET cs == [cells EXCEPT ![c].turn = t]
                  IN  /\ cs \in [Call -> Cell] /\ cs[c].turn = t
                      /\ \A d \in Call \ {c} : cs[d] = cells[d]
                      /\ \A d \in Call : cs[d].result = cells[d].result
           /\ LET cs == [cells EXCEPT ![c].result = "result"]
              IN  /\ cs \in [Call -> Cell] /\ cs[c].result = "result"
                  /\ \A d \in Call \ {c} : cs[d] = cells[d]
                  /\ \A d \in Call : cs[d].turn = cells[d].turn
<1>1. cells[c] \in Cell
    OBVIOUS
<1>2. ASSUME NEW t \in 0..MaxTurns
      PROVE  LET cs == [cells EXCEPT ![c].turn = t]
             IN  /\ cs \in [Call -> Cell] /\ cs[c].turn = t
                 /\ \A d \in Call \ {c} : cs[d] = cells[d]
                 /\ \A d \in Call : cs[d].result = cells[d].result
    <2> DEFINE C == [cells[c] EXCEPT !.turn = t]
    <2>1. C \in Cell /\ C.turn = t /\ C.result = cells[c].result
        BY <1>1 DEF Cell
    <2>2. [cells EXCEPT ![c].turn = t] = [cells EXCEPT ![c] = C]
        OBVIOUS
    <2> HIDE DEF C
    <2> QED
        BY <2>1, <2>2
<1>3. LET cs == [cells EXCEPT ![c].result = "result"]
      IN  /\ cs \in [Call -> Cell] /\ cs[c].result = "result"
          /\ \A d \in Call \ {c} : cs[d] = cells[d]
          /\ \A d \in Call : cs[d].turn = cells[d].turn
    <2> DEFINE C == [cells[c] EXCEPT !.result = "result"]
    <2>1. C \in Cell /\ C.result = "result" /\ C.turn = cells[c].turn
        BY <1>1 DEF Cell
    <2>2. [cells EXCEPT ![c].result = "result"] = [cells EXCEPT ![c] = C]
        OBVIOUS
    <2> HIDE DEF C
    <2> QED
        BY <2>1, <2>2
<1> QED
    BY <1>2, <1>3

LEMMA StatusSet ==
    ASSUME StoreTypes, NEW t \in DOMAIN status, NEW final \in Status, status' = [status EXCEPT ![t] = final]
    PROVE  /\ status' \in Seq(Status) /\ Len(status') = Len(status) /\ DOMAIN status' = DOMAIN status
           /\ status'[t] = final
           /\ \A u \in DOMAIN status \ {t} : status'[u] = status[u]
    BY DEF StoreTypes

LEMMA NewThread ==
    ASSUME NEW pc \in Place, NEW t \in 0..MaxTurns, NEW whole \in BOOLEAN, NEW ids \in SUBSET Citation
    PROVE  LET W == Thread(pc, t, whole, ids)
           IN  W \in Worker /\ W.at = pc /\ W.turn = t /\ W.whole = whole /\ W.ids = ids /\ W.frozen = {}
<1>1. (pc = "user") \in BOOLEAN
    OBVIOUS
<1> QED
    BY <1>1 DEF Thread, Worker

\* Why nothing below has to look at the types again: the rest of Base follows
\* from the types and from what the thread that moves brings along.
LEMMA BaseMoves ==
    ASSUME Base, NEW w \in DOMAIN workers, NEW W \in Worker, workers' = [workers EXCEPT ![w] = W],
           StoreTypes', Honest(W)', linked' \subseteq executed',
           DOMAIN status \subseteq DOMAIN status', executed \subseteq executed'
    PROVE  Base'
<1>1. workers \in Seq(Worker) /\ Len(workers) <= MaxWorkers
    BY DEF Base, WorkerTypes
<1>2. /\ workers' \in Seq(Worker) /\ Len(workers') = Len(workers) /\ DOMAIN workers' = DOMAIN workers
      /\ workers'[w] = W /\ \A v \in DOMAIN workers \ {w} : workers'[v] = workers[v]
    BY <1>1
<1>3. ASSUME NEW v \in DOMAIN workers, NEW V \in Worker, workers'[v] = V PROVE Honest(V)'
    <2>1. CASE v = w
        BY <1>2, <1>3, <2>1
    <2>2. CASE v # w
        <3>1. Honest(V)
            BY <1>2, <1>3, <2>2 DEF Base
        <3> QED
            BY <3>1 DEF Honest
    <2> QED
        BY <2>1, <2>2
<1> QED
    BY <1>1, <1>2, <1>3 DEF Base, WorkerTypes

LEMMA BaseStarts ==
    ASSUME Base, NEW W \in Worker, Spawn(W), StoreTypes', Honest(W)', linked' \subseteq executed',
           DOMAIN status \subseteq DOMAIN status', executed \subseteq executed'
    PROVE  Base'
<1>1. workers \in Seq(Worker) /\ Len(workers) < MaxWorkers /\ workers' = Append(workers, W)
    BY DEF Base, WorkerTypes, Spawn
<1> DEFINE n == Len(workers) + 1
<1>2. /\ workers' \in Seq(Worker) /\ Len(workers') = n /\ Len(workers) \in Nat
      /\ DOMAIN workers' = DOMAIN workers \cup {n} /\ n \notin DOMAIN workers
      /\ workers'[n] = W /\ \A v \in DOMAIN workers : workers'[v] = workers[v]
    BY <1>1
<1>3. WorkerTypes'
    BY <1>1, <1>2, ToolTurnAssumption DEF WorkerTypes
<1> HIDE DEF n
<1>4. ASSUME NEW v \in DOMAIN workers', NEW V \in Worker, workers'[v] = V PROVE Honest(V)'
    <2>1. CASE v = n
        BY <1>2, <1>4, <2>1
    <2>2. CASE v # n
        <3>1. Honest(V)
            BY <1>2, <1>4, <2>2 DEF Base
        <3> QED
            BY <3>1 DEF Honest
    <2> QED
        BY <2>1, <2>2
<1> QED
    BY <1>3, <1>4 DEF Base

LEMMA BaseThread ==
    ASSUME Base, NEW w \in DOMAIN workers
    PROVE  \E V \in Worker : V = workers[w] /\ Honest(V)
    BY DEF Base, WorkerTypes

\* A thread goes on, and what it carries stays.
LEMMA BaseGoes ==
    ASSUME Base, NEW w \in DOMAIN workers, NEW pc \in Place, Go(w, pc),
           StoreTypes', linked' \subseteq executed',
           DOMAIN status \subseteq DOMAIN status', executed \subseteq executed',
           workers[w].at \in {"check", "read", "done"} => pc \in {"check", "read", "done"},
           pc = "insert" => workers[w].at = "insert",
           pc = "tools" => workers[w].ids \cap Call \subseteq executed'
    PROVE  Base'
<1>1. PICK V \in Worker : V = workers[w] /\ Honest(V)
    BY BaseThread
<1> DEFINE W == Moved(V, pc)
<1>2. /\ W \in Worker /\ W.at = pc /\ W.turn = V.turn /\ W.ids = V.ids /\ W.frozen = V.frozen
    BY MovesTyped
<1>3. workers' = [workers EXCEPT ![w] = W]
    BY <1>1, GoesTyped DEF Base
<1> HIDE DEF W
<1>4. Honest(W)'
    BY <1>1, <1>2 DEF Honest
<1> QED
    BY <1>2, <1>3, <1>4, BaseMoves

\* A message the graph may hold is added.
LEMMA SaidLegal ==
    ASSUME graph \in Seq(Legal), NEW kind \in {"human", "calls", "tools", "answer"}, NEW of \in SUBSET Citation,
           kind = "calls" => of \subseteq Call
    PROVE  Say(kind, of) \in Seq(Legal)
<1>1. [kind |-> kind, of |-> of] \in Legal
    BY DEF Legal, Message
<1> QED
    BY <1>1 DEF Say

LEMMA InFlightLegal ==
    ASSUME graph \in Seq(Legal), NEW w, NEW g \in InFlight(w)
    PROVE  g \in Seq(Legal)
<1>1. CASE g = graph
    BY <1>1
<1>2. CASE g = Say("answer", {})
    BY <1>2, SaidLegal
<1>3. ASSUME NEW c \in Call, g = Say("calls", {c}) PROVE g \in Seq(Legal)
    <2>1. {c} \in SUBSET Citation /\ {c} \subseteq Call
        BY DEF Citation
    <2> QED
        BY <1>3, <2>1, SaidLegal
<1>4. CASE g = WithoutLastCalls(graph)
    BY <1>4, LegalEdits
<1> QED
    BY <1>1, <1>2, <1>3, <1>4 DEF InFlight, At

\* What the model has before it is made of citations.
LEMMA ContextCitations == ASSUME graph \in Seq(Legal) PROVE Context \subseteq Citation
<1>1. \A i \in DOMAIN graph : graph[i] \in Message
    BY DEF Legal
<1>2. \A i \in DOMAIN graph : graph[i].of \subseteq Citation
    BY <1>1 DEF Message
<1> QED
    BY <1>2 DEF Context, OfKind

LEMMA BaseTurn ==
    ASSUME Base
    PROVE  /\ DOMAIN status \subseteq Turn /\ Turn \subseteq 0..MaxTurns
           /\ \A w \in DOMAIN workers :
                  workers[w].at \notin {"check", "read", "done"} => workers[w].turn \in DOMAIN status
<1>1. status \in Seq(Status) /\ Len(status) <= MaxTurns /\ MaxTurns \in Nat
    BY ToolTurnAssumption DEF Base, StoreTypes
<1>2. DOMAIN status \subseteq Turn /\ Turn \subseteq 0..MaxTurns
    BY <1>1 DEF Turn
<1>3. ASSUME NEW w \in DOMAIN workers, workers[w].at \notin {"check", "read", "done"}
      PROVE  workers[w].turn \in DOMAIN status
    <2>1. PICK V \in Worker : V = workers[w] /\ Honest(V)
        BY BaseThread
    <2> QED
        BY <1>3, <2>1 DEF Honest
<1> QED
    BY <1>2, <1>3

\* A thread that makes a question, calls or an answer of the model's.
LEMMA BaseAsks ==
    ASSUME Base, NEW w \in DOMAIN workers, Ask(w) \/ CallTools(w) \/ Draft(w) \/ ToolsDone(w)
    PROVE  Base'
<1>1. UNCHANGED <<status, cells, flags, linked, history>>
    BY DEF Ask, CallTools, Draft, ToolsDone
<1>2. PICK V \in Worker : V = workers[w] /\ Honest(V)
    BY BaseThread
<1>3. PICK pc \in {"agent", "insert", "final"}, kind \in {"human", "calls", "tools", "answer"}, of \in SUBSET Citation :
          /\ graph' = Say(kind, of) /\ (kind = "calls" <=> pc = "insert") /\ (pc = "insert" => of \subseteq Call)
          /\ workers[w].at \in {"user", "agent", "tools"}
          /\ \/ Go(w, pc) /\ pc = "agent"
             \/ workers' = [workers EXCEPT ![w].at = pc, ![w].ids = of]
    <2>1. CASE Ask(w)
        BY <2>1 DEF Ask, At
    <2>2. CASE CallTools(w)
        <3>1. PICK calls \in SUBSET Fresh :
                  /\ graph' = Say("calls", calls)
                  /\ workers' = [workers EXCEPT ![w].at = "insert", ![w].ids = calls]
                  /\ workers[w].at = "agent"
            BY <2>2 DEF CallTools, At
        <3>2. calls \subseteq Call /\ calls \in SUBSET Citation
            BY DEF Fresh, Citation
        <3> QED
            BY <3>1, <3>2
    <2>3. CASE Draft(w)
        <3>1. PICK cites \in {{}} \cup {{c} : c \in Context \cup {Foreign}} :
                  /\ graph' = Say("answer", cites)
                  /\ workers' = [workers EXCEPT ![w].at = "final", ![w].ids = cites]
                  /\ workers[w].at = "agent"
            BY <2>3 DEF Draft, At
        <3>2. cites \in SUBSET Citation
            BY ContextCitations DEF Base, StoreTypes, Citation
        <3> QED
            BY <3>1, <3>2
    <2>4. CASE ToolsDone(w)
        <3>1. graph' = Say("tools", V.ids) /\ Go(w, "agent") /\ workers[w].at = "tools"
            BY <1>2, <2>4 DEF ToolsDone, At
        <3>2. V.ids \in SUBSET Citation
            BY DEF Worker
        <3> QED
            BY <3>1, <3>2
    <2> QED
        BY <2>1, <2>2, <2>3, <2>4
<1>4. StoreTypes' /\ linked' \subseteq executed'
    <2>1. graph' \in Seq(Legal)
        BY <1>3, SaidLegal DEF Base, StoreTypes
    <2> QED
        BY <1>1, <2>1 DEF Base, StoreTypes, flags, history
<1>5. CASE Go(w, pc) /\ pc = "agent"
    <2>1. pc \in Place
        BY <1>5 DEF Place, Driving
    <2> QED
        BY <1>1, <1>3, <1>4, <1>5, <2>1, BaseGoes DEF history
<1>6. CASE workers' = [workers EXCEPT ![w].at = pc, ![w].ids = of]
    <2> DEFINE W == As(V, pc, V.turn, of, V.frozen)
    <2>1. /\ W \in Worker /\ W.at = pc /\ W.turn = V.turn /\ W.ids = of /\ W.frozen = V.frozen
        <3>1. pc \in Place /\ V.turn \in 0..MaxTurns /\ V.frozen \in SUBSET Call
            BY DEF Place, Driving, Worker
        <3> QED
            BY <3>1, AsTyped
    <2>2. workers' = [workers EXCEPT ![w] = W]
        <3>1. workers' = [workers EXCEPT ![w] = [V EXCEPT !.at = pc, !.ids = of]]
            BY <1>2, <1>6 DEF Base, WorkerTypes
        <3> QED
            BY <3>1, AsIs
    <2> HIDE DEF W
    <2>3. Honest(W)'
        BY <1>1, <1>2, <1>3, <2>1 DEF Honest, history
    <2> QED
        BY <1>1, <1>4, <2>1, <2>2, <2>3, BaseMoves DEF history
<1> QED
    BY <1>3, <1>5, <1>6

\* The tools are called, run, and return.
LEMMA BaseTools ==
    ASSUME Base, NEW w \in DOMAIN workers,
           AddCell(w) \/ ToolReturns(w) \/ Trim(w) \/ Drive(w)
    PROVE  Base'
<1>1. PICK V \in Worker : V = workers[w] /\ Honest(V)
    BY BaseThread
<1>2. V.turn \in 0..MaxTurns /\ V.frozen \in SUBSET Call /\ cells \in [Call -> Cell] /\ graph \in Seq(Legal)
    BY DEF Worker, Base, StoreTypes
<1>3. CASE AddCell(w)
    <2>1. PICK c \in V.ids, pc \in {"insert", "gate", "tools"} :
              /\ cells' = [cells EXCEPT ![c].turn = V.turn]
              /\ (pc = "insert" /\ workers' = workers) \/ Go(w, pc)
              /\ executed' = executed \/ executed' = executed \cup V.ids
              /\ pc = "tools" => V.ids \subseteq executed'
        <3>1. PICK c \in V.ids :
                  /\ cells' = [cells EXCEPT ![c].turn = V.turn]
                  /\ IF \E d \in V.ids \ {c} : cells[d].turn = 0
                     THEN UNCHANGED <<workers, executed>>
                     ELSE /\ Go(w, IF Gate THEN "gate" ELSE "tools")
                          /\ executed' = IF Gate THEN executed ELSE executed \cup V.ids
            BY <1>1, <1>3 DEF AddCell
        <3>2. CASE \E d \in V.ids \ {c} : cells[d].turn = 0
            BY <3>1, <3>2
        <3>3. CASE ~ (\E d \in V.ids \ {c} : cells[d].turn = 0) /\ Gate
            BY <3>1, <3>3
        <3>4. CASE ~ (\E d \in V.ids \ {c} : cells[d].turn = 0) /\ ~ Gate
            BY <3>1, <3>4
        <3> QED
            BY <3>2, <3>3, <3>4
    <2>2. V.at = "insert" /\ V.ids \subseteq Call
        BY <1>1, <1>3 DEF AddCell, At, Honest
    <2>3. cells' \in [Call -> Cell]
        <3>1. c \in Call
            BY <2>2
        <3>2. [cells EXCEPT ![c].turn = V.turn] \in [Call -> Cell]
            BY <1>2, <3>1, CellsPut
        <3> QED
            BY <2>1, <3>2
    <2>4. UNCHANGED <<status, graph, flags, linked, shown, granted, blamed, failed, cut>>
        BY <1>3 DEF AddCell
    <2>5. /\ StoreTypes' /\ linked' \subseteq executed' /\ executed \subseteq executed'
        BY <2>1, <2>2, <2>3, <2>4 DEF Base, StoreTypes, flags
    <2>6. CASE workers' = workers
        <3>1. ASSUME NEW v \in DOMAIN workers, NEW U \in Worker, workers[v] = U PROVE Honest(U)'
            BY <2>4, <2>5, <3>1 DEF Base, Honest
        <3> QED
            BY <2>5, <2>6, <3>1 DEF Base, WorkerTypes
    <2>7. CASE Go(w, pc)
        <3>1. pc \in Place
            BY DEF Place, Driving
        <3> QED
            BY <1>1, <2>1, <2>2, <2>4, <2>5, <2>7, <3>1, BaseGoes
    <2> QED
        BY <2>1, <2>6, <2>7
<1>4. CASE ToolReturns(w)
    <2>1. PICK c \in (V.ids \cap Call) \ V.frozen :
              /\ cells' = cells \/ cells' = [cells EXCEPT ![c].result = "result"]
              /\ workers' = [workers EXCEPT ![w].frozen = @ \cup {c}]
        BY <1>1, <1>4 DEF ToolReturns
    <2>2. V.at = "tools" /\ c \in executed /\ V.turn \in DOMAIN status /\ V.frozen \subseteq executed
        BY <1>1, <1>4 DEF ToolReturns, At, Honest
    <2>3. UNCHANGED <<status, graph, flags, linked, history>> /\ cells' \in [Call -> Cell]
        BY <1>2, <1>4, <2>1, CellsPut DEF ToolReturns
    <2>4. StoreTypes' /\ linked' \subseteq executed'
        BY <2>3 DEF Base, StoreTypes, flags, history
    <2> DEFINE W == As(V, "tools", V.turn, V.ids, V.frozen \cup {c})
    <2>5. /\ W \in Worker /\ W.at = "tools" /\ W.turn = V.turn /\ W.ids = V.ids
          /\ W.frozen = V.frozen \cup {c}
        <3>1. "tools" \in Place /\ V.ids \in SUBSET Citation /\ V.frozen \cup {c} \in SUBSET Call
            BY <1>2 DEF Place, Driving, Worker
        <3> QED
            BY <1>2, <3>1, AsTyped
    <2>6. workers' = [workers EXCEPT ![w] = W]
        <3>1. workers' = [workers EXCEPT ![w] = [V EXCEPT !.frozen = V.frozen \cup {c}]]
            BY <1>1, <2>1 DEF Base, WorkerTypes
        <3>2. [V EXCEPT !.frozen = V.frozen \cup {c}] = W
            BY <2>2 DEF As, Worker
        <3> QED
            BY <3>1, <3>2
    <2> HIDE DEF W
    <2>7. Honest(W)'
        BY <1>1, <2>2, <2>3, <2>5 DEF Honest, history
    <2> QED
        BY <2>3, <2>4, <2>5, <2>6, <2>7, BaseMoves DEF history
<1>5. CASE Trim(w)
    <2>1. UNCHANGED <<status, cells, flags, linked, history>> /\ V.at = "trim" /\ V.turn \in DOMAIN status
        BY <1>1, <1>5 DEF Trim, At, Honest
    <2>2. graph' \in Seq(Legal)
        BY <1>2, <1>5, LegalEdits DEF Trim
    <2>3. StoreTypes' /\ linked' \subseteq executed'
        BY <2>1, <2>2 DEF Base, StoreTypes, flags, history
    <2>4. PICK refused \in SUBSET Citation :
              workers' = [workers EXCEPT ![w] = [V EXCEPT !.at = "mark cells", !.ids = refused]]
        <3> DEFINE calls == OfKind(graph, "calls")
                   ids == IF calls = {} THEN {} ELSE graph[Last(calls)].of \ V.ids
        <3>1. workers' = [workers EXCEPT ![w] = [V EXCEPT !.at = "mark cells", !.ids = ids]]
            BY <1>1, <1>5 DEF Trim, Base, WorkerTypes
        <3>2. ids \in SUBSET Citation
            <4>1. calls \in SUBSET DOMAIN graph /\ graph \in Seq(Message)
                BY <1>2 DEF OfKind, Legal
            <4>2. calls # {} => Last(calls) \in calls
                <5> HIDE DEF calls
                <5> QED
                    BY <4>1, LastIs
            <4>3. \A i \in DOMAIN graph : graph[i] \in Message
                BY <4>1
            <4>4. calls # {} => graph[Last(calls)].of \subseteq Citation
                BY <4>1, <4>2, <4>3 DEF Message
            <4> QED
                BY <4>4
        <3> HIDE DEF ids
        <3> QED
            BY <3>1, <3>2
    <2> DEFINE W == As(V, "mark cells", V.turn, refused, V.frozen)
    <2>5. /\ W \in Worker /\ W.at = "mark cells" /\ W.turn = V.turn /\ W.frozen = V.frozen
        <3>1. "mark cells" \in Place /\ V.turn \in 0..MaxTurns /\ V.frozen \in SUBSET Call
            BY <1>2 DEF Place, Driving
        <3> QED
            BY <3>1 DEF As, Worker
    <2>6. workers' = [workers EXCEPT ![w] = W]
        BY <2>4, AsIs
    <2> HIDE DEF W
    <2>7. Honest(W)'
        BY <1>1, <2>1, <2>5 DEF Honest, history
    <2> QED
        BY <2>1, <2>3, <2>5, <2>6, <2>7, BaseMoves DEF history
<1>6. CASE Drive(w)
    <2>1. /\ UNCHANGED <<stores, flags, linked, shown, granted, blamed, failed, cut>>
          /\ executed' = executed \cup Open(graph) /\ V.at = "drive" /\ V.turn \in DOMAIN status
        BY <1>1, <1>6 DEF Drive, At, Honest
    <2>2. Open(graph) \subseteq Call /\ Open(graph) \in SUBSET Citation
        BY <1>2, LegalEdits DEF Citation
    <2>3. StoreTypes' /\ linked' \subseteq executed'
        BY <2>1, <2>2 DEF Base, StoreTypes, stores, flags
    <2> PICK ids \in SUBSET Citation : ids = Open(graph)
        BY <2>2
    <2>4. PICK pc \in {"final", "tools"}, heeds \in BOOLEAN : workers' =
              [workers EXCEPT ![w] = Heeding(V, pc, ids, heeds)]
        <3> DEFINE pc == IF Open(graph) = {} THEN "final" ELSE "tools"
                   heeds == V.turn \in flagged
        <3>1. workers' = [workers EXCEPT ![w] = Heeding(V, pc, ids, heeds)]
            BY <1>1, <1>6 DEF Drive, Base, WorkerTypes, Heeding
        <3>2. pc \in {"final", "tools"} /\ heeds \in BOOLEAN
            OBVIOUS
        <3> HIDE DEF pc, heeds
        <3> QED
            BY <3>1, <3>2
    <2> DEFINE W == Heeding(V, pc, ids, heeds)
    <2>5. /\ W \in Worker /\ W.at = pc /\ W.turn = V.turn /\ W.ids = ids /\ W.frozen = V.frozen
        <3>1. pc \in Place
            BY DEF Place, Driving
        <3> QED
            BY <2>2, <3>1, MovedHeeds
    <2>6. workers' = [workers EXCEPT ![w] = W]
        BY <2>4
    <2> HIDE DEF W
    <2>7. Honest(W)'
        BY <1>1, <2>1, <2>5 DEF Honest, stores
    <2> QED
        BY <2>1, <2>3, <2>5, <2>6, <2>7, BaseMoves DEF stores
<1> QED
    BY <1>3, <1>4, <1>5, <1>6

\* What a thread does to the stores, they keep their types.
LEMMA StatusTyped ==
    ASSUME Base, NEW t \in DOMAIN status, NEW s \in Status, status' = status \/ To(t, s)
    PROVE  status' \in Seq(Status) /\ Len(status') = Len(status) /\ DOMAIN status' = DOMAIN status
<1>1. StoreTypes /\ status \in Seq(Status)
    BY DEF Base, StoreTypes
<1>2. CASE To(t, s)
    BY <1>1, <1>2, StatusSet DEF To
<1> QED
    BY <1>1, <1>2

LEMMA FlagsTyped ==
    ASSUME Base, NEW t \in Turn, Forget(t) \/ UNCHANGED flags
    PROVE  flagged' \subseteq Turn /\ stopping' \subseteq Turn
    BY DEF Base, StoreTypes, Forget, flags

\* A run pauses, or waits to.
LEMMA BasePauses ==
    ASSUME Base, NEW w \in DOMAIN workers,
           AskApproval(w) \/ MarkPending(w) \/ PopFlag(w) \/ PauseFails(w)
    PROVE  Base'
<1> PICK t : t = workers[w].turn
    OBVIOUS
<1>1. workers[w].at \in {"gate", "mark", "pop"} /\ t \in DOMAIN status /\ t \in Turn
    <2>1. workers[w].at \in {"gate", "mark", "pop"}
        BY DEF AskApproval, MarkPending, PopFlag, PauseFails, At
    <2> QED
        BY <2>1, BaseTurn
<1>2. UNCHANGED <<graph, linked, granted, executed, blamed>>
    BY DEF AskApproval, MarkPending, PopFlag, PauseFails, stores, history
<1>3. PICK pc \in {"mark", "pop", "done"} : Go(w, pc)
    BY DEF AskApproval, MarkPending, PopFlag, PauseFails
<1>4. status' \in Seq(Status) /\ Len(status') = Len(status) /\ DOMAIN status' = DOMAIN status
    <2>1. \E s \in Status : status' = status \/ To(t, s)
        BY DEF AskApproval, MarkPending, PopFlag, PauseFails, Fails, stores, Status, Active
    <2> QED
        BY <1>1, <2>1, StatusTyped
<1>5. cells' \in [Call -> Cell]
    <2>1. cells \in [Call -> Cell]
        BY DEF Base, StoreTypes
    <2>2. cells' \in {cells, Approval(t, "pending"), Resolved(cells, t, "marker")}
        BY DEF AskApproval, MarkPending, PopFlag, PauseFails, Fails, stores
    <2> QED
        BY <2>1, <2>2, ApprovalCells, ResolvedCells
<1>6. flagged' \subseteq Turn /\ stopping' \subseteq Turn
    <2>1. Forget(t) \/ UNCHANGED flags \/ (flagged' = flagged \ {t} /\ stopping' = stopping)
        BY DEF AskApproval, MarkPending, PopFlag, PauseFails, flags
    <2>2. flagged \subseteq Turn /\ stopping \subseteq Turn
        BY DEF Base, StoreTypes
    <2> QED
        BY <1>1, <2>1, <2>2, FlagsTyped
<1>7. shown' \subseteq SUBSET Call
    <2>1. shown' \in {shown, shown \cup {Pending(t)}}
        BY DEF AskApproval, MarkPending, PopFlag, PauseFails, history
    <2> QED
        BY <2>1 DEF Pending, Base, StoreTypes
<1>8. cut' \in BOOLEAN
    <2>1. cut \in BOOLEAN
        BY DEF Base, StoreTypes
    <2>2. CASE PauseFails(w)
        BY <2>2 DEF PauseFails
    <2>3. CASE cut' = cut
        BY <2>1, <2>3
    <2> QED
        BY <2>2, <2>3 DEF AskApproval, MarkPending, PopFlag, history
<1>9. failed' \subseteq {"graph", "cells"}
    <2>1. failed \subseteq {"graph", "cells"}
        BY DEF Base, StoreTypes
    <2>2. failed' \in {failed, failed \cup {"cells"}}
        BY DEF AskApproval, MarkPending, PopFlag, PauseFails, Fails, history
    <2> QED
        BY <2>1, <2>2
<1>10. StoreTypes' /\ linked' \subseteq executed'
    BY <1>2, <1>4, <1>5, <1>6, <1>7, <1>8, <1>9 DEF Base, StoreTypes
<1>11. pc \in Place
    BY DEF Place
<1> QED
    BY <1>1, <1>2, <1>3, <1>4, <1>10, <1>11, BaseGoes

\* A pump ends.
LEMMA BaseEnds ==
    ASSUME Base, NEW w \in DOMAIN workers,
           Finalize(w) \/ Stopped(w) \/ StreamFails(w) \/ WorkerDies(w) \/ EndRow(w) \/ CleanupFails(w)
    PROVE  Base'
<1> PICK t : t = workers[w].turn
    OBVIOUS
<1>1. workers[w].at \notin {"check", "read", "done"} /\ t \in DOMAIN status /\ t \in Turn
    <2>1. workers[w].at \notin {"check", "read", "done"}
        BY DEF Finalize, Stopped, StreamFails, WorkerDies, EndRow, CleanupFails, At
    <2> QED
        BY <2>1, BaseTurn
<1>2. UNCHANGED <<shown, granted, executed>> /\ Go(w, "done")
    BY DEF Finalize, Stopped, StreamFails, WorkerDies, EndRow, CleanupFails
<1>3. status' \in Seq(Status) /\ Len(status') = Len(status) /\ DOMAIN status' = DOMAIN status
    <2>1. \E s \in Status : status' = status \/ To(t, s)
        <3>1. {"error", "completed", "interrupted"} \subseteq Status
            BY DEF Status
        <3>2. CASE Finalize(w)
            BY <3>1, <3>2 DEF Finalize
        <3>3. CASE Stopped(w)
            BY <3>1, <3>3 DEF Stopped, Fails, To
        <3>4. CASE StreamFails(w)
            BY <3>1, <3>4 DEF StreamFails, Fails
        <3>5. CASE EndRow(w)
            BY <3>1, <3>5 DEF EndRow
        <3>6. CASE WorkerDies(w) \/ CleanupFails(w)
            BY <3>1, <3>6 DEF WorkerDies, CleanupFails, stores
        <3> QED
            BY <3>2, <3>3, <3>4, <3>5, <3>6
    <2> QED
        BY <1>1, <2>1, StatusTyped
<1>4. cells' \in [Call -> Cell]
    <2>1. cells \in [Call -> Cell]
        BY DEF Base, StoreTypes
    <2>2. cells' \in {cells, Resolved(cells, t, "marker")}
        BY DEF Finalize, Stopped, StreamFails, Fails, WorkerDies, EndRow, CleanupFails, stores
    <2> QED
        BY <2>1, <2>2, ResolvedCells
<1>5. graph' \in Seq(Legal)
    <2>1. graph \in Seq(Legal)
        BY DEF Base, StoreTypes
    <2>2. CASE Stopped(w)
        <3>1. PICK g \in InFlight(w) : graph' = Cleared(g) \/ graph' = g
            BY <2>2 DEF Stopped
        <3> QED
            BY <2>1, <3>1, InFlightLegal, LegalEdits
    <2>3. CASE StreamFails(w)
        BY <2>1, <2>3, InFlightLegal DEF StreamFails
    <2>4. CASE graph' = graph
        BY <2>1, <2>4
    <2> QED
        BY <2>2, <2>3, <2>4 DEF Finalize, WorkerDies, EndRow, CleanupFails, stores
<1>6. flagged' \subseteq Turn /\ stopping' \subseteq Turn
    <2>1. Forget(t) \/ UNCHANGED flags
        BY DEF Finalize, Stopped, StreamFails, WorkerDies, EndRow, CleanupFails, flags
    <2> QED
        BY <1>1, <2>1, FlagsTyped
<1>7. linked' \subseteq executed /\ linked' \subseteq Citation /\ blamed' \subseteq Citation
    <2>1. PICK V \in Worker : V = workers[w] /\ Honest(V)
        BY BaseThread
    <2>2. /\ V.ids \subseteq Citation /\ linked \subseteq Citation /\ blamed \subseteq Citation
          /\ linked \subseteq executed /\ V.frozen \subseteq executed /\ executed \subseteq Citation
        BY <2>1 DEF Honest, Worker, Base, StoreTypes, Citation
    <2>3. CASE Finalize(w)
        <3>1. Valid(w) \subseteq executed
            BY <2>1, <2>2 DEF Valid
        <3>2. \/ linked' = linked /\ blamed' = blamed
              \/ linked' = linked /\ blamed' = blamed \cup (V.ids \ Valid(w))
              \/ linked' = linked \cup V.ids /\ blamed' = blamed /\ V.ids \ Valid(w) = {}
            BY <2>1, <2>3 DEF Finalize
        <3> QED
            BY <2>2, <3>1, <3>2
    <2>4. CASE linked' = linked /\ blamed' = blamed
        BY <2>2, <2>4
    <2> QED
        BY <2>3, <2>4 DEF Stopped, StreamFails, WorkerDies, EndRow, CleanupFails
<1>8. failed' \subseteq {"graph", "cells"}
    <2>1. failed \subseteq {"graph", "cells"}
        BY DEF Base, StoreTypes
    <2>2. CASE Stopped(w)
        <3>1. PICK undone \in {{}, {"graph"}} : failed' = failed \cup undone \/ Fails(t, undone)
            BY <2>2 DEF Stopped
        <3> QED
            BY <2>1, <3>1 DEF Fails
    <2>3. CASE StreamFails(w)
        <3>1. PICK undone \in {{}, {"graph"}} : Fails(t, undone)
            BY <2>3 DEF StreamFails
        <3> QED
            BY <2>1, <3>1 DEF Fails
    <2>4. CASE Finalize(w) \/ WorkerDies(w)
        BY <2>1, <2>4 DEF Finalize, WorkerDies
    <2>5. CASE EndRow(w) \/ CleanupFails(w)
        BY <2>1, <2>5 DEF EndRow, CleanupFails
    <2> QED
        BY <2>2, <2>3, <2>4, <2>5
<1>9. cut' \in BOOLEAN
    <2>1. cut \in BOOLEAN
        BY DEF Base, StoreTypes
    <2>2. cut' = cut \/ cut' = (cut \/ Driven(t))
        BY DEF Finalize, Stopped, StreamFails, WorkerDies, EndRow, CleanupFails
    <2> QED
        BY <2>1, <2>2
<1>10. StoreTypes' /\ linked' \subseteq executed'
    BY <1>2, <1>3, <1>4, <1>5, <1>6, <1>7, <1>8, <1>9 DEF Base, StoreTypes
<1>11. "done" \in Place
    BY DEF Place
<1> QED
    BY <1>1, <1>2, <1>3, <1>10, <1>11, BaseGoes

\* A decision is taken, and carried out.
LEMMA BaseDecides ==
    ASSUME Base, NEW w \in DOMAIN workers,
           CheckDecision(w) \/ Win(w) \/ SetDefault(w) \/ MarkDecided(w) \/ CloseCells(w) \/ RejectPending(w)
    PROVE  Base'
<1> PICK t : t = workers[w].turn
    OBVIOUS
<1>1. /\ UNCHANGED <<linked, shown, executed, blamed, failed, cut>>
    BY DEF CheckDecision, Win, SetDefault, MarkDecided, CloseCells, RejectPending, history
<1>2. PICK pc \in {"read", "done", "cells", "flag", "mark cells", "trim", "drive", "clear"} :
          /\ Go(w, pc)
          /\ workers[w].at = "check" => pc \in {"read", "done"}
          /\ workers[w].at \in {"check", "cas", "flag", "mark cells", "cells", "clear"}
    <2>1. CASE CheckDecision(w)
        BY <2>1 DEF CheckDecision, At
    <2>2. CASE Win(w)
        BY <2>2 DEF Win, At
    <2>3. CASE SetDefault(w)
        BY <2>3 DEF SetDefault, At
    <2>4. CASE MarkDecided(w) \/ CloseCells(w) \/ RejectPending(w)
        BY <2>4 DEF MarkDecided, CloseCells, RejectPending, At
    <2> QED
        BY <2>1, <2>2, <2>3, <2>4
<1>3. workers[w].at # "check" => t \in DOMAIN status /\ t \in Turn
    BY <1>2, BaseTurn
<1>4. status' \in Seq(Status) /\ DOMAIN status' = DOMAIN status /\ Len(status') = Len(status)
    <2>1. CASE Win(w)
        <3>1. \E s \in Status : status' = status \/ To(t, s)
            BY <2>1 DEF Win, Status, Active
        <3>2. t \in DOMAIN status
            BY <1>3, <2>1 DEF Win, At
        <3> QED
            BY <3>1, <3>2, StatusTyped
    <2>2. CASE ~ Win(w)
        <3>1. status' = status
            BY <2>2 DEF CheckDecision, SetDefault, MarkDecided, CloseCells, RejectPending, stores
        <3> QED
            BY <3>1 DEF Base, StoreTypes
    <2> QED
        BY <2>1, <2>2
<1>5. cells' \in [Call -> Cell]
    <2>1. cells \in [Call -> Cell]
        BY DEF Base, StoreTypes
    <2>2. CASE MarkDecided(w)
        <3> PICK refused : refused = workers[w].ids
            OBVIOUS
        <3>1. cells' = Approval(t, "approved") \/ cells' = PartiallyApproved(t, refused)
            BY <2>2 DEF MarkDecided
        <3>2. Approval(t, "approved") \in [Call -> Cell]
            BY <2>1, ApprovalCells
        <3>3. PartiallyApproved(t, refused) \in [Call -> Cell]
            BY <2>1, PartialCells
        <3> QED
            BY <3>1, <3>2, <3>3
    <2>3. CASE CloseCells(w)
        <3>1. PICK marker \in {"refused", "marker"} : cells' = Resolved(Approval(t, "rejected"), t, marker)
            BY <2>3 DEF CloseCells
        <3>2. Approval(t, "rejected") \in [Call -> Cell]
            BY <2>1, ApprovalCells
        <3> QED
            BY <3>1, <3>2, ResolvedCells
    <2>4. CASE cells' = cells
        BY <2>1, <2>4
    <2> QED
        BY <2>2, <2>3, <2>4 DEF CheckDecision, Win, SetDefault, RejectPending, stores
<1>6. graph' \in Seq(Legal)
    <2>1. graph' \in {graph, WithoutLastCalls(graph)}
        BY DEF CheckDecision, Win, SetDefault, MarkDecided, CloseCells, RejectPending, stores
    <2> QED
        BY <2>1, LegalEdits DEF Base, StoreTypes
<1>7. flagged' \subseteq Turn /\ stopping' \subseteq Turn
    <2>1. flagged \subseteq Turn /\ stopping \subseteq Turn
        BY DEF Base, StoreTypes
    <2>2. CASE SetDefault(w)
        <3>1. t \in Turn
            BY <1>3, <2>2 DEF SetDefault, At
        <3>2. flagged' = flagged \cup {t} /\ stopping' \subseteq stopping
            BY <2>2 DEF SetDefault
        <3> QED
            BY <2>1, <3>1, <3>2
    <2>3. CASE UNCHANGED flags
        BY <2>1, <2>3 DEF flags
    <2> QED
        BY <2>2, <2>3 DEF CheckDecision, Win, MarkDecided, CloseCells, RejectPending
<1>8. granted' \subseteq Call
    <2>1. granted' = granted \/ granted' = granted \cup Pending(t)
        BY DEF CheckDecision, Win, SetDefault, MarkDecided, CloseCells, RejectPending, history
    <2> QED
        BY <2>1 DEF Pending, Base, StoreTypes
<1>9. StoreTypes' /\ linked' \subseteq executed'
    BY <1>1, <1>4, <1>5, <1>6, <1>7, <1>8 DEF Base, StoreTypes
<1>10. pc \in Place
    BY DEF Place, Driving
<1> QED
    BY <1>1, <1>2, <1>4, <1>9, <1>10, BaseGoes

LEMMA BaseReads == ASSUME Base, NEW w \in DOMAIN workers, ReadPending(w) PROVE Base'
<1>1. PICK V \in Worker : V = workers[w] /\ V.at = "read" /\ Honest(V)
    BY BaseThread DEF ReadPending, At
<1>2. UNCHANGED <<stores, flags, linked, history>>
    BY DEF ReadPending
<1>3. StoreTypes' /\ linked' \subseteq executed'
    BY <1>2 DEF Base, StoreTypes, stores, flags, history
<1>4. CASE Awaiting = {}
    <2>1. Go(w, "done") /\ "done" \in Place
        BY <1>4 DEF ReadPending, Place
    <2> QED
        BY <1>2, <1>3, <2>1, BaseGoes DEF stores, history
<1>5. CASE Awaiting # {}
    <2>1. PICK t \in Awaiting : workers' =
              [workers EXCEPT ![w].at = "cas", ![w].turn = t,
                   ![w].ids = IF workers[w].whole THEN {} ELSE @ \cap Pending(t)]
        BY <1>5 DEF ReadPending
    <2>2. t \in DOMAIN status /\ t \in 0..MaxTurns
        BY BaseTurn DEF Awaiting
    <2> PICK ids \in SUBSET Citation : ids = IF V.whole THEN {} ELSE V.ids \cap Pending(t)
        BY DEF Worker
    <2> DEFINE W == As(V, "cas", t, ids, V.frozen)
    <2>3. W \in Worker /\ W.at = "cas" /\ W.turn = t /\ W.frozen = V.frozen
        <3>1. "cas" \in Place /\ V.frozen \in SUBSET Call
            BY DEF Place, Worker
        <3> QED
            BY <2>2, <3>1, AsTyped
    <2>4. workers' = [workers EXCEPT ![w] = W]
        <3>1. workers' = [workers EXCEPT ![w] = [V EXCEPT !.at = "cas", !.turn = t, !.ids = ids]]
            BY <1>1, <2>1 DEF Base, WorkerTypes
        <3>2. [V EXCEPT !.at = "cas", !.turn = t, !.ids = ids] = W
            BY MovedTurn
        <3> QED
            BY <3>1, <3>2
    <2> HIDE DEF W
    <2>5. Honest(W)'
        BY <1>1, <1>2, <2>2, <2>3 DEF Honest, stores, history
    <2> QED
        BY <1>2, <1>3, <2>3, <2>4, <2>5, BaseMoves DEF stores, history
<1> QED
    BY <1>4, <1>5


\* A question, a decision, a stop: threads that begin. A sweep, which is not one.
LEMMA BasePost == ASSUME Base, Post PROVE Base'
<1>1. /\ status \in Seq(Status) /\ Len(status) < MaxTurns /\ status' = Append(status, "running")
      /\ flagged' = flagged \cup {Len(status) + 1} /\ flagged \subseteq Turn
      /\ UNCHANGED <<cells, graph, stopping, linked, history>>
    BY DEF Post, Base, StoreTypes
<1>2. /\ status' \in Seq(Status) /\ Len(status') <= MaxTurns /\ Len(status) + 1 \in Turn
      /\ DOMAIN status \subseteq DOMAIN status' /\ Len(status) + 1 \in DOMAIN status'
    <2>1. "running" \in Status /\ MaxTurns \in Nat /\ Len(status) \in Nat
        BY <1>1, ToolTurnAssumption DEF Status, Active
    <2>2. status' \in Seq(Status) /\ Len(status') = Len(status) + 1
        BY <1>1, <2>1
    <2> QED
        BY <1>1, <2>1, <2>2 DEF Turn
<1> PICK n \in Turn : n = Len(status) + 1
    BY <1>2
<1>3. StoreTypes' /\ linked' \subseteq executed'
    <2>1. flagged' \subseteq Turn
        BY <1>1
    <2> QED
        BY <1>1, <1>2, <2>1 DEF Base, StoreTypes, history
<1> PICK W \in Worker : W = Thread("user", n, FALSE, {}) /\ W.at = "user" /\ W.turn = n /\ W.frozen = {}
    <2>1. "user" \in Place /\ n \in 0..MaxTurns
        BY ToolTurnAssumption DEF Place, Driving, Turn
    <2>2. PICK whole \in BOOLEAN, ids \in SUBSET Citation : whole = FALSE /\ ids = {}
        OBVIOUS
    <2>3. LET W == Thread("user", n, whole, ids)
          IN  W \in Worker /\ W.at = "user" /\ W.turn = n /\ W.frozen = {}
        BY <2>1, NewThread
    <2> QED
        BY <2>2, <2>3
<1>4. Honest(W)'
    BY <1>2 DEF Honest
<1>5. Spawn(W)
    BY DEF Post
<1> QED
    BY <1>1, <1>2, <1>3, <1>4, <1>5, BaseStarts DEF history

LEMMA BaseDecide == ASSUME Base, Decide PROVE Base'
<1> PICK calls \in shown : \E ids \in SUBSET calls :
        /\ Spawn(Thread("check", 0, ids = calls, ids))
        /\ granted' = granted \cup ids
        /\ UNCHANGED <<stores, flags, linked, shown, executed, blamed, failed, cut>>
    BY DEF Decide
<1> PICK ids \in SUBSET calls :
        /\ Spawn(Thread("check", 0, ids = calls, ids))
        /\ granted' = granted \cup ids
        /\ UNCHANGED <<stores, flags, linked, shown, executed, blamed, failed, cut>>
    OBVIOUS
<1>1. ids \subseteq Call
    BY DEF Base, StoreTypes
<1>2. StoreTypes' /\ linked' \subseteq executed'
    <2>1. granted' \subseteq Call
        BY <1>1 DEF Base, StoreTypes
    <2> QED
        BY <2>1 DEF Base, StoreTypes, stores, flags
<1> PICK W \in Worker : W = Thread("check", 0, ids = calls, ids) /\ W.at = "check" /\ W.frozen = {}
    <2>1. "check" \in Place /\ 0 \in 0..MaxTurns /\ ids \in SUBSET Citation
        BY <1>1, ToolTurnAssumption DEF Place, Citation
    <2>2. PICK whole \in BOOLEAN : whole = (ids = calls)
        OBVIOUS
    <2>3. LET W == Thread("check", 0, whole, ids) IN W \in Worker /\ W.at = "check" /\ W.frozen = {}
        BY <2>1, NewThread
    <2> QED
        BY <2>2, <2>3
<1>3. Honest(W)'
    BY DEF Honest
<1> QED
    BY <1>2, <1>3, BaseStarts DEF stores

LEMMA BaseStop == ASSUME Base, NEW t \in DOMAIN status, Stop(t) PROVE Base'
<1>1. t \in Turn /\ t \in 0..MaxTurns
    BY ToolTurnAssumption DEF Base, StoreTypes, Turn
<1>2. UNCHANGED <<cells, graph, flagged, linked, history>>
    BY DEF Stop, stores, flags
<1>3. status' \in Seq(Status) /\ Len(status') = Len(status) /\ DOMAIN status' = DOMAIN status
    <2>1. "interrupted" \in Status /\ (status' = status \/ To(t, "interrupted"))
        BY DEF Stop, stores, Status
    <2> QED
        BY <2>1, StatusTyped
<1>4. StoreTypes' /\ linked' \subseteq executed'
    <2>1. stopping' = stopping \/ stopping' = stopping \cup {t}
        BY DEF Stop, flags
    <2> QED
        BY <1>1, <1>2, <1>3, <2>1 DEF Base, StoreTypes, history
<1>5. CASE workers' = workers
    BY <1>2, <1>3, <1>4, <1>5 DEF Base, WorkerTypes, Honest, history
<1>6. ASSUME NEW pc \in {"end", "cells"}, Spawn(Thread(pc, t, FALSE, {})) PROVE Base'
    <2> PICK W \in Worker : W = Thread(pc, t, FALSE, {}) /\ W.at = pc /\ W.turn = t /\ W.frozen = {}
        <3>1. pc \in Place
            BY DEF Place
        <3>2. PICK whole \in BOOLEAN, ids \in SUBSET Citation : whole = FALSE /\ ids = {}
            OBVIOUS
        <3>3. LET W == Thread(pc, t, whole, ids)
              IN  W \in Worker /\ W.at = pc /\ W.turn = t /\ W.frozen = {}
            BY <1>1, <3>1, NewThread
        <3> QED
            BY <3>2, <3>3
    <2>1. Honest(W)'
        BY <1>3 DEF Honest
    <2> QED
        BY <1>2, <1>3, <1>4, <1>6, <2>1, BaseStarts DEF history
<1> QED
    BY <1>5, <1>6 DEF Stop

LEMMA BaseSweep == ASSUME Base, NEW t \in DOMAIN status, Sweep(t) PROVE Base'
<1>1. UNCHANGED <<graph, workers, flags, linked, shown, granted, executed, blamed, failed>>
    BY DEF Sweep
<1>2. status' \in Seq(Status) /\ Len(status') = Len(status) /\ DOMAIN status' = DOMAIN status
    <2>1. "error" \in Status /\ To(t, "error")
        BY DEF Sweep, Status
    <2> QED
        BY <2>1, StatusTyped
<1>3. cells' \in [Call -> Cell]
    <2>1. cells' = Resolved(cells, t, "marker") /\ cells \in [Call -> Cell]
        BY DEF Sweep, Base, StoreTypes
    <2> QED
        BY <2>1, ResolvedCells
<1>4. cut' \in BOOLEAN
    <2>1. cut \in BOOLEAN /\ cut' = (cut \/ Driven(t))
        BY DEF Sweep, Base, StoreTypes
    <2> QED
        BY <2>1
<1>5. StoreTypes' /\ linked' \subseteq executed'
    BY <1>1, <1>2, <1>3, <1>4 DEF Base, StoreTypes, flags
<1> QED
    BY <1>1, <1>2, <1>5 DEF Base, WorkerTypes, Honest

LEMMA BaseNext == ASSUME Base, [Next]_vars PROVE Base'
<1>1. CASE UNCHANGED vars
    BY <1>1 DEF vars, stores, flags, history, Base, StoreTypes, WorkerTypes, Honest
<1>2. CASE Post
    BY <1>2, BasePost
<1>3. CASE Decide
    BY <1>3, BaseDecide
<1>4. ASSUME NEW t \in DOMAIN status, Stop(t) \/ Sweep(t) PROVE Base'
    BY <1>4, BaseStop, BaseSweep
<1>5. ASSUME NEW w \in DOMAIN workers, Step(w) PROVE Base'
    <2>1. CASE Ask(w) \/ CallTools(w) \/ Draft(w) \/ ToolsDone(w)
        BY <2>1, BaseAsks
    <2>2. CASE AddCell(w) \/ ToolReturns(w) \/ Trim(w) \/ Drive(w)
        BY <2>2, BaseTools
    <2>3. CASE AskApproval(w) \/ MarkPending(w) \/ PopFlag(w) \/ PauseFails(w)
        BY <2>3, BasePauses
    <2>4. CASE Finalize(w) \/ Stopped(w) \/ StreamFails(w) \/ WorkerDies(w) \/ EndRow(w) \/ CleanupFails(w)
        BY <2>4, BaseEnds
    <2>5. CASE CheckDecision(w) \/ Win(w) \/ SetDefault(w) \/ MarkDecided(w) \/ CloseCells(w) \/ RejectPending(w)
        BY <2>5, BaseDecides
    <2>6. CASE ReadPending(w)
        BY <2>6, BaseReads
    <2> QED
        BY <1>5, <2>1, <2>2, <2>3, <2>4, <2>5, <2>6 DEF Step
<1> QED
    BY <1>1, <1>2, <1>3, <1>4, <1>5 DEF Next

-----------------------------------------------------------------------------
(* As long as no run is ended under its worker: what the moves have in       *)
(* common.                                                                  *)

LEMMA Turns ==
    ASSUME ToolInv
    PROVE  DOMAIN status \subseteq Turn /\ DOMAIN status = 1..Len(status) /\ Len(status) \in Nat
<1>1. status \in Seq(Status) /\ Len(status) <= MaxTurns /\ MaxTurns \in Nat
    BY ToolTurnAssumption DEF ToolInv, StoreTypes
<1> QED
    BY <1>1 DEF Turn

LEMMA Current ==
    ASSUME ToolInv, NEW w \in DOMAIN workers
    PROVE  workers[w] \in Worker /\ \A W \in Worker : workers[w] = W => Fits(W)
    BY DEF ToolInv, WorkerTypes, WorkersInv

\* w moves to W, and the rest of the invariant holds of the stores.
LEMMA Moves ==
    ASSUME ToolInv, NEW w \in DOMAIN workers, NEW W \in Worker,
           workers' = [workers EXCEPT ![w] = W],
           Base', GraphInv', CellsInv', LastActive', Asked', Genuine', Approvals', Fits(W)',
           failed \subseteq failed',
           \A v \in DOMAIN workers \ {w} : \A V \in Worker : workers[v] = V => Fits(V)',
           W.at \in Driving =>
               workers[w].at \in Driving \/ \A v \in DOMAIN workers : workers[v].at \notin Driving,
           W.at \in Owning =>
               workers[w].at \in Owning \/ \A v \in DOMAIN workers : workers[v].at \notin Owning,
           "cells" \notin failed' => \A t \in DOMAIN status' : status'[t] \notin Active /\ Waiting'[t] # {} =>
               \/ W.turn = t /\ W.at = "cells"
               \/ /\ t \in DOMAIN status /\ status[t] \notin Active /\ Waiting[t] # {}
                  /\ workers[w].at = "cells" => workers[w].turn # t,
           "graph" \notin failed' /\ Loose' # {} =>
               \/ Awaiting' # {} \/ W.at \in Owning
               \/ (Loose # {} /\ Awaiting = {}) /\ workers[w].at \notin Owning
    PROVE  ToolInv'
<1>1. workers \in Seq(Worker) /\ Len(workers) <= MaxWorkers
    BY DEF ToolInv, WorkerTypes
<1>2. /\ workers' \in Seq(Worker) /\ Len(workers') = Len(workers) /\ DOMAIN workers' = DOMAIN workers
      /\ workers'[w] = W /\ \A v \in DOMAIN workers \ {w} : workers'[v] = workers[v]
    BY <1>1
<1>3. StoreTypes' /\ WorkerTypes'
    BY DEF Base
<1>4. WorkersInv'
    <2>1. ASSUME NEW v \in DOMAIN workers, NEW V \in Worker, workers'[v] = V PROVE Fits(V)'
        <3>1. CASE v = w
            BY <1>2, <2>1, <3>1
        <3>2. CASE v # w
            BY <1>2, <2>1, <3>2
        <3> QED
            BY <3>1, <3>2
    <2> QED
        BY <1>2, <2>1 DEF WorkersInv
<1>5. Single'
    BY <1>2 DEF ToolInv, Single
<1>6. Ended'
    <2> SUFFICES ASSUME "cells" \notin failed',
                        NEW t \in DOMAIN status', status'[t] \notin Active, Waiting'[t] # {}
                 PROVE  \E v \in DOMAIN workers' : workers'[v].turn = t /\ workers'[v].at = "cells"
        BY DEF Ended
    <2>1. CASE W.turn = t /\ W.at = "cells"
        BY <1>2, <2>1
    <2>2. CASE /\ t \in DOMAIN status /\ status[t] \notin Active /\ Waiting[t] # {}
               /\ workers[w].at = "cells" => workers[w].turn # t
        BY <1>2, <2>2 DEF ToolInv, Ended
    <2> QED
        BY <2>1, <2>2
<1>7. Owned'
    <2> SUFFICES ASSUME "graph" \notin failed', Loose' # {}, Awaiting' = {}
                 PROVE  \E v \in DOMAIN workers' : workers'[v].at \in Owning
        BY DEF Owned
    <2>1. CASE W.at \in Owning
        BY <1>2, <2>1
    <2>2. CASE Loose # {} /\ Awaiting = {} /\ workers[w].at \notin Owning
        BY <1>2, <2>2 DEF ToolInv, Owned
    <2> QED
        BY <2>1, <2>2
<1> QED
    BY <1>3, <1>4, <1>5, <1>6, <1>7 DEF ToolInv

\* A thread W starts.
LEMMA Starts ==
    ASSUME ToolInv, NEW W \in Worker, Spawn(W),
           Base', GraphInv', CellsInv', LastActive', Asked', Genuine', Approvals', Fits(W)',
           failed' = failed,
           \A v \in DOMAIN workers : \A V \in Worker : workers[v] = V => Fits(V)',
           W.at \in Driving => \A v \in DOMAIN workers : workers[v].at \notin Driving,
           W.at \in Owning => \A v \in DOMAIN workers : workers[v].at \notin Owning,
           \A t \in DOMAIN status' : status'[t] \notin Active /\ Waiting'[t] # {} =>
               \/ W.turn = t /\ W.at = "cells"
               \/ t \in DOMAIN status /\ status[t] \notin Active /\ Waiting[t] # {},
           Loose' # {} => Awaiting' # {} \/ W.at \in Owning \/ (Loose # {} /\ Awaiting = {})
    PROVE  ToolInv'
<1>1. workers \in Seq(Worker) /\ Len(workers) < MaxWorkers /\ workers' = Append(workers, W)
    BY DEF ToolInv, WorkerTypes, Spawn
<1> DEFINE n == Len(workers) + 1
<1>2. /\ workers' \in Seq(Worker) /\ Len(workers') = n /\ Len(workers) \in Nat
      /\ n \in DOMAIN workers' /\ n \notin DOMAIN workers
      /\ DOMAIN workers' = DOMAIN workers \cup {n}
      /\ workers'[n] = W /\ \A v \in DOMAIN workers : workers'[v] = workers[v]
    BY <1>1
<1>3. StoreTypes' /\ WorkerTypes'
    BY DEF Base
<1> HIDE DEF n
<1>4. WorkersInv'
    BY <1>2 DEF WorkersInv
<1>5. Single'
    BY <1>2 DEF ToolInv, Single
<1>6. Ended'
    <2> SUFFICES ASSUME "cells" \notin failed,
                        NEW t \in DOMAIN status', status'[t] \notin Active, Waiting'[t] # {}
                 PROVE  \E v \in DOMAIN workers' : workers'[v].turn = t /\ workers'[v].at = "cells"
        BY DEF Ended
    <2>1. CASE W.turn = t /\ W.at = "cells"
        BY <1>2, <2>1
    <2>2. CASE t \in DOMAIN status /\ status[t] \notin Active /\ Waiting[t] # {}
        BY <1>2, <2>2 DEF ToolInv, Ended
    <2> QED
        BY <2>1, <2>2
<1>7. Owned'
    <2> SUFFICES ASSUME "graph" \notin failed, Loose' # {}, Awaiting' = {}
                 PROVE  \E v \in DOMAIN workers' : workers'[v].at \in Owning
        BY DEF Owned
    <2>1. CASE W.at \in Owning
        BY <1>2, <2>1
    <2>2. CASE Loose # {} /\ Awaiting = {}
        BY <1>2, <2>2 DEF ToolInv, Owned
    <2> QED
        BY <2>1, <2>2
<1> QED
    BY <1>3, <1>4, <1>5, <1>6, <1>7 DEF ToolInv

\* No thread moves.
LEMMA Rests ==
    ASSUME ToolInv, workers' = workers, Base',
           GraphInv', CellsInv', LastActive', Asked', Genuine', Approvals',
           \A v \in DOMAIN workers : \A V \in Worker : workers[v] = V => Fits(V)',
           failed' = failed,
           \A t \in DOMAIN status' : status'[t] \notin Active /\ Waiting'[t] # {} =>
               t \in DOMAIN status /\ status[t] \notin Active /\ Waiting[t] # {},
           Loose' # {} => Awaiting' # {} \/ (Loose # {} /\ Awaiting = {})
    PROVE  ToolInv'
<1>1. StoreTypes' /\ WorkerTypes'
    BY DEF Base
<1>2. WorkersInv'
    BY DEF WorkersInv
<1>3. Single'
    BY DEF ToolInv, Single
<1>4. Ended'
    BY DEF ToolInv, Ended
<1>5. Owned'
    BY DEF ToolInv, Owned
<1> QED
    BY <1>1, <1>2, <1>3, <1>4, <1>5 DEF ToolInv

\* A thread that neither drives nor closes is not disturbed by the others.
LEMMA Bystander ==
    ASSUME NEW V \in Worker, Fits(V), V.at \notin Driving,
           DOMAIN status \subseteq DOMAIN status',
           \A t \in DOMAIN status : status[t] \notin Active => status'[t] \notin Active,
           granted \subseteq granted', Returned \subseteq Returned',
           V.at \in Closing => Loose' # {} /\ Awaiting' = {},
           V.at = "cells" => Waiting'[V.turn] \cap executed' = {}
    PROVE  Fits(V)'
    BY DEF Fits, Driving, Closing

\* Nor is any thread, if the stores show it what they showed.
LEMMA Undisturbed ==
    ASSUME NEW V \in Worker, Fits(V),
           status' = status, Awaiting' = Awaiting,
           V.at \notin {"check", "read", "done"} => Waiting'[V.turn] = Waiting[V.turn],
           \A c \in Opened : cells'[c].turn = cells[c].turn,
           Opened' = Opened, Loose' = Loose, executed' = executed,
           graph # <<>> => graph' # <<>>,
           granted \subseteq granted', Returned \subseteq Returned'
    PROVE  Fits(V)'
<1>1. Ready(V.turn)' <=> Opened # {} /\ Waiting'[V.turn] = Opened /\ Opened \cap executed = {}
    BY DEF Ready
<1>2. V.at \in {"gate", "flag", "trim"} => Ready(V.turn)'
    BY <1>1, ZenonT(40) DEF Fits, Ready
<1> QED
    BY <1>2, ZenonT(60) DEF Fits

\* What a thread that drives may rely on.
LEMMA Drives ==
    ASSUME ToolInv, NEW w \in DOMAIN workers, NEW V \in Worker, V = workers[w], V.at \in Driving
    PROVE  /\ Fits(V)
           /\ V.turn \in DOMAIN status /\ V.turn \in Turn /\ V.turn = Len(status)
           /\ status[V.turn] = "running" /\ Awaiting = {}
           /\ \A v \in DOMAIN workers \ {w} : \A U \in Worker : workers[v] = U =>
                  /\ Fits(U) /\ U.at \notin Driving
                  /\ V.at \in Owning => U.at \notin Closing
<1>1. Fits(V)
    BY Current
<1>2. V.turn \in DOMAIN status /\ status[V.turn] = "running"
    BY <1>1 DEF Fits, Driving
<1>3. V.turn = Len(status) /\ V.turn \in Turn
    BY <1>2 DEF ToolInv, LastActive, Active, StoreTypes, Turn
<1>4. Awaiting = {}
    BY <1>2, <1>3 DEF ToolInv, LastActive, Active, Awaiting
<1>5. ASSUME NEW v \in DOMAIN workers \ {w}, NEW U \in Worker, workers[v] = U
      PROVE  /\ Fits(U) /\ U.at \notin Driving
             /\ V.at \in Owning => U.at \notin Closing
    <2>1. Fits(U)
        BY <1>5, Current
    <2> QED
        BY <1>5, <2>1 DEF ToolInv, Single, Owning, Closing
<1> QED
    BY <1>1, <1>2, <1>3, <1>4, <1>5

LEMMA SameCells ==
    ASSUME \A c \in Call : cells'[c].turn = cells[c].turn /\ cells'[c].result = cells[c].result
    PROVE  /\ Waiting' = Waiting
           /\ executed \subseteq Call /\ executed \subseteq executed' => Returned \subseteq Returned'
    BY DEF Waiting, Pending, Returned

\* The stores show what they showed, but for the state of an approval.
LEMMA SameStores ==
    ASSUME ToolInv, UNCHANGED <<status, graph, executed>>,
           \A c \in Call : cells'[c].turn = cells[c].turn /\ cells'[c].result = cells[c].result
    PROVE  /\ Waiting' = Waiting /\ Returned' = Returned /\ Opened' = Opened /\ Loose' = Loose
           /\ Awaiting' = Awaiting
<1>1. executed \subseteq Call
    BY DEF ToolInv, StoreTypes
<1>2. Returned' = Returned
    BY <1>1 DEF Returned
<1> QED
    BY <1>2, SameCells DEF Opened, Loose, Awaiting

\* A thread moves, and the stores show what they showed.
LEMMA Quiet ==
    ASSUME ToolInv, Base', NEW w \in DOMAIN workers, NEW W \in Worker,
           workers' = [workers EXCEPT ![w] = W],
           UNCHANGED <<status, graph, linked, executed>>,
           granted \subseteq granted', failed \subseteq failed',
           \A c \in Call : cells'[c].turn = cells[c].turn /\ cells'[c].result = cells[c].result,
           Fits(W)',
           W.at \in Driving => workers[w].at \in Driving,
           W.at \in Owning => workers[w].at \in Owning,
           workers[w].at \in Owning => W.at \in Owning \/ "graph" \in failed',
           workers[w].at = "cells" => "cells" \in failed'
    PROVE  ToolInv'
<1>1. /\ Waiting' = Waiting /\ Returned' = Returned /\ Opened' = Opened /\ Loose' = Loose
      /\ Awaiting' = Awaiting
    BY SameStores
<1>2. GraphInv' /\ CellsInv' /\ LastActive' /\ Genuine' /\ Approvals'
    BY <1>1 DEF ToolInv, GraphInv, CellsInv, LastActive, Genuine, Approvals
<1>3. Asked'
    BY <1>1 DEF ToolInv, Asked, Ready
<1>4. ASSUME NEW v \in DOMAIN workers \ {w}, NEW U \in Worker, workers[v] = U PROVE Fits(U)'
    <2>1. Fits(U)
        BY <1>4, Current
    <2>2. \A c \in Opened : cells'[c].turn = cells[c].turn
        <3>1. Opened \subseteq Call
            BY LegalEdits DEF Opened, ToolInv, StoreTypes
        <3> QED
            BY <3>1
    <2> QED
        BY <1>1, <2>1, <2>2, Undisturbed
<1> QED
    BY <1>1, <1>2, <1>3, <1>4, Moves

\* The status of the turn in hand becomes a final one.
LEMMA RunEnds ==
    ASSUME ToolInv, NEW t \in DOMAIN status, status[t] \in Active, NEW final \in Status \ Active,
           status' = [status EXCEPT ![t] = final]
    PROVE  /\ status' \in Seq(Status) /\ Len(status') = Len(status) /\ DOMAIN status' = DOMAIN status
           /\ status'[t] = final /\ \A u \in DOMAIN status \ {t} : status'[u] = status[u]
           /\ Awaiting' = {} /\ LastActive'
           /\ \A u \in DOMAIN status : status'[u] \notin Active
<1>1. /\ status' \in Seq(Status) /\ Len(status') = Len(status) /\ DOMAIN status' = DOMAIN status
      /\ status'[t] = final /\ \A u \in DOMAIN status \ {t} : status'[u] = status[u]
    BY DEF ToolInv, StoreTypes
<1>2. \A u \in DOMAIN status : status'[u] \notin Active
    BY <1>1 DEF ToolInv, LastActive
<1>3. Awaiting' = {}
    BY <1>1, <1>2 DEF Awaiting, Active
<1>4. LastActive'
    BY <1>1, <1>2 DEF LastActive
<1> QED
    BY <1>1, <1>2, <1>3, <1>4

\* The cells of a turn get results, and only those that have none.
LEMMA Settles ==
    ASSUME ToolInv, NEW t \in Turn, executed' = executed,
           \A c \in Call : cells'[c].turn = cells[c].turn,
           \A c \in Call \ Waiting[t] : cells'[c].result = cells[c].result,
           \A c \in Waiting[t] : cells'[c].result # "none"
    PROVE  /\ Waiting'[t] = {} /\ \A u \in Turn \ {t} : Waiting'[u] = Waiting[u]
           /\ Returned \subseteq Returned'
<1>1. \A u \in Turn : Waiting[u] = {c \in Call : cells[c].turn = u /\ cells[c].result = "none"}
    BY WaitingIs
<1>2. \A u \in Turn : Waiting'[u] = {c \in Call : cells'[c].turn = u /\ cells'[c].result = "none"}
    BY WaitingIs
<1>3. Waiting'[t] = {}
    BY <1>1, <1>2
<1>4. ASSUME NEW u \in Turn \ {t} PROVE Waiting'[u] = Waiting[u]
    <2>1. Waiting[u] \subseteq Call /\ Waiting'[u] \subseteq Call
        BY <1>1, <1>2
    <2>2. ASSUME NEW c \in Call PROVE c \in Waiting'[u] <=> c \in Waiting[u]
        <3>1. cells[c].turn = u => c \notin Waiting[t]
            BY <1>1
        <3> QED
            BY <1>1, <1>2, <3>1
    <2> QED
        BY <2>1, <2>2
<1>5. Returned \subseteq Returned'
    BY <1>1 DEF Returned, ToolInv, StoreTypes
<1> QED
    BY <1>3, <1>4, <1>5

\* What Resolved does to the cells of the turn in hand.
LEMMA Resolves ==
    ASSUME ToolInv, NEW t \in Turn, executed' = executed, Len(status') = Len(status),
           cells' = Resolved(cells, t, "marker")
    PROVE  /\ cells' \in [Call -> Cell] /\ CellsInv'
           /\ Waiting'[t] = {} /\ \A u \in Turn \ {t} : Waiting'[u] = Waiting[u]
           /\ Returned \subseteq Returned'
<1>1. cells \in [Call -> Cell]
    BY DEF ToolInv, StoreTypes
<1>2. /\ cells' \in [Call -> Cell]
      /\ \A c \in Call :
             /\ cells'[c].turn = cells[c].turn
             /\ cells'[c].result = IF cells[c].turn = t /\ cells[c].result = "none" THEN "marker"
                                   ELSE cells[c].result
    BY <1>1, ResolvedCells
<1>3. Waiting[t] = {c \in Call : cells[c].turn = t /\ cells[c].result = "none"}
    BY WaitingIs
<1>4. /\ \A c \in Call \ Waiting[t] : cells'[c].result = cells[c].result
      /\ \A c \in Waiting[t] : cells'[c].result # "none"
    BY <1>2, <1>3
<1>5. CellsInv'
    <2>1. t # 0
        BY DEF Turn
    <2> SUFFICES ASSUME NEW c \in Call
                 PROVE  /\ cells'[c].turn <= Len(status)
                        /\ cells'[c].turn = 0 => cells'[c].result = "none" /\ c \notin executed
                        /\ cells'[c].result = "refused" => c \notin executed
        BY DEF CellsInv
    <2> QED
        BY <1>2, <2>1 DEF ToolInv, CellsInv
<1> QED
    BY <1>2, <1>4, <1>5, Settles

\* A run that nobody drives is the only one that could be driven.
LEMMA Undriven ==
    ASSUME ToolInv, NEW t \in DOMAIN status, status[t] = "running", ~ Driven(t)
    PROVE  /\ t = Len(status) /\ Awaiting = {}
           /\ \A v \in DOMAIN workers : \A U \in Worker : workers[v] = U => Fits(U) /\ U.at \notin Driving
<1>1. t = Len(status) /\ \A u \in DOMAIN status : status[u] \in Active => u = t
    BY DEF ToolInv, LastActive, Active
<1>2. Awaiting = {}
    BY <1>1 DEF Awaiting, Active
<1>3. ASSUME NEW v \in DOMAIN workers, NEW U \in Worker, workers[v] = U
      PROVE  Fits(U) /\ U.at \notin Driving
    <2>1. Fits(U)
        BY <1>3, Current
    <2>2. U.at \in Driving => U.turn = t
        BY <1>1, <2>1 DEF Fits, Driving, Active
    <2> QED
        BY <1>3, <2>1, <2>2 DEF Driven
<1> QED
    BY <1>1, <1>2, <1>3

-----------------------------------------------------------------------------
(* The steps of a pump.                                                     *)

LEMMA AskStep == ASSUME ToolInv, Base', NEW w \in DOMAIN workers, Ask(w) PROVE ToolInv'
<1>1. PICK V \in Worker : V = workers[w] /\ V.at = "user" /\ Fits(V)
    BY Current DEF Ask, At
<1>2. /\ V.turn \in DOMAIN status /\ status[V.turn] = "running" /\ Awaiting = {}
      /\ \A v \in DOMAIN workers \ {w} : \A U \in Worker : workers[v] = U =>
             Fits(U) /\ U.at \notin Driving
    BY <1>1, Drives DEF Driving
<1> DEFINE W == Moved(V, "agent")
<1>3. /\ W \in Worker /\ workers' = [workers EXCEPT ![w] = W]
      /\ W.at = "agent" /\ W.turn = V.turn /\ W.frozen = V.frozen
    <2>1. Go(w, "agent") /\ "agent" \in Place
        BY DEF Ask, Place, Driving
    <2> QED
        BY <1>1, <2>1, Goes
<1> HIDE DEF W
<1>4. GraphInv' /\ Loose' = Loose /\ Opened' = {} /\ graph' # <<>>
    <2> DEFINE m == [kind |-> "human", of |-> {}]
    <2>1. m \in Message /\ m.kind = "human" /\ graph' = Append(graph, m)
        BY DEF Ask, Say, Message
    <2>2. Sound(graph)
        BY DEF ToolInv, GraphInv
    <2> HIDE DEF m
    <2>3. Sound(Append(graph, m)) /\ Dangling(Append(graph, m)) = Dangling(graph) /\ Open(Append(graph, m)) = {}
        BY <2>1, <2>2, SaidSound
    <2>4. Append(graph, m) # <<>>
        BY <2>1, <2>2 DEF Sound
    <2> QED
        BY <2>1, <2>3, <2>4 DEF GraphInv, Loose, Opened
<1>5. UNCHANGED <<status, cells, flags, linked, history>>
    BY DEF Ask
<1>6. Waiting' = Waiting /\ Returned' = Returned /\ Awaiting' = {}
    BY <1>2, <1>5 DEF Waiting, Pending, Returned, Awaiting, history
<1>7. CellsInv' /\ LastActive' /\ Genuine' /\ Approvals'
    BY <1>5, <1>6 DEF ToolInv, CellsInv, LastActive, Genuine, Approvals, history
<1>8. Asked'
    BY <1>6 DEF Asked
<1>9. Fits(W)'
    BY <1>1, <1>2, <1>3, <1>4, <1>5, <1>6 DEF Fits, Driving, Closing
<1>10. ASSUME NEW v \in DOMAIN workers \ {w}, NEW U \in Worker, workers[v] = U PROVE Fits(U)'
    <2>1. Fits(U) /\ U.at \notin Driving
        BY <1>2, <1>10
    <2>2. U.at \in Closing => Loose' # {}
        BY <1>4, <2>1 DEF Fits
    <2>3. U.at = "cells" => Waiting'[U.turn] \cap executed' = {}
        BY <1>5, <1>6, <2>1 DEF Fits, history
    <2> QED
        BY <1>5, <1>6, <2>1, <2>2, <2>3, Bystander DEF history
<1> QED
    BY <1>1, <1>2, <1>3, <1>4, <1>5, <1>6, <1>7, <1>8, <1>9, <1>10, Moves DEF Driving, Owning, Closing, history

LEMMA CallToolsStep == ASSUME ToolInv, Base', NEW w \in DOMAIN workers, CallTools(w) PROVE ToolInv'
<1>1. PICK V \in Worker : V = workers[w] /\ V.at = "agent" /\ Fits(V)
    BY Current DEF CallTools, At
<1>2. /\ V.turn \in DOMAIN status /\ V.turn \in Turn
      /\ status[V.turn] = "running" /\ Awaiting = {}
      /\ \A v \in DOMAIN workers \ {w} : \A U \in Worker : workers[v] = U =>
             Fits(U) /\ U.at \notin Driving
    BY <1>1, Drives DEF Driving
<1>3. PICK calls \in SUBSET Fresh :
          /\ calls # {}
          /\ graph' = Say("calls", calls)
          /\ workers' = [workers EXCEPT ![w].at = "insert", ![w].ids = calls]
    BY DEF CallTools
<1>4. Loose = {} /\ graph # <<>> /\ Waiting[V.turn] = {} /\ V.frozen \subseteq Returned
    BY <1>1 DEF CallTools, Loose, Fits
<1>5. UNCHANGED <<status, cells, flags, linked, history>>
    BY DEF CallTools
<1>6. calls \subseteq Call /\ \A c \in calls : cells[c].turn = 0 /\ c \notin executed
    BY <1>3 DEF Fresh, ToolInv, CellsInv
<1> DEFINE W == As(V, "insert", V.turn, calls, V.frozen)
<1>7. /\ W \in Worker /\ workers' = [workers EXCEPT ![w] = W]
      /\ W.at = "insert" /\ W.turn = V.turn /\ W.ids = calls /\ W.frozen = V.frozen
    <2>1. workers' = [workers EXCEPT ![w] = [V EXCEPT !.at = "insert", !.ids = calls]]
        BY <1>1, <1>3 DEF ToolInv, WorkerTypes
    <2>2. [V EXCEPT !.at = "insert", !.ids = calls] = W
        BY AsIs
    <2>3. W \in Worker /\ W.at = "insert" /\ W.turn = V.turn /\ W.ids = calls /\ W.frozen = V.frozen
        BY <1>6 DEF As, Worker, Place, Driving, Citation
    <2> HIDE DEF W
    <2> QED
        BY <2>1, <2>2, <2>3
<1> HIDE DEF W
<1>8. GraphInv' /\ Opened' = calls
    <2>1. Sound(graph) /\ Dangling(graph) = {}
        BY <1>4 DEF ToolInv, GraphInv, Loose
    <2> QED
        BY <1>3, <1>4, <1>6, <2>1, CalledSound DEF GraphInv, Opened, Say
<1>9. Waiting' = Waiting /\ Returned' = Returned /\ Awaiting' = {} /\ executed' = executed
    BY <1>2, <1>5 DEF Waiting, Pending, Returned, Awaiting, history
<1>10. CellsInv' /\ LastActive' /\ Genuine' /\ Approvals' /\ Asked'
    BY <1>5, <1>9 DEF ToolInv, CellsInv, LastActive, Genuine, Approvals, Asked, history
<1>11. Fits(W)'
    BY <1>2, <1>3, <1>4, <1>5, <1>6, <1>7, <1>8, <1>9 DEF Fits, Driving, Closing
<1>12. ASSUME NEW v \in DOMAIN workers \ {w}, NEW U \in Worker, workers[v] = U
       PROVE  Fits(U) /\ U.at \notin Driving /\ U.at \notin Closing /\ U.at # "cells"
    BY <1>2, <1>4, <1>12 DEF Fits, Closing
<1>13. ASSUME NEW v \in DOMAIN workers \ {w}, NEW U \in Worker, workers[v] = U PROVE Fits(U)'
    BY <1>5, <1>9, <1>12, <1>13, Bystander DEF history
<1>14. /\ W.at \in Driving /\ workers[w].at \in Driving /\ W.at \in Owning
       /\ \A v \in DOMAIN workers : workers[v].at \notin Owning
    <2>1. W.at \in Driving /\ workers[w].at \in Driving /\ W.at \in Owning /\ workers[w].at \notin Owning
        BY <1>1, <1>7 DEF Driving, Owning, Closing
    <2>2. ASSUME NEW v \in DOMAIN workers \ {w} PROVE workers[v].at \notin Owning
        <3>1. PICK U \in Worker : U = workers[v]
            BY Current
        <3> QED
            BY <1>12, <3>1 DEF Owning, Driving
    <2> QED
        BY <2>1, <2>2
<1>15. workers[w].at # "cells"
    BY <1>1
<1> QED
    BY <1>5, <1>7, <1>8, <1>9, <1>10, <1>11, <1>13, <1>14, <1>15, Moves DEF history

\* The cell of one of the calls is there.
LEMMA AddCellStep == ASSUME ToolInv, Base', NEW w \in DOMAIN workers, AddCell(w) PROVE ToolInv'
<1>1. PICK V \in Worker : V = workers[w] /\ V.at = "insert" /\ Fits(V)
    BY Current DEF AddCell, At
<1>2. /\ V.turn \in DOMAIN status /\ V.turn \in Turn /\ V.turn = Len(status)
      /\ status[V.turn] = "running" /\ Awaiting = {}
      /\ \A v \in DOMAIN workers \ {w} : \A U \in Worker : workers[v] = U =>
             Fits(U) /\ U.at \notin Driving /\ U.at \notin Closing
    BY <1>1, Drives DEF Driving, Owning
<1>3. /\ Opened # {} /\ V.ids = Opened /\ Opened \cap executed = {} /\ Waiting[V.turn] \subseteq Opened
      /\ \A d \in Opened \ Waiting[V.turn] : cells[d].turn = 0
      /\ V.frozen \subseteq Returned /\ Opened \subseteq Call
    BY <1>1, LegalEdits DEF Fits, Opened, ToolInv, StoreTypes
<1>4. PICK c \in Opened :
          /\ cells[c].turn = 0
          /\ cells' = [cells EXCEPT ![c].turn = V.turn]
          /\ IF \E d \in Opened \ {c} : cells[d].turn = 0
             THEN UNCHANGED <<workers, executed>>
             ELSE /\ Go(w, IF Gate THEN "gate" ELSE "tools")
                  /\ executed' = IF Gate THEN executed ELSE executed \cup Opened
    BY <1>1, <1>3 DEF AddCell
<1>5. UNCHANGED <<status, graph, flags, linked, shown, granted, blamed, failed>>
    BY DEF AddCell
<1>6. c \in Call /\ cells[c].result = "none" /\ V.turn # 0
    BY <1>2, <1>3, <1>4 DEF ToolInv, CellsInv, Turn
<1>7. /\ cells'[c].turn = V.turn /\ cells'[c].result = "none"
      /\ \A d \in Call \ {c} : cells'[d] = cells[d]
    <2>1. cells \in [Call -> Cell] /\ V.turn \in 0..MaxTurns
        BY DEF ToolInv, StoreTypes, Worker
    <2> QED
        BY <1>4, <1>6, <2>1, CellsPut
<1>8. Waiting'[V.turn] = Waiting[V.turn] \cup {c} /\ \A t \in Turn \ {V.turn} : Waiting'[t] = Waiting[t]
    <2>1. ASSUME NEW t \in Turn, NEW d \in Call
          PROVE  d \in Waiting'[t] <=> d \in Waiting[t] \/ (t = V.turn /\ d = c)
        <3>1. t # 0
            BY DEF Turn
        <3>2. /\ d \in Waiting[t] <=> cells[d].turn = t /\ cells[d].result = "none"
              /\ d \in Waiting'[t] <=> cells'[d].turn = t /\ cells'[d].result = "none"
            BY WaitingIs
        <3>3. CASE d = c
            BY <1>4, <1>7, <3>1, <3>2, <3>3
        <3>4. CASE d # c
            BY <1>7, <3>2, <3>4
        <3> QED
            BY <3>3, <3>4
    <2>2. \A t \in Turn : Waiting[t] \subseteq Call /\ Waiting'[t] \subseteq Call
        BY WaitingIs
    <2>3. \A t \in Turn \ {V.turn} : Waiting'[t] = Waiting[t]
        BY <2>1, <2>2
    <2>4. Waiting'[V.turn] = Waiting[V.turn] \cup {c}
        BY <1>2, <1>6, <2>1, <2>2
    <2> QED
        BY <2>3, <2>4
<1>9. Opened' = Opened /\ Loose' = Loose /\ Awaiting' = {} /\ executed \subseteq executed'
      /\ executed' \subseteq executed \cup Opened
    BY <1>2, <1>4, <1>5 DEF Opened, Loose, Awaiting
<1>10. Returned \subseteq Returned'
    BY <1>6, <1>7, <1>9 DEF Returned, ToolInv, StoreTypes
<1>11. PICK pc \in {"insert", "gate", "tools"} :
           /\ pc = "insert" => workers' = workers /\ executed' = executed
           /\ pc # "insert" => Go(w, pc) /\ \A d \in Opened \ {c} : cells[d].turn # 0
           /\ pc = "gate" => executed' = executed
           /\ pc = "tools" => ~ Gate /\ executed' = executed \cup Opened
    <2>1. CASE \E d \in Opened \ {c} : cells[d].turn = 0
        BY <1>4, <2>1
    <2>2. CASE ~ (\E d \in Opened \ {c} : cells[d].turn = 0) /\ Gate
        BY <1>4, <2>2
    <2>3. CASE ~ (\E d \in Opened \ {c} : cells[d].turn = 0) /\ ~ Gate
        BY <1>4, <2>3
    <2> QED
        BY <2>1, <2>2, <2>3
<1>12. PICK W \in Worker : /\ workers' = [workers EXCEPT ![w] = W]
                           /\ W.at = pc /\ W.turn = V.turn /\ W.ids = V.ids /\ W.frozen = V.frozen
    <2>1. CASE pc = "insert"
        <3>1. workers' = [workers EXCEPT ![w] = V]
            BY <1>1, <1>11, <2>1 DEF ToolInv, WorkerTypes
        <3> QED
            BY <1>1, <2>1, <3>1
    <2>2. CASE pc # "insert"
        <3>1. pc \in Place /\ Go(w, pc)
            BY <1>11, <2>2 DEF Place, Driving
        <3> QED
            BY <1>1, <3>1, Goes
    <2> QED
        BY <2>1, <2>2
<1>13. pc # "insert" => Waiting'[V.turn] = Opened
    BY <1>3, <1>8, <1>11
<1>14. CellsInv'
    <2> SUFFICES ASSUME NEW d \in Call
                 PROVE  /\ cells'[d].turn <= Len(status)
                        /\ cells'[d].turn = 0 => cells'[d].result = "none" /\ d \notin executed'
                        /\ cells'[d].result = "refused" => d \notin executed'
        BY <1>5 DEF CellsInv
    <2>1. CASE d = c
        <3>1. V.turn <= Len(status)
            BY <1>2 DEF Turn
        <3> QED
            BY <1>6, <1>7, <2>1, <3>1
    <2>2. CASE d # c /\ d \in executed' \ executed
        <3>1. d \in Opened /\ executed' # executed
            BY <1>9, <2>2
        <3>2. d \in Waiting[V.turn] /\ pc # "insert"
            BY <1>3, <1>11, <2>2, <3>1
        <3>3. cells[d].turn = V.turn /\ cells[d].result = "none"
            BY <1>2, <3>2, WaitingIs
        <3>4. V.turn <= Len(status)
            BY <1>2 DEF Turn
        <3> QED
            BY <1>6, <1>7, <2>2, <3>3, <3>4
    <2>3. CASE d # c /\ d \notin executed' \ executed
        <3>1. /\ cells[d].turn <= Len(status)
              /\ cells[d].turn = 0 => cells[d].result = "none" /\ d \notin executed
              /\ cells[d].result = "refused" => d \notin executed
            BY DEF ToolInv, CellsInv
        <3> QED
            BY <1>7, <2>3, <3>1
    <2> QED
        BY <2>1, <2>2, <2>3
<1>15. GraphInv' /\ LastActive' /\ Asked'
    BY <1>5, <1>9 DEF ToolInv, GraphInv, LastActive, Asked
<1>16. Genuine' /\ Approvals'
    <2>1. Gate => executed' = executed
        BY <1>11
    <2> QED
        BY <1>5, <1>10, <2>1 DEF ToolInv, Genuine, Approvals
<1>17. Fits(W)'
    <2>1. W.turn \in DOMAIN status' /\ status'[W.turn] = "running" /\ W.frozen \subseteq Returned'
        BY <1>2, <1>3, <1>5, <1>10, <1>12
    <2>2. CASE pc = "insert"
        <3>1. \A d \in Opened \ Waiting'[V.turn] : cells'[d].turn = 0
            BY <1>3, <1>7, <1>8
        <3>2. Waiting'[V.turn] \subseteq Opened /\ executed' = executed
            BY <1>3, <1>8, <1>11, <2>2
        <3> QED
            BY <1>3, <1>9, <1>12, <2>1, <2>2, <3>1, <3>2 DEF Fits, Driving, Closing
    <2>3. CASE pc = "gate"
        <3>1. Ready(V.turn)'
            BY <1>3, <1>9, <1>11, <1>13, <2>3 DEF Ready
        <3> QED
            BY <1>12, <2>1, <2>3, <3>1 DEF Fits, Driving, Closing
    <2>4. CASE pc = "tools"
        <3>1. \A d \in Opened : cells'[d].turn = V.turn
            <4>1. \A d \in Opened \ {c} : d \in Waiting[V.turn]
                BY <1>3, <1>11, <2>4
            <4>2. \A d \in Waiting[V.turn] : cells[d].turn = V.turn
                BY <1>2, WaitingIs
            <4> QED
                BY <1>3, <1>7, <4>1, <4>2
        <3> QED
            BY <1>3, <1>9, <1>11, <1>12, <1>13, <2>1, <2>4, <3>1 DEF Fits, Driving, Closing
    <2> QED
        BY <2>2, <2>3, <2>4
<1>18. ASSUME NEW v \in DOMAIN workers \ {w}, NEW U \in Worker, workers[v] = U PROVE Fits(U)'
    <2>1. Fits(U) /\ U.at \notin Driving /\ U.at \notin Closing /\ U.at # "cells"
        BY <1>2, <1>18 DEF Closing
    <2> QED
        BY <1>5, <1>10, <2>1, Bystander
<1>19. W.at \in Driving /\ workers[w].at \in Driving /\ W.at \in Owning /\ workers[w].at \in Owning
    BY <1>1, <1>12 DEF Driving, Owning, Closing
<1>20. \A t \in DOMAIN status' : status'[t] \notin Active /\ Waiting'[t] # {} =>
           /\ t \in DOMAIN status /\ status[t] \notin Active /\ Waiting[t] # {}
           /\ workers[w].at # "cells"
    BY <1>1, <1>2, <1>5, <1>8, Turns DEF Active
<1> QED
    BY <1>5, <1>12, <1>14, <1>15, <1>16, <1>17, <1>18, <1>19, <1>20, Moves

LEMMA AskApprovalStep == ASSUME ToolInv, Base', NEW w \in DOMAIN workers, AskApproval(w) PROVE ToolInv'
<1>1. PICK V \in Worker : V = workers[w] /\ V.at = "gate" /\ Fits(V)
    BY Current DEF AskApproval, At
<1>2. /\ V.turn \in DOMAIN status /\ V.turn \in Turn /\ V.turn = Len(status)
      /\ status[V.turn] = "running" /\ Awaiting = {}
      /\ \A v \in DOMAIN workers \ {w} : \A U \in Worker : workers[v] = U =>
             Fits(U) /\ U.at \notin Driving /\ U.at \notin Closing
    BY <1>1, Drives DEF Driving, Owning
<1>0. ActiveTurn \subseteq {V.turn}
    BY <1>2 DEF ActiveTurn, ToolInv, LastActive
<1> DEFINE W == Moved(V, "mark")
<1>3. /\ W \in Worker /\ workers' = [workers EXCEPT ![w] = W]
      /\ W.at = "mark" /\ W.turn = V.turn /\ W.frozen = V.frozen
    <2>1. Go(w, "mark") /\ "mark" \in Place
        BY <1>0, <1>1 DEF AskApproval, Place
    <2> QED
        BY <1>1, <2>1, Goes
<1> HIDE DEF W
<1>4. status' = [status EXCEPT ![V.turn] = "awaiting"] /\ UNCHANGED <<cells, graph, linked, history>>
    BY <1>0, <1>1 DEF AskApproval, To
<1>5. /\ status' \in Seq(Status) /\ Len(status') = Len(status) /\ DOMAIN status' = DOMAIN status
      /\ status'[V.turn] = "awaiting"
      /\ \A t \in DOMAIN status \ {V.turn} : status'[t] = status[t]
    BY <1>2, <1>4 DEF ToolInv, StoreTypes, Status, Active
<1>6. Waiting' = Waiting /\ Returned' = Returned /\ Opened' = Opened /\ Loose' = Loose /\ executed' = executed
    BY <1>4 DEF Waiting, Pending, Returned, Opened, Loose, history
<1>7. Awaiting' = {V.turn}
    BY <1>2, <1>5 DEF Awaiting
<1>9. GraphInv' /\ CellsInv' /\ Genuine' /\ Approvals'
    BY <1>4, <1>5, <1>6 DEF ToolInv, GraphInv, CellsInv, Genuine, Approvals, history
<1>10. LastActive'
    BY <1>2, <1>5 DEF ToolInv, LastActive
<1>11. Asked'
    BY <1>1, <1>6, <1>7 DEF Fits, Asked, Ready
<1>12. Fits(W)'
    BY <1>1, <1>2, <1>3, <1>5, <1>6 DEF Fits, Driving, Closing
<1>13. ASSUME NEW v \in DOMAIN workers \ {w}, NEW U \in Worker, workers[v] = U PROVE Fits(U)'
    <2>1. Fits(U) /\ U.at \notin Driving /\ U.at \notin Closing /\ U.at # "cells"
        BY <1>2, <1>13 DEF Closing
    <2>2. \A t \in DOMAIN status : status[t] \notin Active => status'[t] \notin Active
        BY <1>2, <1>5 DEF Active
    <2> QED
        BY <1>4, <1>5, <1>6, <2>1, <2>2, Bystander DEF history
<1>14. W.at \notin Driving /\ W.at \notin Owning /\ workers[w].at # "cells"
    BY <1>1, <1>3 DEF Driving, Owning, Closing
<1>15. \A t \in DOMAIN status' : status'[t] \notin Active => t \in DOMAIN status /\ status[t] \notin Active
    BY <1>2, <1>5 DEF Active
<1> QED
    BY <1>3, <1>6, <1>7, <1>9, <1>10, <1>11, <1>12, <1>13, <1>14, <1>15, <1>4, Moves DEF history

\* The cells are shown, which changes nothing in what waits.
LEMMA MarkPendingStep == ASSUME ToolInv, Base', NEW w \in DOMAIN workers, MarkPending(w) PROVE ToolInv'
<1>1. PICK V \in Worker : V = workers[w] /\ V.at = "mark" /\ Fits(V)
    BY Current DEF MarkPending, At
<1> DEFINE W == Moved(V, "pop")
<1>2. /\ W \in Worker /\ workers' = [workers EXCEPT ![w] = W]
      /\ W.at = "pop" /\ W.turn = V.turn /\ W.frozen = V.frozen
    <2>1. Go(w, "pop") /\ "pop" \in Place
        BY DEF MarkPending, Place
    <2> QED
        BY <1>1, <2>1, Goes
<1> HIDE DEF W
<1>3. UNCHANGED <<status, graph, linked, granted, executed, failed>>
    BY DEF MarkPending
<1>4. \A c \in Call : cells'[c].turn = cells[c].turn /\ cells'[c].result = cells[c].result
    <2>1. cells' = Approval(V.turn, "pending")
        BY <1>1 DEF MarkPending
    <2> QED
        BY <2>1, ApprovalCells DEF ToolInv, StoreTypes
<1>5. Returned' = Returned
    BY <1>3, <1>4, SameStores
<1>6. Fits(W)'
    BY <1>1, <1>2, <1>3, <1>5 DEF Fits, Driving, Closing
<1>7. W.at \notin Driving /\ W.at \notin Owning /\ workers[w].at \notin Owning /\ workers[w].at # "cells"
    BY <1>1, <1>2 DEF Driving, Owning, Closing
<1> QED
    BY <1>2, <1>3, <1>4, <1>6, <1>7, Quiet

LEMMA PopFlagStep == ASSUME ToolInv, Base', NEW w \in DOMAIN workers, PopFlag(w) PROVE ToolInv'
<1>1. PICK V \in Worker : V = workers[w] /\ V.at = "pop" /\ Fits(V)
    BY Current DEF PopFlag, At
<1> DEFINE W == Moved(V, "done")
<1>2. W \in Worker /\ workers' = [workers EXCEPT ![w] = W] /\ W.at = "done" /\ W.frozen = V.frozen
    <2>1. Go(w, "done") /\ "done" \in Place
        BY DEF PopFlag, Place
    <2> QED
        BY <1>1, <2>1, Goes
<1> HIDE DEF W
<1>3. UNCHANGED <<stores, linked, history>>
    BY DEF PopFlag
<1>4. UNCHANGED <<status, graph, cells, linked, granted, executed, failed>>
    BY <1>3 DEF stores, history
<1>5. Returned' = Returned
    BY <1>4 DEF Returned
<1>6. Fits(W)'
    BY <1>1, <1>2, <1>5 DEF Fits, Driving, Closing
<1>7. W.at \notin Driving /\ W.at \notin Owning /\ workers[w].at \notin Owning /\ workers[w].at # "cells"
    BY <1>1, <1>2 DEF Driving, Owning, Closing
<1> QED
    BY <1>2, <1>4, <1>6, <1>7, Quiet

LEMMA ToolReturnsStep == ASSUME ToolInv, Base', NEW w \in DOMAIN workers, ToolReturns(w) PROVE ToolInv'
<1>1. PICK V \in Worker : V = workers[w] /\ V.at = "tools" /\ Fits(V)
    BY Current DEF ToolReturns, At
<1>2. /\ V.turn \in DOMAIN status /\ V.turn \in Turn
      /\ status[V.turn] = "running" /\ Awaiting = {}
      /\ \A v \in DOMAIN workers \ {w} : \A U \in Worker : workers[v] = U =>
             Fits(U) /\ U.at \notin Driving /\ U.at \notin Closing
    BY <1>1, Drives DEF Driving, Owning
<1>3. PICK c \in Opened :
          /\ cells' = [cells EXCEPT ![c].result = "result"]
          /\ workers' = [workers EXCEPT ![w].frozen = @ \cup {c}]
    BY <1>1 DEF ToolReturns, Fits
<1>4. UNCHANGED <<status, graph, flags, linked, history>>
    BY DEF ToolReturns
<1>5. /\ c \in Call /\ c \in executed /\ Opened # {} /\ V.frozen \subseteq Returned
      /\ V.ids = Opened /\ Opened \subseteq executed /\ \A d \in Opened : cells[d].turn = V.turn
    BY <1>1, <1>3 DEF Fits, ToolInv, StoreTypes
<1> DEFINE W == As(V, "tools", V.turn, V.ids, V.frozen \cup {c})
<1>6. /\ W \in Worker /\ workers' = [workers EXCEPT ![w] = W]
      /\ W.at = "tools" /\ W.turn = V.turn /\ W.ids = V.ids /\ W.frozen = V.frozen \cup {c}
    <2>1. workers' = [workers EXCEPT ![w] = [V EXCEPT !.frozen = V.frozen \cup {c}]]
        BY <1>1, <1>3 DEF ToolInv, WorkerTypes
    <2>2. [V EXCEPT !.frozen = V.frozen \cup {c}] = W
        <3>1. V.at = "tools"
            BY <1>1
        <3> QED
            BY <3>1 DEF As, Worker
    <2>3. W \in Worker /\ W.at = "tools" /\ W.turn = V.turn /\ W.ids = V.ids /\ W.frozen = V.frozen \cup {c}
        BY <1>5 DEF As, Worker, Place, Driving
    <2> HIDE DEF W
    <2> QED
        BY <2>1, <2>2, <2>3
<1> HIDE DEF W
<1>7. /\ cells' \in [Call -> Cell]
      /\ \A d \in Call : cells'[d].turn = cells[d].turn
      /\ \A d \in Call \ {c} : cells'[d].result = cells[d].result
      /\ cells'[c].result = "result"
    <2>1. cells \in [Call -> Cell]
        BY DEF ToolInv, StoreTypes
    <2>2. cells' = [cells EXCEPT ![c] = [cells[c] EXCEPT !.result = "result"]]
        BY <1>3, <1>5, <2>1
    <2>3. /\ [cells[c] EXCEPT !.result = "result"] \in Cell
          /\ [cells[c] EXCEPT !.result = "result"].turn = cells[c].turn
          /\ [cells[c] EXCEPT !.result = "result"].result = "result"
        BY <1>5, <2>1 DEF Cell
    <2> QED
        BY <1>5, <2>1, <2>2, <2>3
<1>8. \A t \in Turn : Waiting'[t] = Waiting[t] \ {c}
    BY <1>5, <1>7, WaitingIs
<1>9. Returned' = Returned \cup {c} /\ Opened' = Opened /\ Loose' = Loose /\ Awaiting' = {} /\ executed' = executed
    BY <1>2, <1>4, <1>5, <1>7 DEF Returned, Opened, Loose, Awaiting, history, ToolInv, StoreTypes
<1>11. CellsInv'
    <2> SUFFICES ASSUME NEW d \in Call
                 PROVE  /\ cells'[d].turn <= Len(status)
                        /\ cells'[d].turn = 0 => cells'[d].result = "none" /\ d \notin executed
                        /\ cells'[d].result = "refused" => d \notin executed
        BY <1>4 DEF CellsInv, history
    <2> QED
        BY <1>5, <1>7 DEF ToolInv, CellsInv
<1>12. GraphInv' /\ LastActive' /\ Genuine' /\ Approvals' /\ Asked'
    BY <1>4, <1>9 DEF ToolInv, GraphInv, LastActive, Genuine, Approvals, Asked, history
<1>13. Fits(W)'
    <2>1. /\ W.turn \in DOMAIN status' /\ status'[W.turn] = "running" /\ W.frozen \subseteq Returned'
          /\ Opened' # {} /\ W.ids = Opened' /\ Opened' \subseteq executed'
        BY <1>2, <1>4, <1>5, <1>6, <1>9
    <2>2. Waiting'[W.turn] \subseteq Opened' /\ \A d \in Opened' : cells'[d].turn = W.turn
        <3>1. Opened \subseteq Call
            BY LegalEdits DEF Opened, ToolInv, StoreTypes
        <3>2. Waiting[V.turn] \subseteq Opened
            BY <1>1 DEF Fits
        <3> QED
            BY <1>2, <1>5, <1>6, <1>7, <1>8, <1>9, <3>1, <3>2
    <2> QED
        BY <1>6, <2>1, <2>2 DEF Fits, Driving, Closing
<1>14. ASSUME NEW v \in DOMAIN workers \ {w}, NEW U \in Worker, workers[v] = U PROVE Fits(U)'
    <2>1. Fits(U) /\ U.at \notin Driving /\ U.at \notin Closing /\ U.at # "cells"
        BY <1>2, <1>14 DEF Closing
    <2> QED
        BY <1>4, <1>9, <2>1, Bystander DEF history
<1>15. W.at \in Driving /\ workers[w].at \in Driving /\ W.at \in Owning /\ workers[w].at \in Owning /\ workers[w].at # "cells"
    BY <1>1, <1>6 DEF Driving, Owning, Closing
<1>16. \A t \in DOMAIN status' : Waiting'[t] # {} => t \in DOMAIN status /\ Waiting[t] # {}
    BY <1>4, <1>8, Turns
<1> QED
    BY <1>4, <1>6, <1>11, <1>12, <1>13, <1>14, <1>15, <1>16, Moves DEF history

LEMMA ToolsDoneStep == ASSUME ToolInv, Base', NEW w \in DOMAIN workers, ToolsDone(w) PROVE ToolInv'
<1>1. PICK V \in Worker : V = workers[w] /\ V.at = "tools" /\ Fits(V)
    BY Current DEF ToolsDone, At
<1>2. /\ V.turn \in DOMAIN status /\ V.turn \in Turn
      /\ status[V.turn] = "running" /\ Awaiting = {}
      /\ \A v \in DOMAIN workers \ {w} : \A U \in Worker : workers[v] = U =>
             Fits(U) /\ U.at \notin Driving /\ U.at \notin Closing
    BY <1>1, Drives DEF Driving, Owning
<1> DEFINE W == Moved(V, "agent")
<1>3. /\ W \in Worker /\ workers' = [workers EXCEPT ![w] = W]
      /\ W.at = "agent" /\ W.turn = V.turn /\ W.frozen = V.frozen
    <2>1. Go(w, "agent") /\ "agent" \in Place
        BY DEF ToolsDone, Place, Driving
    <2> QED
        BY <1>1, <2>1, Goes
<1> HIDE DEF W
<1>4. UNCHANGED <<status, cells, flags, linked, history>>
    BY DEF ToolsDone
<1>5. GraphInv' /\ Opened' = {} /\ Loose' = {} /\ graph' # <<>>
    <2>1. Sound(graph) /\ Open(graph) # {}
        BY <1>1 DEF Fits, Opened, ToolInv, GraphInv
    <2>2. graph' = Append(graph, [kind |-> "tools", of |-> Open(graph)])
        BY <1>1 DEF ToolsDone, Say, Fits, Opened
    <2>3. graph' # <<>>
        BY <2>1, <2>2 DEF Sound
    <2> QED
        BY <2>1, <2>2, <2>3, ReturnedSound DEF GraphInv, Opened, Loose
<1>6. Waiting' = Waiting /\ Returned' = Returned /\ Awaiting' = {} /\ executed' = executed
    BY <1>2, <1>4 DEF Waiting, Pending, Returned, Awaiting, history
<1>7. Waiting[V.turn] = {}
    <2>1. Waiting[V.turn] \subseteq Opened /\ \A c \in Opened : cells[c].result = "result"
        BY <1>1 DEF Fits, ToolsDone, Returned
    <2> QED
        BY <1>2, <2>1, WaitingIs
<1>8. CellsInv' /\ LastActive' /\ Genuine' /\ Approvals' /\ Asked'
    BY <1>4, <1>6 DEF ToolInv, CellsInv, LastActive, Genuine, Approvals, Asked, history
<1>9. Fits(W)'
    BY <1>1, <1>2, <1>3, <1>4, <1>5, <1>6, <1>7 DEF Fits, Driving, Closing
<1>10. ASSUME NEW v \in DOMAIN workers \ {w}, NEW U \in Worker, workers[v] = U PROVE Fits(U)'
    <2>1. Fits(U) /\ U.at \notin Driving /\ U.at \notin Closing /\ U.at # "cells"
        BY <1>2, <1>10 DEF Closing
    <2> QED
        BY <1>4, <1>6, <2>1, Bystander DEF history
<1>11. W.at \in Driving /\ workers[w].at \in Driving /\ W.at \notin Owning /\ workers[w].at # "cells"
    BY <1>1, <1>3 DEF Driving, Owning, Closing
<1> QED
    BY <1>3, <1>4, <1>5, <1>6, <1>8, <1>9, <1>10, <1>11, Moves DEF history

LEMMA DraftStep == ASSUME ToolInv, Base', NEW w \in DOMAIN workers, Draft(w) PROVE ToolInv'
<1>1. PICK V \in Worker : V = workers[w] /\ V.at = "agent" /\ Fits(V)
    BY Current DEF Draft, At
<1>2. /\ V.turn \in DOMAIN status /\ V.turn \in Turn
      /\ status[V.turn] = "running" /\ Awaiting = {}
      /\ \A v \in DOMAIN workers \ {w} : \A U \in Worker : workers[v] = U =>
             Fits(U) /\ U.at \notin Driving
    BY <1>1, Drives DEF Driving
<1>3. PICK cites \in {{}} \cup {{c} : c \in Context \cup {Foreign}} :
          /\ graph' = Say("answer", cites)
          /\ workers' = [workers EXCEPT ![w].at = "final", ![w].ids = cites]
    BY DEF Draft
<1>4. cites \subseteq Citation
    BY <1>3, ContextCitations DEF Citation, ToolInv, StoreTypes
<1>5. Loose = {} /\ UNCHANGED <<status, cells, flags, linked, history>>
    BY DEF Draft, Loose
<1> DEFINE W == As(V, "final", V.turn, cites, V.frozen)
<1>6. /\ W \in Worker /\ workers' = [workers EXCEPT ![w] = W]
      /\ W.at = "final" /\ W.turn = V.turn /\ W.frozen = V.frozen
    <2>1. workers' = [workers EXCEPT ![w] = [V EXCEPT !.at = "final", !.ids = cites]]
        BY <1>1, <1>3 DEF ToolInv, WorkerTypes
    <2>2. [V EXCEPT !.at = "final", !.ids = cites] = W
        BY AsIs
    <2>3. W \in Worker /\ W.at = "final" /\ W.turn = V.turn /\ W.frozen = V.frozen
        BY <1>4 DEF As, Worker, Place, Driving
    <2> HIDE DEF W
    <2> QED
        BY <2>1, <2>2, <2>3
<1> HIDE DEF W
<1>7. GraphInv' /\ Loose' = {} /\ Opened' = {}
    <2> DEFINE m == [kind |-> "answer", of |-> cites]
    <2>1. m \in Message /\ m.kind = "answer" /\ graph' = Append(graph, m)
        BY <1>3, <1>4 DEF Say, Message
    <2>2. Sound(graph) /\ graph # <<>> /\ Dangling(graph) = {}
        BY <1>1, <1>5 DEF ToolInv, GraphInv, Fits, Loose
    <2> HIDE DEF m
    <2>3. Sound(Append(graph, m)) /\ Dangling(Append(graph, m)) = {} /\ Open(Append(graph, m)) = {}
        BY <2>1, <2>2, SaidSound
    <2> QED
        BY <2>1, <2>3 DEF GraphInv, Loose, Opened
<1>8. Waiting' = Waiting /\ Returned' = Returned /\ Awaiting' = {} /\ executed' = executed
    BY <1>2, <1>5 DEF Waiting, Pending, Returned, Awaiting, history
<1>9. CellsInv' /\ LastActive' /\ Genuine' /\ Approvals' /\ Asked'
    BY <1>5, <1>8 DEF ToolInv, CellsInv, LastActive, Genuine, Approvals, Asked, history
<1>10. Fits(W)'
    BY <1>1, <1>2, <1>5, <1>6, <1>8 DEF Fits, Driving, Closing
<1>11. ASSUME NEW v \in DOMAIN workers \ {w}, NEW U \in Worker, workers[v] = U PROVE Fits(U)'
    <2>1. Fits(U) /\ U.at \notin Driving
        BY <1>2, <1>11
    <2>2. U.at \notin Closing /\ U.at # "cells"
        BY <1>5, <2>1 DEF Fits, Closing
    <2> QED
        BY <1>5, <1>8, <2>1, <2>2, Bystander DEF history
<1>12. W.at \in Driving /\ workers[w].at \in Driving /\ W.at \notin Owning /\ workers[w].at # "cells"
    BY <1>1, <1>6 DEF Driving, Owning, Closing
<1> QED
    BY <1>5, <1>6, <1>7, <1>8, <1>9, <1>10, <1>11, <1>12, Moves DEF history

LEMMA FinalizeStep == ASSUME ToolInv, Base', NEW w \in DOMAIN workers, Finalize(w) PROVE ToolInv'
<1>1. PICK V \in Worker : V = workers[w] /\ V.at = "final" /\ Fits(V)
    BY Current DEF Finalize, At
<1>2. /\ V.turn \in DOMAIN status /\ V.turn \in Turn
      /\ status[V.turn] = "running" /\ Awaiting = {}
      /\ \A v \in DOMAIN workers \ {w} : \A U \in Worker : workers[v] = U =>
             Fits(U) /\ U.at \notin Driving
    BY <1>1, Drives DEF Driving
<1> DEFINE W == Moved(V, "done")
<1>3. /\ W \in Worker /\ workers' = [workers EXCEPT ![w] = W]
      /\ W.at = "done" /\ W.frozen = V.frozen
    <2>1. Go(w, "done") /\ "done" \in Place
        BY DEF Finalize, Place
    <2> QED
        BY <1>1, <2>1, Goes
<1> HIDE DEF W
<1>4. UNCHANGED <<cells, graph, shown, granted, executed, failed>>
    BY <1>1 DEF Finalize
<1>5. PICK final \in Status \ Active : status' = [status EXCEPT ![V.turn] = final]
    BY <1>1, <1>2 DEF Finalize, To, Status, Active
<1>6. /\ linked' \subseteq linked \cup (V.ids \cap (V.frozen \cup linked)) /\ blamed' \subseteq Citation
    <2>1. V.ids \subseteq Citation /\ blamed \subseteq Citation
        BY DEF Worker, ToolInv, StoreTypes
    <2>2. CASE V.ids \ Valid(w) # {}
        BY <1>1, <1>2, <2>1, <2>2 DEF Finalize
    <2>3. CASE V.ids \ Valid(w) = {}
        <3>1. V.ids \subseteq V.frozen \cup linked
            BY <1>1, <2>3 DEF Valid
        <3>2. linked' = linked \cup V.ids /\ blamed' = blamed
            BY <1>1, <1>2, <2>3 DEF Finalize
        <3> QED
            BY <2>1, <3>1, <3>2
    <2> QED
        BY <2>2, <2>3
<1>7. Waiting' = Waiting /\ Returned' = Returned /\ Opened' = Opened /\ Loose' = Loose
    BY <1>4 DEF Waiting, Pending, Returned, Opened, Loose
<1>8. /\ status' \in Seq(Status) /\ Len(status') = Len(status) /\ DOMAIN status' = DOMAIN status
      /\ \A u \in DOMAIN status \ {V.turn} : status'[u] = status[u]
      /\ Awaiting' = {} /\ LastActive'
      /\ \A u \in DOMAIN status : status'[u] \notin Active
    BY <1>2, <1>5, RunEnds DEF Active
<1>10. GraphInv' /\ CellsInv' /\ Approvals' /\ Asked'
    BY <1>4, <1>8 DEF ToolInv, GraphInv, CellsInv, Approvals, Asked
<1>11. Genuine'
    BY <1>1, <1>6, <1>7 DEF ToolInv, Genuine, Fits
<1>12. Fits(W)'
    BY <1>1, <1>3, <1>7 DEF Fits, Driving, Closing
<1>13. ASSUME NEW v \in DOMAIN workers \ {w}, NEW U \in Worker, workers[v] = U PROVE Fits(U)'
    <2>1. Fits(U) /\ U.at \notin Driving
        BY <1>2, <1>13
    <2>2. U.at \in Closing => Loose' # {} /\ Awaiting' = {}
        BY <1>7, <1>8, <2>1 DEF Fits
    <2>3. U.at = "cells" => Waiting'[U.turn] \cap executed' = {}
        BY <1>4, <1>7, <2>1 DEF Fits
    <2> QED
        BY <1>4, <1>7, <1>8, <2>1, <2>2, <2>3, Bystander
<1>14. W.at \notin Driving /\ W.at \notin Owning /\ workers[w].at \notin Owning /\ workers[w].at # "cells"
    BY <1>1, <1>3 DEF Driving, Owning, Closing
<1>15. \A t \in DOMAIN status' : Waiting'[t] # {} => t \in DOMAIN status /\ status[t] \notin Active /\ Waiting[t] # {}
    <2>1. Waiting[V.turn] = {}
        BY <1>1 DEF Fits
    <2> QED
        BY <1>5, <1>7, <1>8, <2>1
<1> QED
    BY <1>2, <1>3, <1>4, <1>7, <1>8, <1>10, <1>11, <1>12, <1>13, <1>14, <1>15, Moves

\* A handler ends the run that a thread drives, as far as it comes: what it leaves
\* undone is in failed.
LEMMA Handled ==
    ASSUME ToolInv, NEW t \in DOMAIN status, t \in Turn, status[t] = "running", Awaiting = {},
           executed' = executed, NEW undone \in {{}, {"graph"}},
           \/ Fails(t, undone)
           \/ /\ status' = [status EXCEPT ![t] = "interrupted"]
              /\ cells' = Resolved(cells, t, "marker") /\ failed' = failed \cup undone
    PROVE  /\ status' \in Seq(Status) /\ Len(status') = Len(status) /\ DOMAIN status' = DOMAIN status
           /\ Awaiting' = {} /\ LastActive' /\ CellsInv'
           /\ \A u \in DOMAIN status : status[u] \notin Active => status'[u] \notin Active
           /\ Waiting'[t] \subseteq Waiting[t] /\ \A u \in Turn \ {t} : Waiting'[u] = Waiting[u]
           /\ Returned \subseteq Returned'
           /\ failed \cup undone \subseteq failed'
           /\ "cells" \notin failed' => \A u \in DOMAIN status' : status'[u] \notin Active /\ Waiting'[u] # {} =>
                  u \in DOMAIN status /\ status[u] \notin Active /\ Waiting[u] # {}
<1>1. CASE UNCHANGED <<status, cells>> /\ failed' = failed \cup undone
    <2>1. Waiting' = Waiting /\ Returned' = Returned /\ Awaiting' = Awaiting
        BY <1>1 DEF Waiting, Pending, Returned, Awaiting
    <2>2. LastActive' /\ CellsInv' /\ status \in Seq(Status)
        BY <1>1 DEF ToolInv, LastActive, CellsInv, StoreTypes
    <2> QED
        BY <1>1, <2>1, <2>2
<1>2. ASSUME NEW final \in {"error", "interrupted"}, status' = [status EXCEPT ![t] = final]
      PROVE  /\ status' \in Seq(Status) /\ Len(status') = Len(status) /\ DOMAIN status' = DOMAIN status
             /\ Awaiting' = {} /\ LastActive'
             /\ \A u \in DOMAIN status : status'[u] \notin Active
             /\ \A u \in DOMAIN status \ {t} : status'[u] = status[u]
    <2>1. final \in Status \ Active /\ status[t] \in Active
        BY DEF Status, Active
    <2> QED
        BY <1>2, <2>1, RunEnds
<1>3. ASSUME NEW final \in {"error", "interrupted"}, status' = [status EXCEPT ![t] = final],
             cells' = Resolved(cells, t, "marker"), failed' = failed \cup undone
      PROVE  /\ CellsInv' /\ Waiting'[t] = {} /\ \A u \in Turn \ {t} : Waiting'[u] = Waiting[u]
             /\ Returned \subseteq Returned'
             /\ \A u \in DOMAIN status' : Waiting'[u] # {} =>
                    u \in DOMAIN status /\ status[u] \notin Active /\ Waiting[u] # {}
    <2>1. /\ Len(status') = Len(status) /\ DOMAIN status' = DOMAIN status
          /\ \A u \in DOMAIN status : status'[u] \notin Active
          /\ \A u \in DOMAIN status \ {t} : status'[u] = status[u]
        BY <1>2, <1>3
    <2>2. /\ CellsInv' /\ Waiting'[t] = {} /\ \A u \in Turn \ {t} : Waiting'[u] = Waiting[u]
          /\ Returned \subseteq Returned'
        BY <1>3, <2>1, Resolves
    <2>3. ASSUME NEW u \in DOMAIN status', Waiting'[u] # {}
          PROVE  u \in DOMAIN status /\ status[u] \notin Active /\ Waiting[u] # {}
        <3>1. u \in DOMAIN status /\ u \in Turn /\ u # t
            BY <2>1, <2>2, <2>3, Turns
        <3> QED
            BY <2>1, <2>2, <2>3, <3>1
    <2> QED
        BY <2>2, <2>3
<1>4. ASSUME NEW final \in {"error", "interrupted"}, status' = [status EXCEPT ![t] = final],
             cells' = Resolved(cells, t, "marker"), failed' = failed \cup undone
      PROVE  /\ Waiting'[t] \subseteq Waiting[t] /\ failed \cup undone \subseteq failed'
             /\ \A u \in DOMAIN status : status[u] \notin Active => status'[u] \notin Active
    BY <1>2, <1>3, <1>4
<1>5. CASE status' = [status EXCEPT ![t] = "interrupted"] /\ cells' = Resolved(cells, t, "marker") /\ failed' = failed \cup undone
    BY <1>2, <1>3, <1>4, <1>5
<1>6. CASE status' = [status EXCEPT ![t] = "error"] /\ cells' = Resolved(cells, t, "marker") /\ failed' = failed \cup undone
    BY <1>2, <1>3, <1>4, <1>6
<1>7. CASE status' = [status EXCEPT ![t] = "error"] /\ cells' = cells /\ failed' = failed \cup undone \cup {"cells"}
    <2>1. /\ status' \in Seq(Status) /\ Len(status') = Len(status) /\ DOMAIN status' = DOMAIN status
          /\ Awaiting' = {} /\ LastActive' /\ \A u \in DOMAIN status : status'[u] \notin Active
        BY <1>2, <1>7
    <2>2. Waiting' = Waiting /\ Returned' = Returned
        BY <1>7 DEF Waiting, Pending, Returned
    <2>3. CellsInv'
        BY <1>7, <2>1 DEF ToolInv, CellsInv
    <2> QED
        BY <1>7, <2>1, <2>2, <2>3
<1> QED
    BY <1>1, <1>5, <1>6, <1>7 DEF Fails, To

LEMMA StoppedStep == ASSUME ToolInv, Base', NEW w \in DOMAIN workers, Stopped(w) PROVE ToolInv'
<1>1. PICK V \in Worker : V = workers[w] /\ V.at \in {"agent", "gate", "tools"} /\ Fits(V)
    BY Current DEF Stopped, At
<1>2. /\ V.turn \in DOMAIN status /\ V.turn \in Turn
      /\ status[V.turn] = "running" /\ Awaiting = {}
      /\ \A v \in DOMAIN workers \ {w} : \A U \in Worker : workers[v] = U =>
             /\ Fits(U) /\ U.at \notin Driving
             /\ V.at \in Owning => U.at \notin Closing
    BY <1>1, Drives DEF Driving
<1>3. V.at = "agent" => Loose = {} /\ graph # <<>>
    BY <1>1 DEF Stopped, At, Loose, Fits
<1> DEFINE W == Moved(V, "done")
<1>4. /\ W \in Worker /\ workers' = [workers EXCEPT ![w] = W]
      /\ W.at = "done" /\ W.frozen = V.frozen
    <2>1. Go(w, "done") /\ "done" \in Place
        BY DEF Stopped, Place
    <2> QED
        BY <1>1, <2>1, Goes
<1> HIDE DEF W
<1>5. UNCHANGED <<linked, shown, granted, executed, blamed>>
    BY DEF Stopped
<1>6. PICK g \in InFlight(w), undone \in {{}, {"graph"}} :
          /\ graph' = IF undone = {} THEN Cleared(g) ELSE g
          /\ \/ Fails(V.turn, undone)
             \/ /\ status' = [status EXCEPT ![V.turn] = "interrupted"]
                /\ cells' = Resolved(cells, V.turn, "marker") /\ failed' = failed \cup undone
    BY <1>1, <1>2 DEF Stopped
<1>7. Sound(g)
    <2>1. Sound(graph)
        BY DEF ToolInv, GraphInv
    <2>2. CASE V.at # "agent"
        BY <1>1, <2>1, <2>2 DEF InFlight, At
    <2>3. CASE V.at = "agent"
        <3>1. Dangling(graph) = {} /\ graph # <<>>
            BY <1>3, <2>3 DEF Loose
        <3>2. CASE g = graph
            BY <2>1, <3>2
        <3>3. CASE g = Say("answer", {})
            <4> DEFINE m == [kind |-> "answer", of |-> {}]
            <4>1. m \in Message /\ m.kind = "answer" /\ g = Append(graph, m)
                BY <3>3 DEF Say, Message
            <4> HIDE DEF m
            <4> QED
                BY <2>1, <3>1, <4>1, SaidSound
        <3>4. ASSUME NEW c \in Call, g = Say("calls", {c}) PROVE Sound(g)
            BY <2>1, <3>1, <3>4, CalledSound DEF Say
        <3> QED
            BY <1>1, <1>6, <2>3, <3>2, <3>3, <3>4 DEF InFlight, At
    <2> QED
        BY <2>2, <2>3
<1>8. GraphInv' /\ (undone = {} => Loose' = {})
    <2>1. CASE undone = {}
        BY <1>6, <1>7, <2>1, ClearedSound DEF GraphInv, Loose
    <2>2. CASE undone # {}
        BY <1>6, <1>7, <2>2 DEF GraphInv
    <2> QED
        BY <2>1, <2>2
<1>9. /\ DOMAIN status' = DOMAIN status
      /\ Awaiting' = {} /\ LastActive' /\ CellsInv'
      /\ \A u \in DOMAIN status : status[u] \notin Active => status'[u] \notin Active
      /\ Waiting'[V.turn] \subseteq Waiting[V.turn] /\ \A u \in Turn \ {V.turn} : Waiting'[u] = Waiting[u]
      /\ Returned \subseteq Returned'
      /\ failed \cup undone \subseteq failed'
      /\ "cells" \notin failed' => \A u \in DOMAIN status' : status'[u] \notin Active /\ Waiting'[u] # {} =>
             u \in DOMAIN status /\ status[u] \notin Active /\ Waiting[u] # {}
    BY <1>2, <1>5, <1>6, Handled
<1>10. "graph" \notin failed' => Loose' = {}
    BY <1>8, <1>9
<1>12. Genuine' /\ Approvals' /\ Asked'
    BY <1>5, <1>9 DEF ToolInv, Genuine, Approvals, Asked
<1>13. Fits(W)'
    BY <1>1, <1>4, <1>9 DEF Fits, Driving, Closing
<1>14. ASSUME NEW v \in DOMAIN workers \ {w}, NEW U \in Worker, workers[v] = U PROVE Fits(U)'
    <2>1. Fits(U) /\ U.at \notin Driving
        BY <1>2, <1>14
    <2>2. U.at \notin Closing /\ U.at # "cells"
        BY <1>1, <1>2, <1>3, <1>14, <2>1 DEF Fits, Closing, Owning
    <2> QED
        BY <1>5, <1>9, <2>1, <2>2, Bystander
<1>15. W.at \notin Driving /\ W.at \notin Owning /\ workers[w].at # "cells"
    BY <1>1, <1>4 DEF Driving, Owning, Closing
<1> QED
    BY <1>4, <1>8, <1>9, <1>10, <1>12, <1>13, <1>14, <1>15, Moves

LEMMA StreamFailsStep == ASSUME ToolInv, Base', NEW w \in DOMAIN workers, StreamFails(w) PROVE ToolInv'
<1>1. PICK V \in Worker : V = workers[w] /\ V.at \in {"user", "agent", "insert", "gate", "tools"} /\ Fits(V)
    BY Current DEF StreamFails, At
<1>2. /\ V.turn \in DOMAIN status /\ V.turn \in Turn
      /\ status[V.turn] = "running" /\ Awaiting = {}
      /\ \A v \in DOMAIN workers \ {w} : \A U \in Worker : workers[v] = U =>
             /\ Fits(U) /\ U.at \notin Driving
             /\ V.at \in Owning => U.at \notin Closing
    BY <1>1, Drives DEF Driving
<1> DEFINE W == Moved(V, "done")
<1>3. /\ W \in Worker /\ workers' = [workers EXCEPT ![w] = W]
      /\ W.at = "done" /\ W.frozen = V.frozen
    <2>1. Go(w, "done") /\ "done" \in Place
        BY DEF StreamFails, Place
    <2> QED
        BY <1>1, <2>1, Goes
<1> HIDE DEF W
<1>4. /\ UNCHANGED <<linked, shown, granted, executed, blamed>>
      /\ graph' = graph \/ (V.at = "insert" /\ graph' = WithoutLastCalls(graph))
    BY <1>1, <1>2 DEF StreamFails, At, InFlight
<1> PICK undone \in {{}, {"graph"}} : Fails(V.turn, undone) /\ (V.at \in Owning => undone = {"graph"})
    BY <1>1 DEF StreamFails, At, Owning, Closing
<1>5. GraphInv' /\ (V.at \notin Owning => Loose' = Loose)
    <2>1. CASE graph' = graph
        BY <2>1 DEF ToolInv, GraphInv, Loose
    <2>2. CASE V.at = "insert" /\ graph' = WithoutLastCalls(graph)
        <3>1. Dangling(graph) # {} /\ Sound(graph) /\ V.at \in Owning
            BY <1>1, <2>2, OpenDangles DEF Fits, Opened, ToolInv, GraphInv, Owning
        <3> QED
            BY <2>2, <3>1, WithoutSound DEF GraphInv
    <2> QED
        BY <1>4, <2>1, <2>2
<1>6. /\ DOMAIN status' = DOMAIN status
      /\ Awaiting' = {} /\ LastActive' /\ CellsInv'
      /\ \A u \in DOMAIN status : status[u] \notin Active => status'[u] \notin Active
      /\ Waiting'[V.turn] \subseteq Waiting[V.turn] /\ \A u \in Turn \ {V.turn} : Waiting'[u] = Waiting[u]
      /\ Returned \subseteq Returned'
      /\ failed \cup undone \subseteq failed'
      /\ "cells" \notin failed' => \A u \in DOMAIN status' : status'[u] \notin Active /\ Waiting'[u] # {} =>
             u \in DOMAIN status /\ status[u] \notin Active /\ Waiting[u] # {}
    BY <1>2, <1>4, Handled
<1>9. Genuine' /\ Approvals' /\ Asked'
    BY <1>4, <1>6 DEF ToolInv, Genuine, Approvals, Asked
<1>10. Fits(W)'
    BY <1>1, <1>3, <1>6 DEF Fits, Driving, Closing
<1>11. ASSUME NEW v \in DOMAIN workers \ {w}, NEW U \in Worker, workers[v] = U PROVE Fits(U)'
    <2>1. Fits(U) /\ U.at \notin Driving
        BY <1>2, <1>11
    <2>2. U.at \in Closing => Loose' # {} /\ Awaiting' = {}
        BY <1>2, <1>5, <1>6, <1>11, <2>1 DEF Fits
    <2>3. U.at = "cells" => Waiting'[U.turn] \cap executed' = {}
        <3>1. U.turn \in Turn => Waiting'[U.turn] \subseteq Waiting[U.turn]
            BY <1>2, <1>6
        <3>2. U.at = "cells" => U.turn \in Turn
            BY <2>1, Turns DEF Fits
        <3> QED
            BY <1>4, <2>1, <3>1, <3>2 DEF Fits
    <2> QED
        BY <1>4, <1>6, <2>1, <2>2, <2>3, Bystander
<1>12. W.at \notin Driving /\ W.at \notin Owning /\ workers[w].at # "cells"
    BY <1>1, <1>3 DEF Driving, Owning, Closing
<1>14. "graph" \notin failed' => workers[w].at \notin Owning /\ Loose' = Loose
    BY <1>1, <1>5, <1>6
<1> QED
    BY <1>2, <1>3, <1>5, <1>6, <1>4, <1>9, <1>10, <1>11, <1>12, <1>14, Moves

\* The run is still waiting, or has been decided about, or nobody drives it.
LEMMA PauseFailsStep ==
    ASSUME ToolInv, Base', ~ cut', NEW w \in DOMAIN workers, PauseFails(w)
    PROVE  ToolInv'
<1>1. PICK V \in Worker : V = workers[w] /\ V.at \in {"mark", "pop"} /\ Fits(V)
    BY Current DEF PauseFails, At
<1>2. V.turn \in DOMAIN status /\ V.turn \in Turn /\ V.frozen \subseteq Returned
    BY <1>1, Turns DEF Fits
<1> DEFINE W == Moved(V, "pop")
<1>3. /\ W \in Worker /\ workers' = [workers EXCEPT ![w] = W]
      /\ W.at = "pop" /\ W.turn = V.turn /\ W.frozen = V.frozen
    <2>1. Go(w, "pop") /\ "pop" \in Place
        BY DEF PauseFails, Place
    <2> QED
        BY <1>1, <2>1, Goes
<1> HIDE DEF W
<1>4. UNCHANGED <<graph, linked, shown, granted, executed, blamed>> /\ Fails(V.turn, {})
    BY <1>1 DEF PauseFails
<1>5. W.at \notin Driving /\ W.at \notin Owning /\ workers[w].at \notin Owning /\ workers[w].at # "cells"
    BY <1>1, <1>3 DEF Driving, Owning, Closing
<1>6. CASE UNCHANGED <<status, cells>> /\ failed' = failed
    <2>1. Returned' = Returned
        BY <1>4, <1>6 DEF Returned
    <2>2. Fits(W)'
        BY <1>2, <1>3, <1>6, <2>1 DEF Fits, Driving, Closing
    <2> QED
        BY <1>3, <1>4, <1>5, <1>6, <2>2, Quiet
<1>7. CASE status[V.turn] = "running" /\ To(V.turn, "error")
    <2>1. ~ Driven(V.turn)
        <3>1. status' # status
            BY <1>2, <1>7 DEF To, ToolInv, StoreTypes
        <3> QED
            BY <1>1, <3>1 DEF PauseFails
    <2>2. /\ V.turn = Len(status) /\ Awaiting = {}
          /\ \A v \in DOMAIN workers : \A U \in Worker : workers[v] = U => Fits(U) /\ U.at \notin Driving
        BY <1>2, <1>7, <2>1, Undriven
    <2>3. /\ DOMAIN status' = DOMAIN status
          /\ Awaiting' = {} /\ LastActive' /\ CellsInv'
          /\ \A u \in DOMAIN status : status[u] \notin Active => status'[u] \notin Active
          /\ Waiting'[V.turn] \subseteq Waiting[V.turn] /\ \A u \in Turn \ {V.turn} : Waiting'[u] = Waiting[u]
          /\ Returned \subseteq Returned' /\ failed \subseteq failed'
          /\ "cells" \notin failed' => \A u \in DOMAIN status' : status'[u] \notin Active /\ Waiting'[u] # {} =>
                 u \in DOMAIN status /\ status[u] \notin Active /\ Waiting[u] # {}
        BY <1>2, <1>4, <1>7, <2>2, Handled
    <2>5. GraphInv' /\ Loose' = Loose /\ Genuine' /\ Approvals' /\ Asked'
        BY <1>4, <2>3 DEF ToolInv, GraphInv, Loose, Genuine, Approvals, Asked
    <2>6. Fits(W)'
        BY <1>2, <1>3, <2>3 DEF Fits, Driving, Closing
    <2>7. ASSUME NEW v \in DOMAIN workers \ {w}, NEW U \in Worker, workers[v] = U PROVE Fits(U)'
        <3>1. Fits(U) /\ U.at \notin Driving
            BY <2>2, <2>7
        <3>2. U.at \in Closing => Loose' # {} /\ Awaiting' = {}
            BY <2>3, <2>5, <3>1 DEF Fits
        <3>3. U.at = "cells" => Waiting'[U.turn] \cap executed' = {}
            <4>1. U.turn \in Turn => Waiting'[U.turn] \subseteq Waiting[U.turn]
                BY <1>2, <2>3
            <4>2. U.at = "cells" => U.turn \in Turn
                BY <3>1, Turns DEF Fits
            <4> QED
                BY <1>4, <3>1, <4>1, <4>2 DEF Fits
        <3> QED
            BY <1>4, <2>3, <3>1, <3>2, <3>3, Bystander
    <2> QED
        BY <1>3, <1>4, <1>5, <2>2, <2>3, <2>5, <2>6, <2>7, Moves
<1> QED
    BY <1>4, <1>6, <1>7 DEF Fails

\* A thread is gone, and with it what it was to do.
LEMMA WorkerDiesStep == ASSUME ToolInv, Base', NEW w \in DOMAIN workers, WorkerDies(w) PROVE ToolInv'
<1>1. PICK V \in Worker : V = workers[w] /\ V.at \in {"trim", "mark cells", "drive", "final"} /\ Fits(V)
    BY Current DEF WorkerDies
<1> DEFINE W == Moved(V, "done")
<1>2. W \in Worker /\ workers' = [workers EXCEPT ![w] = W] /\ W.at = "done" /\ W.frozen = V.frozen
    <2>1. Go(w, "done") /\ "done" \in Place
        BY DEF WorkerDies, Place
    <2>2. V = workers[w]
        BY <1>1
    <2> QED
        BY <2>1, <2>2, Goes
<1> HIDE DEF W
<1>3. UNCHANGED <<status, cells, graph, linked, granted, executed>>
    BY DEF WorkerDies, stores
<1>4. failed \subseteq failed' /\ (workers[w].at \in Owning => "graph" \in failed') /\ workers[w].at # "cells"
    BY <1>1 DEF WorkerDies, At, Owning, Closing
<1>5. Returned' = Returned
    BY <1>3 DEF Returned
<1>6. Fits(W)'
    BY <1>1, <1>2, <1>5 DEF Fits, Driving, Closing
<1>7. W.at \notin Driving /\ W.at \notin Owning
    BY <1>2 DEF Driving, Owning, Closing
<1> QED
    BY <1>2, <1>3, <1>4, <1>6, <1>7, Quiet

\* A run that nobody drives is ended by a sweep.
LEMMA SweepStep == ASSUME ToolInv, Base', ~ cut', NEW t \in DOMAIN status, Sweep(t) PROVE ToolInv'
<1>1. /\ status' = [status EXCEPT ![t] = "error"] /\ status[t] = "running"
      /\ cells' = Resolved(cells, t, "marker") /\ ~ Driven(t) /\ t \in Turn
      /\ UNCHANGED <<graph, workers, linked, granted, executed, failed>>
    BY Turns DEF Sweep, To
<1>2. /\ t = Len(status) /\ Awaiting = {}
      /\ \A v \in DOMAIN workers : \A U \in Worker : workers[v] = U => Fits(U) /\ U.at \notin Driving
    BY <1>1, Undriven
<1>3. /\ status' \in Seq(Status) /\ Len(status') = Len(status) /\ DOMAIN status' = DOMAIN status
      /\ Awaiting' = {} /\ LastActive'
      /\ \A u \in DOMAIN status : status'[u] \notin Active
      /\ \A u \in DOMAIN status \ {t} : status'[u] = status[u]
    <2>1. "error" \in Status \ Active
        BY DEF Status, Active
    <2> QED
        BY <1>1, <2>1, RunEnds DEF Active
<1>4. /\ CellsInv' /\ Waiting'[t] = {} /\ \A u \in Turn \ {t} : Waiting'[u] = Waiting[u]
      /\ Returned \subseteq Returned'
    BY <1>1, <1>3, Resolves
<1>5. GraphInv' /\ Loose' = Loose /\ Genuine' /\ Approvals' /\ Asked'
    BY <1>1, <1>3, <1>4 DEF ToolInv, GraphInv, Loose, Genuine, Approvals, Asked
<1>6. ASSUME NEW v \in DOMAIN workers, NEW U \in Worker, workers[v] = U PROVE Fits(U)'
    <2>1. Fits(U) /\ U.at \notin Driving
        BY <1>2, <1>6
    <2>2. U.at \in Closing => Loose' # {} /\ Awaiting' = {}
        BY <1>3, <1>5, <2>1 DEF Fits
    <2>3. U.at = "cells" => Waiting'[U.turn] \cap executed' = {}
        BY <1>1, <1>4, <2>1, Turns DEF Fits
    <2> QED
        BY <1>1, <1>3, <1>4, <2>1, <2>2, <2>3, Bystander
<1>7. \A u \in DOMAIN status' : Waiting'[u] # {} => u \in DOMAIN status /\ status[u] \notin Active /\ Waiting[u] # {}
    <2>1. ASSUME NEW u \in DOMAIN status', Waiting'[u] # {}
          PROVE  u \in DOMAIN status /\ status[u] \notin Active /\ Waiting[u] # {}
        <3>1. u \in DOMAIN status /\ u \in Turn /\ u # t
            BY <1>3, <1>4, <2>1, Turns
        <3> QED
            BY <1>3, <1>4, <2>1, <3>1
    <2> QED
        BY <2>1
<1> QED
    BY <1>1, <1>2, <1>3, <1>4, <1>5, <1>6, <1>7, Rests

\* Or by a stop that found no Event: the row is all it ends.
LEMMA EndRowStep == ASSUME ToolInv, Base', ~ cut', NEW w \in DOMAIN workers, EndRow(w) PROVE ToolInv'
<1>1. PICK V \in Worker : V = workers[w] /\ V.at = "end" /\ Fits(V)
    BY Current DEF EndRow, At
<1>2. V.turn \in DOMAIN status /\ V.turn \in Turn /\ V.frozen \subseteq Returned
    BY <1>1, Turns DEF Fits
<1> DEFINE W == Moved(V, "done")
<1>3. /\ W \in Worker /\ workers' = [workers EXCEPT ![w] = W] /\ W.at = "done" /\ W.frozen = V.frozen
    <2>1. Go(w, "done") /\ "done" \in Place
        BY DEF EndRow, Place
    <2> QED
        BY <1>1, <2>1, Goes
<1> HIDE DEF W
<1>4. UNCHANGED <<cells, graph, linked, granted, executed>>
    BY DEF EndRow
<1>5. W.at \notin Driving /\ W.at \notin Owning /\ workers[w].at \notin Owning /\ workers[w].at # "cells"
    BY <1>1, <1>3 DEF Driving, Owning, Closing
<1>6. Waiting' = Waiting /\ Returned' = Returned /\ Loose' = Loose
    BY <1>4 DEF Waiting, Pending, Returned, Loose
<1>7. CASE status[V.turn] # "running"
    <2>1. status' = status /\ failed' = failed
        BY <1>1, <1>7 DEF EndRow
    <2>2. Fits(W)'
        BY <1>2, <1>3, <1>6, <2>1 DEF Fits, Driving, Closing
    <2> QED
        BY <1>3, <1>4, <1>5, <2>1, <2>2, Quiet
<1>8. CASE status[V.turn] = "running"
    <2>1. /\ status' = [status EXCEPT ![V.turn] = "interrupted"] /\ ~ Driven(V.turn)
          /\ failed \subseteq failed' /\ (Waiting[V.turn] # {} => "cells" \in failed')
          /\ "graph" \notin failed' => "graph" \notin failed
        BY <1>1, <1>2, <1>8 DEF EndRow, To, Waiting
    <2>2. /\ V.turn = Len(status) /\ Awaiting = {}
          /\ \A v \in DOMAIN workers : \A U \in Worker : workers[v] = U => Fits(U) /\ U.at \notin Driving
        BY <1>2, <1>8, <2>1, Undriven
    <2>3. /\ status' \in Seq(Status) /\ Len(status') = Len(status) /\ DOMAIN status' = DOMAIN status
          /\ Awaiting' = {} /\ LastActive'
          /\ \A u \in DOMAIN status : status'[u] \notin Active
          /\ \A u \in DOMAIN status \ {V.turn} : status'[u] = status[u]
        <3>1. "interrupted" \in Status \ Active
            BY DEF Status, Active
        <3> QED
            BY <1>2, <1>8, <2>1, <3>1, RunEnds DEF Active
    <2>4. GraphInv' /\ CellsInv' /\ Genuine' /\ Approvals' /\ Asked'
        BY <1>4, <1>6, <2>3 DEF ToolInv, GraphInv, CellsInv, Genuine, Approvals, Asked
    <2>5. Fits(W)'
        BY <1>2, <1>3, <1>6 DEF Fits, Driving, Closing
    <2>6. ASSUME NEW v \in DOMAIN workers \ {w}, NEW U \in Worker, workers[v] = U PROVE Fits(U)'
        <3>1. Fits(U) /\ U.at \notin Driving
            BY <2>2, <2>6
        <3>2. U.at \in Closing => Loose' # {} /\ Awaiting' = {}
            BY <1>6, <2>3, <3>1 DEF Fits
        <3>3. U.at = "cells" => Waiting'[U.turn] \cap executed' = {}
            BY <1>4, <1>6, <3>1 DEF Fits
        <3> QED
            BY <1>4, <1>6, <2>3, <3>1, <3>2, <3>3, Bystander
    <2>7. "cells" \notin failed' => \A t \in DOMAIN status' : Waiting'[t] # {} =>
              t \in DOMAIN status /\ status[t] \notin Active /\ Waiting[t] # {}
        BY <1>6, <2>1, <2>2, <2>3 DEF ToolInv, LastActive
    <2> QED
        BY <1>3, <1>5, <1>6, <2>1, <2>2, <2>3, <2>4, <2>5, <2>6, <2>7, Moves
<1> QED
    BY <1>7, <1>8

-----------------------------------------------------------------------------
(* The steps of a decision.                                                 *)

LEMMA CheckDecisionStep == ASSUME ToolInv, Base', NEW w \in DOMAIN workers, CheckDecision(w) PROVE ToolInv'
<1>1. PICK V \in Worker : V = workers[w] /\ V.at = "check" /\ Fits(V)
    BY Current DEF CheckDecision, At
<1>2. PICK pc \in {"read", "done"} : Go(w, pc)
    BY DEF CheckDecision
<1> DEFINE W == Moved(V, pc)
<1>3. /\ W \in Worker /\ workers' = [workers EXCEPT ![w] = W]
      /\ W.at = pc /\ W.ids = V.ids /\ W.frozen = V.frozen
    <2>1. pc \in Place
        BY DEF Place
    <2> QED
        BY <1>1, <1>2, <2>1, Goes
<1> HIDE DEF W
<1>4. UNCHANGED <<status, cells, graph, linked, granted, executed, failed>>
    BY DEF CheckDecision, stores, history
<1>5. Returned' = Returned
    BY <1>4 DEF Returned
<1>6. Fits(W)'
    BY <1>1, <1>3, <1>4, <1>5 DEF Fits, Driving, Closing
<1>7. W.at \notin Driving /\ W.at \notin Owning /\ workers[w].at \notin Owning /\ workers[w].at # "cells"
    BY <1>1, <1>3 DEF Driving, Owning, Closing
<1> QED
    BY <1>3, <1>4, <1>6, <1>7, Quiet

LEMMA ReadPendingStep == ASSUME ToolInv, Base', NEW w \in DOMAIN workers, ReadPending(w) PROVE ToolInv'
<1>1. PICK V \in Worker : V = workers[w] /\ V.at = "read" /\ Fits(V)
    BY Current DEF ReadPending, At
<1>2. PICK W \in Worker : /\ workers' = [workers EXCEPT ![w] = W] /\ W.frozen = V.frozen
                          /\ W.at \in {"cas", "done"}
                          /\ W.at = "cas" => /\ W.turn \in DOMAIN status /\ W.ids \subseteq V.ids
                                             /\ W.whole => W.ids = {}
    <2>1. CASE Awaiting = {}
        <3>1. Go(w, "done") /\ "done" \in Place
            BY <2>1 DEF ReadPending, Place
        <3> QED
            BY <1>1, <3>1, Goes
    <2>2. CASE Awaiting # {}
        <3>1. PICK t \in Awaiting : workers' =
                  [workers EXCEPT ![w].at = "cas", ![w].turn = t,
                       ![w].ids = IF workers[w].whole THEN {} ELSE @ \cap Pending(t)]
            BY <2>2 DEF ReadPending
        <3>2. t \in DOMAIN status /\ t \in 0..MaxTurns
            BY Turns DEF Awaiting, Turn
        <3> DEFINE ids == IF V.whole THEN {} ELSE V.ids \cap Pending(t)
                   W == As(V, "cas", t, ids, V.frozen)
        <3>3. workers' = [workers EXCEPT ![w] = [V EXCEPT !.at = "cas", !.turn = t, !.ids = ids]]
            BY <1>1, <3>1 DEF ToolInv, WorkerTypes
        <3>4. [V EXCEPT !.at = "cas", !.turn = t, !.ids = ids] = W
            <4> HIDE DEF ids
            <4> QED
                BY MovedTurn
        <3>5. /\ W \in Worker /\ W.at = "cas" /\ W.turn = t /\ W.ids = ids /\ W.frozen = V.frozen
              /\ W.whole = V.whole
            <4>1. ids \subseteq Citation
                BY DEF Worker
            <4> HIDE DEF ids
            <4> QED
                BY <3>2, <4>1 DEF As, Worker, Place
        <3>6. ids \subseteq V.ids /\ (V.whole => ids = {})
            OBVIOUS
        <3> HIDE DEF W, ids
        <3> QED
            BY <3>2, <3>3, <3>4, <3>5, <3>6
    <2> QED
        BY <2>1, <2>2
<1>3. UNCHANGED <<status, cells, graph, linked, granted, executed, failed>>
    BY DEF ReadPending, stores, history
<1>4. Returned' = Returned
    BY <1>3 DEF Returned
<1>5. Fits(W)'
    BY <1>1, <1>2, <1>3, <1>4 DEF Fits, Driving, Closing
<1>6. W.at \notin Driving /\ W.at \notin Owning /\ workers[w].at \notin Owning /\ workers[w].at # "cells"
    BY <1>1, <1>2 DEF Driving, Owning, Closing
<1> QED
    BY <1>2, <1>3, <1>5, <1>6, Quiet

LEMMA WinStep == ASSUME ToolInv, Base', NEW w \in DOMAIN workers, Win(w) PROVE ToolInv'
<1>1. PICK V \in Worker : V = workers[w] /\ V.at = "cas" /\ Fits(V)
    BY Current DEF Win, At
<1>2. /\ V.turn \in DOMAIN status /\ V.turn \in Turn
      /\ V.ids \subseteq granted /\ V.frozen \subseteq Returned /\ (V.whole => V.ids = {})
    BY <1>1, Turns DEF Fits
<1>3. PICK pc \in {"done", "cells", "flag"} :
          /\ Go(w, pc)
          /\ status[V.turn] # "awaiting" => pc = "done" /\ UNCHANGED <<status, granted>>
          /\ status[V.turn] = "awaiting" =>
                 \/ pc = "cells" /\ To(V.turn, "rejected") /\ granted' = granted
                 \/ /\ pc = "flag" /\ To(V.turn, "running")
                    /\ granted' = IF V.whole THEN granted \cup Pending(V.turn) ELSE granted
    <2>1. CASE status[V.turn] # "awaiting"
        BY <1>1, <2>1 DEF Win
    <2>2. CASE status[V.turn] = "awaiting" /\ V.whole
        BY <1>1, <2>2 DEF Win
    <2>3. CASE status[V.turn] = "awaiting" /\ ~ V.whole /\ V.ids = {}
        BY <1>1, <2>3 DEF Win
    <2>4. CASE status[V.turn] = "awaiting" /\ ~ V.whole /\ V.ids # {}
        BY <1>1, <2>4 DEF Win
    <2> QED
        BY <2>1, <2>2, <2>3, <2>4
<1> DEFINE W == Moved(V, pc)
<1>4. /\ W \in Worker /\ workers' = [workers EXCEPT ![w] = W]
      /\ W.at = pc /\ W.turn = V.turn /\ W.whole = V.whole /\ W.ids = V.ids /\ W.frozen = V.frozen
    <2>1. pc \in Place
        BY DEF Place, Driving
    <2>2. Go(w, pc)
        BY <1>3
    <2>3. \A q \in Place : Go(w, q) =>
              LET U == Moved(V, q)
              IN  /\ U \in Worker /\ workers' = [workers EXCEPT ![w] = U]
                  /\ U.at = q /\ U.turn = V.turn /\ U.whole = V.whole
                  /\ U.ids = V.ids /\ U.frozen = V.frozen
        BY <1>1, Goes
    <2> QED
        BY <2>1, <2>2, <2>3
<1> HIDE DEF W
<1>5. UNCHANGED <<cells, graph, linked, shown, executed, blamed, failed>>
    BY DEF Win
<1>6. Waiting' = Waiting /\ Returned' = Returned /\ Opened' = Opened /\ Loose' = Loose
    BY <1>5 DEF Waiting, Pending, Returned, Opened, Loose
<1>7. CASE status[V.turn] # "awaiting"
    <2>1. UNCHANGED <<status, granted>> /\ W.at = "done"
        BY <1>3, <1>4, <1>7
    <2>2. Fits(W)'
        BY <1>2, <1>4, <1>6, <2>1 DEF Fits, Driving, Closing
    <2>3. W.at \notin Driving /\ W.at \notin Owning /\ workers[w].at \notin Owning /\ workers[w].at # "cells"
        BY <1>1, <2>1 DEF Driving, Owning, Closing
    <2> QED
        BY <1>4, <1>5, <2>1, <2>2, <2>3, Quiet
<1>8. CASE status[V.turn] = "awaiting"
    <2>1. V.turn \in Awaiting /\ Ready(V.turn) /\ V.turn = Len(status)
        BY <1>2, <1>8 DEF Awaiting, ToolInv, Asked, LastActive, Active
    <2>2. Opened # {} /\ Waiting[V.turn] = Opened /\ Opened \cap executed = {} /\ Loose # {}
          /\ Pending(V.turn) = Opened /\ Opened \subseteq Call
        BY <1>2, <2>1, OpenDangles DEF Ready, Opened, Loose, ToolInv, GraphInv, Waiting
    <2>3. PICK final \in {"rejected", "running"} :
              /\ status' = [status EXCEPT ![V.turn] = final]
              /\ final = "rejected" <=> pc = "cells"
        BY <1>3, <1>8 DEF To
    <2>4. pc \in {"cells", "flag"}
        BY <1>3, <1>8
    <2>5. granted \subseteq granted' /\ granted' \subseteq Call /\ (pc = "flag" /\ V.whole => Opened \subseteq granted')
        BY <1>3, <1>8, <2>2 DEF ToolInv, StoreTypes
    <2>6. /\ status' \in Seq(Status) /\ Len(status') = Len(status) /\ DOMAIN status' = DOMAIN status
          /\ status'[V.turn] = final
          /\ \A u \in DOMAIN status \ {V.turn} : status'[u] = status[u]
        <3>1. final \in Status
            BY DEF Status, Active
        <3>2. V.turn \in DOMAIN status
            BY <1>2
        <3>3. status' = [status EXCEPT ![V.turn] = final]
            BY <2>3
        <3> QED
            BY <3>1, <3>2, <3>3, StatusSet DEF ToolInv
    <2>7. \A u \in DOMAIN status \ {V.turn} : status[u] \notin Active
        BY <2>1 DEF ToolInv, LastActive
    <2>8. Awaiting' = {}
        BY <2>6, <2>7 DEF Awaiting, Active
    <2>10. LastActive'
        BY <2>1, <2>6, <2>7 DEF LastActive
    <2>11. GraphInv' /\ CellsInv' /\ Genuine' /\ Approvals' /\ Asked'
        BY <1>5, <1>6, <2>5, <2>6, <2>8 DEF ToolInv, GraphInv, CellsInv, Genuine, Approvals, Asked
    <2>12. Fits(W)'
        <3>1. CASE pc = "cells"
            BY <1>2, <1>4, <1>5, <1>6, <2>2, <2>3, <2>6, <2>8, <3>1 DEF Fits, Driving, Closing, Active
        <3>2. CASE pc = "flag"
            <4>1. Ready(V.turn)'
                BY <1>5, <1>6, <2>2 DEF Ready
            <4> QED
                BY <1>2, <1>4, <1>5, <1>6, <2>3, <2>4, <2>5, <2>6, <3>2, <4>1 DEF Fits, Driving, Closing
        <3> QED
            BY <2>4, <3>1, <3>2
    <2>13. ASSUME NEW v \in DOMAIN workers, NEW U \in Worker, workers[v] = U
           PROVE  Fits(U) /\ U.at \notin Driving /\ U.at \notin Closing
        <3>1. Fits(U)
            BY <2>13, Current
        <3>2. U.at \notin Driving
            BY <2>1, <2>13, Drives
        <3> QED
            BY <2>1, <3>1, <3>2 DEF Fits
    <2>14. ASSUME NEW v \in DOMAIN workers \ {w}, NEW U \in Worker, workers[v] = U PROVE Fits(U)'
        <3>1. Fits(U) /\ U.at \notin Driving /\ U.at \notin Closing /\ U.at # "cells"
            BY <2>13, <2>14 DEF Closing
        <3>2. \A u \in DOMAIN status : status[u] \notin Active => status'[u] \notin Active
            BY <1>8, <2>6 DEF Active
        <3> QED
            BY <1>6, <2>5, <2>6, <3>1, <3>2, Bystander
    <2>15. \A v \in DOMAIN workers : workers[v].at \notin Driving /\ workers[v].at \notin Owning
        <3>1. ASSUME NEW v \in DOMAIN workers PROVE workers[v].at \notin Driving /\ workers[v].at \notin Owning
            <4>1. PICK U \in Worker : U = workers[v]
                BY Current
            <4> QED
                BY <2>13, <4>1 DEF Owning, Driving
        <3> QED
            BY <3>1
    <2>16. W.at \in Owning /\ workers[w].at # "cells"
        BY <1>1, <1>4, <2>4 DEF Owning, Closing
    <2>17. \A t \in DOMAIN status' : status'[t] \notin Active =>
               \/ W.turn = t /\ W.at = "cells"
               \/ t \in DOMAIN status /\ status[t] \notin Active
        BY <1>4, <2>3, <2>6, <2>7 DEF Active
    <2> QED
        BY <1>4, <1>5, <1>6, <2>10, <2>11, <2>12, <2>14, <2>15, <2>16, <2>17, Moves
<1> QED
    BY <1>7, <1>8

LEMMA SetDefaultStep == ASSUME ToolInv, Base', NEW w \in DOMAIN workers, SetDefault(w) PROVE ToolInv'
<1>1. PICK V \in Worker : V = workers[w] /\ V.at = "flag" /\ Fits(V)
    BY Current DEF SetDefault, At
<1>2. V.turn \in DOMAIN status /\ status[V.turn] = "running"
    BY <1>1, Drives DEF Driving
<1>3. /\ Ready(V.turn) /\ V.ids \subseteq granted /\ V.frozen \subseteq Returned
      /\ V.whole => V.ids = {} /\ Opened \subseteq granted
    BY <1>1 DEF Fits
<1>4. PICK pc \in {"mark cells", "trim"} : Go(w, pc) /\ (pc = "mark cells" <=> V.whole)
    BY <1>1 DEF SetDefault
<1> DEFINE W == Moved(V, pc)
<1>5. /\ W \in Worker /\ workers' = [workers EXCEPT ![w] = W]
      /\ W.at = pc /\ W.turn = V.turn /\ W.whole = V.whole /\ W.ids = V.ids /\ W.frozen = V.frozen
    <2>1. pc \in Place
        BY DEF Place, Driving
    <2>2. V = workers[w] /\ Go(w, pc) /\ WorkerTypes
        BY <1>1, <1>4 DEF ToolInv
    <2>3. workers' = [workers EXCEPT ![w] = Moved(V, pc)]
        BY <2>1, <2>2, GoesTyped
    <2> QED
        BY <2>1, <2>3, MovesTyped
<1> HIDE DEF W
<1>6. UNCHANGED <<status, cells, graph, linked, granted, executed, failed>>
    BY DEF SetDefault, stores, history
<1>7. Waiting' = Waiting /\ Returned' = Returned /\ Opened' = Opened /\ Loose' = Loose /\ Ready(V.turn)'
    BY <1>3, <1>6 DEF Waiting, Pending, Returned, Opened, Loose, Ready
<1>8. Fits(W)'
    <2>1. W.turn \in DOMAIN status' /\ status'[W.turn] = "running" /\ W.frozen \subseteq Returned'
        BY <1>2, <1>3, <1>5, <1>6, <1>7
    <2>2. CASE pc = "trim"
        BY <1>3, <1>4, <1>5, <1>6, <1>7, <2>1, <2>2 DEF Fits, Driving, Closing
    <2>3. CASE pc = "mark cells"
        <3>1. /\ W.ids = {} /\ Opened' # {} /\ Waiting'[W.turn] = Opened' /\ Opened' \cap executed' = {}
              /\ Opened' \subseteq granted'
            BY <1>3, <1>4, <1>5, <1>6, <1>7, <2>3 DEF Ready
        <3> QED
            BY <1>5, <2>1, <2>3, <3>1 DEF Fits, Driving, Closing
    <2> QED
        BY <2>2, <2>3
<1>9. W.at \in Driving /\ workers[w].at \in Driving /\ W.at \in Owning /\ workers[w].at \in Owning /\ workers[w].at # "cells"
    BY <1>1, <1>5 DEF Driving, Owning, Closing
<1> QED
    BY <1>5, <1>6, <1>8, <1>9, Quiet

LEMMA TrimStep == ASSUME ToolInv, Base', NEW w \in DOMAIN workers, Trim(w) PROVE ToolInv'
<1>1. PICK V \in Worker : V = workers[w] /\ V.at = "trim" /\ Fits(V)
    BY Current DEF Trim, At
<1>2. /\ V.turn \in DOMAIN status /\ V.turn \in Turn
      /\ status[V.turn] = "running" /\ Awaiting = {}
      /\ \A v \in DOMAIN workers \ {w} : \A U \in Worker : workers[v] = U =>
             Fits(U) /\ U.at \notin Driving /\ U.at \notin Closing
    BY <1>1, Drives DEF Driving, Owning
<1>3. /\ Opened # {} /\ Waiting[V.turn] = Opened /\ Opened \cap executed = {} /\ Opened \subseteq Call
      /\ V.ids \subseteq granted /\ ~ V.whole /\ V.frozen \subseteq Returned
    BY <1>1 , OpenDangles DEF Fits, Ready, ToolInv, GraphInv, Opened
<1>4. GraphInv' /\ Opened' = Opened \cap V.ids /\ (Opened' = {} => Loose' = {})
    <2>1. Sound(graph) /\ Open(graph) # {} /\ graph' = Trimmed(graph, V.ids)
        BY <1>1, <1>3 DEF ToolInv, GraphInv, Opened, Trim
    <2> QED
        BY <2>1, TrimmedSound DEF GraphInv, Opened, Loose
<1> PICK refused \in SUBSET Call : refused = Opened \ V.ids
    BY <1>3
<1> DEFINE W == As(V, "mark cells", V.turn, refused, V.frozen)
<1>5. /\ W \in Worker /\ workers' = [workers EXCEPT ![w] = W]
      /\ W.at = "mark cells" /\ W.turn = V.turn /\ W.whole = V.whole /\ W.ids = refused
      /\ W.frozen = V.frozen
    <2>1. OfKind(graph, "calls") # {} /\ graph[Last(OfKind(graph, "calls"))].of = Opened
        BY <1>3, TrimmedSound DEF ToolInv, GraphInv, Opened
    <2>2. workers' = [workers EXCEPT ![w] = [V EXCEPT !.at = "mark cells", !.ids = refused]]
        BY <1>1, <2>1 DEF ToolInv, WorkerTypes, Trim
    <2>3. [V EXCEPT !.at = "mark cells", !.ids = refused] = W
        BY AsIs
    <2>4. /\ W \in Worker /\ W.at = "mark cells" /\ W.turn = V.turn /\ W.whole = V.whole
          /\ W.ids = refused /\ W.frozen = V.frozen
        <3>1. refused \subseteq Citation
            BY DEF Citation
        <3> QED
            BY <3>1 DEF As, Worker, Place, Driving
    <2> HIDE DEF W
    <2> QED
        BY <2>2, <2>3, <2>4
<1> HIDE DEF W
<1>6. UNCHANGED <<status, cells, flags, linked, history>>
    BY DEF Trim
<1>7. Waiting' = Waiting /\ Returned' = Returned /\ Awaiting' = {} /\ executed' = executed /\ granted' = granted
    BY <1>2, <1>6 DEF Waiting, Pending, Returned, Awaiting, history
<1>8. CellsInv' /\ LastActive' /\ Genuine' /\ Approvals' /\ Asked'
    BY <1>6, <1>7 DEF ToolInv, CellsInv, LastActive, Genuine, Approvals, Asked, history
<1>9. Fits(W)'
    <2>1. /\ Waiting'[V.turn] \ refused = Opened' /\ refused \subseteq Waiting'[V.turn]
          /\ Opened' \subseteq granted' /\ (Opened' = {} => Loose' = {})
          /\ Waiting'[V.turn] \cap executed' = {} /\ Waiting'[V.turn] # {} /\ V.frozen \subseteq Returned'
        BY <1>3, <1>4, <1>7
    <2>2. V.turn \in DOMAIN status' /\ status'[V.turn] = "running"
        BY <1>2, <1>6
    <2> QED
        BY <1>3, <1>5, <2>1, <2>2 DEF Fits, Driving, Closing
<1>10. ASSUME NEW v \in DOMAIN workers \ {w}, NEW U \in Worker, workers[v] = U PROVE Fits(U)'
    <2>1. Fits(U) /\ U.at \notin Driving /\ U.at \notin Closing /\ U.at # "cells"
        BY <1>2, <1>10 DEF Closing
    <2> QED
        BY <1>6, <1>7, <2>1, Bystander DEF history
<1>11. W.at \in Driving /\ workers[w].at \in Driving /\ W.at \in Owning /\ workers[w].at \in Owning /\ workers[w].at # "cells"
    BY <1>1, <1>5 DEF Driving, Owning, Closing
<1> QED
    BY <1>4, <1>5, <1>6, <1>7, <1>8, <1>9, <1>10, <1>11, Moves DEF history

LEMMA MarkDecidedStep == ASSUME ToolInv, Base', NEW w \in DOMAIN workers, MarkDecided(w) PROVE ToolInv'
<1>1. PICK V \in Worker : V = workers[w] /\ V.at = "mark cells" /\ Fits(V)
    BY Current DEF MarkDecided, At
<1>2. /\ V.turn \in DOMAIN status /\ V.turn \in Turn
      /\ status[V.turn] = "running" /\ Awaiting = {}
      /\ \A v \in DOMAIN workers \ {w} : \A U \in Worker : workers[v] = U =>
             Fits(U) /\ U.at \notin Driving /\ U.at \notin Closing
    BY <1>1, Drives DEF Driving, Owning
<1>3. /\ V.ids \subseteq Waiting[V.turn] /\ Waiting[V.turn] \ V.ids = Opened
      /\ Waiting[V.turn] \cap executed = {} /\ (V.whole => V.ids = {})
      /\ Opened \subseteq granted /\ (Opened = {} => Loose = {}) /\ V.frozen \subseteq Returned
    BY <1>1 DEF Fits
<1> DEFINE W == Moved(V, "drive")
<1>4. /\ W \in Worker /\ workers' = [workers EXCEPT ![w] = W]
      /\ W.at = "drive" /\ W.turn = V.turn /\ W.frozen = V.frozen
    <2>1. Go(w, "drive") /\ "drive" \in Place
        BY DEF MarkDecided, Place, Driving
    <2>2. V \in Worker /\ V = workers[w]
        BY <1>1
    <2> QED
        BY <2>1, <2>2, Goes
<1> HIDE DEF W
<1>5. UNCHANGED <<status, graph, flags, linked, history>>
    BY DEF MarkDecided
<1>6. /\ cells' \in [Call -> Cell]
      /\ \A c \in Call :
             /\ cells'[c].turn = cells[c].turn
             /\ cells'[c].result = IF c \in V.ids THEN "refused" ELSE cells[c].result
    <2>1. cells \in [Call -> Cell]
        BY DEF ToolInv, StoreTypes
    <2>2. CASE V.whole
        <3>1. cells' = Approval(V.turn, "approved")
            BY <1>1, <2>2 DEF MarkDecided
        <3> QED
            BY <1>3, <2>1, <2>2, <3>1, ApprovalCells
    <2>3. CASE ~ V.whole
        <3>1. cells' = PartiallyApproved(V.turn, V.ids)
            BY <1>1, <2>3 DEF MarkDecided
        <3>2. \A c \in V.ids : cells[c].turn = V.turn
            BY <1>2, <1>3, WaitingIs
        <3>3. /\ cells' \in [Call -> Cell]
              /\ \A c \in Call :
                     /\ cells'[c].turn = cells[c].turn
                     /\ cells'[c].result = IF cells[c].turn = V.turn /\ c \in V.ids THEN "refused"
                                           ELSE cells[c].result
            BY <2>1, <3>1, PartialCells
        <3> QED
            BY <3>2, <3>3
    <2> QED
        BY <2>2, <2>3
<1>7. \A t \in Turn : Waiting'[t] = Waiting[t] \ V.ids
    BY <1>6, WaitingIs
<1>8. \A c \in V.ids : cells[c].result = "none" /\ cells[c].turn = V.turn /\ c \in Call /\ c \notin executed
    BY <1>2, <1>3, WaitingIs
<1>9. Returned \subseteq Returned' /\ Opened' = Opened /\ Loose' = Loose /\ Awaiting' = {}
      /\ executed' = executed /\ granted' = granted
    BY <1>2, <1>5, <1>6, <1>8 DEF Returned, Opened, Loose, Awaiting, history, ToolInv, StoreTypes
<1>11. CellsInv'
    <2> SUFFICES ASSUME NEW c \in Call
                 PROVE  /\ cells'[c].turn <= Len(status)
                        /\ cells'[c].turn = 0 => cells'[c].result = "none" /\ c \notin executed
                        /\ cells'[c].result = "refused" => c \notin executed
        BY <1>5 DEF CellsInv, history
    <2>1. V.turn # 0
        BY <1>2 DEF Turn
    <2> QED
        BY <1>6, <1>8, <2>1 DEF ToolInv, CellsInv
<1>12. GraphInv' /\ LastActive' /\ Genuine' /\ Approvals' /\ Asked'
    BY <1>5, <1>9 DEF ToolInv, GraphInv, LastActive, Genuine, Approvals, Asked, history
<1>13. Fits(W)'
    BY <1>2, <1>3, <1>4, <1>5, <1>7, <1>9 DEF Fits, Driving, Closing
<1>14. ASSUME NEW v \in DOMAIN workers \ {w}, NEW U \in Worker, workers[v] = U PROVE Fits(U)'
    <2>1. Fits(U) /\ U.at \notin Driving /\ U.at \notin Closing /\ U.at # "cells"
        BY <1>2, <1>14 DEF Closing
    <2> QED
        BY <1>5, <1>9, <2>1, Bystander DEF history
<1>15. W.at \in Driving /\ workers[w].at \in Driving /\ W.at \in Owning /\ workers[w].at \in Owning /\ workers[w].at # "cells"
    BY <1>1, <1>4 DEF Driving, Owning, Closing
<1>16. \A t \in DOMAIN status' : Waiting'[t] # {} => t \in DOMAIN status /\ Waiting[t] # {}
    BY <1>5, <1>7, Turns
<1> QED
    BY <1>4, <1>5, <1>11, <1>12, <1>13, <1>14, <1>15, <1>16, Moves DEF history

LEMMA DriveStep == ASSUME ToolInv, Base', NEW w \in DOMAIN workers, Drive(w) PROVE ToolInv'
<1>1. PICK V \in Worker : V = workers[w] /\ V.at = "drive" /\ Fits(V)
    BY Current DEF Drive, At
<1>2. /\ V.turn \in DOMAIN status /\ V.turn \in Turn
      /\ status[V.turn] = "running" /\ Awaiting = {}
      /\ \A v \in DOMAIN workers \ {w} : \A U \in Worker : workers[v] = U =>
             Fits(U) /\ U.at \notin Driving /\ U.at \notin Closing
    <2>1. V.at \in Driving /\ V.at \in Owning
        BY <1>1 DEF Driving, Owning
    <2> QED
        BY <1>1, <2>1, Drives
<1>3. /\ Waiting[V.turn] = Opened /\ Opened \subseteq Call
      /\ Opened \subseteq granted /\ (Opened = {} => Loose = {}) /\ V.frozen \subseteq Returned
    BY <1>1, OpenDangles DEF Fits, ToolInv, GraphInv, Opened
<1> PICK ids \in SUBSET Citation : ids = Open(graph)
    BY <1>3 DEF Opened, Citation
<1>4. PICK pc \in {"final", "tools"}, heeds \in BOOLEAN :
          /\ pc = "tools" <=> Opened # {}
          /\ workers' = [workers EXCEPT ![w] = Heeding(V, pc, ids, heeds)]
    <2> DEFINE pc == IF Open(graph) = {} THEN "final" ELSE "tools"
               heeds == V.turn \in flagged
    <2>1. workers' = [workers EXCEPT ![w] = Heeding(V, pc, ids, heeds)]
        BY <1>1 DEF Drive, ToolInv, WorkerTypes, Heeding
    <2>2. pc \in {"final", "tools"} /\ heeds \in BOOLEAN /\ (pc = "tools" <=> Opened # {})
        BY DEF Opened
    <2> HIDE DEF pc, heeds
    <2> QED
        BY <2>1, <2>2
<1> DEFINE W == Heeding(V, pc, ids, heeds)
<1>5. /\ W \in Worker /\ workers' = [workers EXCEPT ![w] = W]
      /\ W.at = pc /\ W.turn = V.turn /\ W.ids = ids /\ W.frozen = V.frozen
    <2>1. pc \in Place
        BY DEF Place, Driving
    <2> QED
        BY <1>4, <2>1, MovedHeeds
<1> HIDE DEF W
<1>6. /\ UNCHANGED <<stores, flags, linked, shown, granted, blamed, failed>>
      /\ executed' = executed \cup Opened
    BY DEF Drive, Opened
<1>7. Waiting' = Waiting /\ Returned \subseteq Returned' /\ Opened' = Opened /\ Loose' = Loose /\ Awaiting' = {}
    BY <1>2, <1>6 DEF Waiting, Pending, Returned, Opened, Loose, Awaiting, stores
<1>8. GraphInv' /\ LastActive' /\ Genuine' /\ Approvals' /\ Asked'
    BY <1>3, <1>6, <1>7
       DEF ToolInv, GraphInv, LastActive, Genuine, Approvals, Asked, stores
<1>9. CellsInv'
    <2> SUFFICES ASSUME NEW c \in Call
                 PROVE  /\ cells[c].turn <= Len(status)
                        /\ cells[c].turn = 0 => cells[c].result = "none" /\ c \notin executed'
                        /\ cells[c].result = "refused" => c \notin executed'
        BY <1>6 DEF CellsInv, stores
    <2>1. c \in Opened => cells[c].turn = V.turn /\ cells[c].result = "none"
        BY <1>2, <1>3, WaitingIs
    <2>2. V.turn # 0
        BY <1>2 DEF Turn
    <2> QED
        BY <1>6, <2>1, <2>2 DEF ToolInv, CellsInv
<1>10. Fits(W)'
    <2>1. W.turn \in DOMAIN status' /\ status'[W.turn] = "running" /\ W.frozen \subseteq Returned'
        BY <1>2, <1>3, <1>5, <1>6, <1>7 DEF stores
    <2>2. CASE pc = "final"
        BY <1>3, <1>4, <1>5, <1>7, <2>1, <2>2 DEF Fits, Driving, Closing
    <2>3. CASE pc = "tools"
        <3>1. \A c \in Opened' : cells'[c].turn = W.turn
            BY <1>2, <1>3, <1>5, <1>6, <1>7, WaitingIs DEF stores
        <3>2. W.ids = Opened' /\ Opened' # {} /\ Opened' \subseteq executed' /\ Waiting'[W.turn] \subseteq Opened'
            BY <1>3, <1>4, <1>5, <1>6, <1>7, <2>3 DEF Opened
        <3> QED
            BY <1>5, <2>1, <2>3, <3>1, <3>2 DEF Fits, Driving, Closing
    <2> QED
        BY <2>2, <2>3
<1>11. ASSUME NEW v \in DOMAIN workers \ {w}, NEW U \in Worker, workers[v] = U PROVE Fits(U)'
    <2>1. Fits(U) /\ U.at \notin Driving /\ U.at \notin Closing /\ U.at # "cells"
        BY <1>2, <1>11 DEF Closing
    <2> QED
        BY <1>6, <1>7, <2>1, Bystander DEF stores
<1>12. /\ W.at \in Driving /\ workers[w].at \in Driving /\ workers[w].at \in Owning /\ workers[w].at # "cells"
       /\ W.at \in Owning \/ Loose = {}
    BY <1>1, <1>3, <1>4, <1>5 DEF Driving, Owning, Closing
<1> QED
    BY <1>5, <1>6, <1>7, <1>8, <1>9, <1>10, <1>11, <1>12, Moves DEF stores

LEMMA CloseCellsStep == ASSUME ToolInv, Base', NEW w \in DOMAIN workers, CloseCells(w) PROVE ToolInv'
<1>1. PICK V \in Worker : V = workers[w] /\ V.at = "cells" /\ Fits(V)
    BY Current DEF CloseCells, At
<1>2. /\ V.turn \in DOMAIN status /\ V.turn \in Turn /\ status[V.turn] \notin Active
      /\ Loose # {} /\ Awaiting = {} /\ Waiting[V.turn] \cap executed = {} /\ V.frozen \subseteq Returned
    BY <1>1, Turns DEF Fits, Closing
<1> DEFINE W == Moved(V, "clear")
<1>3. /\ W \in Worker /\ workers' = [workers EXCEPT ![w] = W]
      /\ W.at = "clear" /\ W.turn = V.turn /\ W.frozen = V.frozen
    <2>1. Go(w, "clear") /\ "clear" \in Place
        BY DEF CloseCells, Place
    <2>2. V \in Worker /\ V = workers[w]
        BY <1>1
    <2> QED
        BY <2>1, <2>2, Goes
<1> HIDE DEF W
<1>4. UNCHANGED <<status, graph, flags, linked, history>>
    BY DEF CloseCells
<1>5. PICK marker \in {"refused", "marker"} :
          /\ cells' \in [Call -> Cell]
          /\ \A c \in Call :
                 /\ cells'[c].turn = cells[c].turn
                 /\ cells'[c].result = IF c \in Waiting[V.turn] THEN marker ELSE cells[c].result
    <2>1. PICK marker \in {"refused", "marker"} :
              cells' = Resolved(Approval(V.turn, "rejected"), V.turn, marker)
        BY <1>1 DEF CloseCells
    <2>2. PICK cs \in [Call -> Cell] :
              /\ cs = Approval(V.turn, "rejected")
              /\ \A c \in Call : cs[c].turn = cells[c].turn /\ cs[c].result = cells[c].result
        BY ApprovalCells DEF ToolInv, StoreTypes
    <2>3. /\ cells' \in [Call -> Cell]
          /\ \A c \in Call :
                 /\ cells'[c].turn = cs[c].turn
                 /\ cells'[c].result = IF cs[c].turn = V.turn /\ cs[c].result = "none" THEN marker
                                       ELSE cs[c].result
        BY <2>1, <2>2, ResolvedCells
    <2>4. Waiting[V.turn] = {c \in Call : cells[c].turn = V.turn /\ cells[c].result = "none"}
        BY <1>2, WaitingIs
    <2> QED
        BY <2>2, <2>3, <2>4
<1>6. executed' = executed /\ Opened' = Opened /\ Loose' = Loose /\ Awaiting' = {} /\ status' = status
    BY <1>2, <1>4 DEF Opened, Loose, Awaiting, history
<1>7. /\ Waiting'[V.turn] = {} /\ \A u \in Turn \ {V.turn} : Waiting'[u] = Waiting[u]
      /\ Returned \subseteq Returned'
    <2>1. executed' = executed /\ V.turn \in Turn
        BY <1>2, <1>6
    <2>2. /\ \A c \in Call : cells'[c].turn = cells[c].turn
          /\ \A c \in Call \ Waiting[V.turn] : cells'[c].result = cells[c].result
          /\ \A c \in Waiting[V.turn] : cells'[c].result # "none"
        <3>1. Waiting[V.turn] \subseteq Call
            BY <1>2, WaitingIs
        <3> QED
            BY <1>5, <3>1
    <2> QED
        BY <2>1, <2>2, Settles
<1>9. CellsInv'
    <2> SUFFICES ASSUME NEW c \in Call
                 PROVE  /\ cells'[c].turn <= Len(status)
                        /\ cells'[c].turn = 0 => cells'[c].result = "none" /\ c \notin executed
                        /\ cells'[c].result = "refused" => c \notin executed
        BY <1>6 DEF CellsInv
    <2>1. V.turn # 0 /\ \A d \in Waiting[V.turn] : cells[d].turn = V.turn /\ d \notin executed
        BY <1>2, WaitingIs DEF Turn
    <2> QED
        BY <1>5, <2>1 DEF ToolInv, CellsInv
<1>10. GraphInv' /\ LastActive' /\ Genuine' /\ Approvals' /\ Asked'
    BY <1>4, <1>6, <1>7 DEF ToolInv, GraphInv, LastActive, Genuine, Approvals, Asked, history
<1>11. Fits(W)'
    BY <1>2, <1>3, <1>6, <1>7 DEF Fits, Driving, Closing
<1>12. ASSUME NEW v \in DOMAIN workers \ {w}, NEW U \in Worker, workers[v] = U PROVE Fits(U)'
    <2>1. Fits(U) /\ U.at \notin Owning
        BY <1>1, <1>12, Current DEF ToolInv, Single, Owning, Closing
    <2>2. CASE U.at \in Driving
        <3>1. U.turn \in Turn /\ U.turn # V.turn
            BY <1>2, <2>1, <2>2, Turns DEF Fits, Driving, Active
        <3>2. graph' = graph /\ granted' = granted /\ Awaiting' = Awaiting
            BY <1>2, <1>4, <1>6 DEF history
        <3>3. \A c \in Opened : cells'[c].turn = cells[c].turn
            BY <1>5, LegalEdits DEF Opened, ToolInv, StoreTypes
        <3> QED
            BY <1>6, <1>7, <2>1, <3>1, <3>2, <3>3, Undisturbed
    <2>3. CASE U.at \notin Driving
        <3>1. U.at \notin Closing /\ U.at # "cells"
            BY <2>1 DEF Owning, Closing
        <3> QED
            BY <1>4, <1>6, <1>7, <2>1, <2>3, <3>1, Bystander DEF history
    <2> QED
        BY <2>2, <2>3
<1>13. W.at \notin Driving /\ W.at \in Owning /\ workers[w].at \in Owning
    BY <1>1, <1>3 DEF Driving, Owning, Closing
<1>14. \A t \in DOMAIN status : Waiting'[t] # {} => Waiting[t] # {} /\ t # workers[w].turn
    BY <1>1, <1>7, Turns
<1> QED
    <2>1. failed' = failed
        BY <1>4 DEF history
    <2> QED
        BY <1>3, <1>6, <1>9, <1>10, <1>11, <1>12, <1>13, <1>14, <2>1, Moves, ZenonT(40)

LEMMA RejectPendingStep == ASSUME ToolInv, Base', NEW w \in DOMAIN workers, RejectPending(w) PROVE ToolInv'
<1>1. PICK V \in Worker : V = workers[w] /\ V.at = "clear" /\ Fits(V)
    BY Current DEF RejectPending, At
<1>2. Loose # {} /\ Awaiting = {} /\ V.frozen \subseteq Returned
    BY <1>1 DEF Fits, Closing
<1> DEFINE W == Moved(V, "done")
<1>3. /\ W \in Worker /\ workers' = [workers EXCEPT ![w] = W]
      /\ W.at = "done" /\ W.frozen = V.frozen
    <2>1. Go(w, "done") /\ "done" \in Place
        BY DEF RejectPending, Place
    <2>2. V \in Worker /\ V = workers[w]
        BY <1>1
    <2> QED
        BY <2>1, <2>2, Goes
<1> HIDE DEF W
<1>4. UNCHANGED <<status, cells, flags, linked, history>>
    BY DEF RejectPending
<1>5. GraphInv' /\ Loose' = {} /\ graph' # <<>>
    BY <1>2, WithoutSound DEF RejectPending, ToolInv, GraphInv, Loose
<1>6. Waiting' = Waiting /\ Returned' = Returned /\ Awaiting' = {} /\ executed' = executed
    BY <1>2, <1>4 DEF Waiting, Pending, Returned, Awaiting, history
<1>7. CellsInv' /\ LastActive' /\ Genuine' /\ Approvals' /\ Asked'
    BY <1>4, <1>6 DEF ToolInv, CellsInv, LastActive, Genuine, Approvals, Asked, history
<1>8. Fits(W)'
    BY <1>2, <1>3, <1>6 DEF Fits, Driving, Closing
<1>9. ASSUME NEW v \in DOMAIN workers \ {w}, NEW U \in Worker, workers[v] = U PROVE Fits(U)'
    <2>1. Fits(U) /\ U.at \notin Owning
        BY <1>1, <1>9, Current DEF ToolInv, Single, Owning, Closing
    <2> QED
        BY <1>4, <1>5, <1>6, <2>1 DEF Fits, Owning, Closing, history
<1>10. W.at \notin Driving /\ W.at \notin Owning /\ workers[w].at # "cells"
    BY <1>1, <1>3 DEF Driving, Owning, Closing
<1> QED
    BY <1>3, <1>4, <1>5, <1>6, <1>7, <1>8, <1>9, <1>10, Moves DEF history

LEMMA CleanupFailsStep == ASSUME ToolInv, Base', NEW w \in DOMAIN workers, CleanupFails(w) PROVE ToolInv'
<1>1. PICK V \in Worker : V = workers[w] /\ V.at \in Closing /\ Fits(V)
    BY Current DEF CleanupFails, At, Closing
<1> DEFINE W == Moved(V, "done")
<1>2. W \in Worker /\ workers' = [workers EXCEPT ![w] = W] /\ W.at = "done" /\ W.frozen = V.frozen
    <2>1. Go(w, "done") /\ "done" \in Place
        BY DEF CleanupFails, Place
    <2>2. V = workers[w]
        BY <1>1
    <2> QED
        BY <2>1, <2>2, Goes
<1> HIDE DEF W
<1>3. UNCHANGED <<status, cells, graph, linked, granted, executed>>
    BY DEF CleanupFails, stores
<1>4. failed \subseteq failed' /\ "graph" \in failed' /\ (workers[w].at = "cells" => "cells" \in failed')
    BY DEF CleanupFails, At
<1>5. Returned' = Returned
    BY <1>3 DEF Returned
<1>6. Fits(W)'
    BY <1>1, <1>2, <1>5 DEF Fits, Driving, Closing
<1>7. W.at \notin Driving /\ W.at \notin Owning
    BY <1>2 DEF Driving, Owning, Closing
<1> QED
    BY <1>2, <1>3, <1>4, <1>6, <1>7, Quiet

-----------------------------------------------------------------------------
(* A request arrives.                                                       *)

LEMMA StopStep == ASSUME ToolInv, Base', NEW t \in DOMAIN status, Stop(t) PROVE ToolInv'
<1>0. t \in Turn /\ t \in 0..MaxTurns
    BY Turns DEF Turn
<1>1. CASE t \in flagged /\ stopping' = stopping \cup {t} /\ UNCHANGED <<stores, workers, flagged, linked, history>>
    <2>1. UNCHANGED <<status, cells, graph, workers, linked, granted, executed, failed>>
        BY <1>1 DEF stores, history
    <2>2. /\ Waiting' = Waiting /\ Returned' = Returned /\ Opened' = Opened /\ Loose' = Loose
          /\ Awaiting' = Awaiting
        BY <2>1 DEF Waiting, Pending, Returned, Opened, Loose, Awaiting
    <2>3. GraphInv' /\ CellsInv' /\ LastActive' /\ Asked' /\ Genuine' /\ Approvals'
        BY <2>1, <2>2 DEF ToolInv, GraphInv, CellsInv, LastActive, Asked, Ready, Genuine, Approvals
    <2>4. ASSUME NEW v \in DOMAIN workers, NEW U \in Worker, workers[v] = U PROVE Fits(U)'
        <3>1. Fits(U)
            BY <2>4, Current
        <3> QED
            BY <2>1, <2>2, <3>1, Undisturbed
    <2>5. failed' = failed /\ \A u \in DOMAIN status' : status'[u] \notin Active /\ Waiting'[u] # {} =>
               u \in DOMAIN status /\ status[u] \notin Active /\ Waiting[u] # {}
        BY <2>1, <2>2
    <2>6. Loose' # {} => Awaiting' # {} \/ (Loose # {} /\ Awaiting = {})
        BY <2>2
    <2>7. workers' = workers
        BY <2>1
    <2> QED
        BY <2>3, <2>4, <2>5, <2>6, <2>7, Rests
<1>2. CASE /\ t \notin flagged /\ status[t] \in Active /\ Spawn(Thread("end", t, FALSE, {}))
           /\ UNCHANGED <<stores, flags, linked, history>>
    <2>1. PICK W \in Worker : Spawn(W) /\ W.at = "end" /\ W.turn = t /\ W.frozen = {}
        <3>1. "end" \in Place
            BY DEF Place
        <3>2. PICK whole \in BOOLEAN, ids \in SUBSET Citation : whole = FALSE /\ ids = {}
            OBVIOUS
        <3>3. LET W == Thread("end", t, whole, ids)
              IN  W \in Worker /\ W.at = "end" /\ W.turn = t /\ W.frozen = {}
            BY <1>0, <3>1, NewThread
        <3> QED
            BY <1>2, <3>2, <3>3
    <2>2. UNCHANGED <<status, cells, graph, linked, granted, executed, failed>>
        BY <1>2 DEF stores, history
    <2>3. /\ Waiting' = Waiting /\ Returned' = Returned /\ Opened' = Opened /\ Loose' = Loose
          /\ Awaiting' = Awaiting
        BY <2>2 DEF Waiting, Pending, Returned, Opened, Loose, Awaiting
    <2>4. GraphInv' /\ CellsInv' /\ LastActive' /\ Asked' /\ Genuine' /\ Approvals'
        BY <2>2, <2>3 DEF ToolInv, GraphInv, CellsInv, LastActive, Asked, Ready, Genuine, Approvals
    <2>5. Fits(W)'
        BY <2>1, <2>2 DEF Fits, Driving, Closing
    <2>6. ASSUME NEW v \in DOMAIN workers, NEW U \in Worker, workers[v] = U PROVE Fits(U)'
        <3>1. Fits(U)
            BY <2>6, Current
        <3> QED
            BY <2>2, <2>3, <3>1, Undisturbed
    <2>7. W.at \notin Driving /\ W.at \notin Owning
        BY <2>1 DEF Driving, Owning, Closing
    <2>8. failed' = failed /\ \A u \in DOMAIN status' : status'[u] \notin Active /\ Waiting'[u] # {} =>
               u \in DOMAIN status /\ status[u] \notin Active /\ Waiting[u] # {}
        BY <2>2, <2>3
    <2>9. Loose' # {} => Awaiting' # {} \/ (Loose # {} /\ Awaiting = {})
        BY <2>3
    <2>10. W \in Worker /\ Spawn(W)
        BY <2>1
    <2> QED
        BY <2>4, <2>5, <2>6, <2>7, <2>8, <2>9, <2>10, Starts
<1>3. CASE /\ status[t] = "awaiting" /\ To(t, "interrupted")
           /\ Spawn(Thread("cells", t, FALSE, {}))
           /\ UNCHANGED <<cells, graph, flags, linked, history>>
    <2>1. t \in Awaiting /\ Ready(t) /\ status[t] \in Active
        BY <1>3 DEF Awaiting, ToolInv, Asked, Active
    <2>2. /\ Waiting[t] \cap executed = {} /\ Loose # {}
        BY <2>1, OpenDangles DEF Ready, Opened, Loose, ToolInv, GraphInv
    <2>3. PICK W \in Worker : Spawn(W) /\ W.at = "cells" /\ W.turn = t /\ W.frozen = {}
        <3>1. "cells" \in Place
            BY DEF Place
        <3>2. PICK whole \in BOOLEAN, ids \in SUBSET Citation : whole = FALSE /\ ids = {}
            OBVIOUS
        <3>3. LET W == Thread("cells", t, whole, ids)
              IN  W \in Worker /\ W.at = "cells" /\ W.turn = t /\ W.frozen = {}
            BY <1>0, <3>1, NewThread
        <3> QED
            BY <1>3, <3>2, <3>3
    <2>4. status' = [status EXCEPT ![t] = "interrupted"] /\ "interrupted" \in Status \ Active
        BY <1>3 DEF To, Status, Active
    <2>5. /\ status' \in Seq(Status) /\ Len(status') = Len(status) /\ DOMAIN status' = DOMAIN status
          /\ status'[t] = "interrupted" /\ \A u \in DOMAIN status \ {t} : status'[u] = status[u]
          /\ Awaiting' = {} /\ LastActive'
          /\ \A u \in DOMAIN status : status'[u] \notin Active
        BY <2>1, <2>4, RunEnds
    <2>6. Waiting' = Waiting /\ Returned' = Returned /\ Opened' = Opened /\ Loose' = Loose /\ executed' = executed
        BY <1>3 DEF Waiting, Pending, Returned, Opened, Loose, history
    <2>8. GraphInv' /\ CellsInv' /\ Genuine' /\ Approvals' /\ Asked'
        BY <1>3, <2>5, <2>6 DEF ToolInv, GraphInv, CellsInv, Genuine, Approvals, Asked, history
    <2>9. Fits(W)'
        BY <2>2, <2>3, <2>5, <2>6 DEF Fits, Driving, Closing
    <2>10. ASSUME NEW v \in DOMAIN workers, NEW U \in Worker, workers[v] = U
           PROVE  Fits(U) /\ U.at \notin Driving /\ U.at \notin Closing
        <3>1. Fits(U)
            BY <2>10, Current
        <3>2. U.at \notin Driving
            BY <2>1, <2>10, Drives
        <3> QED
            BY <2>1, <3>1, <3>2 DEF Fits
    <2>11. ASSUME NEW v \in DOMAIN workers, NEW U \in Worker, workers[v] = U PROVE Fits(U)'
        <3>1. Fits(U) /\ U.at \notin Driving /\ U.at \notin Closing /\ U.at # "cells"
            BY <2>10, <2>11 DEF Closing
        <3> QED
            BY <1>3, <2>5, <2>6, <3>1, Bystander DEF history
    <2>12. \A v \in DOMAIN workers : workers[v].at \notin Owning
        <3>1. ASSUME NEW v \in DOMAIN workers PROVE workers[v].at \notin Owning
            <4>1. PICK U \in Worker : U = workers[v]
                BY Current
            <4> QED
                BY <2>10, <4>1 DEF Owning, Driving
        <3> QED
            BY <3>1
    <2>13. W.at \notin Driving /\ W.at \in Owning
        BY <2>3 DEF Owning, Closing, Driving
    <2>14. \A u \in DOMAIN status' : status'[u] \notin Active /\ Waiting'[u] # {} =>
               \/ W.turn = u /\ W.at = "cells"
               \/ u \in DOMAIN status /\ status[u] \notin Active /\ Waiting[u] # {}
        BY <2>1, <2>3, <2>5, <2>6 DEF ToolInv, LastActive
    <2>15. failed' = failed /\ LastActive'
        BY <2>5, <1>3 DEF history
    <2> QED
        BY <2>3, <2>8, <2>9, <2>11, <2>12, <2>13, <2>14, <2>15, Starts
<1> QED
    BY <1>1, <1>2, <1>3 DEF Stop

LEMMA PostStep == ASSUME ToolInv, Base', Post PROVE ToolInv'
<1>0. PICK n \in Nat : n = Len(status) /\ DOMAIN status = 1..n /\ n < MaxTurns /\ MaxTurns \in Nat
    BY Turns, ToolTurnAssumption DEF Post
<1>1. PICK W \in Worker : Spawn(W) /\ W.at = "user" /\ W.turn = n + 1 /\ W.frozen = {}
    <2>1. "user" \in Place /\ n + 1 \in 0..MaxTurns
        BY <1>0 DEF Place, Driving
    <2>2. Spawn(Thread("user", n + 1, FALSE, {}))
        BY <1>0 DEF Post
    <2>3. PICK whole \in BOOLEAN, ids \in SUBSET Citation : whole = FALSE /\ ids = {}
        OBVIOUS
    <2>4. LET W == Thread("user", n + 1, whole, ids)
          IN  W \in Worker /\ W.at = "user" /\ W.turn = n + 1 /\ W.frozen = {}
        BY <2>1, NewThread
    <2> QED
        BY <2>2, <2>3, <2>4
<1>2. /\ UNCHANGED <<cells, graph, linked, history>> /\ status' = Append(status, "running")
      /\ \A t \in DOMAIN status : status[t] \notin Active
    BY DEF Post, ActiveTurn
<1>3. /\ status' \in Seq(Status) /\ Len(status') = n + 1 /\ DOMAIN status' = 1..(n + 1)
      /\ status'[n + 1] = "running" /\ \A t \in DOMAIN status : status'[t] = status[t]
    <2>1. "running" \in Status /\ status \in Seq(Status)
        BY DEF Status, Active, ToolInv, StoreTypes
    <2> QED
        BY <1>0, <1>2, <2>1
<1>4. DOMAIN status' = DOMAIN status \cup {n + 1} /\ n + 1 \in Turn
    BY <1>0, <1>3 DEF Turn
<1>5. Waiting' = Waiting /\ Returned' = Returned /\ Opened' = Opened /\ Loose' = Loose /\ executed' = executed
      /\ granted' = granted
    BY <1>2 DEF Waiting, Pending, Returned, Opened, Loose, history
<1>6. Awaiting = {} /\ Awaiting' = {}
    BY <1>2, <1>3, <1>4 DEF Awaiting, Active
<1>8. LastActive'
    BY <1>2, <1>3, <1>4 DEF LastActive
<1>9. CellsInv'
    <2> SUFFICES ASSUME NEW c \in Call
                 PROVE  /\ cells[c].turn <= n + 1
                        /\ cells[c].turn = 0 => cells[c].result = "none" /\ c \notin executed
                        /\ cells[c].result = "refused" => c \notin executed
        BY <1>2, <1>3 DEF CellsInv, history
    <2>1. cells[c].turn \in Nat /\ cells[c].turn <= n
        BY <1>0 DEF ToolInv, StoreTypes, CellsInv, Cell
    <2> QED
        BY <2>1 DEF ToolInv, CellsInv
<1>10. GraphInv' /\ Genuine' /\ Approvals' /\ Asked'
    BY <1>2, <1>5, <1>6 DEF ToolInv, GraphInv, Genuine, Approvals, Asked, history
<1>11. Waiting[n + 1] = {}
    <2>1. \A c \in Call : cells[c].turn # n + 1
        BY <1>0 DEF ToolInv, StoreTypes, CellsInv, Cell
    <2> QED
        BY <1>4, <2>1, WaitingIs
<1>12. Fits(W)'
    BY <1>1, <1>3, <1>4, <1>5, <1>11 DEF Fits, Driving, Closing
<1>13. ASSUME NEW v \in DOMAIN workers, NEW U \in Worker, workers[v] = U PROVE Fits(U) /\ U.at \notin Driving
    <2>1. Fits(U)
        BY <1>13, Current
    <2> QED
        BY <1>2, <2>1 DEF Fits, Driving, Active
<1>14. ASSUME NEW v \in DOMAIN workers, NEW U \in Worker, workers[v] = U PROVE Fits(U)'
    <2>1. Fits(U) /\ U.at \notin Driving
        BY <1>13, <1>14
    <2>2. U.at \in Closing => Loose' # {} /\ Awaiting' = {}
        BY <1>5, <1>6, <2>1 DEF Fits
    <2>3. U.at = "cells" => Waiting'[U.turn] \cap executed' = {}
        BY <1>5, <2>1 DEF Fits
    <2>4. DOMAIN status \subseteq DOMAIN status' /\ \A t \in DOMAIN status : status'[t] = status[t]
        BY <1>3, <1>4
    <2> QED
        BY <1>5, <2>1, <2>2, <2>3, <2>4, Bystander
<1>15. \A v \in DOMAIN workers : workers[v].at \notin Driving
    BY <1>13, Current
<1>16. W.at \notin Owning /\ \A t \in DOMAIN status' : status'[t] \notin Active => t \in DOMAIN status /\ status[t] \notin Active
    BY <1>1, <1>2, <1>3, <1>4 DEF Owning, Closing, Active
<1>17. failed' = failed
    BY <1>2 DEF history
<1> QED
    BY <1>1, <1>5, <1>6, <1>8, <1>9, <1>10, <1>12, <1>14, <1>15, <1>16, <1>17, Starts

LEMMA DecideStep == ASSUME ToolInv, Base', Decide PROVE ToolInv'
<1> PICK calls \in shown :
        \E ids \in SUBSET calls :
            /\ Spawn(Thread("check", 0, ids = calls, ids))
            /\ granted' = granted \cup ids
            /\ UNCHANGED <<stores, flags, linked, shown, executed, blamed, failed, cut>>
    BY DEF Decide
<1>1. PICK ids \in SUBSET calls :
          /\ Spawn(Thread("check", 0, ids = calls, ids))
          /\ granted' = granted \cup ids
          /\ UNCHANGED <<stores, linked, executed, failed>>
    OBVIOUS
<1>2. ids \subseteq Call /\ ids \in SUBSET Citation
    BY DEF ToolInv, StoreTypes, Citation
<1>3. PICK W \in Worker : Spawn(W) /\ W.at = "check" /\ W.ids = ids /\ W.frozen = {}
    <2>1. (ids = calls) \in BOOLEAN /\ "check" \in Place /\ 0 \in 0..MaxTurns
        BY ToolTurnAssumption DEF Place
    <2>2. PICK whole \in BOOLEAN : whole = (ids = calls)
        OBVIOUS
    <2>3. LET W == Thread("check", 0, whole, ids)
          IN  W \in Worker /\ W.at = "check" /\ W.ids = ids /\ W.frozen = {}
        BY <1>2, <2>1, NewThread
    <2>4. Spawn(Thread("check", 0, whole, ids))
        BY <1>1, <2>2
    <2> QED
        BY <2>3, <2>4
<1>4. UNCHANGED <<status, cells, graph, linked, executed, failed>>
      /\ granted' = granted \cup ids
    BY <1>1 DEF stores
<1>5. GraphInv' /\ CellsInv' /\ LastActive'
    BY <1>4 DEF ToolInv, GraphInv, CellsInv, LastActive
<1>6. /\ Waiting' = Waiting /\ Returned' = Returned /\ Opened' = Opened /\ Loose' = Loose
      /\ Awaiting' = Awaiting
    BY <1>4 DEF Waiting, Pending, Returned, Opened, Loose, Awaiting
<1>7. Genuine' /\ Approvals' /\ Asked'
    BY <1>4, <1>6 DEF ToolInv, Genuine, Approvals, Asked, Ready
<1>8. Fits(W)'
    BY <1>3, <1>4 DEF Fits, Driving, Closing
<1>9. ASSUME NEW v \in DOMAIN workers, NEW U \in Worker, workers[v] = U PROVE Fits(U)'
    <2>1. Fits(U)
        BY <1>9, Current
    <2> QED
        BY <1>4, <1>6, <2>1, Undisturbed
<1>10. W.at \notin Driving /\ W.at \notin Owning
    BY <1>3 DEF Driving, Owning, Closing
<1>11. failed' = failed /\ \A u \in DOMAIN status' : status'[u] \notin Active /\ Waiting'[u] # {} =>
           u \in DOMAIN status /\ status[u] \notin Active /\ Waiting[u] # {}
    BY <1>4, <1>6
<1>12. Loose' # {} => Awaiting' # {} \/ (Loose # {} /\ Awaiting = {})
    BY <1>6
<1>13. W \in Worker /\ Spawn(W)
    BY <1>3
<1> QED
    BY <1>5, <1>7, <1>8, <1>9, <1>10, <1>11, <1>12, <1>13, Starts

-----------------------------------------------------------------------------
(* The invariant holds, and what a reader wants follows from it.            *)

\* Whoever ends a run; and until one is ended under its worker.
Inv == Base /\ (~ cut => ToolInv)

LEMMA InitInv == Init => Inv
<1> SUFFICES ASSUME Init PROVE Base /\ ToolInv
    BY DEF Inv
<1>1. status = <<>> /\ workers = <<>> /\ graph = <<>> /\ flagged = {} /\ stopping = {} /\ linked = {}
      /\ shown = {} /\ granted = {} /\ executed = {} /\ blamed = {} /\ failed = {} /\ cut = FALSE
      /\ cells = [c \in Call |-> [turn |-> 0, approval |-> "none", result |-> "none"]]
    BY DEF Init
<1>2. /\ status \in Seq(Status) /\ Len(status) = 0 /\ workers \in Seq(Worker) /\ Len(workers) = 0
      /\ graph \in Seq(Message) /\ graph \in Seq(Legal) /\ Len(graph) = 0
      /\ DOMAIN status = {} /\ DOMAIN workers = {} /\ DOMAIN graph = {}
    BY <1>1
<1>3. /\ cells \in [Call -> Cell]
      /\ \A c \in Call : cells[c].turn = 0 /\ cells[c].result = "none"
    BY <1>1, ToolTurnAssumption DEF Cell
<1>4. StoreTypes /\ WorkerTypes
    <2>1. MaxTurns \in Nat /\ MaxWorkers \in Nat
        BY ToolTurnAssumption
    <2>2. 0 <= MaxTurns /\ 0 <= MaxWorkers
        BY <2>1
    <2>3. cut \in BOOLEAN
        BY <1>1
    <2>4. /\ flagged \subseteq Turn /\ stopping \subseteq Turn /\ linked \subseteq Citation
          /\ blamed \subseteq Citation /\ shown \subseteq SUBSET Call /\ granted \subseteq Call
          /\ executed \subseteq Call /\ failed \subseteq {"graph", "cells"}
        BY <1>1
    <2>5. StoreTypes
        BY <1>2, <1>3, <2>2, <2>3, <2>4 DEF StoreTypes
    <2> QED
        BY <1>2, <2>2, <2>5 DEF WorkerTypes
<1>5. GraphInv /\ Loose = {}
    BY <1>1, <1>2 DEF GraphInv, Sound, OfKind, Dangling, Loose
<1>6. CellsInv
    BY <1>1, <1>2, <1>3 DEF CellsInv
<1>7. LastActive /\ WorkersInv /\ Single /\ Asked /\ Ended
    BY <1>2 DEF LastActive, WorkersInv, Single, Asked, Awaiting, Ended
<1>8. Owned /\ Genuine /\ Approvals
    BY <1>1, <1>5 DEF Owned, Genuine, Approvals
<1>9. Base
    BY <1>1, <1>2, <1>4 DEF Base
<1> QED
    BY <1>4, <1>5, <1>6, <1>7, <1>8, <1>9 DEF ToolInv

\* A run that was ended under its worker stays so.
LEMMA CutStays == ASSUME [Next]_vars, Base PROVE cut => cut'
<1>1. cut' = cut \/ \E t : cut' = (cut \/ Driven(t))
    <2>1. CASE UNCHANGED vars
        BY <2>1 DEF vars, history
    <2>2. CASE Post
        BY <2>2 DEF Post, history
    <2>3. CASE Decide
        BY <2>3 DEF Decide
    <2>4. ASSUME NEW t \in DOMAIN status, Stop(t) \/ Sweep(t)
          PROVE  cut' = cut \/ cut' = (cut \/ Driven(t))
        BY <2>4 DEF Stop, Sweep, history
    <2>5. ASSUME NEW w \in DOMAIN workers, Step(w)
          PROVE  cut' = cut \/ cut' = (cut \/ Driven(workers[w].turn))
        <3>1. CASE Ask(w) \/ CallTools(w) \/ AddCell(w) \/ AskApproval(w) \/ MarkPending(w) \/ PopFlag(w)
            BY <3>1 DEF Ask, CallTools, AddCell, AskApproval, MarkPending, PopFlag, history
        <3>2. CASE ToolReturns(w) \/ ToolsDone(w) \/ Draft(w) \/ Finalize(w) \/ Stopped(w) \/ StreamFails(w)
            BY <3>2 DEF ToolReturns, ToolsDone, Draft, Finalize, Stopped, StreamFails, history
        <3>3. CASE WorkerDies(w) \/ EndRow(w)
            BY <3>3 DEF WorkerDies, EndRow
        <3>6. CASE PauseFails(w) /\ status' = status
            <4>1. cut' = (cut \/ FALSE)
                BY <3>6, Zenon DEF PauseFails
            <4>2. cut \in BOOLEAN
                BY DEF Base, StoreTypes
            <4> QED
                BY <4>1, <4>2
        <3>7. CASE PauseFails(w) /\ status' # status
            BY <3>7 DEF PauseFails
        <3>4. CASE CheckDecision(w) \/ ReadPending(w) \/ Win(w) \/ SetDefault(w) \/ Trim(w)
            BY <3>4 DEF CheckDecision, ReadPending, Win, SetDefault, Trim, history
        <3>5. CASE MarkDecided(w) \/ Drive(w) \/ CloseCells(w) \/ RejectPending(w) \/ CleanupFails(w)
            BY <3>5 DEF MarkDecided, Drive, CloseCells, RejectPending, CleanupFails, history
        <3> QED
            BY <2>5, <3>1, <3>2, <3>3, <3>4, <3>5, <3>6, <3>7 DEF Step
    <2> QED
        BY <2>1, <2>2, <2>3, <2>4, <2>5 DEF Next
<1> QED
    BY <1>1

LEMMA NextInv == Inv /\ [Next]_vars => Inv'
<1> SUFFICES ASSUME Base, ~ cut => ToolInv, [Next]_vars PROVE Inv'
    BY DEF Inv
<1>1. Base'
    BY BaseNext
<1> SUFFICES ASSUME ~ cut' PROVE ToolInv'
    BY <1>1 DEF Inv
<1>2. ToolInv
    BY CutStays
<1>3. CASE Post
    BY <1>1, <1>2, <1>3, PostStep
<1>4. CASE Decide
    BY <1>1, <1>2, <1>4, DecideStep
<1>5. ASSUME NEW t \in DOMAIN status, Stop(t) \/ Sweep(t) PROVE ToolInv'
    BY <1>1, <1>2, <1>5, StopStep, SweepStep
<1>6. ASSUME NEW w \in DOMAIN workers, Step(w) PROVE ToolInv'
    <2>1. CASE Ask(w) \/ CallTools(w) \/ AddCell(w) \/ AskApproval(w) \/ MarkPending(w) \/ PopFlag(w)
        BY <1>1, <1>2, <2>1, AskStep, CallToolsStep, AddCellStep, AskApprovalStep, MarkPendingStep, PopFlagStep
    <2>2. CASE ToolReturns(w) \/ ToolsDone(w) \/ Draft(w) \/ Finalize(w) \/ Stopped(w) \/ StreamFails(w)
        BY <1>1, <1>2, <2>2, ToolReturnsStep, ToolsDoneStep, DraftStep, FinalizeStep, StoppedStep, StreamFailsStep
    <2>3. CASE PauseFails(w) \/ WorkerDies(w) \/ EndRow(w)
        BY <1>1, <1>2, <2>3, PauseFailsStep, WorkerDiesStep, EndRowStep
    <2>4. CASE CheckDecision(w) \/ ReadPending(w) \/ Win(w) \/ SetDefault(w) \/ Trim(w)
        BY <1>1, <1>2, <2>4, CheckDecisionStep, ReadPendingStep, WinStep, SetDefaultStep, TrimStep
    <2>5. CASE MarkDecided(w) \/ Drive(w) \/ CloseCells(w) \/ RejectPending(w) \/ CleanupFails(w)
        BY <1>1, <1>2, <2>5, MarkDecidedStep, DriveStep, CloseCellsStep, RejectPendingStep, CleanupFailsStep
    <2> QED
        BY <1>6, <2>1, <2>2, <2>3, <2>4, <2>5 DEF Step
<1>7. CASE UNCHANGED vars
    <2>1. UNCHANGED <<status, cells, graph, workers, linked, granted, executed, failed>>
        BY <1>7 DEF vars, stores, history
    <2>2. /\ Waiting' = Waiting /\ Returned' = Returned /\ Opened' = Opened /\ Loose' = Loose
          /\ Awaiting' = Awaiting
        BY <2>1 DEF Waiting, Pending, Returned, Opened, Loose, Awaiting
    <2>3. GraphInv' /\ CellsInv' /\ LastActive' /\ Asked' /\ Genuine' /\ Approvals'
        BY <1>2, <2>1, <2>2 DEF ToolInv, GraphInv, CellsInv, LastActive, Asked, Ready, Genuine, Approvals
    <2>4. ASSUME NEW v \in DOMAIN workers, NEW U \in Worker, workers[v] = U PROVE Fits(U)'
        <3>1. Fits(U)
            BY <1>2, <2>4, Current
        <3> QED
            BY <2>1, <2>2, <3>1, Undisturbed
    <2>5. failed' = failed /\ \A u \in DOMAIN status' : status'[u] \notin Active /\ Waiting'[u] # {} =>
               u \in DOMAIN status /\ status[u] \notin Active /\ Waiting[u] # {}
        BY <2>1, <2>2
    <2>6. Loose' # {} => Awaiting' # {} \/ (Loose # {} /\ Awaiting = {})
        BY <2>2
    <2>7. workers' = workers
        BY <2>1
    <2> QED
        BY <1>1, <1>2, <2>3, <2>4, <2>5, <2>6, <2>7, Rests
<1> QED
    BY <1>3, <1>4, <1>5, <1>6, <1>7 DEF Next

\* Whatever questions, decisions and stops cross and whatever fails, the stores keep
\* their types and nothing is frozen or cited but what ran; and as long as no run is
\* ended under the thread that drives it, what each thread, where it stands, knows of
\* the status, the cells and the graph holds, and one thread at most drives the run or
\* answers for the calls it left open (RunService._drive, resume, interrupt_paused).
THEOREM ToolHolds == Spec => []Inv
    BY InitInv, NextInv, PTL DEF Spec

\* Every store keeps the values its readers expect (the columns of the cells and
\* of the runs, the messages of the checkpoint).
THEOREM TypesHold == Spec => []TypeOK
<1>1. Base => TypeOK
    <2> SUFFICES ASSUME Base PROVE TypeOK
        OBVIOUS
    <2>1. \A t \in DOMAIN status : status[t] \in Status
        BY DEF Base, StoreTypes
    <2>2. \A i \in DOMAIN graph : graph[i] \in Message
        BY DEF Base, StoreTypes, Legal
    <2>3. \A w \in DOMAIN workers : workers[w] \in Worker
        BY DEF Base, WorkerTypes
    <2> QED
        BY <2>1, <2>2, <2>3 DEF TypeOK, Base, StoreTypes, WorkerTypes, Status, Message, Worker, Cell
<1> QED
    BY <1>1, ToolHolds, PTL DEF Inv

\* With approvals required, no tool runs that no decision of the user covers, in
\* whatever order decisions, repeated or out of date, and stops arrive, unless a run
\* was ended under its worker: the calls the graph is resumed with are those of the
\* decision that won its compare-and-set (RunService.resume, ReActAgent.approve_partial).
THEOREM OnlyApprovedRunHolds == Spec => []OnlyApprovedRun
<1>1. Inv => OnlyApprovedRun
    BY DEF Inv, ToolInv, Approvals, OnlyApprovedRun
<1> QED
    BY <1>1, ToolHolds, PTL

\* While a run waits, the cells without a result are the calls the graph is paused
\* at: the user decides about what would run. So it is until a run is ended under its
\* worker (get_pending_tool_calls).
THEOREM PendingIsOpenHolds == Spec => []PendingIsOpen
<1>1. Inv => PendingIsOpen
    <2> SUFFICES ASSUME ToolInv, NEW t \in Awaiting PROVE Pending(t) = Open(graph)
        BY DEF Inv, PendingIsOpen
    <2>1. t \in Turn
        BY Turns DEF Awaiting
    <2> QED
        BY <2>1 DEF ToolInv, Asked, Ready, Waiting, Opened
<1> QED
    BY <1>1, ToolHolds, PTL

\* A tool whose cell says refused did not run, and when a turn has ended and its
\* threads are done, no cell of it is left without a result, unless the cells of a
\* run could not be written or a run was ended without them (mark_partial_approval,
\* resolve_orphan_tool_cells).
THEOREM CellsTellHolds == Spec => []CellsTell
<1>1. Inv => CellsTell
    <2> SUFFICES ASSUME ToolInv PROVE CellsTell
        BY DEF Inv, CellsTell
    <2>1. \A c \in Call : cells[c].result = "refused" => c \notin executed
        BY DEF ToolInv, CellsInv
    <2>2. ASSUME NEW t \in DOMAIN status, "cells" \notin failed, status[t] \notin Active,
                 \A w \in DOMAIN workers : workers[w].turn = t => workers[w].at = "done"
          PROVE  Pending(t) = {}
        <3>1. Waiting[t] = {}
            BY <2>2 DEF ToolInv, Ended
        <3> QED
            BY <3>1, Turns DEF Waiting
    <2> QED
        BY <2>1, <2>2 DEF CellsTell
<1> QED
    BY <1>1, ToolHolds, PTL

\* When no thread is at work and no run waits, the graph takes another question,
\* unless a failure left calls in it or a run was ended under its worker: no call
\* lacks its results, and every result follows the calls it is of (reject_pending,
\* clear_interrupted_tools, approve_partial).
THEOREM ConversableHolds == Spec => []Conversable
<1>1. Inv => Conversable
    <2> SUFFICES ASSUME ToolInv, "graph" \notin failed, Awaiting = {},
                        \A w \in DOMAIN workers : workers[w].at = "done"
                 PROVE  /\ Dangling(graph) = {}
                        /\ \A i \in OfKind(graph, "tools") :
                               i > 1 /\ graph[i - 1] = [graph[i] EXCEPT !.kind = "calls"]
        BY DEF Inv, Conversable
    <2>1. Dangling(graph) = {}
        BY DEF ToolInv, Owned, Owning, Closing, Loose
    <2>2. ASSUME NEW i \in OfKind(graph, "tools")
          PROVE  i > 1 /\ graph[i - 1] = [graph[i] EXCEPT !.kind = "calls"]
        <3>1. /\ graph \in Seq(Message) /\ i \in DOMAIN graph
              /\ i > 1 /\ graph[i - 1].kind = "calls" /\ graph[i - 1].of = graph[i].of
            BY DEF ToolInv, GraphInv, Sound, OfKind
        <3>2. graph[i] \in Message /\ graph[i - 1] \in Message
            BY <3>1
        <3>3. ASSUME NEW m \in Message, NEW n \in Message, n.kind = "calls", n.of = m.of
              PROVE  n = [m EXCEPT !.kind = "calls"]
            BY <3>3 DEF Message
        <3> QED
            BY <3>1, <3>2, <3>3
    <2> QED
        BY <2>1, <2>2
<1> QED
    BY <1>1, ToolHolds, PTL

\* An answer that was committed cites nothing but calls of this conversation that ran,
\* whoever ends a run; and, until a run is ended under its worker, none but those whose
\* cells hold a result (_finalize).
THEOREM AnswersGroundedHolds == Spec => []AnswersGrounded
<1>1. Inv => AnswersGrounded
    BY DEF Inv, Base, ToolInv, Genuine, Returned, AnswersGrounded
<1> QED
    BY <1>1, ToolHolds, PTL

-----------------------------------------------------------------------------
(* Who may end a run under its worker: as long as no decision has approved  *)
(* the run, its Event is there, and no thread is about to remove the Event, *)
(* or to end the row.                                                       *)

Behind == {"mark", "pop", "end"}
Approving == {"flag", "trim", "mark cells"}

Guarded == \A t \in Turn : Driven(t) /\ ~ Approved(t) =>
    t \in flagged /\ \A v \in DOMAIN workers : workers[v].turn = t => workers[v].at \notin Behind

\* A cell that has its turn keeps it, and a decision once asked for.
Stays == \A c \in Call : cells[c].turn # 0 =>
    cells'[c].turn = cells[c].turn /\ (cells[c].approval # "none" => cells'[c].approval # "none")

LEMMA ApprovalStays ==
    ASSUME cells \in [Call -> Cell], NEW t, NEW state \in {"pending", "approved", "rejected"}
    PROVE  \A c \in Call : /\ Approval(t, state)[c].turn = cells[c].turn
                           /\ cells[c].approval # "none" => Approval(t, state)[c].approval # "none"
                           /\ c \in Pending(t) => Approval(t, state)[c].approval # "none"
<1> SUFFICES ASSUME NEW c \in Call
             PROVE  /\ Approval(t, state)[c].turn = cells[c].turn
                    /\ cells[c].approval # "none" => Approval(t, state)[c].approval # "none"
                    /\ c \in Pending(t) => Approval(t, state)[c].approval # "none"
    OBVIOUS
<1>1. CASE c \in Pending(t)
    <2>1. Approval(t, state)[c] = [cells[c] EXCEPT !.approval = state] /\ cells[c] \in Cell
        BY <1>1 DEF Approval
    <2> QED
        BY <2>1 DEF Cell
<1>2. CASE c \notin Pending(t)
    BY <1>2 DEF Approval
<1> QED
    BY <1>1, <1>2

LEMMA ResolvedStays ==
    ASSUME NEW cs \in [Call -> Cell], NEW t, NEW marker
    PROVE  \A c \in Call : Resolved(cs, t, marker)[c].turn = cs[c].turn
                           /\ Resolved(cs, t, marker)[c].approval = cs[c].approval
<1> SUFFICES ASSUME NEW c \in Call
             PROVE  Resolved(cs, t, marker)[c].turn = cs[c].turn
                    /\ Resolved(cs, t, marker)[c].approval = cs[c].approval
    OBVIOUS
<1>1. CASE cs[c].turn = t /\ cs[c].result = "none"
    <2>1. Resolved(cs, t, marker)[c] = [cs[c] EXCEPT !.result = marker] /\ cs[c] \in Cell
        BY <1>1 DEF Resolved
    <2> QED
        BY <2>1 DEF Cell
<1>2. CASE ~ (cs[c].turn = t /\ cs[c].result = "none")
    BY <1>2 DEF Resolved
<1> QED
    BY <1>1, <1>2

LEMMA PartialStays ==
    ASSUME cells \in [Call -> Cell], NEW t, NEW refused
    PROVE  \A c \in Call :
               /\ PartiallyApproved(t, refused)[c].turn = cells[c].turn
               /\ cells[c].approval # "none" => PartiallyApproved(t, refused)[c].approval # "none"
               /\ c \in Pending(t) => PartiallyApproved(t, refused)[c].approval # "none"
<1> SUFFICES ASSUME NEW c \in Call
             PROVE  /\ PartiallyApproved(t, refused)[c].turn = cells[c].turn
                    /\ cells[c].approval # "none" => PartiallyApproved(t, refused)[c].approval # "none"
                    /\ c \in Pending(t) => PartiallyApproved(t, refused)[c].approval # "none"
    OBVIOUS
<1>1. CASE cells[c].turn = t /\ c \in refused
    <2>1. /\ PartiallyApproved(t, refused)[c] = [cells[c] EXCEPT !.approval = "rejected", !.result = "refused"]
          /\ cells[c] \in Cell
        BY <1>1 DEF PartiallyApproved
    <2> QED
        BY <2>1 DEF Cell
<1>2. CASE ~ (cells[c].turn = t /\ c \in refused) /\ c \in Pending(t)
    <2>1. PartiallyApproved(t, refused)[c] = [cells[c] EXCEPT !.approval = "approved"] /\ cells[c] \in Cell
        BY <1>2 DEF PartiallyApproved
    <2> QED
        BY <2>1 DEF Cell
<1>3. CASE ~ (cells[c].turn = t /\ c \in refused) /\ c \notin Pending(t)
    BY <1>3 DEF PartiallyApproved
<1> QED
    BY <1>1, <1>2, <1>3

LEMMA FailsStays == ASSUME ToolInv, NEW t, NEW undone, Fails(t, undone) PROVE Stays
<1>1. cells \in [Call -> Cell]
    BY DEF ToolInv, StoreTypes
<1> QED
    BY <1>1, ResolvedStays DEF Fails, Stays

\* Thread w moves.
LEMMA GuardMoves ==
    ASSUME ToolInv, Guarded, Stays, NEW w \in DOMAIN workers, DOMAIN workers' = DOMAIN workers,
           \A v \in DOMAIN workers \ {w} : workers'[v] = workers[v],
           workers'[w].at \in Driving => workers[w].at \in Driving \/ workers'[w].at = "flag",
           workers'[w].at \in Behind => workers[w].at \in Behind \cup Driving,
           workers'[w].turn = workers[w].turn \/ workers'[w].at \notin Driving \cup Behind,
           \/ flagged \subseteq flagged'
           \/ /\ flagged \ {workers[w].turn} \subseteq flagged'
              /\ workers[w].at \in Behind \/ (workers[w].at \in Driving /\ workers'[w].at \notin Driving),
           workers[w].at \in Approving /\ workers'[w].at \in Driving =>
               \/ workers'[w].at \in Approving
               \/ \E c \in Call : cells'[c].turn = workers[w].turn /\ cells'[c].approval # "none"
    PROVE  Guarded'
<1> SUFFICES ASSUME NEW t \in Turn, Driven(t)', ~ Approved(t)'
             PROVE  t \in flagged' /\ \A v \in DOMAIN workers : workers'[v].turn = t => workers'[v].at \notin Behind
    BY DEF Guarded
<1>1. PICK d \in DOMAIN workers : workers'[d].turn = t /\ workers'[d].at \in Driving
    BY DEF Driven
<1>2. /\ ~ \E c \in Call : cells'[c].turn = t /\ cells'[c].approval # "none"
      /\ ~ \E v \in DOMAIN workers : workers'[v].turn = t /\ workers'[v].at \in Approving
    BY DEF Approved, Approving
<1>3. workers[d].turn = t /\ workers[d].at \in Driving
    BY <1>1, <1>2 DEF Approving, Driving
<1>4. \A v \in DOMAIN workers : workers[v].at \in Driving => v = d
    BY <1>3 DEF ToolInv, Single
<1>5. ~ Approved(t)
    <2>1. ASSUME NEW c \in Call, cells[c].turn = t, cells[c].approval # "none" PROVE FALSE
        <3>1. cells[c].turn # 0
            BY <2>1 DEF Turn
        <3> QED
            BY <1>2, <2>1, <3>1 DEF Stays
    <2>2. ASSUME NEW v \in DOMAIN workers, workers[v].turn = t, workers[v].at \in Approving PROVE FALSE
        <3>1. v = d
            BY <1>4, <2>2 DEF Approving, Driving
        <3> QED
            BY <1>1, <1>2, <2>2, <3>1
    <2> QED
        BY <2>1, <2>2 DEF Approved, Approving
<1>6. t \in flagged /\ \A v \in DOMAIN workers : workers[v].turn = t => workers[v].at \notin Behind
    BY <1>3, <1>5 DEF Guarded, Driven
<1>7. t \in flagged'
    BY <1>1, <1>3, <1>4, <1>6
<1>8. ASSUME NEW v \in DOMAIN workers, workers'[v].turn = t PROVE workers'[v].at \notin Behind
    BY <1>1, <1>4, <1>6, <1>8 DEF Behind, Driving
<1> QED
    BY <1>7, <1>8

\* A thread W starts.
LEMMA GuardStarts ==
    ASSUME ToolInv, Guarded, Stays, NEW W, workers' = Append(workers, W), flagged \subseteq flagged',
           W.at \in Driving =>
               /\ W.turn \in flagged'
               /\ \A v \in DOMAIN workers : workers[v].turn = W.turn => workers[v].at \notin Behind,
           W.at \in Behind => W.turn \notin flagged
    PROVE  Guarded'
<1>1. PICK n \in Nat : /\ DOMAIN workers = 1..n /\ DOMAIN workers' = 1..(n + 1) /\ workers'[n + 1] = W
                       /\ \A v \in 1..n : workers'[v] = workers[v]
    <2>1. workers \in Seq(Worker)
        BY DEF ToolInv, WorkerTypes
    <2> QED
        BY <2>1
<1>2. DOMAIN workers' = DOMAIN workers \cup {n + 1}
    BY <1>1
<1> SUFFICES ASSUME NEW t \in Turn, Driven(t)', ~ Approved(t)'
             PROVE  t \in flagged' /\ \A v \in DOMAIN workers' : workers'[v].turn = t => workers'[v].at \notin Behind
    BY DEF Guarded
<1>3. ~ Approved(t)
    <2>1. ASSUME NEW c \in Call, cells[c].turn = t, cells[c].approval # "none" PROVE FALSE
        <3>1. cells[c].turn # 0
            BY <2>1 DEF Turn
        <3> QED
            BY <2>1, <3>1 DEF Stays, Approved
    <2>2. ASSUME NEW v \in DOMAIN workers, workers[v].turn = t, workers[v].at \in Approving PROVE FALSE
        BY <1>1, <1>2, <2>2 DEF Approved, Approving
    <2> QED
        BY <2>1, <2>2 DEF Approved, Approving
<1>4. CASE Driven(t)
    <2>1. t \in flagged /\ \A v \in DOMAIN workers : workers[v].turn = t => workers[v].at \notin Behind
        BY <1>3, <1>4 DEF Guarded
    <2> QED
        BY <1>1, <1>2, <2>1
<1>5. CASE ~ Driven(t)
    <2>1. W.turn = t /\ W.at \in Driving
        BY <1>1, <1>2, <1>5 DEF Driven
    <2>2. W.at \notin Behind
        BY <2>1 DEF Behind, Driving
    <2> QED
        BY <1>1, <1>2, <2>1, <2>2
<1> QED
    BY <1>4, <1>5

\* No thread moves.
LEMMA GuardRests ==
    ASSUME Guarded, Stays, workers' = workers, flagged \subseteq flagged'
    PROVE  Guarded'
<1> SUFFICES ASSUME NEW t \in Turn, Driven(t)', ~ Approved(t)'
             PROVE  t \in flagged' /\ \A v \in DOMAIN workers : workers[v].turn = t => workers[v].at \notin Behind
    BY DEF Guarded
<1>1. Driven(t)
    BY DEF Driven
<1>2. ~ Approved(t)
    <2>1. ASSUME NEW c \in Call, cells[c].turn = t, cells[c].approval # "none" PROVE FALSE
        <3>1. cells[c].turn # 0
            BY <2>1 DEF Turn
        <3> QED
            BY <2>1, <3>1 DEF Stays, Approved
    <2> QED
        BY <2>1 DEF Approved
<1> QED
    BY <1>1, <1>2 DEF Guarded

LEMMA GoesAt ==
    ASSUME ToolInv, NEW w \in DOMAIN workers, NEW pc, Go(w, pc)
    PROVE  /\ DOMAIN workers' = DOMAIN workers /\ \A v \in DOMAIN workers \ {w} : workers'[v] = workers[v]
           /\ workers'[w].at = pc /\ workers'[w].turn = workers[w].turn
<1>1. PICK V \in Worker : V = workers[w]
    BY Current
<1>2. workers' = [workers EXCEPT ![w] = [V EXCEPT !.at = pc]] /\ workers \in Seq(Worker)
    BY <1>1 DEF Go, ToolInv, WorkerTypes
<1>3. [V EXCEPT !.at = pc].at = pc /\ [V EXCEPT !.at = pc].turn = V.turn
    BY DEF Worker
<1> QED
    BY <1>1, <1>2, <1>3

\* A thread carries something else, too.
LEMMA CarriesAt ==
    ASSUME ToolInv, NEW w \in DOMAIN workers, NEW W, workers' = [workers EXCEPT ![w] = W]
    PROVE  /\ DOMAIN workers' = DOMAIN workers /\ \A v \in DOMAIN workers \ {w} : workers'[v] = workers[v]
           /\ workers'[w] = W
    BY DEF ToolInv, WorkerTypes

\* The steps which leave the Events and the cells alone.
LEMMA GuardGoes ==
    ASSUME ToolInv, Guarded, NEW w \in DOMAIN workers,
           \/ Ask(w) \/ CallTools(w) \/ ToolsDone(w) \/ Draft(w) \/ CheckDecision(w) \/ ReadPending(w)
           \/ Win(w) \/ Trim(w) \/ Drive(w) \/ RejectPending(w) \/ CleanupFails(w) \/ EndRow(w)
    PROVE  Guarded'
<1>1. PICK V \in Worker : V = workers[w]
    BY Current
<1>2. /\ cells' = cells /\ flagged' = flagged
    BY DEF Ask, CallTools, ToolsDone, Draft, CheckDecision, ReadPending, Win, Trim, Drive, RejectPending,
           CleanupFails, EndRow, stores, flags
<1>3. Stays
    BY <1>2 DEF Stays
<1>4. /\ DOMAIN workers' = DOMAIN workers /\ \A v \in DOMAIN workers \ {w} : workers'[v] = workers[v]
      /\ workers'[w].at \in Driving => workers[w].at \in Driving \/ workers'[w].at = "flag"
      /\ workers'[w].at \notin Behind
      /\ workers'[w].turn = workers[w].turn \/ workers'[w].at \notin Driving \cup Behind
      /\ workers[w].at \in Approving => workers'[w].at \in Approving
    <2>1. CASE Ask(w)
        BY <2>1, GoesAt DEF Ask, At, Driving, Behind, Approving
    <2>2. CASE ToolsDone(w) \/ RejectPending(w) \/ CleanupFails(w) \/ EndRow(w)
        <3>1. PICK pc \in {"agent", "done"} :
                  /\ Go(w, pc) /\ (pc \in Driving => workers[w].at \in Driving)
                  /\ workers[w].at \notin Approving
            <4>1. CASE ToolsDone(w)
                BY <4>1 DEF ToolsDone, At, Driving, Approving
            <4>2. CASE RejectPending(w) \/ CleanupFails(w) \/ EndRow(w)
                BY <4>2 DEF RejectPending, CleanupFails, EndRow, At, Driving, Approving
            <4> QED
                BY <2>2, <4>1, <4>2
        <3> QED
            BY <3>1, GoesAt DEF Behind, Driving
    <2>3. CASE CheckDecision(w)
        <3>1. PICK pc \in {"read", "done"} : Go(w, pc)
            BY <2>3 DEF CheckDecision
        <3> QED
            BY <2>3, <3>1, GoesAt DEF CheckDecision, At, Driving, Behind, Approving
    <2>4. CASE Win(w)
        <3>1. PICK pc \in {"done", "cells", "flag"} : Go(w, pc)
            BY <2>4 DEF Win
        <3> QED
            BY <2>4, <3>1, GoesAt DEF Win, At, Driving, Behind, Approving
    <2>5. CASE CallTools(w) \/ Draft(w) \/ Trim(w)
        <3>1. PICK pc \in {"insert", "final", "mark cells"} :
                  /\ \E ids : workers' = [workers EXCEPT ![w] = [V EXCEPT !.at = pc, !.ids = ids]]
                  /\ V.at \in Approving => pc \in Approving
                  /\ V.at \in Driving
            <4>1. CASE CallTools(w)
                <5>1. PICK calls : workers' = [workers EXCEPT ![w].at = "insert", ![w].ids = calls]
                    BY <4>1 DEF CallTools
                <5>2. workers' = [workers EXCEPT ![w] = [V EXCEPT !.at = "insert", !.ids = calls]]
                    BY <1>1, <5>1
                <5> QED
                    BY <1>1, <4>1, <5>2 DEF CallTools, At, Driving, Approving
            <4>2. CASE Draft(w)
                <5>1. PICK cites : workers' = [workers EXCEPT ![w].at = "final", ![w].ids = cites]
                    BY <4>2 DEF Draft
                <5>2. workers' = [workers EXCEPT ![w] = [V EXCEPT !.at = "final", !.ids = cites]]
                    BY <1>1, <5>1
                <5> QED
                    BY <1>1, <4>2, <5>2 DEF Draft, At, Driving, Approving
            <4>3. CASE Trim(w)
                <5> DEFINE calls == OfKind(graph, "calls")
                           refused == IF calls = {} THEN {} ELSE graph[Last(calls)].of \ V.ids
                <5>1. workers' = [workers EXCEPT ![w] = [V EXCEPT !.at = "mark cells", !.ids = refused]]
                    BY <1>1, <4>3 DEF Trim
                <5> HIDE DEF refused
                <5> QED
                    BY <1>1, <4>3, <5>1 DEF Trim, At, Driving, Approving
            <4> QED
                BY <2>5, <4>1, <4>2, <4>3
        <3>2. PICK ids : workers' = [workers EXCEPT ![w] = [V EXCEPT !.at = pc, !.ids = ids]]
            BY <3>1
        <3>3. workers'[w].at = pc /\ workers'[w].turn = V.turn
            <4>1. [V EXCEPT !.at = pc, !.ids = ids] = As(V, pc, V.turn, ids, V.frozen)
                BY AsIs
            <4> QED
                BY <3>2, <4>1, CarriesAt DEF As
        <3> QED
            BY <1>1, <3>1, <3>2, <3>3, CarriesAt DEF Driving, Behind, Approving
    <2>6. CASE ReadPending(w)
        <3>1. CASE Go(w, "done")
            <4>1. workers[w].at = "read"
                BY <2>6 DEF ReadPending, At
            <4> QED
                BY <3>1, <4>1, GoesAt DEF Driving, Behind, Approving
        <3>2. CASE \E t \in Awaiting : workers' =
                       [workers EXCEPT ![w].at = "cas", ![w].turn = t,
                            ![w].ids = IF workers[w].whole THEN {} ELSE @ \cap Pending(t)]
            <4>1. PICK t : workers' =
                       [workers EXCEPT ![w].at = "cas", ![w].turn = t,
                            ![w].ids = IF workers[w].whole THEN {} ELSE @ \cap Pending(t)]
                BY <3>2
            <4> DEFINE ids == IF V.whole THEN {} ELSE V.ids \cap Pending(t)
            <4>2. workers' = [workers EXCEPT ![w] = [V EXCEPT !.at = "cas", !.turn = t, !.ids = ids]]
                BY <1>1, <4>1
            <4> HIDE DEF ids
            <4>3. [V EXCEPT !.at = "cas", !.turn = t, !.ids = ids] = As(V, "cas", t, ids, V.frozen)
                BY MovedTurn
            <4> DEFINE W == As(V, "cas", t, ids, V.frozen)
            <4>4. workers' = [workers EXCEPT ![w] = W] /\ W.at = "cas"
                BY <4>2, <4>3 DEF As
            <4> HIDE DEF W
            <4>5. workers[w].at = "read"
                BY <2>6 DEF ReadPending, At
            <4> QED
                BY <4>4, <4>5, CarriesAt DEF Driving, Behind, Approving
        <3> QED
            BY <2>6, <3>1, <3>2 DEF ReadPending
    <2>7. CASE Drive(w)
        <3> DEFINE pc == IF Open(graph) = {} THEN "final" ELSE "tools"
                   W == Heeding(V, pc, Open(graph), V.turn \in flagged)
        <3>1. workers' = [workers EXCEPT ![w] = W]
            BY <1>1, <2>7 DEF Drive, Heeding
        <3>2. W.at = pc /\ W.turn = V.turn
            <4>1. pc \in Place
                BY DEF Place, Driving
            <4>2. PICK ids \in SUBSET Citation : ids = Open(graph)
                <5>1. graph \in Seq(Legal)
                    BY DEF ToolInv, StoreTypes
                <5>2. Open(graph) \subseteq Call
                    BY <5>1, LegalEdits
                <5> QED
                    BY <5>2 DEF Citation
            <4>3. PICK heeds \in BOOLEAN : heeds = (V.turn \in flagged)
                <5>1. (V.turn \in flagged) \in BOOLEAN
                    OBVIOUS
                <5> QED
                    BY <5>1
            <4>4. W = Heeding(V, pc, ids, heeds)
                BY <4>2, <4>3
            <4> HIDE DEF pc, W
            <4> QED
                BY <4>1, <4>4, MovedHeeds
        <3> HIDE DEF W
        <3> QED
            BY <1>1, <2>7, <3>1, <3>2, CarriesAt DEF Drive, At, Driving, Behind, Approving
    <2> QED
        BY <2>1, <2>2, <2>3, <2>4, <2>5, <2>6, <2>7
<1> QED
    BY <1>2, <1>3, <1>4, GuardMoves

\* The end of a run takes its Event away, and the thread is done.
LEMMA GuardEnds ==
    ASSUME ToolInv, Guarded, Stays, NEW w \in DOMAIN workers, workers[w].at \in Driving, Go(w, "done"),
           flagged' = flagged \/ Forget(workers[w].turn)
    PROVE  Guarded'
<1>1. /\ DOMAIN workers' = DOMAIN workers /\ \A v \in DOMAIN workers \ {w} : workers'[v] = workers[v]
      /\ workers'[w].at = "done" /\ workers'[w].turn = workers[w].turn
    BY GoesAt
<1>2. "done" \notin Driving /\ "done" \notin Behind
    BY DEF Driving, Behind
<1>3. flagged \subseteq flagged' \/ flagged \ {workers[w].turn} \subseteq flagged'
    BY DEF Forget
<1> QED
    BY <1>1, <1>2, <1>3, GuardMoves

\* A thread that does not drive may take an Event away, too.
LEMMA GuardPops ==
    ASSUME ToolInv, Guarded, Stays, NEW w \in DOMAIN workers, workers[w].at \in Behind,
           NEW pc \in {"pop", "done"}, Go(w, pc), flagged \ {workers[w].turn} \subseteq flagged'
    PROVE  Guarded'
<1>1. /\ DOMAIN workers' = DOMAIN workers /\ \A v \in DOMAIN workers \ {w} : workers'[v] = workers[v]
      /\ workers'[w].at = pc /\ workers'[w].turn = workers[w].turn
    BY GoesAt
<1>2. pc \notin Driving
    BY DEF Driving
<1> QED
    BY <1>1, <1>2, GuardMoves

\* The steps that tell the Events or the cells something.
LEMMA GuardSettles ==
    ASSUME ToolInv, Guarded, NEW w \in DOMAIN workers,
           \/ AddCell(w) \/ AskApproval(w) \/ MarkPending(w) \/ PopFlag(w) \/ ToolReturns(w) \/ Finalize(w)
           \/ Stopped(w) \/ StreamFails(w) \/ PauseFails(w) \/ WorkerDies(w) \/ SetDefault(w)
           \/ MarkDecided(w) \/ CloseCells(w)
    PROVE  Guarded'
<1>1. PICK V \in Worker : V = workers[w] /\ Fits(V)
    BY Current
<1>2. cells \in [Call -> Cell]
    BY DEF ToolInv, StoreTypes
<1>3. cells' = cells => Stays
    BY DEF Stays
<1>4. CASE AddCell(w)
    <2>1. PICK c \in Call : cells[c].turn = 0 /\ cells' = [cells EXCEPT ![c].turn = V.turn]
        <3>1. V.ids \subseteq Call
            <4>1. V.at = "insert"
                BY <1>1, <1>4 DEF AddCell, At
            <4>2. V.ids = Opened
                BY <1>1, <4>1 DEF Fits
            <4> QED
                BY <4>2, LegalEdits DEF Opened, ToolInv, StoreTypes
        <3> QED
            BY <1>1, <1>4, <3>1 DEF AddCell
    <2>2. Stays
        BY <1>2, <2>1, CellsPut DEF Stays
    <2>3. flagged' = flagged /\ workers[w].at = "insert"
        BY <1>4 DEF AddCell, flags, At
    <2>4. CASE workers' = workers
        BY <2>2, <2>3, <2>4, GuardRests
    <2>5. CASE Go(w, IF Gate THEN "gate" ELSE "tools")
        <3>1. PICK pc \in {"gate", "tools"} : Go(w, pc)
            BY <2>5
        <3> QED
            BY <2>2, <2>3, <3>1, GoesAt, GuardMoves DEF Driving, Behind, Approving
    <2> QED
        BY <1>4, <2>4, <2>5 DEF AddCell
<1>5. CASE AskApproval(w)
    <2>1. cells' = cells /\ workers[w].at = "gate"
        BY <1>5 DEF AskApproval, At
    <2>2. CASE Go(w, "mark") /\ flagged' = flagged
        BY <1>3, <2>1, <2>2, GoesAt, GuardMoves DEF Driving, Behind, Approving
    <2>3. CASE Go(w, "done") /\ Forget(workers[w].turn)
        BY <1>3, <2>1, <2>3, GuardEnds DEF Driving
    <2> QED
        BY <1>5, <2>2, <2>3 DEF AskApproval, flags
<1>6. CASE MarkPending(w)
    <2>1. Stays
        BY <1>2, <1>6, ApprovalStays DEF MarkPending, Stays
    <2>2. Go(w, "pop") /\ flagged' = flagged /\ workers[w].at \in Behind
        BY <1>6 DEF MarkPending, flags, At, Behind
    <2> QED
        BY <2>1, <2>2, GuardPops
<1>7. CASE PopFlag(w)
    <2>1. Stays
        BY <1>3, <1>7 DEF PopFlag, stores
    <2>2. Go(w, "done") /\ flagged' = flagged \ {workers[w].turn} /\ workers[w].at \in Behind
        BY <1>7 DEF PopFlag, At, Behind
    <2> QED
        BY <2>1, <2>2, GuardPops
<1>8. CASE ToolReturns(w)
    <2>1. PICK c \in Call :
              /\ cells' = IF cells[c].turn = V.turn THEN [cells EXCEPT ![c].result = "result"] ELSE cells
              /\ workers' = [workers EXCEPT ![w].frozen = @ \cup {c}]
        BY <1>1, <1>8 DEF ToolReturns
    <2>2. Stays
        <3>1. CASE cells' = cells
            BY <1>3, <3>1
        <3>2. CASE cells' = [cells EXCEPT ![c].result = "result"]
            <4> DEFINE C == [cells[c] EXCEPT !.result = "result"]
            <4>1. C.turn = cells[c].turn /\ C.approval = cells[c].approval
                BY <1>2 DEF Cell
            <4>2. cells' = [cells EXCEPT ![c] = C]
                BY <3>2
            <4> HIDE DEF C
            <4> QED
                BY <1>2, <4>1, <4>2 DEF Stays
        <3> QED
            BY <2>1, <3>1, <3>2
    <2>3. flagged' = flagged /\ workers[w].at = "tools"
        BY <1>8 DEF ToolReturns, flags, At
    <2> DEFINE W == [V EXCEPT !.frozen = V.frozen \cup {c}]
    <2>4. workers' = [workers EXCEPT ![w] = W]
        BY <1>1, <2>1
    <2>5. W.at = V.at /\ W.turn = V.turn
        BY DEF Worker
    <2> HIDE DEF W
    <2> QED
        BY <1>1, <2>2, <2>3, <2>4, <2>5, CarriesAt, GuardMoves DEF Driving, Behind, Approving
<1>9. CASE Finalize(w) \/ WorkerDies(w)
    <2>1. Stays
        BY <1>3, <1>9 DEF Finalize, WorkerDies, stores
    <2>2. /\ Go(w, "done") /\ workers[w].at \in Driving
          /\ flagged' = flagged \/ Forget(workers[w].turn)
        BY <1>9 DEF Finalize, WorkerDies, flags, At, Driving
    <2> QED
        BY <2>1, <2>2, GuardEnds
<1>10. CASE Stopped(w)
    <2>1. Stays
        BY <1>2, <1>10, ResolvedStays, FailsStays DEF Stopped, Stays
    <2>2. Go(w, "done") /\ workers[w].at \in Driving /\ Forget(workers[w].turn)
        BY <1>10 DEF Stopped, At, Driving
    <2> QED
        BY <2>1, <2>2, GuardEnds
<1>11. CASE StreamFails(w)
    <2>1. Stays
        BY <1>11, FailsStays DEF StreamFails
    <2>2. /\ Go(w, "done") /\ workers[w].at \in Driving
          /\ flagged' = flagged \/ Forget(workers[w].turn)
        BY <1>11 DEF StreamFails, flags, Driving
    <2> QED
        BY <2>1, <2>2, GuardEnds
<1>12. CASE PauseFails(w)
    <2>1. Stays
        BY <1>12, FailsStays DEF PauseFails
    <2>2. Go(w, "pop") /\ flagged' = flagged /\ workers[w].at \in Behind
        BY <1>12 DEF PauseFails, flags, At, Behind
    <2> QED
        BY <2>1, <2>2, GuardPops
<1>13. CASE SetDefault(w)
    <2>1. Stays
        BY <1>3, <1>13 DEF SetDefault, stores
    <2>2. PICK pc \in {"trim", "mark cells"} : Go(w, pc)
        BY <1>13 DEF SetDefault
    <2>3. flagged \subseteq flagged' /\ workers[w].at = "flag"
        BY <1>13 DEF SetDefault, At
    <2> QED
        BY <2>1, <2>2, <2>3, GoesAt, GuardMoves DEF Driving, Behind, Approving
<1>14. CASE MarkDecided(w)
    <2>1. /\ Go(w, "drive") /\ flagged' = flagged /\ workers[w].at = "mark cells"
          /\ \/ cells' = Approval(V.turn, "approved")
             \/ cells' = PartiallyApproved(V.turn, V.ids)
        BY <1>1, <1>14 DEF MarkDecided, flags, At
    <2>2. \A c \in Call : /\ cells'[c].turn = cells[c].turn
                          /\ cells[c].approval # "none" => cells'[c].approval # "none"
                          /\ c \in Pending(V.turn) => cells'[c].approval # "none"
        <3>1. CASE cells' = Approval(V.turn, "approved")
            BY <1>2, <3>1, ApprovalStays
        <3>2. CASE cells' = PartiallyApproved(V.turn, V.ids)
            BY <1>2, <3>2, PartialStays
        <3> QED
            BY <2>1, <3>1, <3>2
    <2>3. PICK c \in Call : c \in Pending(V.turn) /\ cells[c].turn = V.turn
        <3>1. Waiting[V.turn] # {} /\ V.turn \in Turn
            BY <1>1, <2>1, Turns DEF Fits
        <3> QED
            BY <3>1 DEF Waiting, Pending
    <2>4. cells'[c].turn = V.turn /\ cells'[c].approval # "none"
        BY <2>2, <2>3
    <2>5. Stays
        BY <2>2 DEF Stays
    <2> QED
        BY <1>1, <2>1, <2>4, <2>5, GoesAt, GuardMoves DEF Driving, Behind, Approving
<1>15. CASE CloseCells(w)
    <2>1. Stays
        <3> DEFINE cs == Approval(workers[w].turn, "rejected")
        <3>1. cs \in [Call -> Cell]
            BY <1>2, ApprovalCells
        <3>2. PICK t, marker : cells' = Resolved(cs, t, marker)
            BY <1>15 DEF CloseCells
        <3>3. \A c \in Call : cs[c].turn = cells[c].turn /\ (cells[c].approval # "none" => cs[c].approval # "none")
            BY <1>2, ApprovalStays
        <3> HIDE DEF cs
        <3> QED
            BY <3>1, <3>2, <3>3, ResolvedStays DEF Stays
    <2>2. Go(w, "clear") /\ flagged' = flagged /\ workers[w].at = "cells"
        BY <1>15 DEF CloseCells, flags, At
    <2> QED
        BY <2>1, <2>2, GoesAt, GuardMoves DEF Driving, Behind, Approving
<1> QED
    BY <1>4, <1>5, <1>6, <1>7, <1>8, <1>9, <1>10, <1>11, <1>12, <1>13, <1>14, <1>15

LEMMA GuardNext == ASSUME ToolInv, Guarded, [Next]_vars PROVE Guarded'
<1>1. cells \in [Call -> Cell]
    BY DEF ToolInv, StoreTypes
<1>2. cells' = cells => Stays
    BY DEF Stays
<1>3. CASE Post
    <2>1. PICK n \in Nat : n = Len(status) /\ DOMAIN status = 1..n
        BY Turns
    <2> DEFINE W == Thread("user", n + 1, FALSE, {})
    <2>2. W.at = "user" /\ W.turn = n + 1
        BY DEF Thread
    <2>3. workers' = Append(workers, W) /\ flagged' = flagged \cup {n + 1} /\ Stays
        BY <1>2, <1>3, <2>1 DEF Post, Spawn
    <2> HIDE DEF W
    <2>4. ASSUME NEW v \in DOMAIN workers, workers[v].turn = W.turn PROVE workers[v].at \notin Behind
        <3>1. PICK V \in Worker : V = workers[v] /\ Fits(V)
            BY Current
        <3>2. V.turn = n + 1 /\ V.turn \notin DOMAIN status
            BY <2>1, <2>2, <2>4, <3>1
        <3> QED
            BY <3>1, <3>2 DEF Fits, Behind
    <2> QED
        BY <2>2, <2>3, <2>4, GuardStarts DEF Behind
<1>4. CASE Decide
    <2>1. PICK whole, ids : workers' = Append(workers, Thread("check", 0, whole, ids))
        BY <1>4 DEF Decide, Spawn
    <2> DEFINE W == Thread("check", 0, whole, ids)
    <2>2. W.at = "check"
        BY DEF Thread
    <2>3. workers' = Append(workers, W) /\ flagged' = flagged /\ Stays
        BY <1>2, <1>4, <2>1 DEF Decide, stores, flags
    <2> HIDE DEF W
    <2> QED
        BY <2>2, <2>3, GuardStarts DEF Driving, Behind
<1>5. ASSUME NEW t \in DOMAIN status, Stop(t) PROVE Guarded'
    <2>1. Stays
        BY <1>2, <1>5 DEF Stop, stores
    <2>2. CASE workers' = workers /\ flagged' = flagged
        BY <2>1, <2>2, GuardRests
    <2>3. CASE t \notin flagged /\ Spawn(Thread("end", t, FALSE, {})) /\ flagged' = flagged
        <3> DEFINE W == Thread("end", t, FALSE, {})
        <3>1. W.at = "end" /\ W.turn = t
            BY DEF Thread
        <3>2. workers' = Append(workers, W)
            BY <2>3 DEF Spawn
        <3> HIDE DEF W
        <3> QED
            BY <2>1, <2>3, <3>1, <3>2, GuardStarts DEF Driving
    <2>4. CASE Spawn(Thread("cells", t, FALSE, {})) /\ flagged' = flagged
        <3> DEFINE W == Thread("cells", t, FALSE, {})
        <3>1. W.at = "cells"
            BY DEF Thread
        <3>2. workers' = Append(workers, W)
            BY <2>4 DEF Spawn
        <3> HIDE DEF W
        <3> QED
            BY <2>1, <2>4, <3>1, <3>2, GuardStarts DEF Driving, Behind
    <2> QED
        BY <1>5, <2>2, <2>3, <2>4 DEF Stop, flags
<1>6. ASSUME NEW t \in DOMAIN status, Sweep(t) PROVE Guarded'
    <2>1. Stays
        BY <1>1, <1>6, ResolvedStays DEF Sweep, Stays
    <2> QED
        BY <1>6, <2>1, GuardRests DEF Sweep, flags
<1>7. ASSUME NEW w \in DOMAIN workers, Step(w) PROVE Guarded'
    <2>1. CASE \/ Ask(w) \/ CallTools(w) \/ ToolsDone(w) \/ Draft(w) \/ CheckDecision(w) \/ ReadPending(w)
               \/ Win(w) \/ Trim(w) \/ Drive(w) \/ RejectPending(w) \/ CleanupFails(w) \/ EndRow(w)
        BY <2>1, GuardGoes
    <2>2. CASE \/ AddCell(w) \/ AskApproval(w) \/ MarkPending(w) \/ PopFlag(w) \/ ToolReturns(w)
               \/ Finalize(w) \/ Stopped(w) \/ StreamFails(w) \/ PauseFails(w) \/ WorkerDies(w)
               \/ SetDefault(w) \/ MarkDecided(w) \/ CloseCells(w)
        BY <2>2, GuardSettles
    <2> QED
        BY <1>7, <2>1, <2>2 DEF Step
<1>8. CASE UNCHANGED vars
    BY <1>2, <1>8, GuardRests DEF vars, stores, flags
<1> QED
    BY <1>3, <1>4, <1>5, <1>6, <1>7, <1>8 DEF Next

\* One step of the property.
CutNow == \E t \in DOMAIN status : status[t] = "running" /\ status'[t] # "running" /\ Approved(t)

LEMMA GuardCuts == ASSUME ToolInv, Guarded, [Next]_vars, ~ cut, cut' PROVE CutNow
<1>1. ASSUME NEW t \in DOMAIN status, status[t] = "running", NEW s, s # "running", To(t, s), Approved(t)
      PROVE  CutNow
    BY <1>1 DEF To, CutNow
<1>2. CASE UNCHANGED vars \/ Post \/ Decide
    BY <1>2 DEF vars, Post, Decide, history
<1>3. ASSUME NEW t \in DOMAIN status, Stop(t) PROVE CutNow
    BY <1>3 DEF Stop, history
<1>4. ASSUME NEW t \in DOMAIN status, Sweep(t) PROVE CutNow
    <2>1. status[t] = "running" /\ To(t, "error") /\ (Driven(t) => Approved(t)) /\ cut' = (cut \/ Driven(t))
        BY <1>4 DEF Sweep
    <2> QED
        BY <1>1, <2>1
<1>5. ASSUME NEW w \in DOMAIN workers, Step(w) PROVE CutNow
    <2> DEFINE t == workers[w].turn
    <2>1. ASSUME t \in DOMAIN status, Driven(t), workers[w].at \in Behind PROVE Approved(t)
        <3>1. t \in Turn
            BY <2>1, Turns
        <3> QED
            BY <2>1, <3>1 DEF Guarded
    <2>2. workers[w].at \in Behind => t \in DOMAIN status
        <3>1. PICK V \in Worker : V = workers[w] /\ Fits(V)
            BY Current
        <3> QED
            BY <3>1 DEF Fits, Behind
    <2>3. CASE PauseFails(w)
        <3>1. workers[w].at \in Behind
            BY <2>3 DEF PauseFails, At, Behind
        <3>2. status' # status /\ Driven(t)
            BY <2>3 DEF PauseFails
        <3>3. status[t] = "running" /\ To(t, "error")
            BY <2>3, <3>2 DEF PauseFails, Fails
        <3> QED
            BY <1>1, <2>1, <2>2, <3>1, <3>2, <3>3
    <2>4. CASE EndRow(w)
        <3>1. workers[w].at \in Behind
            BY <2>4 DEF EndRow, At, Behind
        <3>2. status[t] = "running" /\ To(t, "interrupted") /\ cut' = (cut \/ Driven(t))
            BY <2>4 DEF EndRow
        <3> QED
            BY <1>1, <2>1, <2>2, <3>1, <3>2
    <2>5. CASE Ask(w) \/ CallTools(w) \/ AddCell(w) \/ AskApproval(w) \/ MarkPending(w) \/ PopFlag(w)
        BY <2>5 DEF Ask, CallTools, AddCell, AskApproval, MarkPending, PopFlag, history
    <2>6. CASE ToolReturns(w) \/ ToolsDone(w) \/ Draft(w) \/ Finalize(w) \/ Stopped(w) \/ StreamFails(w)
        BY <2>6 DEF ToolReturns, ToolsDone, Draft, Finalize, Stopped, StreamFails, history
    <2>7. CASE WorkerDies(w) \/ CheckDecision(w) \/ ReadPending(w) \/ Win(w) \/ SetDefault(w) \/ Trim(w)
        BY <2>7 DEF WorkerDies, CheckDecision, ReadPending, Win, SetDefault, Trim, history
    <2>8. CASE MarkDecided(w) \/ Drive(w) \/ CloseCells(w) \/ RejectPending(w) \/ CleanupFails(w)
        BY <2>8 DEF MarkDecided, Drive, CloseCells, RejectPending, CleanupFails, history
    <2> QED
        BY <1>5, <2>3, <2>4, <2>5, <2>6, <2>7, <2>8 DEF Step
<1> QED
    BY <1>2, <1>3, <1>4, <1>5 DEF Next

\* No run is ended under its worker but in the wake of an approval: until the first
\* such end, the Event of a run that nobody has approved is there as long as a thread
\* drives it, so that a stop sets it and a sweep sees heartbeats (RunService.open_run,
\* _drive, request_cancel).
THEOREM OnlyApprovedCutHolds == Spec => OnlyApprovedCut
<1> DEFINE Guard == Inv /\ (~ cut => Guarded)
           Allowed == ~ cut /\ cut' => CutNow
<1>1. Init => Guard
    <2> SUFFICES ASSUME Init PROVE Guarded
        BY InitInv
    <2>1. DOMAIN workers = {}
        BY DEF Init
    <2> QED
        BY <2>1 DEF Guarded, Driven
<1>2. Guard /\ [Next]_vars => Guard'
    <2> SUFFICES ASSUME Inv, ~ cut => Guarded, [Next]_vars, ~ cut' PROVE Guarded'
        BY NextInv
    <2>1. ~ cut
        BY CutStays DEF Inv
    <2> QED
        BY <2>1, GuardNext DEF Inv
<1>3. Guard /\ [Next]_vars => [Allowed]_vars
    <2> SUFFICES ASSUME Inv, ~ cut => Guarded, [Next]_vars, ~ cut, cut' PROVE CutNow
        OBVIOUS
    <2> QED
        BY GuardCuts DEF Inv
<1>4. [Allowed]_vars => [~ cut /\ cut' =>
          \E t \in DOMAIN status : status[t] = "running" /\ status'[t] # "running" /\ Approved(t)]_vars
    BY DEF CutNow
<1> HIDE DEF Guard, Allowed
<1> QED
    BY <1>1, <1>2, <1>3, <1>4, PTL DEF Spec, OnlyApprovedCut

=============================================================================
