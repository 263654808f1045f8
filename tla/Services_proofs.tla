----------------------------- MODULE Services_proofs -----------------------------
(***************************************************************************)
(* Proofs about what the gateway senses, the RO reference solves and the   *)
(* API answers, and of what Services promises as a whole, for every read,  *)
(* setting, tenant, scope and bound.                                       *)
(***************************************************************************)
EXTENDS Services, AuditChain_proofs, ServiceAnalysis_proofs, ServiceState_proofs,
        SequenceTheorems, FiniteSetTheorems, WellFoundedInduction, TLAPS

\* The parts count as FiniteSets does.
LEMMA EdgeCounting == \A S : Edge!Cardinality(S) = Cardinality(S)
BY DEF Edge!Cardinality, Cardinality

LEMMA ApiCounting ==
    \A S : Web!Cardinality(S) = Cardinality(S) /\ (Web!IsFiniteSet(S) <=> IsFiniteSet(S))
BY DEF Web!Cardinality, Web!IsFiniteSet, Cardinality, IsFiniteSet

---------------------------------------------------------------------------
(***************************************************************************)
(* Signals: the edge gateway's sources, its readings' flags and its health.*)
(***************************************************************************)
SomeReads ==
    /\ BufferCap \in Nat /\ Deadband \in Nat /\ FrozenLimit \in Nat
    /\ \A source \in {"opcua", "modbus", "historian"} : \A found \in DeviceReads[source] :
           DOMAIN found = 1..Len(found) /\ Len(found) \in Nat
    /\ \A found \in DeviceReads["opcua"] \cup DeviceReads["historian"] : \A i \in DOMAIN found :
           found[i].value \in [is : {"number", "nan", "text"}, v : Int]
    /\ \A found \in DeviceReads["modbus"] : \A i \in DOMAIN found :
           found[i].kind \in {"coil", "discrete", "holding", "input"} /\ found[i].words \in Seq(Int)
    /\ \A c \in Configs : \A entry \in Range(c.tagMap.tags) :
           \A factor \in {"scale", "offset"} \cap DOMAIN entry : entry[factor] \in Int
Sources == {"synthetic", "opcua", "modbus", "historian"}

-----------------------------------------------------------------------------
(* What a monitor remembers of a signal is its history: its last value and *)
(* how many readings it has stood still for.                               *)
Tells(state, readings, past) ==
    /\ state.repeats = Cardinality(Edge!Still(readings, past))
    /\ \/ past = {} /\ state.last = Edge!NonFinite
       \/ \E top \in past : (\A j \in past : j <= top) /\ state.last = readings[top].value
Knows(m, readings, n) ==
    \A key : Tells(Edge!StateOf(m, key), readings, Edge!Past(readings, n, key))
Numeric(reading) == \E v \in Int : reading.value = Edge!Number(v)

LEMMA NumbersAre == \A v : /\ Edge!Number(v) # Edge!NonFinite
                           /\ Edge!Number(v).v = v /\ Edge!Number(v).is = "number"
BY DEF Edge!Number, Edge!NonFinite

LEMMA PastGrows ==
    ASSUME NEW h, NEW n \in Nat, Numeric(h[n + 1]), NEW key
    PROVE  Edge!Past(h, n + 1, key)
             = IF Edge!Key(h[n + 1]) = key THEN Edge!Past(h, n, key) \cup {n + 1} ELSE Edge!Past(h, n, key)
<1>1. h[n + 1].value.is = "number"
  BY NumbersAre DEF Numeric
<1>2. 1..(n + 1) = 1..n \cup {n + 1}
  OBVIOUS
<1> QED BY <1>1, <1>2, Zenon DEF Edge!Past

LEMMA PastIs ==
    ASSUME NEW h, NEW n \in Nat, NEW key
    PROVE  /\ Edge!Past(h, n, key) \in SUBSET (1..n)
           /\ IsFiniteSet(Edge!Past(h, n, key)) /\ IsFiniteSet(Edge!Still(h, Edge!Past(h, n, key)))
<1>1. Edge!Past(h, n, key) \in SUBSET (1..n)
  BY DEF Edge!Past
<1>2. IsFiniteSet(1..n)
  BY FS_Interval
<1>3. Edge!Still(h, Edge!Past(h, n, key)) \in SUBSET Edge!Past(h, n, key)
  BY DEF Edge!Still
<1> QED BY <1>1, <1>2, <1>3, FS_Subset

\* One more reading of the signal.
LEMMA StillGrows ==
    ASSUME NEW h, NEW n \in Nat, NEW past \in SUBSET (1..n), IsFiniteSet(Edge!Still(h, past)),
           NEW state, Tells(state, h, past), NEW v \in Int, h[n + 1].value = Edge!Number(v)
    PROVE  Tells(Edge!Remember(state, v), h, past \cup {n + 1})
<1> DEFINE longer == past \cup {n + 1}
           after == Edge!Remember(state, v)
<1>1. after.last = h[n + 1].value /\ \A j \in longer : j <= n + 1
  BY DEF Edge!Remember
<1>2. \A k \in past : k # n + 1 /\ n + 1 >= k
  OBVIOUS
<1>3. CASE state.last = Edge!Number(v)
  <2>1. PICK top \in past : (\A j \in past : j <= top) /\ state.last = h[top].value
    BY <1>3, NumbersAre DEF Tells
  <2>2. Edge!Still(h, longer) = Edge!Still(h, past) \cup {n + 1}
    <3>1. \A k \in Edge!Still(h, past) : h[k].value = h[n + 1].value
      BY <1>3, <2>1 DEF Edge!Still
    <3>2. ASSUME NEW k \in Edge!Still(h, past) \cup {n + 1} PROVE k \in Edge!Still(h, longer)
      <4>1. CASE k \in Edge!Still(h, past)
        BY <3>1, <4>1 DEF Edge!Still
      <4>2. CASE k = n + 1
        BY <1>2, <4>2 DEF Edge!Still
      <4> QED BY <4>1, <4>2
    <3>3. \A k \in Edge!Still(h, longer) : k \in past => k \in Edge!Still(h, past)
      BY DEF Edge!Still
    <3> QED BY <3>2, <3>3 DEF Edge!Still
  <2>3. n + 1 \notin Edge!Still(h, past)
    BY <1>2 DEF Edge!Still
  <2>4. Cardinality(Edge!Still(h, longer)) = Cardinality(Edge!Still(h, past)) + 1
    BY <2>2, <2>3, FS_AddElement
  <2>5. after.repeats = Cardinality(Edge!Still(h, longer))
    BY <1>3, <2>4 DEF Edge!Remember, Tells
  <2> QED BY <1>1, <2>5 DEF Tells
<1>4. CASE state.last # Edge!Number(v)
  <2>1. Edge!Still(h, longer) = {n + 1}
    <3>1. n + 1 \in Edge!Still(h, longer)
      BY <1>2 DEF Edge!Still
    <3>2. ASSUME NEW k \in past, k \in Edge!Still(h, longer) PROVE FALSE
      <4>1. PICK top \in past : (\A j \in past : j <= top) /\ state.last = h[top].value
        BY DEF Tells
      <4>2. h[top].value = h[k].value /\ h[n + 1].value = h[k].value
        BY <1>2, <3>2, <4>1 DEF Edge!Still
      <4> QED BY <1>4, <4>1, <4>2
    <3> QED BY <3>1, <3>2 DEF Edge!Still
  <2>2. after.repeats = Cardinality(Edge!Still(h, longer))
    BY <1>4, <2>1, FS_Singleton DEF Edge!Remember
  <2> QED BY <1>1, <2>2 DEF Tells
<1> QED BY <1>3, <1>4

LEMMA LearnIs ==
    ASSUME NEW m, NEW reading, Numeric(reading), NEW key
    PROVE  Edge!StateOf(Edge!Learn(m, reading), key)
             = IF key = Edge!Key(reading) THEN Edge!Remember(Edge!StateOf(m, key), reading.value.v)
               ELSE Edge!StateOf(m, key)
<1>1. reading.value.is # "nan"
  BY NumbersAre DEF Numeric
<1>2. Edge!Learn(m, reading) = [k \in DOMAIN m \cup {Edge!Key(reading)} |->
          IF k = Edge!Key(reading) THEN Edge!Remember(Edge!StateOf(m, k), reading.value.v) ELSE m[k]]
  BY <1>1 DEF Edge!Learn
<1> QED BY <1>2 DEF Edge!StateOf

\* A reading is learnt, and the flag it was given tells its history.
LEMMA KnowsMore ==
    ASSUME NEW m, NEW h, NEW n \in Nat, Numeric(h[n + 1]), Knows(m, h, n)
    PROVE  Knows(Edge!Learn(m, h[n + 1]), h, n + 1)
<1> SUFFICES ASSUME NEW key
             PROVE  Tells(Edge!StateOf(Edge!Learn(m, h[n + 1]), key), h, Edge!Past(h, n + 1, key))
  BY DEF Knows
<1> DEFINE past == Edge!Past(h, n, key)
<1>1. Tells(Edge!StateOf(m, key), h, past)
  BY DEF Knows
<1>2. CASE key = Edge!Key(h[n + 1])
  <2>1. PICK v \in Int : h[n + 1].value = Edge!Number(v)
    BY DEF Numeric
  <2>2. Tells(Edge!Remember(Edge!StateOf(m, key), v), h, past \cup {n + 1})
    BY <1>1, <2>1, StillGrows, PastIs
  <2> QED BY <1>2, <2>1, <2>2, LearnIs, PastGrows, NumbersAre
<1>3. CASE key # Edge!Key(h[n + 1])
  BY <1>1, <1>3, LearnIs, PastGrows
<1> QED BY <1>2, <1>3

LEMMA FlagsTrue ==
    ASSUME NEW m, NEW h, NEW n \in Nat, \A k \in 1..n + 1 : Numeric(h[k]), Knows(m, h, n),
           NEW key, key = Edge!Key(h[n + 1]), Deadband \in Nat, FrozenLimit \in Nat
    PROVE  Edge!FlagTrue(h, n + 1, Edge!Flag(h[n + 1], Edge!StateOf(m, key)))
<1> DEFINE state == Edge!StateOf(m, key)
           past == Edge!Past(h, n, key)
           longer == Edge!Past(h, n + 1, key)
           flag == Edge!Flag(h[n + 1], state)
           still == Edge!Cardinality(Edge!Still(h, longer))
<1>1. PICK v \in Int : h[n + 1].value = Edge!Number(v)
  BY DEF Numeric
<1>2. h[n + 1].value.v = v /\ Numeric(h[n + 1])
  BY <1>1, NumbersAre DEF Numeric
<1>3. longer = past \cup {n + 1} /\ past \in SUBSET (1..n) /\ IsFiniteSet(Edge!Still(h, past))
      /\ IsFiniteSet(Edge!Still(h, longer))
  <2>1. longer = past \cup {n + 1}
    BY <1>2, PastGrows
  <2>2. past \in SUBSET (1..n) /\ IsFiniteSet(Edge!Still(h, past))
    BY PastIs
  <2>3. IsFiniteSet(Edge!Still(h, Edge!Past(h, n + 1, key)))
    BY PastIs
  <2> QED BY <2>1, <2>2, <2>3
<1>4. Tells(state, h, past)
  BY DEF Knows
<1>5. Tells(Edge!Remember(state, v), h, longer)
  BY <1>1, <1>3, <1>4, StillGrows
<1>6. Edge!Remember(state, v).repeats = still /\ still \in Nat
  BY <1>3, <1>5, EdgeCounting, FS_CardinalityType DEF Tells
<1>7. flag = "frozen" => still >= FrozenLimit
  BY <1>2, <1>6, Zenon DEF Edge!Flag
<1>8. flag = "good" => ~(still >= FrozenLimit) /\ ~Edge!Barely(state, v)
  BY <1>2, <1>6, Zenon DEF Edge!Flag
<1>9. ASSUME ~Edge!Barely(state, v),
             NEW k \in longer, k < n + 1, \A j \in longer : j > k => j >= n + 1,
             h[k].value # h[n + 1].value
      PROVE  Edge!Distance(h[k].value.v, h[n + 1].value.v) > Deadband
  <2>1. k \in past /\ k \in 1..n /\ \A j \in past : j <= k
    BY <1>3, <1>9
  <2>2. state.last = h[k].value
    <3>1. PICK top \in past : (\A j \in past : j <= top) /\ state.last = h[top].value
      BY <1>4, <2>1 DEF Tells
    <3>2. top = k
      BY <1>3, <2>1, <3>1
    <3> QED BY <3>1, <3>2
  <2>3. PICK w \in Int : h[k].value = Edge!Number(w)
    BY <2>1 DEF Numeric
  <2>4. state.last.is = "number" /\ state.last.v = w /\ w # v
    BY <1>1, <1>9, <2>2, <2>3, NumbersAre
  <2>5. ~(Deadband > 0 /\ Edge!Distance(v, w) <= Deadband)
    BY <1>9, <2>4 DEF Edge!Barely
  <2>6. Edge!Distance(v, w) = Edge!Distance(w, v) /\ Edge!Distance(v, w) \in Nat \ {0}
    BY <2>4 DEF Edge!Distance
  <2> QED BY <1>2, <2>2, <2>4, <2>5, <2>6
<1> HIDE DEF still, flag, longer
<1>10. Edge!FlagTrue(h, n + 1, flag)
  <2>1. flag = "good" => still < FrozenLimit
    BY <1>6, <1>8
  <2>2. flag = "good" =>
            \A k \in {j \in longer : j < n + 1 /\ \A i \in longer : i > j => i >= n + 1} :
                 \/ h[k].value = h[n + 1].value
                 \/ Edge!Distance(h[k].value.v, h[n + 1].value.v) > Deadband
    BY <1>8, <1>9
  <2> QED BY <1>7, <2>1, <2>2, Zenon DEF Edge!FlagTrue, still, longer
<1> QED BY <1>10 DEF flag

-----------------------------------------------------------------------------
(* The recursion over a batch.                                             *)

\* The memory after each reading of a batch is learnt from the one before:
\* for every length there is such a function, so Learned is one.
Teaches(f, m, readings, n) == f = [k \in 0..n |-> IF k = 0 THEN m ELSE Edge!Learn(f[k - 1], readings[k])]
LEMMA LearnedExists ==
    ASSUME NEW m, NEW readings, NEW n \in Nat
    PROVE  \E f : Teaches(f, m, readings, n)
<1> DEFINE Unlearned == {k \in Nat : ~\E f : Teaches(f, m, readings, k)}
<1>1. SUFFICES ASSUME Unlearned # {} PROVE FALSE
  OBVIOUS
<1>2. PICK k \in Unlearned : \A j \in Unlearned : k <= j
  BY <1>1, FirstOf
<1>3. CASE k = 0
  <2> DEFINE f == [j \in 0..0 |-> m]
  <2>1. Teaches(f, m, readings, 0)
    BY DEF Teaches
  <2> QED BY <1>2, <1>3, <2>1
<1>4. CASE k # 0
  <2>1. k - 1 \in Nat /\ k - 1 \notin Unlearned
    BY <1>2, <1>4
  <2>2. PICK f : Teaches(f, m, readings, k - 1)
    BY <2>1
  <2> DEFINE g == [j \in 0..k |-> IF j <= k - 1 THEN f[j] ELSE Edge!Learn(f[k - 1], readings[k])]
             step == [j \in 0..k |-> IF j = 0 THEN m ELSE Edge!Learn(g[j - 1], readings[j])]
  <2>3. ASSUME NEW j \in 0..k PROVE g[j] = step[j]
    <3>1. CASE j = 0
      <4>1. g[j] = f[0] /\ f[0] = m
        BY <2>1, <2>2, <3>1 DEF Teaches
      <4> QED BY <3>1, <4>1
    <3>2. CASE j # 0 /\ j <= k - 1
      <4>1. g[j] = f[j] /\ g[j - 1] = f[j - 1] /\ j \in 0..k - 1
        BY <3>2
      <4>2. f[j] = Edge!Learn(f[j - 1], readings[j])
        BY <2>2, <3>2, <4>1 DEF Teaches
      <4> HIDE DEF g
      <4> QED BY <3>2, <4>1, <4>2
    <3>3. CASE j = k
      <4>1. g[j] = Edge!Learn(f[k - 1], readings[k]) /\ g[j - 1] = f[k - 1]
        BY <1>4, <3>3
      <4> HIDE DEF g
      <4> QED BY <1>4, <3>3, <4>1
    <3> QED BY <3>1, <3>2, <3>3
  <2>4. g = step
    <3>1. g = [j \in 0..k |-> g[j]] /\ step = [j \in 0..k |-> step[j]]
      OBVIOUS
    <3> HIDE DEF g, step
    <3> QED BY <2>3, <3>1
  <2>5. Teaches(g, m, readings, k)
    <3> HIDE DEF g
    <3> QED BY <2>4 DEF Teaches
  <2> QED BY <1>2, <2>5
<1> QED BY <1>3, <1>4

LEMMA LearnedIs ==
    ASSUME NEW m, NEW readings, Len(readings) \in Nat
    PROVE  /\ Edge!Learned(m, readings)[0] = m
           /\ \A n \in 1..Len(readings) :
                  Edge!Learned(m, readings)[n] = Edge!Learn(Edge!Learned(m, readings)[n - 1], readings[n])
<1> DEFINE l == Edge!Learned(m, readings)
<1>1. PICK f : Teaches(f, m, readings, Len(readings))
  BY LearnedExists
<1>2. Teaches(l, m, readings, Len(readings))
  BY <1>1, Zenon DEF Teaches, Edge!Learned
<1> HIDE DEF l
<1>3. l[0] = m /\ \A n \in 1..Len(readings) : l[n] = Edge!Learn(l[n - 1], readings[n])
  BY <1>2 DEF Teaches
<1> QED BY <1>3 DEF l

\* A whole batch: what was known of a history is known of the longer one,
\* and every flag was given with all the readings before it known.
LEMMA BatchLearnt ==
    ASSUME NEW m, NEW h, NEW n \in Nat, NEW batch, Len(batch) \in Nat,
           \A k \in 1..n + Len(batch) : Numeric(h[k]),
           \A i \in 1..Len(batch) : h[n + i] = batch[i],
           Knows(m, h, n)
    PROVE  \A i \in 0..Len(batch) : Knows(Edge!Learned(m, batch)[i], h, n + i)
<1> DEFINE l == Edge!Learned(m, batch)
           Unknown == {i \in Nat : i <= Len(batch) /\ ~Knows(l[i], h, n + i)}
<1>1. SUFFICES ASSUME Unknown # {} PROVE FALSE
  OBVIOUS
<1>2. PICK i \in Unknown : \A j \in Unknown : i <= j
  BY <1>1, FirstOf
<1>3. CASE i = 0
  <2>1. l[i] = m /\ n + i = n
    BY <1>3, LearnedIs
  <2> QED BY <1>2, <2>1, Zenon
<1>4. CASE i # 0
  <2>1. i - 1 \in Nat /\ i - 1 \notin Unknown /\ i \in 1..Len(batch)
    BY <1>2, <1>4
  <2>2. Knows(l[i - 1], h, n + (i - 1))
    BY <2>1
  <2>3. l[i] = Edge!Learn(l[i - 1], h[n + i])
    BY <2>1, LearnedIs
  <2>4. (n + (i - 1)) + 1 = n + i /\ n + (i - 1) \in Nat /\ Numeric(h[n + i])
    <3>1. i \in Nat /\ i > 0 /\ i <= Len(batch)
      BY <2>1
    <3> HIDE DEF l, Unknown
    <3>2. n + i \in 1..n + Len(batch) /\ (n + (i - 1)) + 1 = n + i /\ n + (i - 1) \in Nat
      BY <3>1
    <3> QED BY <3>2
  <2> HIDE DEF l
  <2>5. Knows(l[i], h, n + i)
    BY <2>2, <2>3, <2>4, KnowsMore
  <2> QED BY <1>2, <2>5
<1> QED BY <1>3, <1>4

LEMMA BatchFlagged ==
    ASSUME NEW m, NEW h, NEW n \in Nat, NEW batch, Len(batch) \in Nat,
           \A k \in 1..n + Len(batch) : Numeric(h[k]),
           \A i \in 1..Len(batch) : h[n + i] = batch[i],
           Knows(m, h, n), Deadband \in Nat, FrozenLimit \in Nat,
           NEW i \in 1..Len(batch)
    PROVE  Edge!FlagTrue(h, n + i, Edge!Flag(batch[i], Edge!StateOf(Edge!Learned(m, batch)[i - 1], Edge!Key(batch[i]))))
<1> DEFINE known == Edge!Learned(m, batch)[i - 1]
           key == Edge!Key(batch[i])
           p == n + (i - 1)
<1>1. p \in Nat /\ p + 1 = n + i /\ i - 1 \in 0..Len(batch) /\ \A k \in 1..p + 1 : Numeric(h[k])
  OBVIOUS
<1>2. Knows(known, h, p)
  BY <1>1, BatchLearnt
<1>3. h[p + 1] = batch[i] /\ key = Edge!Key(h[p + 1])
  BY <1>1
<1> HIDE DEF known, p, key
<1>4. Edge!FlagTrue(h, p + 1, Edge!Flag(h[p + 1], Edge!StateOf(known, key)))
  BY <1>1, <1>2, <1>3, FlagsTrue
<1> QED BY <1>1, <1>3, <1>4 DEF known, key

-----------------------------------------------------------------------------
(* The k-th element of a set of positions is one of them.                  *)
UpTo(S, x) == {j \in S : j <= x}
LEMMA UpToIs ==
    ASSUME NEW n \in Nat, NEW S \in SUBSET (1..n)
    PROVE  /\ UpTo(S, 0) = {} /\ UpTo(S, n) = S
           /\ \A x \in Nat \ {0} :
                  /\ x \notin UpTo(S, x - 1)
                  /\ UpTo(S, x) = IF x \in S THEN UpTo(S, x - 1) \cup {x} ELSE UpTo(S, x - 1)
           /\ \A x : IsFiniteSet(UpTo(S, x)) /\ Cardinality(UpTo(S, x)) \in Nat
<1>1. \A j \in S : j \in Nat /\ 1 <= j /\ j <= n
  OBVIOUS
<1>2. UpTo(S, 0) = {} /\ UpTo(S, n) = S
  <2>1. \A j \in S : ~(j <= 0) /\ j <= n
    BY <1>1
  <2> QED BY <2>1, Zenon DEF UpTo
<1>3. ASSUME NEW x \in Nat \ {0}
      PROVE  /\ x \notin UpTo(S, x - 1)
             /\ UpTo(S, x) = IF x \in S THEN UpTo(S, x - 1) \cup {x} ELSE UpTo(S, x - 1)
  <2>1. \A j \in S : j <= x <=> j <= x - 1 \/ j = x
    BY <1>1
  <2>2. x \notin UpTo(S, x - 1)
    BY DEF UpTo
  <2>3. CASE x \in S
    <3>1. x \in UpTo(S, x) /\ UpTo(S, x - 1) \subseteq UpTo(S, x)
      BY <2>1, <2>3 DEF UpTo
    <3>2. \A j \in UpTo(S, x) : j \in UpTo(S, x - 1) \/ j = x
      BY <2>1 DEF UpTo
    <3> QED BY <2>3, <3>1, <3>2
  <2>4. CASE x \notin S
    BY <2>1, <2>4, Zenon DEF UpTo
  <2> QED BY <2>2, <2>3, <2>4
<1>4. IsFiniteSet(S)
  <2>1. IsFiniteSet(1..n)
    BY FS_Interval
  <2> QED BY <2>1, FS_Subset
<1>5. ASSUME NEW x PROVE IsFiniteSet(UpTo(S, x)) /\ Cardinality(UpTo(S, x)) \in Nat
  <2>1. UpTo(S, x) \in SUBSET S
    BY DEF UpTo
  <2> QED BY <1>4, <2>1, FS_Subset, FS_CardinalityType
<1> QED BY <1>2, <1>3, <1>5

LEMMA NthIs ==
    ASSUME NEW n \in Nat, NEW S \in SUBSET (1..n), NEW k \in 1..Edge!Cardinality(S)
    PROVE  Edge!Nth(S, k) \in S
<1> DEFINE Enough == {x \in Nat : Cardinality(UpTo(S, x)) >= k}
<1>1. Cardinality(S) \in Nat /\ k \in 1..Cardinality(S)
  <2>1. Edge!Cardinality(S) = Cardinality(S) /\ UpTo(S, n) = S
    BY EdgeCounting, UpToIs
  <2>2. Cardinality(UpTo(S, n)) \in Nat
    BY UpToIs
  <2> QED BY <2>1, <2>2
<1>2. n \in Enough
  BY <1>1, UpToIs
<1>3. PICK x \in Enough : \A y \in Enough : x <= y
  BY <1>2, FirstOf
<1>4. x # 0
  <2>1. Cardinality(UpTo(S, 0)) = 0
    BY UpToIs, FS_EmptySet
  <2> QED BY <1>1, <1>3, <2>1
<1>5. x - 1 \in Nat /\ Cardinality(UpTo(S, x - 1)) < k
  <2>1. x - 1 \in Nat /\ x - 1 \notin Enough
    BY <1>3, <1>4
  <2>2. Cardinality(UpTo(S, x - 1)) \in Nat
    BY UpToIs
  <2> QED BY <1>1, <2>1, <2>2
<1>6. x \in Nat \ {0} /\ Cardinality(UpTo(S, x)) >= k
  BY <1>3, <1>4
<1>7. x \in S
  <2>1. ASSUME x \notin S PROVE FALSE
    <3>1. UpTo(S, x) = UpTo(S, x - 1)
      BY <1>6, <2>1, UpToIs
    <3>2. Cardinality(UpTo(S, x - 1)) \in Nat
      BY UpToIs
    <3> QED BY <1>1, <1>5, <1>6, <3>1, <3>2
  <2> QED BY <2>1
<1>8. Cardinality(UpTo(S, x)) = k
  <2>1. UpTo(S, x) = UpTo(S, x - 1) \cup {x} /\ x \notin UpTo(S, x - 1)
    BY <1>6, <1>7, UpToIs
  <2>2. IsFiniteSet(UpTo(S, x - 1)) /\ Cardinality(UpTo(S, x - 1)) \in Nat
    BY UpToIs
  <2>3. Cardinality(UpTo(S, x)) = Cardinality(UpTo(S, x - 1)) + 1
    BY <2>1, <2>2, FS_AddElement
  <2> QED BY <1>1, <1>5, <1>6, <2>2, <2>3
<1>9. \E i \in S : Edge!Cardinality({j \in S : j <= i}) = k
  <2>1. Edge!Cardinality(UpTo(S, x)) = k
    BY <1>8, EdgeCounting
  <2> QED BY <1>7, <2>1, Zenon DEF UpTo
<1> QED BY <1>9, Zenon DEF Edge!Nth

\* The positions that pass, and the batch that they make.
Spans(s) == DOMAIN s = 1..Len(s) /\ Len(s) \in Nat
LEMMA ArrayIs == ASSUME NEW n \in Nat, NEW s, s = [i \in 1..n |-> s[i]] PROVE Spans(s) /\ Len(s) = n
<1>1. s \in Seq({s[i] : i \in 1..n}) /\ DOMAIN s = 1..n
  OBVIOUS
<1> QED BY <1>1 DEF Spans

LEMMA PicksAre ==
    ASSUME NEW s, Spans(s), NEW kept \in SUBSET DOMAIN s
    PROVE  /\ Edge!Cardinality(kept) \in Nat
           /\ \A k \in 1..Edge!Cardinality(kept) : Edge!Nth(kept, k) \in kept
<1>1. IsFiniteSet(1..Len(s))
  BY FS_Interval DEF Spans
<1>2. IsFiniteSet(kept)
  BY <1>1, FS_Subset DEF Spans
<1>3. Edge!Cardinality(kept) \in Nat
  BY <1>2, FS_CardinalityType, EdgeCounting
<1>4. \A k \in 1..Edge!Cardinality(kept) : Edge!Nth(kept, k) \in kept
  BY NthIs DEF Spans
<1> QED BY <1>3, <1>4

\* What a source found, in the raw form that is put on the tag map.
RawNumbers(raws) ==
    \A i \in DOMAIN raws : raws[i].value.is \notin {"text", "nan"} => raws[i].value.v \in Int
LEMMA RawIs ==
    ASSUME SomeReads, config.requested \in Sources \ {"synthetic"},
           NEW found \in DeviceReads[config.requested], ~Edge!ReadsFail(found)
    PROVE  Spans(Edge!RawOf(found)) /\ RawNumbers(Edge!RawOf(found))
<1> DEFINE raws == Edge!RawOf(found)
<1>1. Spans(found)
  BY DEF SomeReads, Spans, Sources
<1>2. CASE config.requested = "modbus"
  <2>1. raws = Edge!ModbusRead(found)
    BY <1>2 DEF Edge!RawOf
  <2>2. \A i \in DOMAIN found : raws[i].value = Edge!Number(Edge!ModbusValue(found[i])) /\ DOMAIN raws = DOMAIN found
    BY <2>1 DEF Edge!ModbusRead
  <2>3. ASSUME NEW i \in DOMAIN found PROVE Edge!ModbusValue(found[i]) \in Int
    <3> DEFINE register == found[i]
    <3>1. register.words \in Seq(Int) /\ register.kind \in {"coil", "discrete", "holding", "input"}
      BY <1>2 DEF SomeReads
    <3>2. CASE register.kind \in {"coil", "discrete"}
      <4> HIDE DEF register
      <4>1. Edge!ModbusValue(register)
              = IF register.words # <<>> /\ Head(register.words) # 0 THEN 1 ELSE 0
        BY <3>2, Zenon DEF Edge!ModbusValue
      <4> QED BY <4>1 DEF register
    <3>3. CASE register.kind \in {"holding", "input"}
      <4>1. register.words # <<>>
        BY <1>2, <3>3 DEF Edge!ReadsFail, Edge!ModbusFails, Edge!Range
      <4> HIDE DEF register
      <4>2. Edge!ModbusValue(register) = Head(register.words)
        BY <3>3 DEF Edge!ModbusValue
      <4>3. Head(register.words) \in Int
        BY <3>1, <4>1
      <4> QED BY <4>2, <4>3 DEF register
    <3> QED BY <3>1, <3>2, <3>3
  <2>4. Spans(raws)
    <3>1. raws = [i \in 1..Len(found) |-> raws[i]] /\ Len(found) \in Nat
      BY <1>1, <2>1, Zenon DEF Edge!ModbusRead, Spans
    <3> HIDE DEF raws
    <3> QED BY <3>1, ArrayIs
  <2>5. RawNumbers(raws)
    <3> HIDE DEF raws
    <3>1. ASSUME NEW i \in DOMAIN raws PROVE raws[i].value.v \in Int
      <4>1. i \in DOMAIN found
        BY <2>1, <3>1 DEF Edge!ModbusRead
      <4> QED BY <2>2, <2>3, <4>1, NumbersAre
    <3> QED BY <3>1 DEF RawNumbers
  <2> QED BY <2>4, <2>5
<1>3. CASE config.requested = "historian"
  <2> DEFINE kept == {i \in DOMAIN found : {found[i].tag, found[i].customer_tag} # {"none"}}
             n == Edge!Cardinality(kept)
             named == [k \in 1..n |-> found[Edge!Nth(kept, k)]]
  <2>1. n \in Nat /\ \A k \in 1..n : Edge!Nth(kept, k) \in DOMAIN found
    BY <1>1, PicksAre
  <2>2. raws = [i \in DOMAIN named |->
           [tag |-> IF named[i].tag # "none" THEN named[i].tag ELSE named[i].customer_tag,
            value |-> named[i].value, stale |-> named[i].stale]]
    BY <1>3 DEF Edge!RawOf, Edge!HistorianRows, Edge!Filter, Edge!Passing
  <2> HIDE DEF n, kept
  <2>3. DOMAIN raws = 1..n /\ \A i \in 1..n : raws[i].value = found[Edge!Nth(kept, i)].value
    BY <2>2
  <2>4. Spans(raws)
    <3>1. raws = [i \in 1..n |-> raws[i]]
      BY <2>2, Zenon
    <3> HIDE DEF raws
    <3> QED BY <2>1, <3>1, ArrayIs
  <2>5. RawNumbers(raws)
    <3> HIDE DEF raws
    <3>1. \A j \in DOMAIN found : found[j].value.is \notin {"text", "nan"} => found[j].value.v \in Int
      BY <1>3 DEF SomeReads
    <3> QED BY <2>1, <2>3, <3>1 DEF RawNumbers
  <2> QED BY <2>4, <2>5
<1>4. CASE config.requested = "opcua"
  <2>1. raws = found
    BY <1>4 DEF Edge!RawOf
  <2>2. RawNumbers(found)
    BY <1>4 DEF RawNumbers, SomeReads
  <2> QED BY <1>1, <2>1, <2>2
<1> QED BY <1>2, <1>3, <1>4 DEF Sources

\* A batch is a sequence of readings with whole numbers.
IsReading(reading) == Numeric(reading) /\ reading = [f \in DOMAIN reading |-> reading[f]] /\ {"unit", "value"} \subseteq DOMAIN reading
Batch(readings) == Spans(readings) /\ \A i \in DOMAIN readings : IsReading(readings[i])

LEMMA MappedIs ==
    ASSUME SomeReads, config \in Configs, NEW raw, raw.tag \in DOMAIN config.tagMap.tags, raw.value.v \in Int
    PROVE  IsReading(Edge!Mapped(raw))
<1> DEFINE entry == config.tagMap.tags[raw.tag]
           v == raw.value.v * Edge!FactorOf(entry, "scale", 1) + Edge!FactorOf(entry, "offset", 0)
<1>1. entry \in Range(config.tagMap.tags)
  BY DEF Range
<1>2. Edge!FactorOf(entry, "scale", 1) \in Int /\ Edge!FactorOf(entry, "offset", 0) \in Int
  BY <1>1 DEF Edge!FactorOf, SomeReads
<1>3. v \in Int
  <2> HIDE DEF entry
  <2> QED BY <1>2
<1>4. Edge!Mapped(raw) = [asset |-> entry.asset_id, metric |-> entry.metric, unit |-> entry.unit,
                          stale |-> raw.stale, value |-> Edge!Number(v)]
  BY DEF Edge!Mapped
<1> HIDE DEF v, entry
<1> QED BY <1>3, <1>4 DEF IsReading, Numeric

LEMMA NormalizedIs ==
    ASSUME SomeReads, config \in Configs, NEW raws, Spans(raws), RawNumbers(raws)
    PROVE  Batch(Edge!Normalize(raws))
<1> DEFINE kept == {i \in DOMAIN raws : Edge!Rejection(raws[i]) = "none"}
           n == Edge!Cardinality(kept)
           filtered == [k \in 1..n |-> raws[Edge!Nth(kept, k)]]
           readings == Edge!Normalize(raws)
<1>1. n \in Nat /\ \A k \in 1..n : Edge!Nth(kept, k) \in kept
  BY PicksAre
<1>2. readings = [i \in DOMAIN filtered |-> Edge!Mapped(filtered[i])]
  BY DEF Edge!Normalize, Edge!Filter, Edge!Passing
<1>3. DOMAIN readings = 1..n /\ \A i \in 1..n : readings[i] = Edge!Mapped(raws[Edge!Nth(kept, i)])
  BY <1>2
<1>4. Spans(readings)
  <2>1. readings = [i \in 1..n |-> readings[i]]
    BY <1>2, Zenon
  <2> HIDE DEF readings, n, kept
  <2> QED BY <1>1, <2>1, ArrayIs
<1>5. ASSUME NEW i \in 1..n PROVE IsReading(readings[i])
  <2> DEFINE raw == raws[Edge!Nth(kept, i)]
  <2>1. Edge!Nth(kept, i) \in DOMAIN raws /\ Edge!Rejection(raw) = "none"
    BY <1>1
  <2>2. raw.tag \in DOMAIN config.tagMap.tags /\ raw.value.is \notin {"text", "nan"}
    BY <2>1 DEF Edge!Rejection
  <2>3. raw.value.v \in Int
    BY <2>1, <2>2 DEF RawNumbers
  <2> HIDE DEF raw, readings, n
  <2>4. IsReading(Edge!Mapped(raw))
    BY <2>2, <2>3, MappedIs
  <2> QED BY <1>3, <2>4 DEF raw
<1> HIDE DEF n, kept, readings
<1> QED BY <1>3, <1>4, <1>5 DEF Batch, readings

LEMMA BatchIs ==
    ASSUME SomeReads, config \in Configs, NEW r, r.active \in Sources, NEW readings \in Edge!Batches(r),
           r.active = "synthetic" \/ r.active = config.requested
    PROVE  Batch(readings)
<1>1. CASE r.active = "synthetic"
  <2>1. readings = Edge!SyntheticRead
    BY <1>1 DEF Edge!Batches
  <2>2. Spans(Edge!SyntheticRead) /\ DOMAIN Edge!SyntheticRead = {1}
    BY DEF Edge!SyntheticRead, Spans
  <2>3. IsReading(Edge!SyntheticRead[1])
    <3>1. Edge!SyntheticRead[1] = [asset |-> "AST-CF-01", metric |-> "dp_bar", unit |-> "bar",
                                  stale |-> FALSE, value |-> Edge!Number(570)]
      BY DEF Edge!SyntheticRead
    <3>2. Edge!SyntheticRead[1].value = Edge!Number(570) /\ 570 \in Int
      BY <3>1
    <3>3. Numeric(Edge!SyntheticRead[1])
      BY <3>2, Zenon DEF Numeric
    <3>4. DOMAIN Edge!SyntheticRead[1] = {"asset", "metric", "unit", "stale", "value"}
      BY <3>1, Zenon
    <3>5. Edge!SyntheticRead[1] = [f \in DOMAIN Edge!SyntheticRead[1] |-> Edge!SyntheticRead[1][f]]
      BY <3>1
    <3> QED BY <3>3, <3>4, <3>5 DEF IsReading
  <2> QED BY <2>1, <2>2, <2>3 DEF Batch
<1>2. CASE r.active # "synthetic"
  <2>1. PICK found \in DeviceReads[r.active] :
            readings = Edge!Normalize(Edge!RawOf(found)) /\ ~Edge!ReadsFail(found)
    BY <1>2 DEF Edge!Batches
  <2>2. Spans(Edge!RawOf(found)) /\ RawNumbers(Edge!RawOf(found))
    BY <1>2, <2>1, RawIs
  <2> QED BY <2>1, <2>2, NormalizedIs
<1> QED BY <1>1, <1>2

\* Units are converted to whole numbers.
LEMMA ConversionsAre ==
    \A unit \in DOMAIN Edge!Conversions :
        LET c == Edge!Conversions[unit] IN c.mul \in Int /\ c.div \in Nat \ {0} /\ c.off \in Int
BY DEF Edge!Conversions

LEMMA CanonicalIs == ASSUME NEW reading, IsReading(reading) PROVE Numeric(Edge!ToCanonical(reading))
<1>1. PICK v \in Int : reading.value = Edge!Number(v)
  BY DEF IsReading, Numeric
<1>2. CASE reading.unit \notin DOMAIN Edge!Conversions
  BY <1>2 DEF Edge!ToCanonical, IsReading
<1>3. CASE reading.unit \in DOMAIN Edge!Conversions
  <2> DEFINE c == Edge!Conversions[reading.unit]
             w == (v * c.mul) \div c.div + c.off
  <2>1. c.mul \in Int /\ c.div \in Nat \ {0} /\ c.off \in Int
    BY <1>3, ConversionsAre
  <2>2. w \in Int
    <3> HIDE DEF c
    <3>1. v * c.mul \in Int
      BY <2>1
    <3>2. (v * c.mul) \div c.div \in Int
      BY <2>1, <3>1
    <3> QED BY <2>1, <3>2
  <2>3. Edge!ToCanonical(reading)
          = [reading EXCEPT !.unit = c.to, !.value.v = (@ * c.mul) \div c.div + c.off]
    BY <1>3 DEF Edge!ToCanonical
  <2> HIDE DEF c
  <2>4. Edge!ToCanonical(reading).value = [Edge!Number(v) EXCEPT !.v = w]
    BY <1>1, <2>3, NumbersAre DEF IsReading
  <2>5. [Edge!Number(v) EXCEPT !.v = w] = Edge!Number(w)
    BY DEF Edge!Number
  <2> QED BY <2>2, <2>4, <2>5 DEF Numeric
<1> QED BY <1>2, <1>3

-----------------------------------------------------------------------------
(* The inductive invariant.                                                *)
QualityFlags == {"non_finite", "out_of_range", "stale", "frozen", "deadband", "good"}
\* A resolution names the requested source or, as a fallback, the simulated
\* plant.
Known(r) == /\ r.active \in Sources /\ r.fallback \in BOOLEAN
            /\ r.fallback <=> r.active # config.requested
            /\ r.fallback => r.active = "synthetic"
\* The monitor has learnt the whole history, which is of numbers.
IsArray(s) == Spans(s) /\ s = [i \in 1..Len(s) |-> s[i]]
Remembers ==
    /\ IsArray(history) /\ \A k \in 1..Len(history) : Numeric(history[k])
    /\ Knows(monitor, history, Len(history))
    /\ Edge!FlagsTellHistory
SignalsInv ==
    /\ config \in Configs
    /\ resolution = Edge!Unresolved \/ Known(resolution)
    /\ depth \in 0..BufferCap
    /\ \A i \in DOMAIN flagged : flagged[i].flag \in QualityFlags
    /\ Edge!HealthHonest
    /\ Remembers

LEMMA ResolvedIs == ASSUME NEW available \in BOOLEAN PROVE Known(Edge!Resolved(available))
BY DEF Known, Edge!Resolved, Edge!SourceKinds, Sources

LEMMA EnsuredIs ==
    ASSUME SignalsInv, NEW available \in BOOLEAN
    PROVE  Known(Edge!Ensured(available)) /\ (resolution.fallback => Edge!Ensured(available) = resolution)
BY ResolvedIs DEF SignalsInv, Edge!Ensured, Edge!Unresolved

LEMMA FlagIs == ASSUME NEW reading, NEW state PROVE Edge!Flag(reading, state) \in QualityFlags
BY DEF Edge!Flag, QualityFlags

LEMMA LeastIs == ASSUME NEW a \in Nat, NEW b \in Nat PROVE Edge!Min({a, b}) \in Nat /\ Edge!Min({a, b}) <= a
<1>1. \E x \in {a, b} : \A y \in {a, b} : x <= y
  OBVIOUS
<1>2. Edge!Min({a, b}) \in {a, b} /\ \A y \in {a, b} : Edge!Min({a, b}) <= y
  BY <1>1 DEF Edge!Min
<1> QED BY <1>2

LEMMA BufferIs ==
    ASSUME SomeReads, SignalsInv, NEW readings, Batch(readings), NEW h, Edge!Buffer(readings, h)
    PROVE  depth' \in 0..BufferCap /\ \A i \in DOMAIN flagged' : flagged'[i].flag \in QualityFlags
<1> DEFINE canonical == [i \in DOMAIN readings |-> Edge!ToCanonical(readings[i])]
<1>1. depth' = Edge!Min({BufferCap, depth + Len(readings)}) /\ depth + Len(readings) \in Nat
  BY DEF Edge!Buffer, SignalsInv, Batch, Spans
<1>2. depth' \in 0..BufferCap
  BY <1>1, LeastIs DEF SomeReads
<1>3. flagged' = Edge!Flags(monitor, canonical)
  BY DEF Edge!Buffer
<1> HIDE DEF canonical
<1>4. \A i \in DOMAIN flagged' : flagged'[i].flag \in QualityFlags
  BY <1>3, FlagIs DEF Edge!Flags
<1> QED BY <1>2, <1>4

LEMMA ArraysJoin ==
    ASSUME NEW s, NEW t, IsArray(s), IsArray(t)
    PROVE  /\ IsArray(s \o t) /\ Len(s \o t) = Len(s) + Len(t)
           /\ \A k \in 1..Len(s) : (s \o t)[k] = s[k]
           /\ \A i \in 1..Len(t) : (s \o t)[Len(s) + i] = t[i]
<1> DEFINE S == {s[i] : i \in 1..Len(s)} \cup {t[i] : i \in 1..Len(t)}
<1>1. s \in Seq(S) /\ t \in Seq(S)
  <2>1. [i \in 1..Len(s) |-> s[i]] \in Seq(S)
    BY DEF IsArray, Spans
  <2>2. [i \in 1..Len(t) |-> t[i]] \in Seq(S)
    BY DEF IsArray, Spans
  <2> QED BY <2>1, <2>2 DEF IsArray
<1> HIDE DEF S
<1>2. s \o t \in Seq(S) /\ Len(s \o t) = Len(s) + Len(t)
      /\ \A i \in 1..Len(s) + Len(t) : (s \o t)[i] = IF i <= Len(s) THEN s[i] ELSE t[i - Len(s)]
  BY <1>1, ConcatProperties
<1>3. IsArray(s \o t)
  <2> DEFINE u == s \o t
  <2>1. u \in Seq(S)
    BY <1>2
  <2> HIDE DEF u
  <2>2. DOMAIN u = 1..Len(u) /\ Len(u) \in Nat /\ u = [i \in 1..Len(u) |-> u[i]]
    BY <2>1
  <2>3. IsArray(u)
    BY <2>2 DEF IsArray, Spans
  <2> QED BY <2>3 DEF u
<1>4. Len(s) \in Nat /\ Len(t) \in Nat
  BY <1>1
<1>5. \A k \in 1..Len(s) : (s \o t)[k] = s[k]
  BY <1>2, <1>4
<1>6. ASSUME NEW i \in 1..Len(t) PROVE (s \o t)[Len(s) + i] = t[i]
  <2>1. Len(s) + i \in 1..Len(s) + Len(t) /\ ~(Len(s) + i <= Len(s)) /\ (Len(s) + i) - Len(s) = i
    BY <1>4
  <2> QED BY <1>2, <2>1
<1> QED BY <1>2, <1>3, <1>5, <1>6

\* What was known of a history is known of one that goes on.
LEMMA KnowsPrefix ==
    ASSUME NEW m, NEW h, NEW longer, NEW n \in Nat, \A k \in 1..n : longer[k] = h[k], Knows(m, h, n)
    PROVE  Knows(m, longer, n)
<1> SUFFICES ASSUME NEW key
             PROVE  Tells(Edge!StateOf(m, key), longer, Edge!Past(longer, n, key))
  BY DEF Knows
<1>1. Edge!Past(longer, n, key) = Edge!Past(h, n, key)
  BY Zenon DEF Edge!Past
<1>2. \A k \in Edge!Past(h, n, key) : longer[k] = h[k]
  BY DEF Edge!Past
<1>3. Edge!Still(longer, Edge!Past(h, n, key)) = Edge!Still(h, Edge!Past(h, n, key))
  BY <1>2, Zenon DEF Edge!Still
<1>4. Tells(Edge!StateOf(m, key), h, Edge!Past(h, n, key))
  BY DEF Knows
<1> QED BY <1>1, <1>2, <1>3, <1>4 DEF Tells

\* A batch is flagged and learnt with everything before it known.
LEMMA BatchRemembered ==
    ASSUME SomeReads, SignalsInv, NEW readings, Batch(readings), NEW h, Edge!Buffer(readings, h)
    PROVE  Remembers'
<1> DEFINE canonical == [i \in DOMAIN readings |-> Edge!ToCanonical(readings[i])]
           n == Len(history)
           l == Len(canonical)
<1>1. Len(readings) \in Nat /\ DOMAIN readings = 1..Len(readings) /\ \A i \in DOMAIN readings : IsReading(readings[i])
  BY DEF Batch, Spans
<1>2. IsArray(canonical) /\ l = Len(readings) /\ l \in Nat
  <2>1. canonical = [i \in 1..Len(readings) |-> canonical[i]]
    BY <1>1, Zenon
  <2> HIDE DEF canonical
  <2> QED BY <1>1, <2>1, ArrayIs DEF IsArray, Spans
<1>3. \A i \in 1..l : Numeric(canonical[i])
  BY <1>1, <1>2, CanonicalIs
<1>4. /\ IsArray(history) /\ n \in Nat /\ \A k \in 1..n : Numeric(history[k])
      /\ Knows(monitor, history, n)
  BY DEF SignalsInv, Remembers, IsArray, Spans
<1>5. /\ monitor' = Edge!Learned(monitor, canonical)[l] /\ flagged' = Edge!Flags(monitor, canonical)
      /\ history' = history \o canonical
  BY DEF Edge!Buffer
<1> HIDE DEF canonical
<1>6. /\ IsArray(history') /\ Len(history') = n + l /\ \A k \in 1..n : history'[k] = history[k]
      /\ \A i \in 1..l : history'[n + i] = canonical[i]
  <2>1. /\ IsArray(history \o canonical) /\ Len(history \o canonical) = Len(history) + Len(canonical)
        /\ \A k \in 1..Len(history) : (history \o canonical)[k] = history[k]
        /\ \A i \in 1..Len(canonical) : (history \o canonical)[Len(history) + i] = canonical[i]
    BY <1>2, <1>4, ArraysJoin
  <2> QED BY <1>5, <2>1
<1>7. ASSUME NEW k \in 1..n + l PROVE Numeric(history'[k])
  <2>1. CASE k \in 1..n
    BY <1>4, <1>6, <2>1
  <2>2. CASE k \notin 1..n
    <3>1. k - n \in 1..l /\ n + (k - n) = k
      BY <1>2, <1>4, <2>2
    <3> QED BY <1>3, <1>6, <3>1
  <2> QED BY <2>1, <2>2
<1> HIDE DEF n
<1>8. Knows(monitor, history', n)
  BY <1>4, <1>6, KnowsPrefix
<1>9. Knows(monitor', history', n + l)
  <2>1. \A i \in 0..Len(canonical) : Knows(Edge!Learned(monitor, canonical)[i], history', n + i)
    BY <1>2, <1>4, <1>6, <1>7, <1>8, BatchLearnt
  <2> QED BY <1>2, <1>5, <2>1
<1>10. ASSUME NEW i \in 1..l
       PROVE  flagged'[i].of = history'[n + i] /\ Edge!FlagTrue(history', n + i, flagged'[i].flag)
  <2>1. flagged'[i] = [of |-> canonical[i],
            flag |-> Edge!Flag(canonical[i], Edge!StateOf(Edge!Learned(monitor, canonical)[i - 1], Edge!Key(canonical[i])))]
    BY <1>2, <1>5 DEF Edge!Flags, IsArray, Spans
  <2>2. Edge!FlagTrue(history', n + i,
            Edge!Flag(canonical[i], Edge!StateOf(Edge!Learned(monitor, canonical)[i - 1], Edge!Key(canonical[i]))))
    BY <1>2, <1>4, <1>6, <1>7, <1>8, BatchFlagged DEF SomeReads
  <2> QED BY <1>6, <2>1, <2>2
<1>11. DOMAIN flagged' = 1..l /\ Len(flagged') = l
  <2>1. DOMAIN canonical = 1..l
    BY <1>2 DEF IsArray, Spans
  <2>2. flagged' = [i \in 1..l |-> flagged'[i]]
    BY <1>5, <2>1, Zenon DEF Edge!Flags
  <2> QED BY <1>2, <2>2, ArrayIs DEF Spans
<1>12. Edge!FlagsTellHistory'
  <2> HIDE DEF l
  <2> SUFFICES ASSUME NEW i \in 1..l
               PROVE  /\ flagged'[i].of = history'[Len(history') - Len(flagged') + i]
                      /\ Edge!FlagTrue(history', Len(history') - Len(flagged') + i, flagged'[i].flag)
    BY <1>11 DEF Edge!FlagsTellHistory
  <2>1. Len(history') - Len(flagged') + i = n + i
    BY <1>2, <1>4, <1>6, <1>11
  <2> QED BY <1>10, <2>1
<1> QED BY <1>6, <1>7, <1>9, <1>12 DEF Remembers

LEMMA RemembersStays == UNCHANGED <<monitor, flagged, history>> /\ Remembers => Remembers'
BY DEF Remembers, Edge!FlagsTellHistory

Stays == resolution.fallback => resolution'.fallback
LEMMA InitSignals == SomeReads /\ Edge!SignalsInit => SignalsInv
<1> SUFFICES ASSUME SomeReads, Edge!SignalsInit PROVE SignalsInv
  OBVIOUS
<1>1. monitor = <<>> /\ flagged = <<>> /\ history = <<>>
  BY DEF Edge!SignalsInit
<1>2. IsArray(<<>>) /\ Len(<<>>) = 0
  BY DEF IsArray, Spans
<1>3. ASSUME NEW key PROVE Tells(Edge!StateOf(<<>>, key), <<>>, Edge!Past(<<>>, 0, key))
  <2>1. Edge!Past(<<>>, 0, key) = {} /\ Edge!Still(<<>>, {}) = {}
    BY DEF Edge!Past, Edge!Still
  <2>2. Edge!StateOf(<<>>, key) = Edge!NoState
    BY DEF Edge!StateOf
  <2>3. Edge!NoState.repeats = Cardinality({}) /\ Edge!NoState.last = Edge!NonFinite
    BY FS_EmptySet DEF Edge!NoState
  <2> QED BY <2>1, <2>2, <2>3, Zenon DEF Tells
<1>4. Remembers
  BY <1>1, <1>2, <1>3 DEF Remembers, Knows, Edge!FlagsTellHistory
<1> QED BY <1>4 DEF SomeReads, Edge!SignalsInit, SignalsInv, Edge!HealthHonest

LEMMA StepSignals == SomeReads /\ SignalsInv /\ [Edge!SignalsNext]_edgevars => SignalsInv' /\ Stays
<1> SUFFICES ASSUME SomeReads, SignalsInv, [Edge!SignalsNext]_edgevars PROVE SignalsInv' /\ Stays
  OBVIOUS
<1>1. ASSUME NEW available \in BOOLEAN, NEW readings, NEW h,
             resolution' = Edge!Ensured(available) \/ resolution' = Edge!Resolved(available),
             resolution' = Edge!Resolved(available)
                 => ~resolution.fallback \/ Edge!Ensured(available) = Edge!Resolved(available),
             readings \in Edge!Batches(resolution'), Edge!Buffer(readings, h), UNCHANGED <<config, pushed>>
      PROVE  SignalsInv' /\ Stays
  <2>1. Known(resolution') /\ Stays
    BY <1>1, EnsuredIs, ResolvedIs DEF Stays
  <2>2. resolution'.active \in Sources
        /\ (resolution'.active = "synthetic" \/ resolution'.active = config.requested)
    BY <2>1 DEF Known
  <2>3. Batch(readings)
    BY <1>1, <2>2, BatchIs DEF SignalsInv
  <2>4. depth' \in 0..BufferCap /\ \A i \in DOMAIN flagged' : flagged'[i].flag \in QualityFlags
    BY <1>1, <2>3, BufferIs
  <2>5. Edge!HealthHonest'
    BY <1>1 DEF SignalsInv, Edge!HealthHonest
  <2>6. Known(resolution)'
    BY <1>1, <2>1 DEF Known
  <2>7. Remembers' /\ (config \in Configs)'
    BY <1>1, <2>3, BatchRemembered DEF SignalsInv
  <2> QED BY <2>1, <2>4, <2>5, <2>6, <2>7 DEF SignalsInv
<1>2. CASE Edge!Collect
  <2>1. PICK available \in BOOLEAN : resolution' = Edge!Ensured(available)
        /\ \E readings \in Edge!Batches(resolution') : Edge!Buffer(readings, health)
    BY <1>2 DEF Edge!Collect
  <2>2. PICK readings \in Edge!Batches(resolution') : Edge!Buffer(readings, health)
    BY <2>1
  <2>3. UNCHANGED <<config, pushed>>
    BY <1>2 DEF Edge!Collect
  <2>4. resolution' = Edge!Resolved(available)
        => ~resolution.fallback \/ Edge!Ensured(available) = Edge!Resolved(available)
    BY <2>1
  <2> QED BY <1>1, <2>1, <2>2, <2>3, <2>4
<1>3. CASE Edge!CollectAgain
  <2>1. PICK available \in BOOLEAN, again \in BOOLEAN :
            /\ Edge!Ensured(available).active # "synthetic" /\ resolution' = Edge!Resolved(again)
            /\ \E readings \in Edge!Batches(resolution') : Edge!Buffer(readings, Edge!ReadFailed(health))
    BY <1>3 DEF Edge!CollectAgain
  <2>2. PICK readings \in Edge!Batches(resolution') : Edge!Buffer(readings, Edge!ReadFailed(health))
    BY <2>1
  <2>3. UNCHANGED <<config, pushed>>
    BY <1>3 DEF Edge!CollectAgain
  <2>4. ~resolution.fallback
    <3>1. ASSUME resolution.fallback PROVE FALSE
      <4>1. Edge!Ensured(available) = resolution /\ Known(resolution)
        BY <3>1, EnsuredIs
      <4> QED BY <2>1, <3>1, <4>1 DEF Known
    <3> QED BY <3>1
  <2> QED BY <1>1, <2>1, <2>2, <2>3, <2>4
<1>4. CASE Edge!CollectNothing
  <2>1. PICK available \in BOOLEAN : Edge!Ensured(available).active # "synthetic"
    BY <1>4 DEF Edge!CollectNothing
  <2>2. resolution' = Edge!Resolved(TRUE) /\ UNCHANGED <<config, monitor, flagged, depth, pushed, history>>
    BY <1>4 DEF Edge!CollectNothing
  <2>3. Known(resolution') /\ Known(resolution)'
    BY <2>2, ResolvedIs DEF Known
  <2>4. Stays
    <3>1. ASSUME resolution.fallback PROVE FALSE
      <4>1. Edge!Ensured(available) = resolution /\ Known(resolution)
        BY <3>1, EnsuredIs
      <4> QED BY <2>1, <3>1, <4>1 DEF Known
    <3> QED BY <3>1 DEF Stays
  <2>5. Remembers'
    BY <2>2, RemembersStays DEF SignalsInv
  <2> QED BY <2>2, <2>3, <2>4, <2>5 DEF SignalsInv, Edge!HealthHonest
<1>5. CASE \E ok \in BOOLEAN : Edge!Push(ok)
  <2>1. PICK ok \in BOOLEAN : Edge!Push(ok)
    BY <1>5
  <2>2. /\ resolution # Edge!Unresolved /\ pushed' = Edge!Snapshot
        /\ UNCHANGED <<config, resolution, monitor, flagged, history>>
        /\ depth' \in 0..BufferCap
    BY <2>1 DEF Edge!Push, SignalsInv, SomeReads
  <2>3. Known(resolution)
    BY <2>2 DEF SignalsInv
  <2>4. Edge!HealthHonest'
    BY <2>2, <2>3 DEF Edge!HealthHonest, Edge!Snapshot, Edge!Status, Known
  <2>5. Known(resolution)' /\ Stays
    BY <2>2, <2>3 DEF Known, Stays
  <2>6. Remembers'
    BY <2>2, RemembersStays DEF SignalsInv
  <2> QED BY <2>2, <2>4, <2>5, <2>6 DEF SignalsInv
<1>6. CASE UNCHANGED edgevars
  <2>1. Remembers'
    BY <1>6, RemembersStays DEF edgevars, SignalsInv
  <2> QED BY <1>6, <2>1 DEF edgevars, SignalsInv, Edge!HealthHonest, Stays, Known, Edge!Unresolved
<1> QED BY <1>2, <1>3, <1>4, <1>5, <1>6 DEF Edge!SignalsNext

LEMMA SignalsHolds == SignalsInv => Edge!SignalsTypeOK /\ Edge!HealthHonest /\ Edge!FlagsTellHistory
<1>1. SignalsInv => /\ resolution.active \in Edge!SourceKinds \cup {"none"} /\ resolution.fallback \in BOOLEAN
                    /\ Edge!HealthHonest
  <2>1. CASE resolution = Edge!Unresolved
    BY <2>1 DEF SignalsInv, Edge!Unresolved
  <2>2. CASE Known(resolution)
    BY <2>2 DEF SignalsInv, Known, Sources, Edge!SourceKinds
  <2> QED BY <2>1, <2>2 DEF SignalsInv
<1>2. SignalsInv => /\ depth \in 0..BufferCap
                    /\ \A i \in DOMAIN flagged : flagged[i].flag \in {"non_finite", "out_of_range", "stale", "frozen", "deadband", "good"}
  BY DEF SignalsInv, QualityFlags
<1>3. SignalsInv => Edge!FlagsTellHistory
  BY DEF SignalsInv, Remembers
<1> QED BY <1>1, <1>2, <1>3 DEF Edge!SignalsTypeOK

---------------------------------------------------------------------------
(***************************************************************************)
(* RoReference: the recoveries of the iteration.                           *)
(***************************************************************************)
SomeCases ==
    /\ Rounds \in Nat \ {0}
    /\ \A c \in Cases : /\ c.feed \in Nat \ {0} /\ c.area \in Nat /\ c.pressure \in Nat /\ c.tds \in Nat
                        /\ c.kelvin \in Nat /\ c.drop \in Nat

\* The recoveries the loop takes on.
Shares == 0..MaxRecovery
LoopPhases == {"iterating", "returned"}

LEMMA CapIs == MaxRecovery \in Nat /\ MaxRecovery < Unit /\ Unit \in Nat /\ 4000 \in Shares
BY DEF MaxRecovery, Unit, Shares

LEMMA PermeateIs ==
    ASSUME SomeCases, NEW c \in Cases, NEW r \in Shares
    PROVE  Permeate(c, r) \in Nat
<1> DEFINE w == WallOsmotic(c)
           m == (w * (2 * Unit - r)) \div (2 * (Unit - r))
           p == c.pressure - (c.drop \div 2) - m
           k == (30 * c.area) \div c.feed
<1>0. r \in Nat /\ r < Unit /\ Unit \in Nat
  BY CapIs DEF Shares
<1>1. w \in Int
  <2> DEFINE t == c.tds \div 100
             o == t * c.kelvin * 2845
  <2>1. t \in Nat /\ c.kelvin \in Nat
    BY DEF SomeCases
  <2>2. o \in Nat
    BY <2>1
  <2>3. w = ((o \div Unit) * Beta) \div 100
    BY DEF WallOsmotic, Osmotic
  <2> HIDE DEF o, w
  <2>4. o \div Unit \in Nat /\ Beta \in Nat
    BY <2>2 DEF Unit, Beta
  <2> QED BY <2>3, <2>4
<1> HIDE DEF w
<1>2. m \in Int
  <2>1. w * (2 * Unit - r) \in Int /\ 2 * (Unit - r) \in Nat \ {0}
    BY <1>0, <1>1
  <2> QED BY <2>1
<1> HIDE DEF m
<1>3. p \in Int
  BY <1>2 DEF SomeCases
<1>4. DrivingPressure(c, r) = AtLeast(p, 0)
  BY DEF DrivingPressure, w, m, p
<1> HIDE DEF p
<1>5. DrivingPressure(c, r) \in Nat
  BY <1>3, <1>4 DEF AtLeast
<1>6. k \in Nat
  <2>1. 30 * c.area \in Nat /\ c.feed \in Nat \ {0}
    BY DEF SomeCases
  <2> QED BY <2>1
<1>7. Permeate(c, r) = (DrivingPressure(c, r) * k) \div 1000
  BY DEF Permeate
<1> HIDE DEF k
<1>8. ASSUME NEW a \in Nat, NEW b \in Nat PROVE (a * b) \div 1000 \in Nat
  <2>1. a * b \in Nat
    OBVIOUS
  <2> QED BY <2>1
<1> QED BY <1>5, <1>6, <1>7, <1>8

LEMMA RecoveryCapped ==
    ASSUME NEW c, NEW r, Permeate(c, r) \in Nat
    PROVE  NewRecovery(c, r) \in Shares
<1> DEFINE p == Permeate(c, r)
<1>1. p \in Nat
  OBVIOUS
<1>2. NewRecovery(c, r) = IF MaxRecovery < p THEN MaxRecovery ELSE p
  BY DEF NewRecovery, AtMost
<1> HIDE DEF p
<1> QED BY <1>1, <1>2, CapIs DEF Shares

LEMMA Halved == ASSUME NEW r \in Shares, NEW n \in Shares PROVE (r + n) \div 2 \in Shares
BY CapIs DEF Shares

LEMMA NewRecoveryIs ==
    ASSUME SomeCases, NEW c \in Cases, NEW r \in Shares
    PROVE  NewRecovery(c, r) \in Shares /\ Damped(c, r) \in Shares
<1>1. Permeate(c, r) \in Nat
  BY PermeateIs, Zenon
<1>4. NewRecovery(c, r) \in Shares
  BY <1>1, RecoveryCapped, Zenon
<1>5. Damped(c, r) = (r + NewRecovery(c, r)) \div 2
  BY Zenon DEF Damped
<1>6. (r + NewRecovery(c, r)) \div 2 \in Shares
  BY <1>4, Halved, Zenon
<1> QED BY <1>4, <1>5, <1>6, Zenon

LEMMA InitRo == SomeCases /\ RoInit => RoTypeOK
BY CapIs DEF SomeCases, RoInit, RoTypeOK, Shares

LEMMA StepRo == SomeCases /\ RoTypeOK /\ [RoNext]_rovars => RoTypeOK'
<1> SUFFICES ASSUME SomeCases, RoTypeOK, [RoNext]_rovars PROVE RoTypeOK'
  OBVIOUS
<1>1. CASE Iterate
  <2>1. case \in Cases /\ recovery \in Shares /\ round \in 1..Rounds /\ Rounds \in Nat
    BY <1>1 DEF Iterate, RoTypeOK, Shares, SomeCases
  <2>2. Damped(case, recovery) \in Shares
    BY <2>1, NewRecoveryIs, Zenon
  <2>3. recovery' \in Shares /\ round' \in 1..Rounds + 1 /\ case' \in Cases /\ phase' \in LoopPhases
    BY <1>1, <2>1, <2>2 DEF Iterate, RoTypeOK, LoopPhases
  <2> QED BY <2>3, Zenon DEF RoTypeOK, Shares, LoopPhases
<1>2. CASE Stop
  <2>1. case \in Cases /\ recovery \in Shares
    BY <1>2 DEF Stop, RoTypeOK, Shares
  <2>2. NewRecovery(case, recovery) \in Shares
    BY <2>1, NewRecoveryIs, Zenon
  <2>3. recovery' \in Shares /\ round' \in 1..Rounds + 1 /\ case' \in Cases /\ phase' \in LoopPhases
    BY <1>2, <2>2 DEF Stop, RoTypeOK, LoopPhases
  <2> QED BY <2>3, Zenon DEF RoTypeOK, Shares, LoopPhases
<1>3. CASE RunOut
  BY <1>3 DEF RunOut, RoTypeOK
<1>4. CASE UNCHANGED rovars
  BY <1>4 DEF rovars, RoTypeOK
<1> QED BY <1>1, <1>2, <1>3, <1>4 DEF RoNext

\* The loop with so many rounds left, started at a share, is a function.
LEMMA LoopIs ==
    ASSUME SomeCases, NEW c \in Cases
    PROVE  LET from == LoopFrom(c)
           IN /\ \A r \in Shares : from[0][r] = r
              /\ \A left \in 1..Rounds, r \in Shares :
                     from[left][r] = IF Met(c, r) THEN NewRecovery(c, r) ELSE from[left - 1][Damped(c, r)]
<1> DEFINE V == [Shares -> Shares]
           base == [r \in Shares |-> r]
           round1(g) == [r \in Shares |-> IF Met(c, r) THEN NewRecovery(c, r) ELSE g[Damped(c, r)]]
           step == [k \in Nat |-> [g \in V |-> round1(g)]]
           from == LoopFrom(c)
           Loop(f) == f = [left \in 0..Rounds |->
                               [r \in 0..MaxRecovery |-> IF left = 0 THEN r
                                                         ELSE IF Met(c, r) THEN NewRecovery(c, r)
                                                         ELSE f[left - 1][Damped(c, r)]]]
<1>1. ASSUME NEW g \in V PROVE round1(g) \in V
  <2>1. \A r \in Shares : NewRecovery(c, r) \in Shares /\ g[Damped(c, r)] \in Shares
    BY NewRecoveryIs
  <2> QED BY <2>1
<1>2. base \in V /\ step \in [Nat -> [V -> V]]
  <2> HIDE DEF V, round1
  <2>1. step \in [Nat -> [V -> V]]
    BY <1>1
  <2> QED BY <2>1 DEF V
<1>3. PICK f \in [0..Rounds -> V] : Recursion(f, base, step, Rounds)
  <2>1. Rounds \in Nat
    BY DEF SomeCases
  <2> HIDE DEF V, base, step
  <2> QED BY <1>2, <2>1, RecursionExists
<1>4. ASSUME NEW left \in 0..Rounds, left # 0 PROVE step[left][f[left - 1]] = round1(f[left - 1])
  <2>1. left \in Nat /\ left - 1 \in 0..Rounds
    BY <1>4 DEF SomeCases
  <2>2. f[left - 1] \in V
    BY <1>3, <2>1
  <2> HIDE DEF V, round1
  <2> QED BY <2>1, <2>2
<1>5. Loop(f)
  <2> DEFINE h == [left \in 0..Rounds |->
                       [r \in 0..MaxRecovery |-> IF left = 0 THEN r
                                                 ELSE IF Met(c, r) THEN NewRecovery(c, r)
                                                 ELSE f[left - 1][Damped(c, r)]]]
  <2>1. ASSUME NEW left \in 0..Rounds PROVE f[left] = h[left]
    <3>1. f[left] = IF left = 0 THEN base ELSE step[left][f[left - 1]]
      <4> HIDE DEF base, step
      <4> QED BY <1>3 DEF Recursion
    <3>2. CASE left = 0
      BY <3>1, <3>2 DEF Shares
    <3>3. CASE left # 0
      <4>1. f[left] = round1(f[left - 1])
        BY <1>4, <3>1, <3>3
      <4> QED BY <3>3, <4>1 DEF Shares
    <3> QED BY <3>2, <3>3
  <2> HIDE DEF h
  <2>2. h = [left \in 0..Rounds |-> h[left]]
    BY DEF h
  <2>3. f = h
    BY <1>3, <2>1, <2>2
  <2> QED BY <2>3 DEF h
<1>6. Loop(from)
  <2>1. from = CHOOSE f2 : Loop(f2)
    BY DEF LoopFrom
  <2> HIDE DEF Loop, from
  <2> QED BY <1>5, <2>1
<1>7. \A left \in 0..Rounds, r \in Shares :
          from[left][r] = IF left = 0 THEN r ELSE IF Met(c, r) THEN NewRecovery(c, r) ELSE from[left - 1][Damped(c, r)]
  <2> HIDE DEF from
  <2> SUFFICES ASSUME NEW left \in 0..Rounds, NEW r \in Shares
               PROVE  from[left][r] = IF left = 0 THEN r ELSE IF Met(c, r) THEN NewRecovery(c, r) ELSE from[left - 1][Damped(c, r)]
    OBVIOUS
  <2>1. from[left] = [s \in 0..MaxRecovery |-> IF left = 0 THEN s
                                               ELSE IF Met(c, s) THEN NewRecovery(c, s)
                                               ELSE from[left - 1][Damped(c, s)]]
    BY <1>6
  <2>2. r \in 0..MaxRecovery
    BY DEF Shares
  <2> QED BY <2>1, <2>2
<1> HIDE DEF from
<1>8. 0 \in 0..Rounds /\ 1..Rounds \subseteq 0..Rounds /\ \A left \in 1..Rounds : left # 0
  BY DEF SomeCases
<1> QED BY <1>7, <1>8 DEF from

\* What the loop has left to do is what it had to do at its start.
LoopOnCourse ==
    /\ RoTypeOK
    /\ phase = "iterating" => LoopFrom(case)[Rounds + 1 - round][recovery] = Solved(case)
    /\ ReturnsSolved
LEMMA InitCourse == SomeCases /\ RoInit => LoopOnCourse
<1> SUFFICES ASSUME SomeCases, RoInit PROVE LoopOnCourse
  OBVIOUS
<1>1. RoTypeOK
  BY InitRo
<1>2. Rounds + 1 - round = Rounds /\ recovery = 4000 /\ phase = "iterating"
  BY DEF SomeCases, RoInit
<1> QED BY <1>1, <1>2 DEF LoopOnCourse, ReturnsSolved, Solved

LEMMA StepCourse == SomeCases /\ LoopOnCourse /\ [RoNext]_rovars => LoopOnCourse'
<1> SUFFICES ASSUME SomeCases, LoopOnCourse, [RoNext]_rovars PROVE LoopOnCourse'
  OBVIOUS
<1>1. RoTypeOK /\ RoTypeOK'
  BY StepRo DEF LoopOnCourse
<1>2. case \in Cases /\ recovery \in Shares /\ round \in 1..Rounds + 1 /\ Rounds \in Nat
  BY <1>1 DEF RoTypeOK, Shares, SomeCases
<1>3. CASE Iterate
  <2> DEFINE left == Rounds + 1 - round
  <2>1. left \in 1..Rounds /\ Rounds + 1 - round' = left - 1
    BY <1>2, <1>3 DEF Iterate
  <2>2. LoopFrom(case)[left][recovery] = LoopFrom(case)[left - 1][Damped(case, recovery)]
    <3> HIDE DEF left
    <3> QED BY <1>2, <1>3, <2>1, LoopIs DEF Iterate
  <2>3. LoopFrom(case)[left][recovery] = Solved(case)
    BY <1>3 DEF Iterate, LoopOnCourse
  <2>4. case' = case /\ phase' = "iterating" /\ recovery' = Damped(case, recovery)
    BY <1>3 DEF Iterate
  <2>5. LoopFrom(case')[Rounds + 1 - round'][recovery'] = Solved(case')
    BY <2>1, <2>2, <2>3, <2>4
  <2>6. LoopFrom(case)' = LoopFrom(case') /\ Solved(case)' = Solved(case')
    BY DEF LoopFrom, Solved
  <2> QED BY <1>1, <2>4, <2>5, <2>6 DEF LoopOnCourse, ReturnsSolved
<1>4. CASE Stop
  <2> DEFINE left == Rounds + 1 - round
  <2>1. left \in 1..Rounds
    BY <1>2, <1>4 DEF Stop
  <2>2. LoopFrom(case)[left][recovery] = NewRecovery(case, recovery)
    <3> HIDE DEF left
    <3> QED BY <1>2, <1>4, <2>1, LoopIs DEF Stop
  <2>3. LoopFrom(case)[left][recovery] = Solved(case)
    BY <1>4 DEF Stop, LoopOnCourse
  <2>4. case' = case /\ phase' = "returned" /\ recovery' = NewRecovery(case, recovery)
    BY <1>4 DEF Stop
  <2>5. recovery' = Solved(case')
    BY <2>2, <2>3, <2>4
  <2> QED BY <1>1, <2>4, <2>5 DEF LoopOnCourse, ReturnsSolved
<1>5. CASE RunOut
  <2>1. Rounds + 1 - round = 0
    BY <1>2, <1>5 DEF RunOut
  <2>2. LoopFrom(case)[0][recovery] = recovery
    BY <1>2, LoopIs
  <2>3. LoopFrom(case)[Rounds + 1 - round][recovery] = Solved(case)
    BY <1>5 DEF RunOut, LoopOnCourse
  <2>4. case' = case /\ phase' = "returned" /\ recovery' = recovery
    BY <1>5 DEF RunOut
  <2>5. recovery' = Solved(case')
    BY <2>1, <2>2, <2>3, <2>4
  <2> QED BY <1>1, <2>4, <2>5 DEF LoopOnCourse, ReturnsSolved
<1>6. CASE UNCHANGED rovars
  <2>1. case' = case /\ phase' = phase /\ recovery' = recovery /\ round' = round
    BY <1>6 DEF rovars
  <2> QED BY <1>1, <2>1 DEF LoopOnCourse, ReturnsSolved
<1> QED BY <1>3, <1>4, <1>5, <1>6 DEF RoNext

---------------------------------------------------------------------------
(***************************************************************************)
(* Api: requests, their stores and the audit trail.                        *)
(***************************************************************************)
SomeRequests ==
    /\ \A e \in Settings :
           /\ e.bounds.events \in Nat /\ e.bounds.runs \in Nat /\ e.bounds.use \in Nat
           /\ e.bounds.months \in Nat \ {0}
    /\ <<Web!None, Web!None>> \in ScopeArgs

\* Its elements do not matter.
IsList(s) == \E T : s \in Seq(T)
Clearing == {"orders", "training", "store"}
Tenants == {c.tenant : c \in Web!Scopes}
Facilities == {c.facility : c \in Web!Scopes}
Statuses == {"pending", "approved", "rejected"}
MeterTypes ==
    /\ usage \in [period : Nat, facilities : SUBSET Facilities, assets : SUBSET {"asset"},
                  ingest : Nat, calls : Nat]
    /\ env.bounds.use \in Nat /\ month \in Nat /\ usage.period \in 1..month
    /\ usage.calls <= env.bounds.use /\ usage.ingest <= env.bounds.use
StoreTypes ==
    /\ env \in Settings /\ DOMAIN cards \subseteq Web!CardIds /\ orphans \subseteq Web!CardIds
    /\ cards \in [DOMAIN cards -> [tenant : Tenants, facility : Facilities, status : Statuses]]
    /\ \A id \in DOMAIN cards : Web!Row(cards[id]) \in Web!Scopes
    /\ DOMAIN orders \subseteq {"order"} /\ latest \subseteq {"gateway"}
    /\ env.bounds.runs \in Nat /\ runs \in Seq(Web!Scopes) /\ Len(runs) <= env.bounds.runs
    /\ feedback \in Seq({"confirm"})
    /\ env.bounds.months \in Nat /\ month \in 1..env.bounds.months
    /\ resetting \in {"runs", "latest", "cards", "orders", "training", "store", "meter", "audit", Web!None}
TrailTypes ==
    /\ IsList(audit) /\ \A i \in 1..Len(audit) : Web!Row(audit[i]) \in Web!Scopes
    /\ logged \in 0..env.bounds.events /\ Len(audit) <= logged /\ env.bounds.events \in Nat
Concerns(e) == e.kind \in {"created", "decision"}
TrailInv ==
    /\ \A i \in 1..Len(audit) :
           Concerns(audit[i]) => resetting \in Clearing \/ audit[i].subject \in DOMAIN cards
    /\ resetting \in Clearing => DOMAIN cards \subseteq orphans
ApiInv == StoreTypes /\ MeterTypes /\ TrailTypes /\ TrailInv /\ Web!TrailExplainsCards

---------------------------------------------------------------------------
(* Lists.                                                                  *)

LEMMA ListIs ==
    ASSUME NEW s, IsList(s)
    PROVE  Len(s) \in Nat /\ DOMAIN s = 1..Len(s)
BY DEF IsList

LEMMA JoinIs ==
    ASSUME NEW s, NEW t, IsList(s), IsList(t)
    PROVE  /\ IsList(s \o t) /\ Len(s \o t) = Len(s) + Len(t)
           /\ Len(s) \in Nat /\ Len(t) \in Nat
           /\ \A i \in 1..Len(s) : (s \o t)[i] = s[i]
           /\ \A i \in 1..Len(t) : (s \o t)[Len(s) + i] = t[i]
           /\ Web!IsPrefix(s, s \o t)
<1>1. PICK S : s \in Seq(S)
  BY DEF IsList
<1>2. PICK T : t \in Seq(T)
  BY DEF IsList
<1>3. s \in Seq(S \cup T) /\ t \in Seq(S \cup T)
  BY <1>1, <1>2
<1>4. /\ s \o t \in Seq(S \cup T) /\ Len(s \o t) = Len(s) + Len(t)
      /\ Len(s) \in Nat /\ Len(t) \in Nat
      /\ \A i \in 1..Len(s) : (s \o t)[i] = s[i]
      /\ \A i \in 1..Len(t) : (s \o t)[Len(s) + i] = t[i]
  BY <1>3
<1>5. SubSeq(s, 1, Len(s)) = SubSeq(s \o t, 1, Len(s))
  BY <1>3, <1>4
<1> QED BY <1>4, <1>5 DEF IsList, Web!IsPrefix

LEMMA JoinAssociative ==
    ASSUME NEW s, NEW t, NEW u, IsList(s), IsList(t), IsList(u)
    PROVE  (s \o t) \o u = s \o (t \o u)
<1>1. PICK S : s \in Seq(S)
  BY DEF IsList
<1>2. PICK T : t \in Seq(T)
  BY DEF IsList
<1>3. PICK U : u \in Seq(U)
  BY DEF IsList
<1>4. s \in Seq(S \cup T \cup U) /\ t \in Seq(S \cup T \cup U) /\ u \in Seq(S \cup T \cup U)
  BY <1>1, <1>2, <1>3
<1> QED BY <1>4, ConcatAssociative

LEMMA ListOf ==
    /\ IsList(<<>>) /\ Len(<<>>) = 0
    /\ \A e : IsList(<<e>>) /\ Len(<<e>>) = 1 /\ <<e>>[1] = e
<1>1. ASSUME NEW e PROVE IsList(<<e>>)
  <2>1. <<e>> \in Seq({e})
    OBVIOUS
  <2> QED BY <2>1 DEF IsList
<1>2. <<>> \in Seq({})
  OBVIOUS
<1> QED BY <1>1, <1>2 DEF IsList

LEMMA AppendIs ==
    ASSUME NEW s, IsList(s), NEW e
    PROVE  Append(s, e) = s \o <<e>>
<1>1. PICK S : s \in Seq(S)
  BY DEF IsList
<1> QED BY <1>1

LEMMA SetToSeqIs ==
    ASSUME NEW S, IsFiniteSet(S)
    PROVE  /\ IsList(Web!SetToSeq(S))
           /\ \A i \in DOMAIN Web!SetToSeq(S) : Web!SetToSeq(S)[i] \in S
           /\ \A i, j \in DOMAIN Web!SetToSeq(S) : Web!SetToSeq(S)[i] = Web!SetToSeq(S)[j] => i = j
           /\ \A x \in S : \E i \in DOMAIN Web!SetToSeq(S) : Web!SetToSeq(S)[i] = x
<1> DEFINE n == Cardinality(S)
<1>1. n \in Nat /\ ExistsBijection(1..n, S)
  BY FS_CardinalityType
<1>2. \E f \in [1..n -> S] : Web!IsInjective(f)
  BY <1>1 DEF ExistsBijection, Bijection, Injection, Surjection, IsInjective, Web!IsInjective
<1>3. Web!SetToSeq(S) \in [1..n -> S] /\ Web!IsInjective(Web!SetToSeq(S))
  BY <1>2, ApiCounting DEF Web!SetToSeq
<1>4. Web!SetToSeq(S) \in Injection(1..n, S)
  BY <1>3 DEF Injection, IsInjective, Web!IsInjective
<1>5. IsFiniteSet(1..n) /\ Cardinality(1..n) = n
  BY <1>1, FS_Interval
<1>6. Web!SetToSeq(S) \in Surjection(1..n, S)
  BY <1>4, <1>5, FS_Injection
<1>7. Web!SetToSeq(S) \in Seq(S)
  BY <1>1, <1>3
<1> QED BY <1>3, <1>6, <1>7 DEF Surjection, Web!IsInjective, IsList

---------------------------------------------------------------------------
(* What a request does to the cards and to the trail.                      *)

Adds(news) == IsList(news) /\ audit' = audit \o news /\ logged' = logged + Len(news) /\ logged' <= env.bounds.events
Quiet(news) == \A i \in 1..Len(news) : ~Concerns(news[i]) /\ Web!Row(news[i]) \in Web!Scopes
MadeBy(who, news) == \A i \in 1..Len(news) : news[i].actor = who

LEMMA LogIs ==
    ASSUME TrailTypes, NEW kind, NEW actor, NEW subject, NEW status, NEW scope \in Web!Scopes,
           Web!Log(kind, actor, subject, status, scope)
    PROVE  /\ Adds(<<Web!Event(kind, actor, subject, status, scope)>>)
           /\ MadeBy(actor, <<Web!Event(kind, actor, subject, status, scope)>>)
           /\ kind \notin {"created", "decision"} => Quiet(<<Web!Event(kind, actor, subject, status, scope)>>)
<1> DEFINE e == Web!Event(kind, actor, subject, status, scope)
<1>1. e.kind = kind /\ e.actor = actor /\ Web!Row(e) = scope
  BY DEF Web!Event, Web!Row, Web!Scopes, Web!ScopeOf
<1>2. IsList(<<e>>) /\ Len(<<e>>) = 1 /\ <<e>>[1] = e
  BY ListOf
<1>3. audit' = audit \o <<e>> /\ logged' = logged + 1 /\ logged' <= env.bounds.events
  BY AppendIs DEF Web!Log, TrailTypes
<1> HIDE DEF e
<1> QED BY <1>1, <1>2, <1>3 DEF Adds, MadeBy, Quiet, Concerns, e

LEMMA EventsAre ==
    ASSUME NEW kind, kind \notin {"created", "decision"}, NEW actor, NEW subject, NEW status,
        NEW scope \in Web!Scopes
    PROVE  /\ IsList(<<Web!Event(kind, actor, subject, status, scope)>>)
           /\ Quiet(<<Web!Event(kind, actor, subject, status, scope)>>)
           /\ MadeBy(actor, <<Web!Event(kind, actor, subject, status, scope)>>)
           /\ IsList(<<>>) /\ Quiet(<<>>) /\ MadeBy(actor, <<>>)
<1> DEFINE e == Web!Event(kind, actor, subject, status, scope)
<1>1. e.kind = kind /\ e.actor = actor /\ Web!Row(e) = scope
  BY DEF Web!Event, Web!Row, Web!Scopes, Web!ScopeOf
<1>2. IsList(<<e>>) /\ Len(<<e>>) = 1 /\ <<e>>[1] = e
  BY ListOf
<1>3. IsList(<<>>) /\ Len(<<>>) = 0
  BY ListOf
<1> HIDE DEF e
<1>4. IsList(<<e>>) /\ Quiet(<<e>>) /\ MadeBy(actor, <<e>>)
  BY <1>1, <1>2 DEF Quiet, Concerns, MadeBy
<1>5. Quiet(<<>>) /\ MadeBy(actor, <<>>)
  BY <1>3 DEF Quiet, MadeBy
<1> QED BY <1>3, <1>4, <1>5 DEF e

\* New cards, each with one creation in the trail, and then the request's own
\* events.
Creations(news, n, ids, scope) ==
    /\ \A i \in 1..n : /\ news[i].kind = "created" /\ news[i].subject \in Web!Fresh(ids)
                       /\ Web!Row(news[i]) = scope
    /\ \A i, j \in 1..n : news[i].subject = news[j].subject => i = j
    /\ \A id \in Web!Fresh(ids) : \E i \in 1..n : news[i].subject = id
LEMMA PutCardsIs ==
    ASSUME StoreTypes, TrailTypes, NEW ids, IsFiniteSet(ids), NEW actor, NEW scope \in Web!Scopes, NEW events,
        IsList(events),
           Web!PutCards(ids, actor, scope, events), Quiet(events)
    PROVE  \E n \in Nat : \E news :
               /\ Adds(news) /\ (MadeBy(actor, events) => MadeBy(actor, news))
               /\ n <= Len(news) /\ Creations(news, n, ids, scope)
               /\ \A i \in (n + 1)..Len(news) : ~Concerns(news[i]) /\ Web!Row(news[i]) \in Web!Scopes
<1> DEFINE new == Web!SetToSeq(Web!Fresh(ids))
           made == [i \in DOMAIN new |-> Web!Event("created", actor, new[i], Web!None, scope)]
           news == made \o events
           n == Len(made)
<1>0. IsFiniteSet(Web!Fresh(ids))
  BY FS_Subset DEF Web!Fresh
<1>1. /\ IsList(new) /\ \A i \in DOMAIN new : new[i] \in Web!Fresh(ids)
      /\ \A i, j \in DOMAIN new : new[i] = new[j] => i = j
      /\ \A id \in Web!Fresh(ids) : \E i \in DOMAIN new : new[i] = id
  BY <1>0, SetToSeqIs
<1>2. Len(new) \in Nat /\ DOMAIN new = 1..Len(new)
  BY <1>1, ListIs
<1> HIDE DEF new
<1>3. /\ IsList(made) /\ Len(made) = Len(new)
      /\ \A i \in 1..Len(new) : made[i] = Web!Event("created", actor, new[i], Web!None, scope)
  <2>1. made \in Seq({made[i] : i \in 1..Len(new)}) /\ Len(made) = Len(new)
    BY <1>2
  <2> QED BY <1>2, <2>1 DEF IsList
<1> HIDE DEF made
<1>4. /\ IsList(news) /\ Len(news) = n + Len(events) /\ n \in Nat /\ Len(events) \in Nat
      /\ \A i \in 1..n : news[i] = made[i]
      /\ \A i \in 1..Len(events) : news[n + i] = events[i]
  BY <1>3, JoinIs
<1> HIDE DEF news
<1>5. \A i \in 1..n : /\ news[i].kind = "created" /\ news[i].actor = actor /\ news[i].subject = new[i]
                      /\ Web!Row(news[i]) = scope
  <2>1. TAKE i \in 1..n
  <2>2. news[i] = Web!Event("created", actor, new[i], Web!None, scope)
    BY <1>3, <1>4
  <2> QED BY <2>2 DEF Web!Event, Web!Row, Web!Scopes, Web!ScopeOf
<1>6. Creations(news, n, ids, scope)
  BY <1>1, <1>2, <1>3, <1>5 DEF Creations
<1>7. \A i \in (n + 1)..Len(news) : \E k \in 1..Len(events) : news[i] = events[k]
  <2>1. TAKE i \in (n + 1)..Len(news)
  <2>2. i - n \in 1..Len(events) /\ i = n + (i - n)
    BY <1>4
  <2> QED BY <1>4, <2>2
<1>8. ASSUME MadeBy(actor, events) PROVE MadeBy(actor, news)
  <2>1. ASSUME NEW i \in 1..Len(news) PROVE news[i].actor = actor
    <3>1. CASE i \in 1..n
      BY <3>1, <1>5
    <3>2. CASE i \in (n + 1)..Len(news)
      BY <3>2, <1>7, <1>8 DEF MadeBy
    <3> QED BY <3>1, <3>2, <1>4
  <2> QED BY <2>1 DEF MadeBy
<1>9. \A i \in (n + 1)..Len(news) : ~Concerns(news[i]) /\ Web!Row(news[i]) \in Web!Scopes
  BY <1>7 DEF Quiet
<1>10. Adds(news)
  <2>1. /\ logged' = logged + Len(made) + Len(events) /\ logged' <= env.bounds.events
        /\ audit' = audit \o made \o events
    BY DEF Web!PutCards, made, new
  <2>2. (audit \o made) \o events = audit \o (made \o events)
    BY <1>3, JoinAssociative DEF TrailTypes
  <2>3. logged \in Nat
    BY DEF TrailTypes
  <2> QED BY <1>4, <2>1, <2>2, <2>3 DEF Adds, news
<1>11. n <= Len(news)
  BY <1>4
<1> HIDE DEF n
<1>12. n \in Nat
  BY <1>4
<1> QED BY <1>6, <1>8, <1>9, <1>10, <1>11, <1>12

LEMMA GrownIs ==
    ASSUME TrailTypes, NEW news, Adds(news)
    PROVE  /\ IsList(audit') /\ Len(audit') = Len(audit) + Len(news)
           /\ Len(audit) \in Nat /\ Len(news) \in Nat
           /\ DOMAIN audit = 1..Len(audit) /\ DOMAIN audit' = 1..Len(audit')
           /\ \A i \in 1..Len(audit) : audit'[i] = audit[i]
           /\ \A k \in 1..Len(news) : audit'[Len(audit) + k] = news[k]
           /\ \A i \in 1..Len(audit') :
                 i \notin 1..Len(audit) => i - Len(audit) \in 1..Len(news) /\ audit'[i] = news[i - Len(audit)]
           /\ Web!IsPrefix(audit, audit')
<1>1. IsList(audit) /\ IsList(news) /\ audit' = audit \o news
  BY DEF TrailTypes, Adds
<1>2. /\ IsList(audit') /\ Len(audit') = Len(audit) + Len(news)
      /\ Len(audit) \in Nat /\ Len(news) \in Nat
      /\ \A i \in 1..Len(audit) : audit'[i] = audit[i]
      /\ \A k \in 1..Len(news) : audit'[Len(audit) + k] = news[k]
      /\ Web!IsPrefix(audit, audit')
  BY <1>1, JoinIs
<1>3. DOMAIN audit = 1..Len(audit) /\ DOMAIN audit' = 1..Len(audit')
  BY <1>1, <1>2, ListIs
<1>4. ASSUME NEW i \in 1..Len(audit'), i \notin 1..Len(audit)
      PROVE  i - Len(audit) \in 1..Len(news) /\ audit'[i] = news[i - Len(audit)]
  <2>1. i - Len(audit) \in 1..Len(news) /\ i = Len(audit) + (i - Len(audit))
    BY <1>2, <1>4
  <2> QED BY <1>2, <2>1
<1> QED BY <1>2, <1>3, <1>4

\* Events that are no creation and no decision leave what is explained.
LEMMA QuietKeeps ==
    ASSUME TrailTypes, TrailInv, Web!TrailExplainsCards, NEW news, Adds(news), Quiet(news),
           UNCHANGED <<env, cards, orphans>>, resetting \in Clearing <=> resetting' \in Clearing
    PROVE  TrailTypes' /\ TrailInv' /\ Web!TrailExplainsCards'
<1>1. /\ IsList(audit') /\ Len(audit') = Len(audit) + Len(news)
      /\ Len(audit) \in Nat /\ Len(news) \in Nat
      /\ DOMAIN audit = 1..Len(audit) /\ DOMAIN audit' = 1..Len(audit')
      /\ \A i \in 1..Len(audit) : audit'[i] = audit[i]
      /\ \A i \in 1..Len(audit') :
             i \notin 1..Len(audit) => i - Len(audit) \in 1..Len(news) /\ audit'[i] = news[i - Len(audit)]
  BY GrownIs
<1>2. \A i \in 1..Len(audit') : i \notin 1..Len(audit) => ~Concerns(audit'[i]) /\ Web!Row(audit'[i]) \in Web!Scopes
  BY <1>1 DEF Quiet
<1>3. TrailTypes'
  <2>1. \A i \in 1..Len(audit') : Web!Row(audit'[i]) \in Web!Scopes
    BY <1>1, <1>2 DEF TrailTypes
  <2> QED BY <1>1, <2>1 DEF TrailTypes, Adds
<1>4. TrailInv'
  BY <1>1, <1>2 DEF TrailInv, Clearing
<1>5. ASSUME NEW id \in DOMAIN cards \ orphans PROVE Web!Explained(id)'
  <2>1. \A i \in 1..Len(audit') : i \notin 1..Len(audit) => ~Web!Decides(audit'[i], id)
        /\ ~Web!Creates(audit'[i], id)
    BY <1>2 DEF Concerns, Web!Decides, Web!Creates
  <2>2. \A i \in 1..Len(audit) : i \in 1..Len(audit') /\ audit'[i] = audit[i]
    BY <1>1
  <2>3. Web!Explained(id)
    BY DEF Web!TrailExplainsCards
  <2>4. PICK i \in 1..Len(audit) :
            /\ Web!Creates(audit[i], id) /\ Web!Row(audit[i]) = Web!Row(cards[id])
            /\ \A j \in 1..Len(audit) : /\ Web!Decides(audit[j], id) => i < j
                                        /\ Web!Creates(audit[j], id) => i = j
    BY <1>1, <2>3 DEF Web!Explained
  <2>5. /\ Web!Creates(audit'[i], id) /\ Web!Row(audit'[i]) = Web!Row(cards'[id]) /\ i \in DOMAIN audit'
        /\ \A j \in DOMAIN audit' : /\ Web!Decides(audit'[j], id) => i < j
                                    /\ Web!Creates(audit'[j], id) => i = j
    BY <1>1, <2>1, <2>2, <2>4 DEF Web!Creates, Web!Decides, Web!Row
  <2>6. ASSUME NEW k \in DOMAIN audit', Web!Decides(audit'[k], id),
               \A j \in DOMAIN audit' : Web!Decides(audit'[j], id) => j <= k
        PROVE  cards'[id].status = audit'[k].status
    BY <1>1, <2>1, <2>2, <2>3, <2>6 DEF Web!Explained, Web!Decides
  <2>7. ASSUME \A k \in DOMAIN audit' : ~Web!Decides(audit'[k], id)
        PROVE  cards'[id].status = "pending"
    BY <1>1, <2>2, <2>3, <2>7 DEF Web!Explained, Web!Decides
  <2> QED BY <2>5, <2>6, <2>7 DEF Web!Explained
<1> QED BY <1>3, <1>4, <1>5 DEF Web!TrailExplainsCards

LEMMA CreationsKeep ==
    ASSUME TrailTypes, TrailInv, Web!TrailExplainsCards, NEW ids, NEW scope \in Web!Scopes, NEW n \in Nat,
        NEW news, Adds(news),
           n <= Len(news), Creations(news, n, ids, scope),
           \A i \in (n + 1)..Len(news) : ~Concerns(news[i]) /\ Web!Row(news[i]) \in Web!Scopes,
           cards' = Web!WithCards(ids, scope),
           orphans' = IF resetting \in Clearing THEN orphans \cup Web!Fresh(ids) ELSE orphans,
           UNCHANGED <<env, resetting>>
    PROVE  TrailTypes' /\ TrailInv' /\ Web!TrailExplainsCards'
<1>1. /\ IsList(audit') /\ Len(audit') = Len(audit) + Len(news)
      /\ Len(audit) \in Nat /\ Len(news) \in Nat
      /\ DOMAIN audit = 1..Len(audit) /\ DOMAIN audit' = 1..Len(audit')
      /\ \A i \in 1..Len(audit) : audit'[i] = audit[i]
      /\ \A k \in 1..Len(news) : audit'[Len(audit) + k] = news[k]
      /\ \A i \in 1..Len(audit') :
             i \notin 1..Len(audit) => i - Len(audit) \in 1..Len(news) /\ audit'[i] = news[i - Len(audit)]
  BY GrownIs
<1>2. /\ DOMAIN cards' = DOMAIN cards \cup Web!Fresh(ids) /\ \A id \in DOMAIN cards : cards'[id] = cards[id]
      /\ \A id \in Web!Fresh(ids) : cards'[id] = Web!Card(scope) /\ id \notin DOMAIN cards
  BY DEF Web!WithCards, Web!Fresh
<1>3. ASSUME NEW i \in 1..Len(audit'), i \notin 1..Len(audit)
      PROVE  /\ Web!Row(audit'[i]) \in Web!Scopes
             /\ Concerns(audit'[i]) => /\ audit'[i].subject \in Web!Fresh(ids) /\ audit'[i].kind = "created"
                                       /\ Web!Row(audit'[i]) = scope /\ i - Len(audit) \in 1..n
  <2>1. i - Len(audit) \in 1..Len(news) /\ audit'[i] = news[i - Len(audit)]
    BY <1>1, <1>3
  <2>2. CASE i - Len(audit) \in 1..n
    BY <2>1, <2>2 DEF Creations
  <2>3. CASE i - Len(audit) \in (n + 1)..Len(news)
    BY <2>1, <2>3
  <2> QED BY <1>1, <2>1, <2>2, <2>3
<1>4. TrailTypes'
  <2>1. \A i \in 1..Len(audit') : Web!Row(audit'[i]) \in Web!Scopes
    BY <1>1, <1>3 DEF TrailTypes
  <2> QED BY <1>1, <2>1 DEF TrailTypes, Adds
<1>5. TrailInv'
  BY <1>1, <1>2, <1>3 DEF TrailInv, Clearing
<1>6. ASSUME NEW id \in DOMAIN cards' \ orphans' PROVE Web!Explained(id)'
  <2>1. CASE id \in DOMAIN cards
    <3>1. id \notin Web!Fresh(ids) /\ id \notin orphans /\ cards'[id] = cards[id]
      BY <1>2, <2>1, <1>6 DEF Web!Fresh
    <3>2. \A i \in 1..Len(audit') : i \notin 1..Len(audit) => ~Web!Decides(audit'[i], id)
          /\ ~Web!Creates(audit'[i], id)
      BY <1>3, <3>1 DEF Concerns, Web!Decides, Web!Creates
    <3>3. \A i \in 1..Len(audit) : i \in 1..Len(audit') /\ audit'[i] = audit[i]
      BY <1>1
    <3>4. Web!Explained(id)
      BY <2>1, <3>1 DEF Web!TrailExplainsCards
    <3>5. PICK i \in 1..Len(audit) :
              /\ Web!Creates(audit[i], id) /\ Web!Row(audit[i]) = Web!Row(cards[id])
              /\ \A j \in 1..Len(audit) : /\ Web!Decides(audit[j], id) => i < j
                                          /\ Web!Creates(audit[j], id) => i = j
      BY <1>1, <3>4 DEF Web!Explained
    <3>6. /\ Web!Creates(audit'[i], id) /\ Web!Row(audit'[i]) = Web!Row(cards'[id]) /\ i \in DOMAIN audit'
          /\ \A j \in DOMAIN audit' : /\ Web!Decides(audit'[j], id) => i < j
                                      /\ Web!Creates(audit'[j], id) => i = j
      BY <1>1, <3>1, <3>2, <3>3, <3>5 DEF Web!Creates, Web!Decides, Web!Row
    <3>7. ASSUME NEW k \in DOMAIN audit', Web!Decides(audit'[k], id),
                 \A j \in DOMAIN audit' : Web!Decides(audit'[j], id) => j <= k
          PROVE  cards'[id].status = audit'[k].status
      BY <1>1, <3>1, <3>2, <3>3, <3>4, <3>7 DEF Web!Explained, Web!Decides
    <3>8. ASSUME \A k \in DOMAIN audit' : ~Web!Decides(audit'[k], id)
          PROVE  cards'[id].status = "pending"
      BY <1>1, <3>1, <3>3, <3>4, <3>8 DEF Web!Explained, Web!Decides
    <3> QED BY <3>6, <3>7, <3>8 DEF Web!Explained
  <2>2. CASE id \notin DOMAIN cards
    <3>1. id \in Web!Fresh(ids) /\ cards'[id] = Web!Card(scope) /\ resetting \notin Clearing
      BY <1>2, <1>6, <2>2
    <3>2. \A i \in 1..Len(audit) : ~Web!Decides(audit[i], id) /\ ~Web!Creates(audit[i], id)
      BY <2>2, <3>1 DEF TrailInv, Concerns, Web!Decides, Web!Creates
    <3>3. \A i \in 1..Len(audit') : ~Web!Decides(audit'[i], id)
      BY <1>1, <1>3, <3>2 DEF Concerns, Web!Decides
    <3>4. PICK k \in 1..n : news[k].subject = id
      BY <3>1 DEF Creations
    <3>5. k \in 1..Len(news) /\ Len(audit) + k \in 1..Len(audit') /\ audit'[Len(audit) + k] = news[k]
      BY <1>1, <3>4
    <3>6. Web!Creates(audit'[Len(audit) + k], id) /\ Web!Row(audit'[Len(audit) + k]) = Web!Row(cards'[id])
      BY <3>1, <3>4, <3>5 DEF Creations, Web!Creates, Web!Row, Web!Card, Web!Scopes, Web!ScopeOf
    <3>7. ASSUME NEW j \in 1..Len(audit'), Web!Creates(audit'[j], id) PROVE j = Len(audit) + k
      <4>1. j \notin 1..Len(audit)
        BY <1>1, <3>2, <3>7
      <4>2. j - Len(audit) \in 1..n /\ audit'[j] = news[j - Len(audit)]
        BY <1>1, <1>3, <3>7, <4>1 DEF Web!Creates, Concerns
      <4>3. j - Len(audit) = k
        BY <3>4, <3>7, <4>2 DEF Creations, Web!Creates
      <4> QED BY <1>1, <4>2, <4>3
    <3>8. cards'[id].status = "pending"
      BY <3>1 DEF Web!Card
    <3> QED BY <1>1, <3>3, <3>5, <3>6, <3>7, <3>8 DEF Web!Explained
  <2> QED BY <2>1, <2>2
<1> QED BY <1>4, <1>5, <1>6 DEF Web!TrailExplainsCards

LEMMA DecisionKeeps ==
    ASSUME StoreTypes, TrailTypes, TrailInv, Web!TrailExplainsCards, NEW id \in DOMAIN cards, NEW actor,
           NEW status \in Web!Decisions,
           cards' = [cards EXCEPT ![id].status = status],
           Adds(<<Web!Event("decision", actor, id, status, cards[id])>>),
           UNCHANGED <<env, orphans, resetting>>
    PROVE  TrailTypes' /\ TrailInv' /\ Web!TrailExplainsCards'
<1> DEFINE e == Web!Event("decision", actor, id, status, cards[id])
           news == <<e>>
<1>0. /\ e.kind = "decision" /\ e.subject = id /\ e.status = status /\ Web!Row(e) \in Web!Scopes
      /\ Len(news) = 1 /\ news[1] = e
  <2>1. Web!Row(e) = Web!Row(cards[id]) /\ e.kind = "decision" /\ e.subject = id /\ e.status = status
    BY DEF Web!Event, Web!Row
  <2>2. Web!Row(cards[id]) \in Web!Scopes
    BY DEF StoreTypes
  <2> QED BY <2>1, <2>2, ListOf
<1> HIDE DEF e
<1>a. Adds(news)
  BY DEF e
<1> HIDE DEF news
<1>1. /\ IsList(audit') /\ Len(audit') = Len(audit) + 1
      /\ Len(audit) \in Nat
      /\ DOMAIN audit = 1..Len(audit) /\ DOMAIN audit' = 1..Len(audit')
      /\ \A i \in 1..Len(audit) : audit'[i] = audit[i]
      /\ audit'[Len(audit) + 1] = e
      /\ \A i \in 1..Len(audit') : i \notin 1..Len(audit) => i = Len(audit) + 1
  <2>1. 1 \in 1..Len(news)
    BY <1>0
  <2>2. /\ IsList(audit') /\ Len(audit') = Len(audit) + Len(news)
        /\ Len(audit) \in Nat
        /\ DOMAIN audit = 1..Len(audit) /\ DOMAIN audit' = 1..Len(audit')
        /\ \A i \in 1..Len(audit) : audit'[i] = audit[i]
        /\ \A k \in 1..Len(news) : audit'[Len(audit) + k] = news[k]
    BY GrownIs, <1>a
  <2> QED BY <1>0, <2>1, <2>2
<1>2. /\ DOMAIN cards' = DOMAIN cards /\ \A d \in DOMAIN cards : Web!Row(cards'[d]) = Web!Row(cards[d])
      /\ cards'[id].status = status /\ \A d \in DOMAIN cards : d # id => cards'[d] = cards[d]
  BY DEF Web!Row, StoreTypes
<1>3. TrailTypes'
  <2>1. \A i \in 1..Len(audit') : Web!Row(audit'[i]) \in Web!Scopes
    BY <1>0, <1>1 DEF TrailTypes
  <2> QED BY <1>0, <1>1, <1>a, <2>1 DEF TrailTypes, Adds
<1>4. TrailInv'
  BY <1>0, <1>1, <1>2 DEF TrailInv, Clearing
<1>5. ASSUME NEW d \in DOMAIN cards \ orphans PROVE Web!Explained(d)'
  <2>1. Web!Explained(d)
    BY DEF Web!TrailExplainsCards
  <2>2. \A i \in 1..Len(audit) : i \in 1..Len(audit') /\ audit'[i] = audit[i]
    BY <1>1
  <2>3. ~Web!Creates(audit'[Len(audit) + 1], d) /\ (Web!Decides(audit'[Len(audit) + 1], d) <=> d = id)
    BY <1>0, <1>1 DEF Web!Creates, Web!Decides
  <2>4. PICK i \in 1..Len(audit) :
            /\ Web!Creates(audit[i], d) /\ Web!Row(audit[i]) = Web!Row(cards[d])
            /\ \A j \in 1..Len(audit) : /\ Web!Decides(audit[j], d) => i < j
                                        /\ Web!Creates(audit[j], d) => i = j
    BY <1>1, <2>1 DEF Web!Explained
  <2>5. /\ Web!Creates(audit'[i], d) /\ Web!Row(audit'[i]) = Web!Row(cards'[d]) /\ i \in DOMAIN audit'
    BY <1>1, <1>2, <2>4
  <2>6. ASSUME NEW j \in DOMAIN audit'
        PROVE  /\ Web!Decides(audit'[j], d) => i < j
               /\ Web!Creates(audit'[j], d) => i = j
    <3>1. CASE j \in 1..Len(audit)
      BY <1>1, <2>4, <3>1
    <3>2. CASE j = Len(audit) + 1
      BY <1>1, <2>3, <3>2
    <3> QED BY <1>1, <3>1, <3>2
  <2>7. ASSUME NEW k \in DOMAIN audit', Web!Decides(audit'[k], d),
               \A j \in DOMAIN audit' : Web!Decides(audit'[j], d) => j <= k
        PROVE  cards'[d].status = audit'[k].status
    <3>1. CASE d = id
      <4>1. k = Len(audit) + 1
        BY <1>1, <2>3, <2>7, <3>1
      <4> QED BY <1>0, <1>1, <1>2, <3>1, <4>1
    <3>2. CASE d # id
      <4>1. k \in 1..Len(audit)
        BY <1>1, <2>3, <2>7, <3>2
      <4>2. audit'[k] = audit[k] /\ \A j \in 1..Len(audit) : Web!Decides(audit[j], d) => j <= k
        BY <1>1, <2>2, <2>7, <4>1 DEF Web!Decides
      <4>3. Web!Decides(audit[k], d)
        BY <2>7, <4>2 DEF Web!Decides
      <4> QED BY <1>1, <1>2, <2>1, <3>2, <4>1, <4>2, <4>3 DEF Web!Explained
    <3> QED BY <3>1, <3>2
  <2>8. ASSUME \A k \in DOMAIN audit' : ~Web!Decides(audit'[k], d)
        PROVE  cards'[d].status = "pending"
    <3>1. d # id /\ \A k \in 1..Len(audit) : ~Web!Decides(audit[k], d)
      BY <1>1, <2>2, <2>3, <2>8 DEF Web!Decides
    <3> QED BY <1>1, <1>2, <2>1, <3>1 DEF Web!Explained
  <2> QED BY <2>5, <2>6, <2>7, <2>8 DEF Web!Explained
<1> QED BY <1>2, <1>3, <1>4, <1>5 DEF Web!TrailExplainsCards

LEMMA StillKeeps ==
    ASSUME TrailTypes, TrailInv, Web!TrailExplainsCards, UNCHANGED <<env, cards, orphans, audit, logged>>,
           resetting \in Clearing <=> resetting' \in Clearing
    PROVE  TrailTypes' /\ TrailInv' /\ Web!TrailExplainsCards'
<1>1. TrailTypes'
  BY DEF TrailTypes
<1>2. TrailInv'
  BY DEF TrailInv
<1>3. Web!TrailExplainsCards'
  <2>1. \A id \in DOMAIN cards \ orphans : Web!Explained(id)
    BY DEF Web!TrailExplainsCards
  <2>2. \A id : Web!Explained(id) => Web!Explained(id)'
    BY DEF Web!Explained
  <2> QED BY <2>1, <2>2 DEF Web!TrailExplainsCards
<1> QED BY <1>1, <1>2, <1>3

---------------------------------------------------------------------------
(* Who is let in.                                                          *)

IsOutcome(w) == \E c, u : w = [code |-> c, user |-> u]
LEMMA OutcomesAre ==
    /\ \A p : IsOutcome(Web!Admit(p))
    /\ \A c : IsOutcome(Web!Refuse(c)) /\ Web!Refuse(c).code = c
<1>1. ASSUME NEW p PROVE IsOutcome(Web!Admit(p))
  BY Zenon DEF IsOutcome, Web!Admit
<1>2. ASSUME NEW c PROVE IsOutcome(Web!Refuse(c))
  BY Zenon DEF IsOutcome, Web!Refuse
<1>3. ASSUME NEW c PROVE Web!Refuse(c).code = c
  BY DEF Web!Refuse
<1> QED BY <1>1, <1>2, <1>3

LEMMA GateIs ==
    ASSUME NEW tok, NEW r, NEW scope, Web!Gate(tok, r, scope).code = 200
    PROVE  /\ Web!CurrentUser(env, tok).code = 200 /\ Web!Gate(tok, r, scope).user = Web!CurrentUser(env, tok).user
           /\ r.roles # {} => Web!HasAny(Web!Gate(tok, r, scope).user, r.roles \cup {"admin"})
           /\ r.scoped => Web!CanAccess(Web!Gate(tok, r, scope).user, scope.tenant, scope.facility)
<1> DEFINE who == IF r.roles = {} THEN Web!CurrentUser(env, tok) ELSE Web!RequireRole(env, tok, r.roles)
<1>1. IsOutcome(Web!CurrentUser(env, tok))
  <2>1. \A t : IsOutcome(Web!Admit(Web!PrincipalOf(t.claims)))
    BY OutcomesAre
  <2> QED BY <2>1, OutcomesAre DEF Web!CurrentUser
<1>2. PICK c, u : Web!CurrentUser(env, tok) = [code |-> c, user |-> u]
  BY <1>1 DEF IsOutcome
<1>3. IsOutcome(who)
  <2>1. IsOutcome(Web!RequireRole(env, tok, r.roles))
    BY <1>1, OutcomesAre DEF Web!RequireRole
  <2> QED BY <1>1, <2>1
<1>4. PICK d, v : who = [code |-> d, user |-> v]
  BY <1>3, Zenon DEF IsOutcome
<1>5. Web!Gate(tok, r, scope) = who /\ who.code = 200
      /\ (r.scoped => Web!CanAccess(who.user, scope.tenant, scope.facility))
  <2> HIDE DEF who
  <2>1. Web!Gate(tok, r, scope) =
            IF who.code # 200 THEN who
            ELSE IF r.feature # Web!None /\ Web!RequireFeature(env, r.feature) # 200
                 THEN [who EXCEPT !.code = 402]
            ELSE IF r.scoped /\ ~Web!CanAccess(who.user, scope.tenant, scope.facility)
                 THEN [who EXCEPT !.code = 403]
            ELSE who
    BY DEF Web!Gate, who
  <2> QED BY <1>4, <2>1
<1>6. who.code = 200 => /\ who = Web!CurrentUser(env, tok)
                        /\ r.roles # {} => Web!HasAny(who.user, r.roles \cup {"admin"})
  BY <1>2 DEF Web!RequireRole, Web!Refuse
<1> HIDE DEF who
<1> QED BY <1>5, <1>6

LEMMA ActorIs ==
    ASSUME NEW p, NEW fallback
    PROVE  /\ env.authDisabled \/ Web!Actor(env, p, fallback) = p.name
           /\ Web!Actor(env, p, Web!None) = p.name
BY DEF Web!Actor

LEMMA ScopesAre ==
    /\ \A a \in ScopeArgs : Web!ScopeOf(a[1], a[2]) \in Web!Scopes
    /\ \A s \in Web!Scopes : /\ s.tenant # Web!None /\ s.facility # Web!None /\ s.tenant \in Tenants
                                /\ s.facility \in Facilities
                             /\ s = [tenant |-> s.tenant, facility |-> s.facility]
    /\ SomeRequests => Web!DefaultScope \in Web!Scopes
BY DEF Web!Scopes, Web!ScopeOf, Tenants, Facilities, Web!DefaultScope, SomeRequests, Web!None,
    Web!DefaultTenant, Web!DefaultFacility

---------------------------------------------------------------------------
(* The meter.                                                              *)

MeterSet == [period : Nat, facilities : SUBSET Facilities, assets : SUBSET {"asset"}, ingest : Nat, calls : Nat]
LEMMA RollIs ==
    ASSUME MeterTypes
    PROVE  /\ Web!RollPeriodIfNeeded(usage, month) \in MeterSet /\ Web!RollPeriodIfNeeded(usage, month).period = month
           /\ \/ Web!RollPeriodIfNeeded(usage, month) = usage
              \/ /\ month > usage.period /\ Web!RollPeriodIfNeeded(usage, month).calls = 0
                 /\ Web!RollPeriodIfNeeded(usage, month).ingest = 0
BY DEF MeterTypes, Web!RollPeriodIfNeeded, Web!EmptyMeter, MeterSet

Metered == usage'.period > usage.period \/ (usage'.calls >= usage.calls /\ usage'.ingest >= usage.ingest)
LEMMA MeterIs ==
    ASSUME MeterTypes, NEW n \in Nat, Web!CanMeter(n), UNCHANGED <<env, month>>, NEW f \in Facilities,
           \/ usage' = Web!RecordAsset(usage, month, "asset")
           \/ n > 0 /\ usage' = Web!RecordApiCall(Web!RecordFacility(usage, month, f), month)
           \/ usage' = Web!RecordIngest(usage, month, n)
    PROVE  MeterTypes' /\ Metered
<1>1. PICK r \in MeterSet : /\ r = Web!RollPeriodIfNeeded(usage, month) /\ r.period = month
                            /\ r = usage \/ (month > usage.period /\ r.calls = 0 /\ r.ingest = 0)
  BY RollIs
<1>2. usage \in MeterSet
  BY DEF MeterTypes, MeterSet
<1>3. /\ usage.calls + n <= env.bounds.use /\ usage.ingest + n <= env.bounds.use
      /\ n <= env.bounds.use
  <2>1. Cardinality(usage.assets) \in Nat
    <3>1. IsFiniteSet({"asset"})
      BY FS_Singleton
    <3>2. usage.assets \in SUBSET {"asset"}
      BY <1>2 DEF MeterSet
    <3> QED BY <3>1, <3>2, FS_Subset, FS_CardinalityType
  <2>2. usage.calls \in Nat /\ usage.ingest \in Nat /\ env.bounds.use \in Nat
    BY <1>2 DEF MeterSet, MeterTypes
  <2>3. Web!Cardinality(usage.assets) = Cardinality(usage.assets)
    BY ApiCounting
  <2> QED BY <2>1, <2>2, <2>3 DEF Web!CanMeter
<1>4. CASE usage' = Web!RecordAsset(usage, month, "asset")
  <2>1. usage' = [r EXCEPT !.assets = @ \cup {"asset"}]
    BY <1>1, <1>4 DEF Web!RecordAsset
  <2>2. usage' \in MeterSet /\ usage'.period = r.period /\ usage'.calls = r.calls /\ usage'.ingest = r.ingest
    BY <2>1 DEF MeterSet
  <2> QED BY <1>1, <1>2, <2>2 DEF MeterTypes, MeterSet, Metered
<1>5. CASE n > 0 /\ usage' = Web!RecordApiCall(Web!RecordFacility(usage, month, f), month)
  <2>1. PICK q \in MeterSet : q = Web!RecordFacility(usage, month, f) /\ q.period = r.period
        /\ q.calls = r.calls /\ q.ingest = r.ingest
    BY <1>1 DEF Web!RecordFacility, MeterSet
  <2>2. usage' = [q EXCEPT !.calls = @ + 1]
    BY <1>1, <1>5, <2>1 DEF Web!RecordApiCall, Web!RollPeriodIfNeeded
  <2>3. usage' \in MeterSet /\ usage'.period = r.period /\ usage'.calls = r.calls + 1 /\ usage'.ingest = r.ingest
    BY <2>1, <2>2 DEF MeterSet
  <2> QED BY <1>1, <1>2, <1>3, <1>5, <2>3 DEF MeterTypes, MeterSet, Metered
<1>6. CASE usage' = Web!RecordIngest(usage, month, n)
  <2>1. CASE n = 0
    BY <1>2, <1>6, <2>1 DEF Web!RecordIngest, MeterTypes, MeterSet, Metered
  <2>2. CASE n > 0
    <3>1. usage' = [r EXCEPT !.ingest = @ + n]
      BY <1>1, <1>6, <2>2 DEF Web!RecordIngest
    <3>2. usage' \in MeterSet /\ usage'.period = r.period /\ usage'.calls = r.calls /\ usage'.ingest = r.ingest + n
      BY <3>1 DEF MeterSet
    <3> QED BY <1>1, <1>2, <1>3, <3>2 DEF MeterTypes, MeterSet, Metered
  <2> QED BY <2>1, <2>2
<1> QED BY <1>4, <1>5, <1>6

---------------------------------------------------------------------------
(* The steps.                                                              *)

Authorised ==
    /\ Web!CardsKept /\ Web!CardsPutInScope /\ Web!EventsNameCaller
    /\ Web!Forgets => \/ /\ caller'.route = "reset"
                         /\ Web!HasAny(caller'.user, {"engineer", "admin"})
                      \/ usage'.period > usage.period
\* The three parts of the invariant that are about cards and trail.
TrailKept == TrailTypes' /\ TrailInv' /\ Web!TrailExplainsCards'

LEMMA SelfPrefix == ASSUME NEW s, IsList(s) PROVE Web!IsPrefix(s, s)
BY DEF IsList, Web!IsPrefix

LEMMA Listed ==
    ASSUME StoreTypes, TrailTypes
    PROVE  /\ IsList(runs) /\ IsList(feedback) /\ IsList(audit)
           /\ Web!IsPrefix(runs, runs) /\ Web!IsPrefix(feedback, feedback) /\ Web!IsPrefix(audit, audit)
BY SelfPrefix DEF StoreTypes, TrailTypes, IsList

LEMMA Unforgotten ==
    ASSUME MeterTypes, MeterTypes', Metered, DOMAIN cards \subseteq DOMAIN cards', latest \subseteq latest',
           Web!IsPrefix(runs, runs'), Web!IsPrefix(audit, audit'), Web!IsPrefix(feedback, feedback')
    PROVE  Web!Forgets => usage'.period > usage.period
BY DEF MeterTypes, Metered, Web!Forgets

LEMMA SameMeter ==
    ASSUME MeterTypes, UNCHANGED <<env, month, usage>>
    PROVE  MeterTypes' /\ Metered
BY DEF MeterTypes, Metered

LEMMA SameCards ==
    ASSUME StoreTypes, UNCHANGED cards
    PROVE  Web!CardsKept /\ Web!CardsPutInScope /\ DOMAIN cards \subseteq DOMAIN cards'
BY DEF Web!CardsKept, Web!CardsPutInScope, Web!DecidedByOperator

LEMMA SameTrail ==
    ASSUME TrailTypes, UNCHANGED audit
    PROVE  Web!EventsNameCaller /\ Web!IsPrefix(audit, audit')
<1>1. Web!IsPrefix(audit, audit) /\ Len(audit) \in Nat
  BY SelfPrefix, ListIs DEF TrailTypes
<1> QED BY <1>1 DEF Web!EventsNameCaller

LEMMA NamedIs ==
    ASSUME TrailTypes, NEW news, Adds(news), NEW who, MadeBy(who, news),
           env.authDisabled \/ who = caller'.user.name
    PROVE  Web!EventsNameCaller
<1>1. /\ Len(audit) \in Nat
      /\ \A i \in 1..Len(audit') :
             i \notin 1..Len(audit) => i - Len(audit) \in 1..Len(news) /\ audit'[i] = news[i - Len(audit)]
      /\ Len(audit') = Len(audit) + Len(news) /\ Len(news) \in Nat
  BY GrownIs
<1>2. ASSUME NEW i \in (Len(audit) + 1)..Len(audit') PROVE audit'[i].actor = who
  <2>1. i \in 1..Len(audit') /\ i \notin 1..Len(audit)
    BY <1>1
  <2> QED BY <1>1, <2>1 DEF MadeBy
<1> QED BY <1>2 DEF Web!EventsNameCaller

CardsTyped == /\ DOMAIN cards \subseteq Web!CardIds /\ orphans \subseteq Web!CardIds
              /\ cards \in [DOMAIN cards -> [tenant : Tenants, facility : Facilities, status : Statuses]]
              /\ \A id \in DOMAIN cards : Web!Row(cards[id]) \in Web!Scopes
LEMMA PutStep ==
    ASSUME ApiInv, NEW ids \in SUBSET Web!CardIds, IsFiniteSet(ids), NEW actor, NEW scope \in Web!Scopes,
           NEW events, IsList(events), Quiet(events), Web!PutCards(ids, actor, scope, events),
           UNCHANGED <<env, resetting>>
    PROVE  /\ TrailKept /\ CardsTyped' /\ Web!CardsKept /\ Web!IsPrefix(audit, audit')
           /\ DOMAIN cards \subseteq DOMAIN cards'
           /\ \/ Web!CanAccess(caller'.user, scope.tenant, scope.facility)
              \/ caller'.route \in {"orders", "ask"}
              => Web!CardsPutInScope
           /\ \/ MadeBy(actor, events) /\ (env.authDisabled \/ actor = caller'.user.name)
              \/ caller'.route = "ask"
              => Web!EventsNameCaller
<1> USE DEF ApiInv
<1>0. PICK n \in Nat : \E news :
          /\ Adds(news) /\ (MadeBy(actor, events) => MadeBy(actor, news))
          /\ n <= Len(news) /\ Creations(news, n, ids, scope)
          /\ \A i \in (n + 1)..Len(news) : ~Concerns(news[i]) /\ Web!Row(news[i]) \in Web!Scopes
  BY PutCardsIs
<1>1. PICK news :
          /\ Adds(news) /\ (MadeBy(actor, events) => MadeBy(actor, news))
          /\ n <= Len(news) /\ Creations(news, n, ids, scope)
          /\ \A i \in (n + 1)..Len(news) : ~Concerns(news[i]) /\ Web!Row(news[i]) \in Web!Scopes
  BY <1>0
<1>2. /\ cards' = Web!WithCards(ids, scope)
      /\ orphans' = IF resetting \in Clearing THEN orphans \cup Web!Fresh(ids) ELSE orphans
  BY DEF Web!PutCards, Clearing
<1>3. TrailKept
  BY <1>1, <1>2, CreationsKeep DEF TrailKept
<1>4. /\ DOMAIN cards' = DOMAIN cards \cup ids
      /\ \A id \in DOMAIN cards : cards'[id] = cards[id]
      /\ \A id \in ids : id \notin DOMAIN cards => cards'[id] = Web!Card(scope)
      /\ cards' = [id \in DOMAIN cards' |-> cards'[id]]
  BY <1>2 DEF Web!WithCards
<1>5. Web!Row(Web!Card(scope)) = scope
      /\ Web!Card(scope) \in [tenant : Tenants, facility : Facilities, status : Statuses]
  BY ScopesAre DEF Web!Row, Web!Card, Statuses
<1>6. CardsTyped'
  <2>1. DOMAIN cards' \subseteq Web!CardIds /\ orphans' \subseteq Web!CardIds
    BY <1>2, <1>4 DEF StoreTypes, Web!Fresh
  <2>2. ASSUME NEW id \in DOMAIN cards'
        PROVE  /\ cards'[id] \in [tenant : Tenants, facility : Facilities, status : Statuses]
               /\ Web!Row(cards'[id]) \in Web!Scopes
    <3>1. CASE id \in DOMAIN cards
      <4>1. cards'[id] = cards[id]
        BY <1>4, <3>1
      <4> QED BY <3>1, <4>1 DEF StoreTypes
    <3>2. CASE id \notin DOMAIN cards
      <4>1. cards'[id] = Web!Card(scope)
        BY <1>4, <3>2
      <4> QED BY <1>5, <4>1
    <3> QED BY <3>1, <3>2
  <2>3. cards' \in [DOMAIN cards' -> [tenant : Tenants, facility : Facilities, status : Statuses]]
    BY <1>4, <2>2
  <2>4. Web!CardIds' = Web!CardIds
    BY DEF Web!CardIds
  <2> QED BY <2>1, <2>2, <2>3, <2>4, Zenon DEF CardsTyped
<1>7. Web!CardsKept
  BY <1>4 DEF Web!CardsKept, Web!DecidedByOperator
<1>8. Web!IsPrefix(audit, audit')
  BY <1>1, GrownIs
<1>9. ASSUME \/ Web!CanAccess(caller'.user, scope.tenant, scope.facility)
             \/ caller'.route \in {"orders", "ask"}
      PROVE  Web!CardsPutInScope
  <2>1. \A id \in DOMAIN cards' \ DOMAIN cards : cards'[id].tenant = scope.tenant
        /\ cards'[id].facility = scope.facility
    BY <1>4 DEF Web!Card
  <2> QED BY <1>9, <2>1 DEF Web!CardsPutInScope
<1>10. ASSUME \/ MadeBy(actor, events) /\ (env.authDisabled \/ actor = caller'.user.name)
              \/ caller'.route = "ask"
       PROVE  Web!EventsNameCaller
  <2>1. CASE caller'.route = "ask"
    BY <2>1 DEF Web!EventsNameCaller
  <2>2. CASE MadeBy(actor, events) /\ (env.authDisabled \/ actor = caller'.user.name)
    BY <1>1, <2>2, NamedIs
  <2> QED BY <1>10, <2>1, <2>2
<1> QED BY <1>3, <1>4, <1>6, <1>7, <1>8, <1>9, <1>10

LEMMA LogStep ==
    ASSUME ApiInv, NEW kind, kind \notin {"created", "decision"}, NEW actor, NEW subject, NEW status,
           NEW scope \in Web!Scopes, Web!Log(kind, actor, subject, status, scope),
           UNCHANGED <<env, cards, orphans>>, resetting \in Clearing <=> resetting' \in Clearing,
           env.authDisabled \/ actor = caller'.user.name
    PROVE  /\ TrailKept /\ Web!CardsKept /\ Web!CardsPutInScope /\ Web!EventsNameCaller /\ Web!IsPrefix(audit, audit')
<1> USE DEF ApiInv
<1> DEFINE news == <<Web!Event(kind, actor, subject, status, scope)>>
<1>1. Adds(news) /\ MadeBy(actor, news) /\ Quiet(news)
  BY LogIs
<1> HIDE DEF news
<1>2. TrailKept
  BY <1>1, QuietKeeps DEF TrailKept
<1>3. Web!EventsNameCaller /\ Web!IsPrefix(audit, audit')
  BY <1>1, NamedIs, GrownIs
<1> QED BY <1>2, <1>3, SameCards

LEMMA CardsStay ==
    ASSUME StoreTypes, UNCHANGED <<env, cards, orphans>>
    PROVE  CardsTyped'
BY DEF StoreTypes, CardsTyped, Web!CardIds

\* What a step must show, part by part.
LEMMA StepIs ==
    ASSUME ApiInv, TrailKept, CardsTyped', MeterTypes', Metered, UNCHANGED env,
           DOMAIN orders' \subseteq {"order"}, latest' \subseteq {"gateway"},
           runs' \in Seq(Web!Scopes), Len(runs') <= env.bounds.runs, feedback' \in Seq({"confirm"}),
           month' \in 1..env.bounds.months,
           resetting' \in {"runs", "latest", "cards", "orders", "training", "store", "meter", "audit", Web!None},
           Web!CardsKept, Web!CardsPutInScope, Web!EventsNameCaller,
           DOMAIN cards \subseteq DOMAIN cards', latest \subseteq latest',
           Web!IsPrefix(runs, runs'), Web!IsPrefix(audit, audit'), Web!IsPrefix(feedback, feedback')
    PROVE  ApiInv' /\ Authorised
<1>1. StoreTypes'
  BY DEF StoreTypes, CardsTyped, ApiInv
<1>2. Web!Forgets => usage'.period > usage.period
  BY Unforgotten DEF ApiInv
<1> QED BY <1>1, <1>2 DEF ApiInv, TrailKept, Authorised

\* The stores that are no card and no event keep what they hold.
LEMMA StoresIs ==
    ASSUME ApiInv
    PROVE  /\ DOMAIN orders \subseteq {"order"} /\ latest \subseteq {"gateway"}
           /\ runs \in Seq(Web!Scopes) /\ Len(runs) <= env.bounds.runs /\ feedback \in Seq({"confirm"})
           /\ month \in 1..env.bounds.months
           /\ resetting \in {"runs", "latest", "cards", "orders", "training", "store", "meter", "audit", Web!None}
           /\ Web!IsPrefix(runs, runs) /\ Web!IsPrefix(feedback, feedback) /\ Web!IsPrefix(audit, audit)
BY Listed DEF ApiInv, StoreTypes

LEMMA StepMeter ==
    ASSUME ApiInv, UNCHANGED <<Web!stores, caller, logged, env, month, resetting>>, MeterTypes', Metered
    PROVE  ApiInv' /\ Authorised
<1>1. UNCHANGED <<cards, orphans, orders, runs, latest, feedback, audit, logged, env, month, resetting>>
  BY DEF Web!stores
<1>2. TrailKept
  BY <1>1, StillKeeps DEF ApiInv, TrailKept
<1>3. CardsTyped' /\ Web!CardsKept /\ Web!CardsPutInScope /\ DOMAIN cards \subseteq DOMAIN cards'
  BY <1>1, CardsStay, SameCards DEF ApiInv
<1>4. Web!EventsNameCaller
  BY <1>1, SameTrail DEF ApiInv
<1> QED BY <1>1, <1>2, <1>3, <1>4, StoresIs, StepIs

LEMMA StepReadAsset ==
    ASSUME ApiInv, NEW tok, NEW scope \in Web!Scopes, Web!ReadAsset(tok, scope)
    PROVE  ApiInv' /\ Authorised
<1>1. /\ Web!CanMeter(1) /\ usage' = Web!RecordAsset(usage, month, "asset")
      /\ UNCHANGED <<Web!stores, caller, logged>> /\ UNCHANGED <<env, month, resetting>>
  BY DEF Web!ReadAsset, Web!Keep
<1>2. scope.facility \in Facilities
  BY ScopesAre
<1>3. MeterTypes' /\ Metered
  BY <1>1, <1>2, MeterIs DEF ApiInv
<1> QED BY <1>1, <1>3, StepMeter

LEMMA StepPreview ==
    ASSUME SomeRequests, ApiInv, NEW tok, NEW n \in 0..1, Web!NormalizePreview(tok, n)
    PROVE  ApiInv' /\ Authorised
<1>1. /\ Web!CanMeter(n) /\ usage' = Web!RecordIngest(usage, month, n)
      /\ UNCHANGED <<Web!stores, caller, logged>> /\ UNCHANGED <<env, month, resetting>>
  BY DEF Web!NormalizePreview, Web!Keep
<1>2. Web!DefaultScope.facility \in Facilities
  BY ScopesAre
<1>3. MeterTypes' /\ Metered
  BY <1>1, <1>2, MeterIs DEF ApiInv
<1> QED BY <1>1, <1>3, StepMeter

LEMMA StepRunScenario ==
    ASSUME ApiInv, NEW tok, NEW scope \in Web!Scopes, NEW wanted \in BOOLEAN, Web!RunScenario(tok, scope, wanted)
    PROVE  ApiInv' /\ Authorised
<1> DEFINE g == Web!Gate(tok, Web!EngineerRoute, scope)
           job == <<"run", Len(runs) + 1>>
           actor == Web!Actor(env, g.user, Web!None)
           ids == IF wanted THEN {job} ELSE {}
           events == <<Web!Event("scenario.run", actor, job[1], Web!None, scope)>>
<1>1. /\ Web!CanMeter(1) /\ usage' = Web!RecordApiCall(Web!RecordFacility(usage, month, scope.facility), month)
      /\ UNCHANGED <<env, month, resetting>>
  BY DEF Web!RunScenario, Web!Keep
<1>2. MeterTypes' /\ Metered
  <2>1. scope.facility \in Facilities
    BY ScopesAre
  <2> QED BY <1>1, <2>1, MeterIs DEF ApiInv
<1>3. CASE UNCHANGED <<Web!stores, caller, logged>>
  BY <1>1, <1>2, <1>3, StepMeter
<1>4. CASE /\ Web!CanAccess(g.user, scope.tenant, scope.facility)
           /\ Len(runs) < env.bounds.runs
           /\ Web!PutCards(ids, actor, scope, events)
           /\ runs' = Append(runs, scope)
           /\ Web!By(g, "run")
           /\ UNCHANGED <<orders, latest, feedback>>
  <2> HIDE DEF g
  <2>1. caller'.user = g.user /\ actor = g.user.name
    BY <1>4, ActorIs DEF Web!By
  <2>2. runs \in Seq(Web!Scopes) /\ Len(runs) \in Nat /\ env.bounds.runs \in Nat
    BY DEF ApiInv, StoreTypes
  <2>3. ids \in SUBSET Web!CardIds /\ IsFiniteSet(ids)
    <3>1. Len(runs) + 1 \in 1..env.bounds.runs
      BY <1>4, <2>2
    <3>2. job \in Web!CardIds
      BY <3>1 DEF Web!CardIds
    <3>3. IsFiniteSet({job}) /\ IsFiniteSet({})
      BY FS_Singleton, FS_EmptySet
    <3> QED BY <3>2, <3>3
  <2>4. IsList(events) /\ Quiet(events) /\ MadeBy(actor, events)
    BY EventsAre
  <2> HIDE DEF job, actor, ids, events
  <2>5. /\ TrailKept /\ CardsTyped' /\ Web!CardsKept /\ Web!IsPrefix(audit, audit')
        /\ DOMAIN cards \subseteq DOMAIN cards' /\ Web!CardsPutInScope /\ Web!EventsNameCaller
    BY <1>1, <1>4, <2>1, <2>3, <2>4, PutStep
  <2>6. runs' \in Seq(Web!Scopes) /\ Len(runs') <= env.bounds.runs /\ Web!IsPrefix(runs, runs')
    BY <1>4, <2>2 DEF Web!IsPrefix
  <2> QED BY <1>1, <1>2, <1>4, <2>5, <2>6, StoresIs, StepIs
<1> QED BY <1>3, <1>4 DEF Web!RunScenario

LEMMA PolledIds ==
    ASSUME NEW kind \in {"wq", "pdm", "grid", "assistant"}
    PROVE  {<<kind, 1>>} \in SUBSET Web!CardIds /\ IsFiniteSet({<<kind, 1>>})
<1>1. <<kind, 1>> \in {"wq", "pdm", "grid", "assistant"} \X {1}
  OBVIOUS
<1>2. <<kind, 1>> \in Web!CardIds
  BY <1>1, Zenon DEF Web!CardIds
<1>3. IsFiniteSet({<<kind, 1>>})
  BY FS_Singleton
<1> QED BY <1>2, <1>3

LEMMA StepPoll ==
    ASSUME ApiInv, NEW tok, NEW kind \in {"wq", "pdm", "grid"}, NEW scope \in Web!Scopes, Web!Poll(tok, kind, scope)
    PROVE  ApiInv' /\ Authorised
<1> DEFINE r == Web!PollRoute(kind)
           g == Web!Gate(tok, r, scope)
           actor == Web!Actor(env, g.user, Web!None)
           ids == {<<kind, 1>>}
<1>0. g.code = 200 /\ Web!PutCards(ids, actor, scope, <<>>) /\ Web!By(g, "poll")
      /\ UNCHANGED <<env, month, resetting, orders, runs, latest, feedback, usage>>
  BY DEF Web!Poll, Web!Keep
<1>1. r.scoped
  BY DEF Web!PollRoute, Web!Scoped, Web!Route
<1> HIDE DEF r
<1>2. Web!CanAccess(g.user, scope.tenant, scope.facility)
  BY <1>0, <1>1, GateIs
<1> HIDE DEF g
<1>3. caller'.user = g.user /\ actor = g.user.name
  BY <1>0, ActorIs DEF Web!By
<1>4. ids \in SUBSET Web!CardIds /\ IsFiniteSet(ids)
  BY PolledIds
<1>5. IsList(<<>>) /\ Quiet(<<>>) /\ MadeBy(actor, <<>>)
  BY ListOf DEF Quiet, MadeBy
<1> HIDE DEF actor, ids
<1>6. /\ TrailKept /\ CardsTyped' /\ Web!CardsKept /\ Web!IsPrefix(audit, audit')
      /\ DOMAIN cards \subseteq DOMAIN cards' /\ Web!CardsPutInScope /\ Web!EventsNameCaller
  BY <1>0, <1>2, <1>3, <1>4, <1>5, PutStep
<1> QED BY <1>0, <1>6, SameMeter, StoresIs, StepIs DEF ApiInv

LEMMA StepOrders ==
    ASSUME SomeRequests, ApiInv, NEW tok, Web!MaintenanceWorkOrders(tok)
    PROVE  ApiInv' /\ Authorised
<1> DEFINE g == Web!Gate(tok, Web!Open, Web!DefaultScope)
           actor == Web!Actor(env, g.user, Web!None)
           new == IF "order" \in DOMAIN orders THEN <<>>
                  ELSE <<Web!Event("workorder.created", actor, "order", Web!None, Web!DefaultScope)>>
           ids == {<<"pdm", 1>>}
<1>0. Web!PutCards(ids, actor, Web!DefaultScope, new) /\ Web!By(g, "orders")
      /\ orders' = [o \in DOMAIN orders \cup {"order"} |-> IF o \in DOMAIN orders THEN orders[o] ELSE "pending"]
      /\ UNCHANGED <<env, month, resetting, runs, latest, feedback, usage>>
  BY DEF Web!MaintenanceWorkOrders, Web!Keep
<1> HIDE DEF g
<1>1. Web!DefaultScope \in Web!Scopes
  BY ScopesAre
<1>2. caller'.user = g.user /\ caller'.route = "orders" /\ actor = g.user.name
  BY <1>0, ActorIs DEF Web!By
<1>3. ids \in SUBSET Web!CardIds /\ IsFiniteSet(ids)
  BY PolledIds
<1>4. IsList(new) /\ Quiet(new) /\ MadeBy(actor, new)
  <2> HIDE DEF actor
  <2> DEFINE f == <<Web!Event("workorder.created", actor, "order", Web!None, Web!DefaultScope)>>
  <2>1. IsList(f) /\ Quiet(f) /\ MadeBy(actor, f) /\ IsList(<<>>) /\ Quiet(<<>>) /\ MadeBy(actor, <<>>)
    BY <1>1, EventsAre, SMTT(30)
  <2> HIDE DEF f
  <2>2. new = f \/ new = <<>>
    BY DEF f
  <2> HIDE DEF new
  <2> QED BY <2>1, <2>2
<1> HIDE DEF actor, ids, new
<1>5. /\ TrailKept /\ CardsTyped' /\ Web!CardsKept /\ Web!IsPrefix(audit, audit')
      /\ DOMAIN cards \subseteq DOMAIN cards' /\ Web!CardsPutInScope /\ Web!EventsNameCaller
  BY <1>0, <1>1, <1>2, <1>3, <1>4, PutStep
<1>6. DOMAIN orders' \subseteq {"order"}
  BY <1>0, StoresIs
<1> QED BY <1>0, <1>5, <1>6, SameMeter, StoresIs, StepIs DEF ApiInv

LEMMA StepAsk ==
    ASSUME SomeRequests, ApiInv, NEW tok, NEW requestedBy, Web!AssistantAsk(tok, requestedBy)
    PROVE  ApiInv' /\ Authorised
<1> DEFINE g == Web!Gate(tok, Web!AssistantExamples, Web!DefaultScope)
           asker == IF requestedBy = Web!None THEN "operator" ELSE requestedBy
           events == <<Web!Event("assistant.ask", asker, "packet", Web!None, Web!DefaultScope)>>
           ids == {<<"assistant", 1>>}
<1>0. Web!PutCards(ids, "system", Web!DefaultScope, events) /\ Web!By(g, "ask")
      /\ UNCHANGED <<env, month, resetting, orders, runs, latest, feedback, usage>>
  BY DEF Web!AssistantAsk, Web!Keep
<1> HIDE DEF g
<1>1. Web!DefaultScope \in Web!Scopes
  BY ScopesAre
<1>2. caller'.route = "ask"
  BY <1>0 DEF Web!By
<1>3. ids \in SUBSET Web!CardIds /\ IsFiniteSet(ids)
  BY PolledIds
<1>4. IsList(events) /\ Quiet(events)
  BY <1>1, EventsAre
<1> HIDE DEF ids, events
<1>5. /\ TrailKept /\ CardsTyped' /\ Web!CardsKept /\ Web!IsPrefix(audit, audit')
      /\ DOMAIN cards \subseteq DOMAIN cards' /\ Web!CardsPutInScope /\ Web!EventsNameCaller
  BY <1>0, <1>1, <1>2, <1>3, <1>4, PutStep
<1> QED BY <1>0, <1>5, SameMeter, StoresIs, StepIs DEF ApiInv

LEMMA StepDecide ==
    ASSUME ApiInv, NEW tok, NEW id, NEW status, Web!DecideRecommendation(tok, id, status)
    PROVE  ApiInv' /\ Authorised
<1> DEFINE g == Web!Gate(tok, Web!OperatorRoute, Web!DefaultScope)
           actor == Web!Actor(env, g.user, "body")
           e == Web!Event("decision", actor, id, status, cards[id])
<1>0. /\ g.code = 200 /\ status \in Web!Decisions /\ id \in DOMAIN cards /\ Web!CanSee(g.user, cards[id])
      /\ cards' = [cards EXCEPT ![id].status = status]
      /\ Web!Log("decision", actor, id, status, cards[id]) /\ Web!By(g, "decide")
      /\ UNCHANGED <<env, month, resetting, orphans, orders, runs, latest, feedback, usage>>
  BY DEF Web!DecideRecommendation, Web!Keep
<1>1. Web!HasAny(g.user, {"operator", "admin"})
  <2>1. Web!OperatorRoute.roles = {"operator"}
    BY DEF Web!OperatorRoute, Web!For, Web!Route
  <2>2. Web!HasAny(g.user, Web!OperatorRoute.roles \cup {"admin"})
    BY <1>0, <2>1, GateIs, ZenonT(30)
  <2> QED BY <2>1, <2>2 DEF Web!HasAny
<1> HIDE DEF g
<1>2. caller'.user = g.user /\ caller'.route = "decide" /\ (env.authDisabled \/ actor = g.user.name)
  BY <1>0, ActorIs DEF Web!By
<1> HIDE DEF actor
<1>3. Adds(<<e>>) /\ MadeBy(actor, <<e>>)
  <2>1. e.actor = actor
    BY DEF Web!Event
  <2>2. IsList(<<e>>) /\ Len(<<e>>) = 1 /\ <<e>>[1] = e
    BY ListOf
  <2>3. IsList(audit) /\ audit' = Append(audit, e) /\ logged' = logged + 1
    BY <1>0 DEF Web!Log, ApiInv, TrailTypes
  <2>4. audit' = audit \o <<e>>
    BY <2>3, AppendIs
  <2>5. logged' <= env.bounds.events
    BY <1>0 DEF Web!Log, ApiInv, TrailTypes
  <2> HIDE DEF e
  <2> QED BY <2>1, <2>2, <2>3, <2>4, <2>5 DEF Adds, MadeBy
<1>4. TrailKept
  BY <1>0, <1>3, DecisionKeeps, ZenonT(30) DEF ApiInv, TrailKept
<1>5. Web!EventsNameCaller /\ Web!IsPrefix(audit, audit')
  <2> HIDE DEF e
  <2>1. TrailTypes
    BY DEF ApiInv
  <2> QED BY <1>2, <1>3, <2>1, NamedIs, GrownIs
<1>6. /\ DOMAIN cards' = DOMAIN cards /\ \A d \in DOMAIN cards : d # id => cards'[d] = cards[d]
      /\ cards'[id].status = status /\ cards'[id].tenant = cards[id].tenant
          /\ cards'[id].facility = cards[id].facility
      /\ cards'[id] \in [tenant : Tenants, facility : Facilities, status : Statuses]
      /\ cards' \in [DOMAIN cards -> [tenant : Tenants, facility : Facilities, status : Statuses]]
  BY <1>0 DEF ApiInv, StoreTypes, Statuses, Web!Decisions
<1>7. \A d \in DOMAIN cards : Web!Row(cards'[d]) = Web!Row(cards[d])
  BY <1>6 DEF Web!Row
<1>8. CardsTyped'
  BY <1>0, <1>6, <1>7 DEF CardsTyped, ApiInv, StoreTypes, Web!CardIds, Web!Row
<1>9. Web!CardsPutInScope
  BY <1>6 DEF Web!CardsPutInScope
<1>10. Web!CardsKept
  <2>1. Web!CanAccess(g.user, cards[id].tenant, cards[id].facility)
    <3>1. Web!Row(cards[id]) \in Web!Scopes
      BY <1>0 DEF ApiInv, StoreTypes
    <3>2. cards[id].tenant # Web!None /\ cards[id].facility # Web!None
      BY <3>1, ScopesAre DEF Web!Row
    <3> QED BY <1>0, <3>2 DEF Web!CanSee, Web!CanAccess
  <2>2. ASSUME NEW d \in DOMAIN cards PROVE Web!DecidedByOperator(d)
    <3>1. CASE d = id
      BY <1>1, <1>2, <2>1, <3>1 DEF Web!DecidedByOperator
    <3>2. CASE d # id
      BY <1>6, <3>2 DEF Web!DecidedByOperator
    <3> QED BY <3>1, <3>2
  <2> QED BY <1>6, <1>7, <2>2 DEF Web!CardsKept
<1> QED BY <1>0, <1>4, <1>5, <1>6, <1>8, <1>9, <1>10, SameMeter, StoresIs, StepIs DEF ApiInv

LEMMA StepOrder ==
    ASSUME SomeRequests, ApiInv, NEW tok, NEW status, Web!DecideWorkOrder(tok, status)
    PROVE  ApiInv' /\ Authorised
<1> DEFINE g == Web!Gate(tok, Web!OperatorRoute, Web!DefaultScope)
           actor == Web!Actor(env, g.user, "body")
<1>0. /\ orders' = [orders EXCEPT !["order"] = status]
      /\ Web!Log("workorder.decision", actor, "order", status, Web!DefaultScope) /\ Web!By(g, "order")
      /\ UNCHANGED <<env, month, resetting, cards, orphans, runs, latest, feedback, usage>>
  BY DEF Web!DecideWorkOrder, Web!Keep
<1> HIDE DEF g
<1>1. caller'.user = g.user /\ (env.authDisabled \/ actor = g.user.name)
  BY <1>0, ActorIs DEF Web!By
<1> HIDE DEF actor
<1>2. Web!DefaultScope \in Web!Scopes
  BY ScopesAre
<1>3. TrailKept /\ Web!CardsKept /\ Web!CardsPutInScope /\ Web!EventsNameCaller /\ Web!IsPrefix(audit, audit')
  BY <1>0, <1>1, <1>2, LogStep
<1> QED BY <1>0, <1>3, CardsStay, SameMeter, StoresIs, StepIs DEF ApiInv

LEMMA StepFeedback ==
    ASSUME SomeRequests, ApiInv, NEW tok, NEW decision \in {"confirm", "other"},
        Web!ConditionFeedback(tok, decision)
    PROVE  ApiInv' /\ Authorised
<1> DEFINE g == Web!Gate(tok, Web!OperatorRoute, Web!DefaultScope)
           actor == Web!Actor(env, g.user, "body")
<1>0. /\ decision = "confirm" /\ feedback' = Append(feedback, decision)
      /\ Web!Log("feedback", actor, "alert", Web!None, Web!DefaultScope) /\ Web!By(g, "feedback")
      /\ UNCHANGED <<env, month, resetting, cards, orphans, orders, runs, latest, usage>>
  BY DEF Web!ConditionFeedback, Web!Keep
<1> HIDE DEF g
<1>1. caller'.user = g.user /\ (env.authDisabled \/ actor = g.user.name)
  BY <1>0, ActorIs DEF Web!By
<1> HIDE DEF actor
<1>2. Web!DefaultScope \in Web!Scopes
  BY ScopesAre
<1>3. TrailKept /\ Web!CardsKept /\ Web!CardsPutInScope /\ Web!EventsNameCaller /\ Web!IsPrefix(audit, audit')
  BY <1>0, <1>1, <1>2, LogStep
<1>4. feedback' \in Seq({"confirm"}) /\ Web!IsPrefix(feedback, feedback')
  BY <1>0, StoresIs DEF Web!IsPrefix
<1> QED BY <1>0, <1>3, <1>4, CardsStay, SameMeter, StoresIs, StepIs DEF ApiInv

LEMMA StepIngest ==
    ASSUME SomeRequests, ApiInv, NEW tok, Web!IngestTelemetry(tok)
    PROVE  ApiInv' /\ Authorised
<1> DEFINE g == Web!RequireIngest(env, tok)
           actor == Web!Actor(env, g.user, "edge-gateway")
<1>0. /\ Web!Log("telemetry.ingested", actor, "batch", Web!None, Web!DefaultScope) /\ Web!By(g, "ingest")
      /\ UNCHANGED <<env, month, resetting, cards, orphans, orders, runs, latest, feedback, usage>>
  BY DEF Web!IngestTelemetry, Web!Keep
<1> HIDE DEF g
<1>1. caller'.user = g.user /\ (env.authDisabled \/ actor = g.user.name)
  BY <1>0, ActorIs DEF Web!By
<1> HIDE DEF actor
<1>2. Web!DefaultScope \in Web!Scopes
  BY ScopesAre
<1>3. TrailKept /\ Web!CardsKept /\ Web!CardsPutInScope /\ Web!EventsNameCaller /\ Web!IsPrefix(audit, audit')
  BY <1>0, <1>1, <1>2, LogStep
<1> QED BY <1>0, <1>3, CardsStay, SameMeter, StoresIs, StepIs DEF ApiInv

LEMMA StepPush ==
    ASSUME SomeRequests, ApiInv, NEW tok, Web!GatewayPush(tok)
    PROVE  ApiInv' /\ Authorised
<1> DEFINE g == Web!Gate(tok, Web!Open, Web!DefaultScope)
           actor == Web!Actor(env, g.user, "gateway")
<1>0. /\ Web!Log("telemetry.ingested", actor, "gateway", Web!None, Web!DefaultScope) /\ Web!By(g, "push")
      /\ latest' = latest \cup {"gateway"}
      /\ UNCHANGED <<env, month, resetting, cards, orphans, orders, runs, feedback, usage>>
  BY DEF Web!GatewayPush, Web!Keep
<1> HIDE DEF g
<1>1. caller'.user = g.user /\ (env.authDisabled \/ actor = g.user.name)
  BY <1>0, ActorIs DEF Web!By
<1> HIDE DEF actor
<1>2. Web!DefaultScope \in Web!Scopes
  BY ScopesAre
<1>3. TrailKept /\ Web!CardsKept /\ Web!CardsPutInScope /\ Web!EventsNameCaller /\ Web!IsPrefix(audit, audit')
  BY <1>0, <1>1, <1>2, LogStep
<1> QED BY <1>0, <1>3, CardsStay, SameMeter, StoresIs, StepIs DEF ApiInv

LEMMA StepAuditedRead ==
    ASSUME SomeRequests, ApiInv, NEW tok, NEW r, NEW kind \in {"audited", "report"}, Web!AuditedRead(tok, r, kind)
    PROVE  ApiInv' /\ Authorised
<1> DEFINE g == Web!Gate(tok, r, Web!DefaultScope)
           actor == Web!Actor(env, g.user, Web!None)
<1>0. /\ Web!Log(kind, actor, "api", Web!None, Web!DefaultScope) /\ Web!By(g, kind)
      /\ UNCHANGED <<env, month, resetting, cards, orphans, orders, runs, latest, feedback, usage>>
  BY DEF Web!AuditedRead, Web!Keep
<1> HIDE DEF g
<1>1. caller'.user = g.user /\ actor = g.user.name
  BY <1>0, ActorIs DEF Web!By
<1> HIDE DEF actor
<1>2. Web!DefaultScope \in Web!Scopes
  BY ScopesAre
<1>3. TrailKept /\ Web!CardsKept /\ Web!CardsPutInScope /\ Web!EventsNameCaller /\ Web!IsPrefix(audit, audit')
  BY <1>0, <1>1, <1>2, LogStep
<1> QED BY <1>0, <1>3, CardsStay, SameMeter, StoresIs, StepIs DEF ApiInv

LEMMA NextStepIs ==
    /\ Web!NextStep("runs") = "latest" /\ Web!NextStep("latest") = "cards" /\ Web!NextStep("cards") = "orders"
    /\ Web!NextStep("orders") = "training" /\ Web!NextStep("training") = "store" /\ Web!NextStep("store") = "meter"
    /\ Web!NextStep("meter") = "audit" /\ Web!NextStep("audit") = Web!None /\ Web!ResetSteps[1] = "runs"
<1>1. DOMAIN Web!ResetSteps = 1..8 /\ Len(Web!ResetSteps) = 8
  BY DEF Web!ResetSteps
<1>2. ASSUME NEW k \in 1..8, \A i \in 1..8 : Web!ResetSteps[i] = Web!ResetSteps[k] => i = k
      PROVE  Web!NextStep(Web!ResetSteps[k]) = IF k = 8 THEN Web!None ELSE Web!ResetSteps[k + 1]
  <2>1. (CHOOSE i \in DOMAIN Web!ResetSteps : Web!ResetSteps[i] = Web!ResetSteps[k]) = k
    BY <1>1, <1>2
  <2> QED BY <1>1, <2>1 DEF Web!NextStep
<1>3. /\ Web!ResetSteps[1] = "runs" /\ Web!ResetSteps[2] = "latest" /\ Web!ResetSteps[3] = "cards"
      /\ Web!ResetSteps[4] = "orders" /\ Web!ResetSteps[5] = "training" /\ Web!ResetSteps[6] = "store"
      /\ Web!ResetSteps[7] = "meter" /\ Web!ResetSteps[8] = "audit"
  BY DEF Web!ResetSteps
<1>4. \A k, i \in 1..8 : Web!ResetSteps[i] = Web!ResetSteps[k] => i = k
  <2>1. \A k \in 1..8 : k \in {1, 2, 3, 4, 5, 6, 7, 8}
    OBVIOUS
  <2> QED BY <1>3, <2>1
<1>5. \A k \in 1..8 : Web!NextStep(Web!ResetSteps[k]) = IF k = 8 THEN Web!None ELSE Web!ResetSteps[k + 1]
  BY <1>2, <1>4
<1>6. Web!NextStep(Web!ResetSteps[1]) = Web!ResetSteps[2] /\ Web!NextStep(Web!ResetSteps[2]) = Web!ResetSteps[3]
  BY <1>5
<1>7. Web!NextStep(Web!ResetSteps[3]) = Web!ResetSteps[4] /\ Web!NextStep(Web!ResetSteps[4]) = Web!ResetSteps[5]
  BY <1>5
<1>8. Web!NextStep(Web!ResetSteps[5]) = Web!ResetSteps[6] /\ Web!NextStep(Web!ResetSteps[6]) = Web!ResetSteps[7]
  BY <1>5
<1>9. Web!NextStep(Web!ResetSteps[7]) = Web!ResetSteps[8] /\ Web!NextStep(Web!ResetSteps[8]) = Web!None
  BY <1>5
<1> QED BY <1>3, <1>6, <1>7, <1>8, <1>9

LEMMA StepBeginReset ==
    ASSUME ApiInv, NEW tok, Web!BeginReset(tok)
    PROVE  ApiInv' /\ Authorised
<1>1. /\ resetting = Web!None /\ resetting' = "runs"
      /\ UNCHANGED <<env, cards, orphans, orders, runs, latest, feedback, audit, usage, month, logged>>
  BY NextStepIs DEF Web!BeginReset, Web!stores
<1>2. TrailKept
  BY <1>1, StillKeeps DEF ApiInv, TrailKept, Clearing, Web!None
<1>3. CardsTyped' /\ Web!CardsKept /\ Web!CardsPutInScope /\ Web!EventsNameCaller /\ MeterTypes' /\ Metered
  BY <1>1, CardsStay, SameCards, SameTrail, SameMeter DEF ApiInv
<1> QED BY <1>1, <1>2, <1>3, StoresIs, StepIs

LEMMA StepMonth ==
    ASSUME ApiInv, Web!NextMonth
    PROVE  ApiInv' /\ Authorised
<1>1. /\ month < env.bounds.months /\ month' = month + 1
      /\ UNCHANGED <<env, cards, orphans, orders, runs, latest, feedback, audit, usage, resetting, logged>>
  BY DEF Web!NextMonth, Web!stores
<1>2. TrailKept
  BY <1>1, StillKeeps DEF ApiInv, TrailKept
<1>3. CardsTyped' /\ Web!CardsKept /\ Web!CardsPutInScope /\ Web!EventsNameCaller
  BY <1>1, CardsStay, SameCards, SameTrail DEF ApiInv
<1>4. month' \in 1..env.bounds.months
  BY <1>1 DEF ApiInv, StoreTypes
<1>5. MeterTypes' /\ Metered
  BY <1>1 DEF ApiInv, MeterTypes, Metered
<1> QED BY <1>1, <1>2, <1>3, <1>4, <1>5, StoresIs, StepIs

LEMMA StepReset ==
    ASSUME SomeRequests, ApiInv, NEW tok, Web!ResetStep(tok)
    PROVE  ApiInv' /\ Authorised
<1> DEFINE g == Web!Gate(tok, Web!EngineerRoute, Web!DefaultScope)
           actor == Web!Actor(env, g.user, Web!None)
<1>0. /\ resetting # Web!None /\ g.code = 200 /\ resetting' = Web!NextStep(resetting) /\ Web!By(g, "reset")
      /\ runs' = IF resetting = "runs" THEN <<>> ELSE runs
      /\ latest' = IF resetting = "latest" THEN {} ELSE latest
      /\ cards' = IF resetting = "cards" THEN <<>> ELSE cards
      /\ orphans' = IF resetting = "cards" THEN {} ELSE orphans
      /\ orders' = IF resetting = "orders" THEN <<>> ELSE orders
      /\ feedback' = IF resetting = "store" THEN <<>> ELSE feedback
      /\ usage' = IF resetting = "meter" THEN Web!EmptyMeter(month) ELSE usage
      /\ IF resetting = "audit" THEN Web!Log("system.reset", actor, "api", Web!None, Web!DefaultScope)
         ELSE audit' = (IF resetting = "store" THEN <<>> ELSE audit) /\ UNCHANGED logged
      /\ UNCHANGED <<env, month>>
  BY DEF Web!ResetStep
<1>1. Web!HasAny(g.user, {"engineer", "admin"})
  <2>1. Web!EngineerRoute.roles = {"engineer"}
    BY DEF Web!EngineerRoute, Web!For, Web!Route
  <2>2. Web!HasAny(g.user, Web!EngineerRoute.roles \cup {"admin"})
    BY <1>0, <2>1, GateIs, ZenonT(30)
  <2> QED BY <2>1, <2>2 DEF Web!HasAny
<1> HIDE DEF g
<1>2. caller'.user = g.user /\ caller'.route = "reset" /\ actor = g.user.name
  BY <1>0, ActorIs DEF Web!By
<1> HIDE DEF actor
<1>3. /\ resetting \in {"runs", "latest", "cards", "orders", "training", "store", "meter", "audit"}
      /\ resetting' \in {"runs", "latest", "cards", "orders", "training", "store", "meter", "audit", Web!None}
      /\ resetting = "cards" => resetting' = "orders"
      /\ resetting = "store" => resetting' = "meter"
      /\ resetting \notin {"cards", "store"} => (resetting \in Clearing <=> resetting' \in Clearing)
  BY <1>0, NextStepIs, StoresIs DEF Clearing, Web!None
<1>4. TrailKept /\ Web!EventsNameCaller
  <2>1. CASE resetting = "audit"
    <3>1. UNCHANGED <<env, cards, orphans>> /\ Web!DefaultScope \in Web!Scopes
      BY <1>0, <2>1, ScopesAre
    <3> QED BY <1>0, <1>2, <1>3, <2>1, <3>1, LogStep
  <2>2. CASE resetting = "cards"
    <3>1. cards' = <<>> /\ DOMAIN cards' = {} /\ UNCHANGED <<env, audit, logged>> /\ resetting' = "orders"
      BY <1>0, <1>3, <2>2
    <3>2. TrailTypes' /\ TrailInv' /\ Web!TrailExplainsCards'
      BY <3>1 DEF ApiInv, TrailTypes, TrailInv, Web!TrailExplainsCards, Clearing
    <3> QED BY <3>1, <3>2, SameTrail DEF TrailKept, ApiInv
  <2>3. CASE resetting = "store"
    <3>1. UNCHANGED <<env, cards, orphans, logged>> /\ audit' = <<>> /\ resetting' = "meter"
      BY <1>0, <1>3, <2>3
    <3>2. DOMAIN cards \subseteq orphans
      BY <2>3 DEF ApiInv, TrailInv, Clearing
    <3>3. IsList(audit') /\ Len(audit') = 0
      BY <3>1, ListOf
    <3>4. TrailTypes'
      BY <3>1, <3>3 DEF ApiInv, TrailTypes
    <3>5. TrailInv' /\ Web!TrailExplainsCards'
      BY <3>1, <3>2, <3>3 DEF TrailInv, Web!TrailExplainsCards, Clearing
    <3>6. Web!EventsNameCaller
      <4>1. Len(audit) \in Nat
        BY ListIs DEF ApiInv, TrailTypes
      <4> QED BY <3>3, <4>1 DEF Web!EventsNameCaller
    <3> QED BY <3>4, <3>5, <3>6 DEF TrailKept
  <2>4. CASE resetting \notin {"audit", "cards", "store"}
    <3>1. UNCHANGED <<env, cards, orphans, audit, logged>>
      BY <1>0, <2>4
    <3> QED BY <1>3, <2>4, <3>1, StillKeeps, SameTrail DEF ApiInv, TrailKept
  <2> QED BY <2>1, <2>2, <2>3, <2>4
<1>5. CardsTyped' /\ Web!CardsKept /\ Web!CardsPutInScope
  <2>1. CASE resetting = "cards"
    <3>1. cards' = <<>> /\ DOMAIN cards' = {} /\ orphans' = {}
      BY <1>0, <2>1
    <3>2. CardsTyped'
      BY <3>1 DEF CardsTyped
    <3> QED BY <3>1, <3>2 DEF Web!CardsKept, Web!CardsPutInScope
  <2>2. CASE resetting # "cards"
    BY <1>0, <2>2, CardsStay, SameCards DEF ApiInv
  <2> QED BY <2>1, <2>2
<1>6. MeterTypes'
  <2>1. CASE resetting = "meter"
    BY <1>0, <2>1 DEF ApiInv, MeterTypes, Web!EmptyMeter
  <2>2. CASE resetting # "meter"
    BY <1>0, <2>2, SameMeter DEF ApiInv
  <2> QED BY <2>1, <2>2
<1>7. /\ DOMAIN orders' \subseteq {"order"} /\ latest' \subseteq {"gateway"}
      /\ runs' \in Seq(Web!Scopes) /\ Len(runs') <= env.bounds.runs /\ feedback' \in Seq({"confirm"})
  BY <1>0, StoresIs DEF ApiInv, StoreTypes
<1>8. StoreTypes'
  BY <1>0, <1>3, <1>5, <1>7, StoresIs DEF ApiInv, StoreTypes, CardsTyped
<1> QED BY <1>1, <1>2, <1>4, <1>5, <1>6, <1>8 DEF ApiInv, TrailKept, Authorised

LEMMA StepApi == SomeRequests /\ ApiInv /\ [Web!Next]_webvars => ApiInv' /\ (Authorised \/ UNCHANGED webvars)
<1> SUFFICES ASSUME SomeRequests, ApiInv, [Web!Next]_webvars PROVE ApiInv' /\ (Authorised \/ UNCHANGED webvars)
  OBVIOUS
<1>1. CASE UNCHANGED webvars
  <2>1. UNCHANGED <<Web!stores, caller, logged, env, month, resetting, usage>>
    BY <1>1 DEF webvars, Web!stores
  <2> QED BY <1>1, <2>1, StepMeter, SameMeter DEF ApiInv
<1>2. ASSUME NEW tok \in env.tokens, NEW s \in Web!Scopes, Web!ReadAsset(tok, s) PROVE ApiInv' /\ Authorised
  BY <1>2, StepReadAsset
<1>3. ASSUME NEW tok \in env.tokens, NEW s \in Web!Scopes, NEW w \in BOOLEAN, Web!RunScenario(tok, s, w)
      PROVE  ApiInv' /\ Authorised
  BY <1>3, StepRunScenario
<1>4. ASSUME NEW tok \in env.tokens, NEW k \in {"wq", "pdm", "grid"}, NEW s \in Web!Scopes, Web!Poll(tok, k, s)
      PROVE  ApiInv' /\ Authorised
  BY <1>4, StepPoll
<1>5. ASSUME NEW tok \in env.tokens, Web!MaintenanceWorkOrders(tok) PROVE ApiInv' /\ Authorised
  BY <1>5, StepOrders
<1>6. ASSUME NEW tok \in env.tokens, NEW by, Web!AssistantAsk(tok, by) PROVE ApiInv' /\ Authorised
  BY <1>6, StepAsk
<1>7. ASSUME NEW tok \in env.tokens, NEW id, NEW s, Web!DecideRecommendation(tok, id, s) PROVE ApiInv' /\ Authorised
  BY <1>7, StepDecide
<1>8. ASSUME NEW tok \in env.tokens, NEW s, Web!DecideWorkOrder(tok, s) PROVE ApiInv' /\ Authorised
  BY <1>8, StepOrder
<1>9. ASSUME NEW tok \in env.tokens, NEW d \in {"confirm", "other"}, Web!ConditionFeedback(tok, d)
      PROVE  ApiInv' /\ Authorised
  BY <1>9, StepFeedback
<1>10. ASSUME NEW tok \in env.tokens, Web!IngestTelemetry(tok) \/ Web!GatewayPush(tok) PROVE ApiInv' /\ Authorised
  BY <1>10, StepIngest, StepPush
<1>11. ASSUME NEW tok \in env.tokens, NEW n \in 0..1, Web!NormalizePreview(tok, n) PROVE ApiInv' /\ Authorised
  BY <1>11, StepPreview
<1>12. ASSUME NEW tok \in env.tokens, NEW r, Web!AuditedRead(tok, r, "audited") \/ Web!AuditedRead(tok, r, "report")
       PROVE  ApiInv' /\ Authorised
  BY <1>12, StepAuditedRead
<1>13. ASSUME NEW tok \in env.tokens, Web!BeginReset(tok) \/ Web!ResetStep(tok) PROVE ApiInv' /\ Authorised
  BY <1>13, StepBeginReset, StepReset
<1>14. CASE Web!NextMonth
  BY <1>14, StepMonth
<1> QED BY <1>1, <1>2, <1>3, <1>4, <1>5, <1>6, <1>7, <1>8, <1>9, <1>10, <1>11, <1>12, <1>13, <1>14
        DEF Web!Next, Web!ScenarioReport

LEMMA InitApi == SomeRequests /\ Web!Init => ApiInv
<1> SUFFICES ASSUME SomeRequests, Web!Init PROVE ApiInv
  OBVIOUS
<1>1. /\ env.bounds.events \in Nat /\ env.bounds.runs \in Nat /\ env.bounds.use \in Nat
      /\ env.bounds.months \in Nat \ {0}
  BY DEF Web!Init, SomeRequests
<1>2. /\ DOMAIN cards = {} /\ cards = <<>> /\ orphans = {} /\ DOMAIN orders = {} /\ runs = <<>> /\ Len(runs) = 0
         /\ latest = {}
      /\ feedback = <<>> /\ IsList(audit) /\ Len(audit) = 0 /\ month = 1 /\ resetting = Web!None /\ logged = 0
  BY ListOf DEF Web!Init
<1>3. StoreTypes
  BY <1>1, <1>2 DEF Web!Init, StoreTypes
<1>4. MeterTypes
  BY <1>1, <1>2 DEF Web!Init, MeterTypes, Web!EmptyMeter
<1>5. TrailTypes /\ TrailInv /\ Web!TrailExplainsCards
  BY <1>1, <1>2 DEF TrailTypes, TrailInv, Web!TrailExplainsCards, Clearing, Web!None
<1> QED BY <1>3, <1>4, <1>5 DEF ApiInv

LEMMA ApiTypes == ApiInv => Web!TypeOK
<1> SUFFICES ASSUME ApiInv PROVE Web!TypeOK
  OBVIOUS
<1>1. \A id \in DOMAIN cards : cards[id].status \in Web!Decisions \cup {"pending"}
      /\ Web!Row(cards[id]) \in Web!Scopes
  BY DEF ApiInv, StoreTypes, Statuses, Web!Decisions
<1>2. Web!ToSet(runs) \subseteq Web!Scopes /\ Web!ToSet(feedback) \subseteq {"confirm"}
  BY DEF ApiInv, StoreTypes, Web!ToSet
<1>3. \A e \in Web!ToSet(audit) : Web!Row(e) \in Web!Scopes
  <2>1. DOMAIN audit = 1..Len(audit)
    BY ListIs DEF ApiInv, TrailTypes
  <2> QED BY <2>1 DEF ApiInv, TrailTypes, Web!ToSet
<1>4. \A k \in {"calls", "ingest"} : usage[k] \in 0..env.bounds.use
  <2>1. usage.calls \in 0..env.bounds.use /\ usage.ingest \in 0..env.bounds.use
    BY DEF ApiInv, MeterTypes
  <2> QED BY <2>1
<1>5. resetting \in Web!ToSet(Web!ResetSteps) \cup {Web!None}
  <2>1. DOMAIN Web!ResetSteps = 1..8
    BY DEF Web!ResetSteps
  <2>2. /\ Web!ResetSteps[1] = "runs" /\ Web!ResetSteps[2] = "latest" /\ Web!ResetSteps[3] = "cards"
        /\ Web!ResetSteps[4] = "orders" /\ Web!ResetSteps[5] = "training" /\ Web!ResetSteps[6] = "store"
        /\ Web!ResetSteps[7] = "meter" /\ Web!ResetSteps[8] = "audit"
    BY DEF Web!ResetSteps
  <2>3. 1 \in 1..8 /\ 2 \in 1..8 /\ 3 \in 1..8 /\ 4 \in 1..8 /\ 5 \in 1..8 /\ 6 \in 1..8 /\ 7 \in 1..8 /\ 8 \in 1..8
    OBVIOUS
  <2> QED BY <2>1, <2>2, <2>3 DEF ApiInv, StoreTypes, Web!ToSet
<1>6. usage.period \in 1..month /\ month \in 1..env.bounds.months
  BY DEF ApiInv, MeterTypes, StoreTypes
<1>7. logged \in 0..env.bounds.events /\ Len(audit) <= logged
  BY DEF ApiInv, TrailTypes
<1>8. env \in Settings /\ DOMAIN cards \subseteq Web!CardIds /\ orphans \subseteq Web!CardIds
      /\ DOMAIN orders \subseteq {"order"} /\ latest \subseteq {"gateway"}
  BY DEF ApiInv, StoreTypes
<1> HIDE DEF ApiInv
<1> QED BY <1>1, <1>2, <1>3, <1>4, <1>5, <1>6, <1>7, <1>8 DEF Web!TypeOK

---------------------------------------------------------------------------
(* Tenancy.                                                                *)

LEMMA CallerIs ==
    ASSUME ~env.authDisabled, NEW tok, NEW r, NEW scope, Web!Gate(tok, r, scope).code = 200
    PROVE  Web!Gate(tok, r, scope).user = Web!PrincipalOf(tok.claims)
<1>1. Web!CurrentUser(env, tok).code = 200 /\ Web!Gate(tok, r, scope).user = Web!CurrentUser(env, tok).user
  <2>1. /\ Web!CurrentUser(env, tok).code = 200 /\ Web!Gate(tok, r, scope).user = Web!CurrentUser(env, tok).user
        /\ r.roles # {} => Web!HasAny(Web!Gate(tok, r, scope).user, r.roles \cup {"admin"})
        /\ r.scoped => Web!CanAccess(Web!Gate(tok, r, scope).user, scope.tenant, scope.facility)
    BY GateIs, Zenon
  <2> QED BY <2>1
<1>2. Web!CurrentUser(env, tok) = Web!Admit(Web!PrincipalOf(tok.claims))
  BY <1>1 DEF Web!CurrentUser, Web!Refuse
<1> QED BY <1>1, <1>2 DEF Web!Admit

\* What a principal may see is what its token covers.
LEMMA SeesCovered ==
    ASSUME NEW tok, NEW row, row.tenant # Web!None, row.facility # Web!None,
        Web!CanSee(Web!PrincipalOf(tok.claims), row)
    PROVE  Web!TokenCovers(tok, row)
<1> DEFINE c == tok.claims
           tenants == Web!Named(c.tenantList, c.tenant)
           facilities == Web!Named(c.facilityList, c.facility)
           p == Web!PrincipalOf(c)
<1>1. /\ p.tenants = IF tenants = {} THEN {Web!DefaultTenant} ELSE tenants
      /\ p.facilities = IF facilities = {} THEN {Web!Wildcard} ELSE facilities
  BY DEF Web!PrincipalOf, Web!Membership, Web!Named
<1>2. /\ Web!Wildcard \in p.tenants \/ row.tenant \in p.tenants
      /\ Web!Wildcard \in p.facilities \/ row.facility \in p.facilities
  BY DEF Web!CanSee, Web!CanAccessTenant, Web!CanAccessFacility
<1>3. Web!TokenCovers(tok, row) <=>
          /\ \/ {row.tenant, Web!Wildcard} \cap tenants # {}
             \/ tenants = {} /\ row.tenant = Web!DefaultTenant
          /\ \/ facilities = {} \/ {row.facility, Web!Wildcard} \cap facilities # {}
             \/ (c.realmRoles \cup c.clientRoles) \cap Web!FacilityManagers # {}
  BY DEF Web!TokenCovers
<1> HIDE DEF tenants, facilities, p, c
<1>4. Web!DefaultTenant # Web!Wildcard
  BY DEF Web!DefaultTenant, Web!Wildcard
<1> QED BY <1>1, <1>2, <1>3, <1>4

LEMMA AnswerIs ==
    ASSUME NEW code, NEW rows
    PROVE  Web!Answer(code, rows).rows = {Web!Row(r) : r \in rows}
BY DEF Web!Answer

LEMMA RowCovered ==
    ASSUME NEW tok, NEW row, Web!Row(row) \in Web!Scopes, Web!CanSee(Web!PrincipalOf(tok.claims), row)
    PROVE  Web!TokenCovers(tok, Web!Row(row))
<1>1. Web!Row(row).tenant # Web!None /\ Web!Row(row).facility # Web!None
  BY ScopesAre
<1>2. Web!Row(row).tenant = row.tenant /\ Web!Row(row).facility = row.facility
  BY DEF Web!Row
<1>3. Web!TokenCovers(tok, row)
  BY <1>1, <1>2, SeesCovered
<1> QED BY <1>2, <1>3 DEF Web!TokenCovers

Covered(tok, answer) == \A row \in answer.rows : Web!TokenCovers(tok, row)
LEMMA NothingCovered == ASSUME NEW tok, NEW code PROVE Covered(tok, Web!Answer(code, {}))
BY DEF Covered, Web!Answer

LEMMA RowsCovered ==
    ASSUME NEW tok, NEW code, NEW rows,
           \A r \in rows : Web!Row(r) \in Web!Scopes /\ Web!CanSee(Web!PrincipalOf(tok.claims), r)
    PROVE  Covered(tok, Web!Answer(code, rows))
<1>1. ASSUME NEW row \in Web!Answer(code, rows).rows PROVE Web!TokenCovers(tok, row)
  <2>1. PICK r \in rows : row = Web!Row(r)
    BY <1>1, AnswerIs
  <2> QED BY <2>1, RowCovered
<1> QED BY <1>1 DEF Covered

LEMMA ListCovered ==
    ASSUME ApiInv, ~env.authDisabled, NEW tok, NEW tenant, NEW facility
    PROVE  Covered(tok, Web!ListRecommendations(tok, tenant, facility))
<1> DEFINE g == Web!Gate(tok, Web!Open, Web!DefaultScope)
           visible == {c \in {cards[id] : id \in DOMAIN cards} :
                           /\ Web!CanSee(g.user, c)
                           /\ tenant = Web!None \/ c.tenant = tenant
                           /\ facility = Web!None \/ c.facility = facility}
<1>1. Web!ListRecommendations(tok, tenant, facility) =
          IF g.code # 200 THEN Web!Answer(g.code, {})
          ELSE IF ~Web!Narrowed(g.user, tenant, facility) THEN Web!Answer(403, {})
          ELSE Web!Answer(200, visible)
  BY DEF Web!ListRecommendations
<1>2. ASSUME g.code = 200 PROVE Covered(tok, Web!Answer(200, visible))
  <2>1. g.user = Web!PrincipalOf(tok.claims)
    BY <1>2, CallerIs
  <2>2. \A r \in visible : Web!Row(r) \in Web!Scopes /\ Web!CanSee(Web!PrincipalOf(tok.claims), r)
    BY <2>1 DEF ApiInv, StoreTypes
  <2> QED BY <2>2, RowsCovered
<1> QED BY <1>1, <1>2, NothingCovered

LEMMA CardCovered ==
    ASSUME ApiInv, ~env.authDisabled, NEW tok, NEW id \in DOMAIN cards
    PROVE  Covered(tok, Web!GetRecommendation(tok, id))
<1> DEFINE g == Web!Gate(tok, Web!Open, Web!DefaultScope)
<1>1. Web!GetRecommendation(tok, id) =
          IF g.code # 200 THEN Web!Answer(g.code, {})
          ELSE IF id \notin DOMAIN cards \/ ~Web!CanSee(g.user, cards[id]) THEN Web!Answer(404, {})
          ELSE Web!Answer(200, {cards[id]})
  BY DEF Web!GetRecommendation
<1>2. ASSUME g.code = 200, Web!CanSee(g.user, cards[id]) PROVE Covered(tok, Web!Answer(200, {cards[id]}))
  <2>1. g.user = Web!PrincipalOf(tok.claims)
    BY <1>2, CallerIs
  <2>2. \A r \in {cards[id]} : Web!Row(r) \in Web!Scopes /\ Web!CanSee(Web!PrincipalOf(tok.claims), r)
    BY <1>2, <2>1 DEF ApiInv, StoreTypes
  <2> QED BY <2>2, RowsCovered
<1> QED BY <1>1, <1>2, NothingCovered

LEMMA LogCovered ==
    ASSUME ApiInv, ~env.authDisabled, NEW tok, NEW n, NEW tenant, NEW facility
    PROVE  Covered(tok, Web!AuditLog(tok, n, tenant, facility))
<1> DEFINE g == Web!Gate(tok, Web!VerifyRoute, Web!DefaultScope)
           events == Web!RecentAudit(n, Web!StoreTenantFilter(g.user, tenant), facility)
           shown == {e \in events : Web!CanSee(g.user, e)}
<1>1. Web!AuditLog(tok, n, tenant, facility) =
          IF g.code # 200 THEN Web!Answer(g.code, {})
          ELSE IF ~Web!Narrowed(g.user, tenant, facility) THEN Web!Answer(403, {})
          ELSE Web!Answer(200, shown)
  BY DEF Web!AuditLog
<1>2. ASSUME g.code = 200 PROVE Covered(tok, Web!Answer(200, shown))
  <2>1. g.user = Web!PrincipalOf(tok.claims)
    BY <1>2, CallerIs
  <2>2. DOMAIN audit = 1..Len(audit)
    BY ListIs DEF ApiInv, TrailTypes
  <2>3. \A e \in events : \E i \in 1..Len(audit) : e = audit[i]
    BY <2>2 DEF Web!RecentAudit
  <2> HIDE DEF events, g
  <2>4. \A r \in shown : Web!Row(r) \in Web!Scopes /\ Web!CanSee(Web!PrincipalOf(tok.claims), r)
    BY <2>1, <2>3 DEF ApiInv, TrailTypes
  <2> QED BY <2>4, RowsCovered
<1> QED BY <1>1, <1>2, NothingCovered

LEMMA FleetCovered ==
    ASSUME ~env.authDisabled, NEW tok
    PROVE  Covered(tok, Web!Fleet(tok))
<1> DEFINE g == Web!Gate(tok, Web!Open, Web!DefaultScope)
           rows == {[tenant |-> Web!Catalog[f].tenant, facility |-> f] : f \in Web!FleetOverview(g.user).rows}
<1>1. Web!Fleet(tok) = IF g.code # 200 THEN Web!Answer(g.code, {}) ELSE Web!Answer(200, rows)
  BY DEF Web!Fleet
<1>2. ASSUME g.code = 200 PROVE Covered(tok, Web!Answer(200, rows))
  <2>1. g.user = Web!PrincipalOf(tok.claims)
    BY <1>2, CallerIs
  <2>2. Web!FleetOverview(g.user).rows = Web!ScopedCatalog(g.user)
    BY DEF Web!FleetOverview
  <2>3. ASSUME NEW f \in Web!ScopedCatalog(g.user)
        PROVE  Web!TokenCovers(tok, [tenant |-> Web!Catalog[f].tenant, facility |-> f])
    <3> DEFINE c == tok.claims
               row == [tenant |-> Web!Catalog[f].tenant, facility |-> f]
    <3>1. /\ c.tenant # Web!None /\ Web!Catalog[f].tenant = c.tenant
          /\ (c.realmRoles \cup c.clientRoles) \cap Web!FacilityManagers # {} \/ f \in c.facilityList
      BY <2>1, <2>3 DEF Web!ScopedCatalog, Web!IsVisible, Web!CanManageFacilities, Web!HasAny, Web!PrincipalOf
    <3>2. row.tenant = c.tenant /\ row.facility = f
      BY <3>1
    <3> HIDE DEF row
    <3>3. row.tenant \in Web!Named(c.tenantList, c.tenant)
          /\ (f \in c.facilityList => f \in Web!Named(c.facilityList, c.facility))
      BY <3>1, <3>2 DEF Web!Named
    <3>4. Web!TokenCovers(tok, row)
      BY <3>1, <3>2, <3>3 DEF Web!TokenCovers
    <3> QED BY <3>4 DEF row
  <2>4. \A r \in rows : Web!Row(r) = r /\ Web!TokenCovers(tok, r)
    <3>1. ASSUME NEW r \in rows PROVE Web!Row(r) = r /\ Web!TokenCovers(tok, r)
      <4>1. PICK f \in Web!ScopedCatalog(g.user) : r = [tenant |-> Web!Catalog[f].tenant, facility |-> f]
        BY <2>2, <3>1
      <4> QED BY <2>3, <4>1 DEF Web!Row
    <3> QED BY <3>1
  <2> HIDE DEF rows
  <2>5. ASSUME NEW row \in Web!Answer(200, rows).rows PROVE Web!TokenCovers(tok, row)
    <3>1. PICK r \in rows : row = Web!Row(r)
      BY <2>5, AnswerIs
    <3> QED BY <2>4, <3>1
  <2> QED BY <2>5 DEF Covered
<1> QED BY <1>1, <1>2, NothingCovered

LEMMA InScope == ApiInv => Web!RowsInScope
<1> SUFFICES ASSUME ApiInv, ~env.authDisabled, NEW tok \in env.tokens, NEW a \in ScopeArgs
             PROVE  LET shown == {Web!ListRecommendations(tok, a[1], a[2]), Web!Fleet(tok)}
                                 \cup {Web!GetRecommendation(tok, id) : id \in DOMAIN cards}
                                 \cup {Web!AuditLog(tok, n, a[1], a[2]) : n \in 1..env.bounds.events}
                                 \cup UNION {Web!Read(tok, r, Web!ScopeOf(a[1], a[2])) : r \in Web!ReadRoutes}
                    IN \A answer \in shown : \A row \in answer.rows : Web!TokenCovers(tok, row)
  BY DEF Web!RowsInScope
<1>1. Covered(tok, Web!ListRecommendations(tok, a[1], a[2])) /\ Covered(tok, Web!Fleet(tok))
  BY ListCovered, FleetCovered
<1>2. \A id \in DOMAIN cards : Covered(tok, Web!GetRecommendation(tok, id))
  BY CardCovered
<1>3. \A n : Covered(tok, Web!AuditLog(tok, n, a[1], a[2]))
  BY LogCovered
<1>4. ASSUME NEW r, NEW answer \in Web!Read(tok, r, Web!ScopeOf(a[1], a[2])) PROVE Covered(tok, answer)
  <2>1. PICK c : answer = Web!Answer(c, {})
    BY DEF Web!Read
  <2> QED BY <2>1, NothingCovered
<1>5. ASSUME NEW answer,
             \/ answer \in {Web!ListRecommendations(tok, a[1], a[2]), Web!Fleet(tok)}
             \/ answer \in {Web!GetRecommendation(tok, id) : id \in DOMAIN cards}
             \/ answer \in {Web!AuditLog(tok, n, a[1], a[2]) : n \in 1..env.bounds.events}
             \/ answer \in UNION {Web!Read(tok, r, Web!ScopeOf(a[1], a[2])) : r \in Web!ReadRoutes}
      PROVE  Covered(tok, answer)
  <2>1. CASE answer \in {Web!ListRecommendations(tok, a[1], a[2]), Web!Fleet(tok)}
    BY <1>1, <2>1, Zenon
  <2>2. CASE answer \in {Web!GetRecommendation(tok, id) : id \in DOMAIN cards}
    BY <1>2, <2>2, Zenon
  <2>3. CASE answer \in {Web!AuditLog(tok, n, a[1], a[2]) : n \in 1..env.bounds.events}
    BY <1>3, <2>3, Zenon
  <2>4. CASE answer \in UNION {Web!Read(tok, r, Web!ScopeOf(a[1], a[2])) : r \in Web!ReadRoutes}
    BY <1>4, <2>4, Zenon
  <2> QED BY <1>5, <2>1, <2>2, <2>3, <2>4
<1> QED BY <1>5, Zenon DEF Covered

---------------------------------------------------------------------------
(***************************************************************************)
(* What Services promises as a whole.  The API's part and the audit chain  *)
(* are brought in as the others are, by what a step of Services is for     *)
(* them; the theorems then put the parts together.                         *)
(***************************************************************************)
LEMMA ApiInputs == SomeRequests /\ SomeReads /\ SomeCases
BY SettingsAssumption, ServicesAssumption, InputsAssumption DEF SomeRequests, SomeReads, SomeCases

LEMMA ApiStarts == ServicesInit => ApiInv /\ SignalsInv /\ LoopOnCourse
BY InitApi, InitSignals, InitCourse, ApiInputs DEF ServicesInit

LEMMA ChainStarts == ServicesInit => TypeOK /\ OpenUnscoped
<1> SUFFICES ASSUME Init PROVE TypeOK /\ OpenUnscoped
  BY DEF ServicesInit
<1> QED BY DEF Init, TypeOK, Idle, Genesis, OpenUnscoped

\* A step of Services as the API's requests, the audit chain, the gateway and
\* the RO reference see it.
LEMMA StepOfApi ==
    ASSUME [ServicesNext]_servicevars
    PROVE  [Web!Next]_webvars /\ [Next]_vars /\ [Edge!SignalsNext]_edgevars /\ [RoNext]_rovars
BY DEF ServicesNext, servicevars, appvars, vars, chainvars, ApiStep, AuditStep, JobsStep, TreatmentStep,
       BusStep, TrainingStep, EdgeStep, TwinStep, TrackerStep, RoStep

\* The part that runs is chosen once.
LEMMA FocusStays == /\ ServicesInit => focus \in Focuses
                    /\ focus \in Focuses /\ [ServicesNext]_servicevars => (focus \in Focuses)'
BY DEF ServicesInit, ServicesNext, servicevars, ApiStep, AuditStep, JobsStep, TreatmentStep, BusStep,
       TrainingStep, EdgeStep, TwinStep, TrackerStep, RoStep

\* The variables of the API as Api groups them.
apivars == <<env, Web!stores, usage, month, resetting, caller, logged>>

(* The API (main.py, store.py, auth.py): its requests keep the invariant   *)
(* that ties cards, orders and limits to the audit trail, through a reset  *)
(* of eight steps, and no step changes state without the route's role.     *)
THEOREM RequestsAreSafe ==
    ServicesSpec => []ApiInv /\ Web!ChangesAuthorised
<1>1. ServicesInit => ApiInv
  BY ApiStarts
<1>2. ApiInv /\ [ServicesNext]_servicevars => ApiInv' /\ [Authorised]_apivars
  BY StepOfApi, StepApi, ApiInputs DEF apivars, webvars, Web!stores
<1> QED BY <1>1, <1>2, PTL DEF ServicesSpec, Web!ChangesAuthorised, Authorised, Web!vars, apivars

(* The audit chain (audit.py) in Services: its types hold and a committed  *)
(* event of a tenant is held or queued until it is announced.              *)
THEOREM ChainIsAnnounced ==
    ServicesSpec => [](TypeOK /\ OpenUnscoped) /\ AuditAnnounced
<1>1. ServicesInit => TypeOK /\ OpenUnscoped
  BY ChainStarts
<1>2. (TypeOK /\ OpenUnscoped) /\ [ServicesNext]_servicevars => (TypeOK /\ OpenUnscoped)' /\ [Announces]_vars
  BY StepOfApi, TypeStep, AnnounceStep
<1> QED BY <1>1, <1>2, PTL DEF ServicesSpec, AuditAnnounced, Announces

(* The gateway's signal path (quality.py:77-162, health.py:95-101,         *)
(* collector.py:77-144): for any reads, tag maps, ranges, limits and       *)
(* buffer, a reading is flagged frozen only when its signal has stood      *)
(* still for as many readings as the limit asks, over batches and between  *)
(* other signals, and good only when it has not and the reading moved by   *)
(* more than the deadband; a push never calls a gateway healthy that reads *)
(* the simulated plant for a real one; and a gateway that fell back to it  *)
(* says so from then on.                                                   *)
THEOREM SignalsAreSafe ==
    ServicesSpec => /\ [](Edge!SignalsTypeOK /\ Edge!HealthHonest /\ Edge!FlagsTellHistory)
                    /\ Edge!FallbackStays
<1>1. ServicesInit => SignalsInv
  BY ApiStarts
<1>2. SignalsInv /\ [ServicesNext]_servicevars => SignalsInv' /\ [Stays]_edgevars
  BY StepOfApi, StepSignals, ApiInputs
<1>3. SignalsInv => Edge!SignalsTypeOK /\ Edge!HealthHonest /\ Edge!FlagsTellHistory
  BY SignalsHolds
<1> QED BY <1>1, <1>2, <1>3, PTL
        DEF ServicesSpec, Edge!FallbackStays, Stays, Edge!signalvars, edgevars

(* The RO reference (calculations.py): for any plant data, every recovery  *)
(* that the iteration takes on is a share of at most 95 %, no loop runs    *)
(* past its last round, and what it returns, cut off or not, is what the   *)
(* closed expression of the water-quality model says.                      *)
THEOREM ReferenceIsSolved ==
    ServicesSpec => [](RoTypeOK /\ ReturnsSolved)
<1>1. ServicesInit => LoopOnCourse
  BY ApiStarts
<1>2. LoopOnCourse /\ [ServicesNext]_servicevars => LoopOnCourse'
  BY StepOfApi, StepCourse, ApiInputs
<1>3. LoopOnCourse => RoTypeOK /\ ReturnsSolved
  BY DEF LoopOnCourse
<1> QED BY <1>1, <1>2, <1>3, PTL DEF ServicesSpec


(* Every variable of every part keeps the shape of what the code stores.   *)
THEOREM TypesCorrect == ServicesSpec => []PartsTypeOK
<1>1. ServicesInit => focus \in Focuses
  BY FocusStays
<1>2. focus \in Focuses /\ [ServicesNext]_servicevars => (focus \in Focuses)'
  BY FocusStays
<1>3. ServicesSpec => [](focus \in Focuses)
  BY <1>1, <1>2, PTL DEF ServicesSpec
<1>4. ApiInv => Web!TypeOK
  BY ApiTypes
<1> QED BY <1>3, <1>4, RequestsAreSafe, ChainIsAnnounced, JobsAreSafe, TreatmentsAreSafe,
           BusIsAccounted, TrainingIsSafe, SignalsAreSafe, TwinIsWhole, ReferenceIsSolved, PTL DEF PartsTypeOK

(* Isolation (auth.py, the routers of main.py, cmms): for any tenants,     *)
(* facilities, tokens and settings, a caller is answered no row that its   *)
(* token does not cover.                                                   *)
THEOREM NoRowOutOfScope == ServicesSpec => []RowsInScope
<1>1. ApiInv => RowsInScope
  BY InScope DEF RowsInScope
<1> QED BY <1>1, RequestsAreSafe, PTL

(* The audit trail (audit.py, main.py:1167-1203, 1413-1470): at any point, *)
(* between two steps of a reset too, what became of a card is what the     *)
(* events that the trail still has say.                                    *)
THEOREM TrailIsTrue == ServicesSpec => []TrailExplainsCards
<1>1. ApiInv => TrailExplainsCards
  BY DEF ApiInv, TrailExplainsCards
<1> QED BY <1>1, RequestsAreSafe, PTL

(* Authorisation (auth.py): no step of any part changes a store of the API *)
(* for a caller without the role, feature and credential of its route.     *)
THEOREM NoChangeUnauthorised == ServicesSpec => ChangesAuthorised
BY RequestsAreSafe DEF ChangesAuthorised

(* What is handed out is the result of what was asked for, in the five     *)
(* parts that compute one (hydraulic-sim, treatment-sim, training.py,      *)
(* network_store.py, calculations.py); the decisions of the configuration  *)
(* (deployment.py, config_store.py, compliance.py, updates.py), the        *)
(* maintenance scores (equipment.py, root_cause.py) and the three          *)
(* condition models (app/models) follow what they are given.               *)
THEOREM ResultsAreHonest == ServicesSpec => []ResultsHonest
<1>1. Sim!JobsHonest /\ Treat!SolvedHonestly /\ Drill!RecordsTrue /\ Net!TwinWhole /\ ReturnsSolved => ResultsHonest
  BY GatekeepingHolds, MaintenanceHolds, ConditionModelsHold DEF ResultsHonest
<1> QED BY <1>1, JobsAreSafe, TreatmentsAreSafe, TrainingIsSafe, TwinIsWhole, ReferenceIsSolved, PTL

(* What is counted is what happened (bus.py, quality.py, health.py,        *)
(* false_alarm.py).                                                        *)
THEOREM CountsAreTrue == ServicesSpec => []CountsTrue
<1>1. Bus!BusAccounts /\ Edge!HealthHonest /\ Edge!FlagsTellHistory /\ Quality!TrackerTrue => CountsTrue
  BY DEF CountsTrue
<1> QED BY <1>1, BusIsAccounted, SignalsAreSafe, TrackerIsTrue, PTL

(* No step of any part takes back what was given: a job's end, a fetched   *)
(* status, a training record, the knowledge of a fallback, the promise to  *)
(* announce a committed event.                                             *)
THEOREM NothingIsTakenBack == ServicesSpec => NothingTakenBack
BY JobsAreSafe, TreatmentsAreSafe, TrainingIsSafe, SignalsAreSafe, ChainIsAnnounced, PTL
   DEF NothingTakenBack
=============================================================================
