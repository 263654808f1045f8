--------------------------- MODULE ServiceAnalysis_proofs ---------------------------
(***************************************************************************)
(* Proofs about what the platform decides from its configuration and       *)
(* computes of its equipment, for any input.                               *)
(***************************************************************************)
EXTENDS ServiceAnalysis, SequenceTheorems, FiniteSetTheorems, WellFoundedInduction, TLAPS

---------------------------------------------------------------------------
(* Recursions.                                                             *)
LEMMA FirstOf ==
    ASSUME NEW S \in SUBSET Nat, S # {}
    PROVE  \E first \in S : \A n \in S : first <= n
<1> DEFINE R == OpToRel(<, Nat)
<1>1. IsWellFoundedOn(R, Nat)
  BY NatLessThanWellFounded
<1>2. PICK first \in S : \A n \in S : ~(<<n, first>> \in R)
  <2> HIDE DEF R
  <2> QED BY <1>1, WFMin
<1>3. \A n \in S : ~(n < first)
  BY <1>2 DEF OpToRel
<1> QED BY <1>3

\* A recursion over 0..n whose steps stay in a set: there is such a function.
Recursion(f, base, step, n) == f = [k \in 0..n |-> IF k = 0 THEN base ELSE step[k][f[k - 1]]]
LEMMA RecursionExists ==
    ASSUME NEW V, NEW base \in V, NEW step \in [Nat -> [V -> V]], NEW n \in Nat
    PROVE  \E f \in [0..n -> V] : Recursion(f, base, step, n)
<1> DEFINE Unbuilt == {k \in Nat : ~\E f \in [0..k -> V] : Recursion(f, base, step, k)}
<1>1. SUFFICES ASSUME Unbuilt # {} PROVE FALSE
  OBVIOUS
<1>2. PICK k \in Unbuilt : \A j \in Unbuilt : k <= j
  BY <1>1, FirstOf
<1>3. CASE k = 0
  <2> DEFINE f == [j \in 0..0 |-> base]
  <2>1. f \in [0..0 -> V] /\ Recursion(f, base, step, 0)
    BY DEF Recursion
  <2> QED BY <1>2, <1>3, <2>1
<1>4. CASE k # 0
  <2>1. k - 1 \in Nat /\ k - 1 \notin Unbuilt
    BY <1>2, <1>4
  <2>2. PICK f \in [0..k - 1 -> V] : Recursion(f, base, step, k - 1)
    BY <2>1
  <2> DEFINE g == [j \in 0..k |-> IF j <= k - 1 THEN f[j] ELSE step[k][f[k - 1]]]
             next == [j \in 0..k |-> IF j = 0 THEN base ELSE step[j][g[j - 1]]]
  <2>3. ASSUME NEW j \in 0..k PROVE g[j] = next[j] /\ g[j] \in V
    <3>1. CASE j = 0
      <4>1. g[j] = f[0] /\ f[0] = base
        BY <2>1, <2>2, <3>1 DEF Recursion
      <4> QED BY <3>1, <4>1
    <3>2. CASE j # 0 /\ j <= k - 1
      <4>1. g[j] = f[j] /\ g[j - 1] = f[j - 1] /\ j \in 0..k - 1 /\ f[j] \in V
        BY <3>2
      <4>2. f[j] = step[j][f[j - 1]]
        BY <2>2, <3>2, <4>1 DEF Recursion
      <4> HIDE DEF g
      <4> QED BY <3>2, <4>1, <4>2
    <3>3. CASE j = k
      <4>1. g[j] = step[k][f[k - 1]] /\ g[j - 1] = f[k - 1] /\ f[k - 1] \in V
        BY <1>4, <2>1, <3>3
      <4>2. step[k][f[k - 1]] \in V
        BY <4>1
      <4> HIDE DEF g
      <4> QED BY <1>4, <3>3, <4>1, <4>2
    <3> QED BY <3>1, <3>2, <3>3
  <2>4. g = next /\ g \in [0..k -> V]
    <3>1. g = [j \in 0..k |-> g[j]] /\ next = [j \in 0..k |-> next[j]]
      OBVIOUS
    <3> HIDE DEF g, next
    <3> QED BY <2>3, <3>1
  <2>5. Recursion(g, base, step, k)
    <3> HIDE DEF g
    <3> QED BY <2>4 DEF Recursion
  <2> QED BY <1>2, <2>4, <2>5
<1> QED BY <1>3, <1>4

---------------------------------------------------------------------------
(***************************************************************************)
(* Gatekeeping: what the configuration decides, for every configuration,   *)
(* document, limit and manifest.                                           *)
(***************************************************************************)
(* Whatever the settings say: the diode profile uses no source that the    *)
(* platform dials, the service starts exactly where the resolver has a     *)
(* source to give, and a misspelt profile is as strict as the diode.       *)
THEOREM DiodeIsOneWay ==
    ASSUME NEW Text,
           NEW c \in [profile : Text, historianKind : Text, source : Text,
                      settings : SUBSET Text, broken : SUBSET Text, probes : BOOLEAN]
    PROVE  Gate!OneWay(c)
<1> DEFINE requested == Gate!RequestedSource(c)
<1>1. ~Gate!IsPlatformInitiated("synthetic", c)
  BY DEF Gate!IsPlatformInitiated, Gate!AlwaysInitiated
<1>2. ASSUME NEW r \in Gate!Resolve(c), Gate!GetProfile(c) = "one_way_diode"
      PROVE  ~Gate!IsPlatformInitiated(r.active, c)
  <2>1. \/ r.active = "synthetic"
        \/ r.active = requested /\ requested # "synthetic"
    BY <1>2 DEF Gate!Resolve, Gate!Resolution
  <2>2. requested = "synthetic" \/ Gate!SourceAllowed(requested, c)
    BY <1>2 DEF Gate!Resolve
  <2> HIDE DEF requested
  <2> QED BY <1>1, <1>2, <2>1, <2>2 DEF Gate!SourceAllowed
<1>3. Gate!StartupRefused(c) <=> Gate!Resolve(c) = {}
  <2>1. Gate!Resolve(c) = {} <=> requested # "synthetic" /\ ~Gate!SourceAllowed(requested, c)
    BY DEF Gate!Resolve
  <2>2. requested = "synthetic" => Gate!SourceAllowed(requested, c)
    BY <1>1 DEF Gate!SourceAllowed
  <2>3. ~Gate!SourceAllowed(requested, c) => Gate!GetProfile(c) = "one_way_diode"
    BY DEF Gate!SourceAllowed
  <2> QED BY <2>1, <2>2, <2>3 DEF Gate!StartupRefused
<1>4. ASSUME c.profile \notin Gate!Profiles \cup {""}
      PROVE  Gate!Resolve(c) = Gate!Resolve([c EXCEPT !.profile = "one_way_diode"])
  <2> DEFINE d == [c EXCEPT !.profile = "one_way_diode"]
  <2>1. /\ d.profile = "one_way_diode" /\ d.historianKind = c.historianKind /\ d.source = c.source
        /\ d.settings = c.settings /\ d.broken = c.broken /\ d.probes = c.probes
    OBVIOUS
  <2> HIDE DEF d
  <2>2. Gate!GetProfile(c) = "one_way_diode" /\ Gate!GetProfile(d) = "one_way_diode"
    BY <1>4, <2>1 DEF Gate!GetProfile, Gate!Profiles
  <2>3. Gate!RequestedSource(d) = requested
    BY <2>1 DEF Gate!RequestedSource
  <2>4. /\ Gate!SourceAllowed(requested, d) <=> Gate!SourceAllowed(requested, c)
        /\ Gate!Builds(requested, d) <=> Gate!Builds(requested, c)
    BY <2>1, <2>2 DEF Gate!SourceAllowed, Gate!IsPlatformInitiated, Gate!HistorianAccess, Gate!Builds
  <2>5. Gate!Resolve(d) = Gate!Resolve(c)
    <3> HIDE DEF requested
    <3> QED BY <2>1, <2>3, <2>4 DEF Gate!Resolve, requested
  <2> QED BY <2>5 DEF d
<1> HIDE DEF requested
<1> QED BY <1>2, <1>3, <1>4 DEF Gate!OneWay

-----------------------------------------------------------------------------
\* An override document: items of any value, some of which do not validate.
Document(Text, Value) == Seq([parameter : Text, valid : BOOLEAN, value : Value])

\* What is in force after n items: every parameter has the value of the last
\* of them that names it, or the one it had.
Layer(result, limits, items, n) ==
    /\ DOMAIN result = DOMAIN limits \cup {items[i].parameter : i \in 1..n}
    /\ \A p \in DOMAIN result :
          \/ /\ \A i \in 1..n : items[i].parameter # p
             /\ p \in DOMAIN limits /\ result[p] = limits[p]
          \/ \E last \in 1..n : /\ items[last].parameter = p
                                /\ \A i \in 1..n : items[i].parameter = p => i <= last
                                /\ result[p] = items[last].value

LEMMA LayerGrows ==
    ASSUME NEW before, NEW limits, NEW items, NEW n \in Nat \ {0},
           Layer(before, limits, items, n - 1)
    PROVE  Layer(Gate!SetLimit(before, items[n]), limits, items, n)
<1> DEFINE after == Gate!SetLimit(before, items[n])
           name == items[n].parameter
<1>1. /\ DOMAIN after = DOMAIN before \cup {name}
      /\ after[name] = items[n].value
      /\ \A p \in DOMAIN before : p # name => after[p] = before[p]
  BY DEF Gate!SetLimit
<1>2. 1..n = 1..(n - 1) \cup {n} /\ n \in 1..n /\ \A i \in 1..(n - 1) : i \in 1..n /\ i <= n
  OBVIOUS
<1> HIDE DEF after
<1>3. DOMAIN after = DOMAIN limits \cup {items[i].parameter : i \in 1..n}
  BY <1>1, <1>2 DEF Layer
<1>4. ASSUME NEW p \in DOMAIN after
      PROVE  \/ /\ \A i \in 1..n : items[i].parameter # p
                /\ p \in DOMAIN limits /\ after[p] = limits[p]
             \/ \E last \in 1..n : /\ items[last].parameter = p
                                   /\ \A i \in 1..n : items[i].parameter = p => i <= last
                                   /\ after[p] = items[last].value
  <2>1. CASE p = name
    <3>1. items[n].parameter = p /\ after[p] = items[n].value
      BY <1>1, <2>1
    <3>2. \A i \in 1..n : i <= n
      OBVIOUS
    <3> HIDE DEF name
    <3> QED BY <1>2, <3>1, <3>2
  <2>2. CASE p # name
    <3>1. p \in DOMAIN before /\ after[p] = before[p] /\ items[n].parameter # p
      BY <1>1, <2>2
    <3> HIDE DEF name
    <3>2. CASE /\ \A i \in 1..(n - 1) : items[i].parameter # p
               /\ p \in DOMAIN limits /\ before[p] = limits[p]
      BY <1>2, <3>1, <3>2
    <3>3. CASE \E last \in 1..(n - 1) : /\ items[last].parameter = p
                                        /\ \A i \in 1..(n - 1) : items[i].parameter = p => i <= last
                                        /\ before[p] = items[last].value
      BY <1>2, <3>1, <3>3
    <3> QED BY <3>1, <3>2, <3>3 DEF Layer
  <2> QED BY <2>1, <2>2
<1> HIDE DEF name
<1>5. Layer(after, limits, items, n)
  BY <1>3, <1>4 DEF Layer
<1> QED BY <1>5 DEF after

\* Item after item: for every length there is such a function.
Upserts(f, limits, items, n) ==
    f = [k \in 0..n |-> IF k = 0 THEN limits ELSE Gate!SetLimit(f[k - 1], items[k])]
LEMMA UpsertsExists ==
    ASSUME NEW limits, NEW items, NEW n \in Nat
    PROVE  \E f : Upserts(f, limits, items, n)
<1> DEFINE Unbuilt == {k \in Nat : ~\E f : Upserts(f, limits, items, k)}
<1>1. SUFFICES ASSUME Unbuilt # {} PROVE FALSE
  OBVIOUS
<1>2. PICK k \in Unbuilt : \A j \in Unbuilt : k <= j
  BY <1>1, FirstOf
<1>3. CASE k = 0
  <2> DEFINE f == [j \in 0..0 |-> limits]
  <2>1. Upserts(f, limits, items, 0)
    BY DEF Upserts
  <2> QED BY <1>2, <1>3, <2>1
<1>4. CASE k # 0
  <2>1. k - 1 \in Nat /\ k - 1 \notin Unbuilt
    BY <1>2, <1>4
  <2>2. PICK f : Upserts(f, limits, items, k - 1)
    BY <2>1
  <2> DEFINE g == [j \in 0..k |-> IF j <= k - 1 THEN f[j] ELSE Gate!SetLimit(f[k - 1], items[k])]
             step == [j \in 0..k |-> IF j = 0 THEN limits ELSE Gate!SetLimit(g[j - 1], items[j])]
  <2>3. ASSUME NEW j \in 0..k PROVE g[j] = step[j]
    <3>1. CASE j = 0
      <4>1. g[j] = f[0] /\ f[0] = limits
        BY <2>1, <2>2, <3>1 DEF Upserts
      <4> QED BY <3>1, <4>1
    <3>2. CASE j # 0 /\ j <= k - 1
      <4>1. g[j] = f[j] /\ g[j - 1] = f[j - 1] /\ j \in 0..k - 1
        BY <3>2
      <4>2. f[j] = Gate!SetLimit(f[j - 1], items[j])
        BY <2>2, <3>2, <4>1 DEF Upserts
      <4> HIDE DEF g
      <4> QED BY <3>2, <4>1, <4>2
    <3>3. CASE j = k
      <4>1. g[j] = Gate!SetLimit(f[k - 1], items[k]) /\ g[j - 1] = f[k - 1]
        BY <1>4, <3>3
      <4> HIDE DEF g
      <4> QED BY <1>4, <3>3, <4>1
    <3> QED BY <3>1, <3>2, <3>3
  <2>4. g = step
    <3>1. g = [j \in 0..k |-> g[j]] /\ step = [j \in 0..k |-> step[j]]
      OBVIOUS
    <3> HIDE DEF g, step
    <3> QED BY <2>3, <3>1
  <2>5. Upserts(g, limits, items, k)
    <3> HIDE DEF g
    <3> QED BY <2>4 DEF Upserts
  <2> QED BY <1>2, <2>5
<1> QED BY <1>3, <1>4

LEMMA UpsertIs ==
    ASSUME NEW limits, NEW items, Len(items) \in Nat
    PROVE  \A n \in 0..Len(items) : Layer(Gate!Upserted(limits, items)[n], limits, items, n)
<1> DEFINE u == Gate!Upserted(limits, items)
<1>1. PICK f : Upserts(f, limits, items, Len(items))
  BY UpsertsExists
<1>2. Upserts(u, limits, items, Len(items))
  BY <1>1, Zenon DEF Upserts, Gate!Upserted
<1> HIDE DEF u
<1>3. u[0] = limits /\ \A n \in 1..Len(items) : u[n] = Gate!SetLimit(u[n - 1], items[n])
  BY <1>2 DEF Upserts
<1> DEFINE Wrong == {n \in Nat : n <= Len(items) /\ ~Layer(u[n], limits, items, n)}
<1>4. SUFFICES ASSUME Wrong # {} PROVE FALSE
  BY DEF u
<1>5. PICK n \in Wrong : \A j \in Wrong : n <= j
  BY <1>4, FirstOf
<1>6. CASE n = 0
  BY <1>3, <1>5, <1>6 DEF Layer
<1>7. CASE n # 0
  <2>1. n - 1 \in Nat /\ n - 1 \notin Wrong /\ n - 1 <= Len(items) /\ n \in 1..Len(items)
    BY <1>5, <1>7
  <2>2. Layer(u[n - 1], limits, items, n - 1) /\ u[n] = Gate!SetLimit(u[n - 1], items[n])
    BY <1>3, <2>1
  <2>3. Layer(u[n], limits, items, n)
    BY <1>7, <2>2, LayerGrows
  <2> QED BY <1>5, <2>3
<1> QED BY <1>6, <1>7

\* A document is applied up to its first item that does not validate.
LEMMA ValidItemsAre ==
    ASSUME NEW Text, NEW Value, NEW items \in Document(Text, Value)
    PROVE  Gate!ValidItems(items) \in Document(Text, Value)
<1> DEFINE bad == {i \in DOMAIN items : ~items[i].valid}
           first == Gate!Min(bad)
<1>1. CASE bad = {}
  BY <1>1 DEF Gate!ValidItems
<1>2. CASE bad # {}
  <2>1. bad \in SUBSET Nat
    BY DEF Document
  <2>2. \E x \in bad : \A y \in bad : x <= y
    <3> HIDE DEF bad
    <3> QED BY <1>2, <2>1, FirstOf
  <2>3. first \in bad
    BY <2>2 DEF Gate!Min
  <2>4. first \in 1..Len(items) /\ first \in Nat
    BY <2>3 DEF Document
  <2>5. Gate!ValidItems(items) = SubSeq(items, 1, first - 1)
    BY <1>2 DEF Gate!ValidItems
  <2> DEFINE Item == [parameter : Text, valid : BOOLEAN, value : Value]
  <2>6. items \in Seq(Item)
    BY DEF Document
  <2> HIDE DEF first, Item
  <2>7. first - 1 \in Int /\ 1 <= first /\ first - 1 <= Len(items) /\ Len(items) \in Nat
    BY <2>4, <2>6
  <2>8. SubSeq(items, 1, first - 1) \in Seq(Item)
    BY <2>6, <2>7
  <2> QED BY <2>5, <2>8 DEF Document, Item
<1> QED BY <1>1, <1>2

LEMMA UpsertLayers ==
    ASSUME NEW Text, NEW Value, NEW items \in Document(Text, Value), NEW limits
    PROVE  Layer(Gate!Upsert(limits, items), limits, Gate!ValidItems(items), Len(Gate!ValidItems(items)))
<1> DEFINE valid == Gate!ValidItems(items)
<1>1. Len(valid) \in Nat
  BY ValidItemsAre DEF Document
<1>2. Gate!Upsert(limits, items) = Gate!Upserted(limits, valid)[Len(valid)]
  BY DEF Gate!Upsert
<1> HIDE DEF valid
<1> QED BY <1>1, <1>2, UpsertIs DEF valid

(* Whatever two override documents say, in items of any value, valid or    *)
(* not: no default is dropped, a document that breaks off leaves what it   *)
(* had set, and the inline document has the last word.                     *)
THEOREM LimitsAreLayered ==
    ASSUME NEW Text, NEW Value, NEW document \in Document(Text, Value), NEW inline \in Document(Text, Value)
    PROVE  Gate!Layered(document, inline)
<1> DEFINE f == Gate!ValidItems(document)
           g == Gate!ValidItems(inline)
           said == f \o g
           base == Gate!DefaultLimits
           middle == Gate!Upsert(base, document)
           limits == Gate!ApplyEnv(base, document, inline)
           Names(p) == {i \in DOMAIN said : said[i].parameter = p}
<1>1. f \in Document(Text, Value) /\ g \in Document(Text, Value)
  BY ValidItemsAre
<1>2. Layer(middle, base, f, Len(f)) /\ Layer(limits, middle, g, Len(g))
  BY UpsertLayers DEF Gate!ApplyEnv
<1> HIDE DEF f, g, base, middle, limits
<1>3. /\ Len(f) \in Nat /\ Len(g) \in Nat /\ DOMAIN said = 1..(Len(f) + Len(g))
      /\ \A i \in 1..Len(f) : i \in DOMAIN said /\ said[i] = f[i]
      /\ \A i \in 1..Len(g) : Len(f) + i \in DOMAIN said /\ said[Len(f) + i] = g[i]
      /\ \A i \in DOMAIN said : \/ i \in 1..Len(f)
                                \/ i - Len(f) \in 1..Len(g) /\ i = Len(f) + (i - Len(f))
  <2> DEFINE Item == [parameter : Text, valid : BOOLEAN, value : Value]
  <2>1. f \in Seq(Item) /\ g \in Seq(Item)
    BY <1>1 DEF Document
  <2> HIDE DEF Item
  <2>2. Len(f) \in Nat /\ Len(g) \in Nat /\ Len(said) = Len(f) + Len(g)
    BY <2>1
  <2>3. DOMAIN said = 1..(Len(f) + Len(g))
    BY <2>1, <2>2
  <2>4. \A i \in 1..(Len(f) + Len(g)) : said[i] = IF i <= Len(f) THEN f[i] ELSE g[i - Len(f)]
    BY <2>1, <2>2
  <2> HIDE DEF said
  <2>5. \A i \in 1..Len(f) : i \in DOMAIN said /\ said[i] = f[i]
    BY <2>2, <2>3, <2>4
  <2>6. \A i \in 1..Len(g) : Len(f) + i \in DOMAIN said /\ said[Len(f) + i] = g[i]
    BY <2>2, <2>3, <2>4
  <2>7. \A i \in DOMAIN said : \/ i \in 1..Len(f)
                               \/ i - Len(f) \in 1..Len(g) /\ i = Len(f) + (i - Len(f))
    BY <2>2, <2>3
  <2> QED BY <2>2, <2>3, <2>5, <2>6, <2>7
<1> HIDE DEF said
<1>4. DOMAIN limits = DOMAIN base \cup {said[i].parameter : i \in DOMAIN said}
  <2>1. DOMAIN limits = (DOMAIN base \cup {f[i].parameter : i \in 1..Len(f)}) \cup {g[i].parameter : i \in 1..Len(g)}
    BY <1>2 DEF Layer
  <2>2. ASSUME NEW i \in DOMAIN said
        PROVE  \/ \E k \in 1..Len(f) : said[i].parameter = f[k].parameter
               \/ \E k \in 1..Len(g) : said[i].parameter = g[k].parameter
    <3>1. CASE i \in 1..Len(f)
      BY <1>3, <3>1
    <3>2. CASE i - Len(f) \in 1..Len(g) /\ i = Len(f) + (i - Len(f))
      <4>1. PICK k \in 1..Len(g) : i = Len(f) + k
        BY <3>2
      <4> QED BY <1>3, <4>1
    <3> QED BY <1>3, <3>1, <3>2
  <2>3. /\ \A k \in 1..Len(f) : \E i \in DOMAIN said : said[i].parameter = f[k].parameter
        /\ \A k \in 1..Len(g) : \E i \in DOMAIN said : said[i].parameter = g[k].parameter
    BY <1>3
  <2> QED BY <2>1, <2>2, <2>3
<1>5. ASSUME NEW p \in DOMAIN limits
      PROVE  \/ Names(p) = {} /\ limits[p] = base[p]
             \/ \E last \in Names(p) : (\A i \in Names(p) : i <= last) /\ limits[p] = said[last].value
  <2>1. CASE \E last \in 1..Len(g) : /\ g[last].parameter = p
                                     /\ \A i \in 1..Len(g) : g[i].parameter = p => i <= last
                                     /\ limits[p] = g[last].value
    <3>1. PICK last \in 1..Len(g) : /\ g[last].parameter = p
                                    /\ \A i \in 1..Len(g) : g[i].parameter = p => i <= last
                                    /\ limits[p] = g[last].value
      BY <2>1
    <3>2. Len(f) + last \in Names(p) /\ limits[p] = said[Len(f) + last].value
      BY <1>3, <3>1
    <3>3. ASSUME NEW i \in Names(p) PROVE i <= Len(f) + last
      <4>1. CASE i \in 1..Len(f)
        BY <1>3, <3>1, <4>1
      <4>2. CASE i - Len(f) \in 1..Len(g) /\ i = Len(f) + (i - Len(f))
        <5>1. PICK k \in 1..Len(g) : i = Len(f) + k
          BY <4>2
        <5>2. g[k].parameter = p
          BY <1>3, <5>1
        <5>3. k <= last
          BY <3>1, <5>2
        <5> QED BY <1>3, <5>1, <5>3
      <4> QED BY <1>3, <4>1, <4>2
    <3> QED BY <3>2, <3>3
  <2>2. CASE /\ \A i \in 1..Len(g) : g[i].parameter # p
             /\ p \in DOMAIN middle /\ limits[p] = middle[p]
    <3>1. CASE \E last \in 1..Len(f) : /\ f[last].parameter = p
                                       /\ \A i \in 1..Len(f) : f[i].parameter = p => i <= last
                                       /\ middle[p] = f[last].value
      <4>1. PICK last \in 1..Len(f) : /\ f[last].parameter = p
                                      /\ \A i \in 1..Len(f) : f[i].parameter = p => i <= last
                                      /\ middle[p] = f[last].value
        BY <3>1
      <4>2. last \in Names(p) /\ limits[p] = said[last].value
        BY <1>3, <2>2, <4>1
      <4>3. ASSUME NEW i \in Names(p) PROVE i <= last
        <5>1. ASSUME i - Len(f) \in 1..Len(g), i = Len(f) + (i - Len(f)) PROVE FALSE
          <6>1. PICK k \in 1..Len(g) : i = Len(f) + k
            BY <5>1
          <6> QED BY <1>3, <2>2, <6>1
        <5>2. i \in 1..Len(f) /\ f[i].parameter = p
          BY <1>3, <5>1
        <5> QED BY <4>1, <5>2
      <4> QED BY <4>2, <4>3
    <3>2. CASE (\A i \in 1..Len(f) : f[i].parameter # p) /\ middle[p] = base[p]
      <4>1. ASSUME NEW i \in Names(p) PROVE FALSE
        <5>1. CASE i \in 1..Len(f)
          BY <1>3, <3>2, <5>1
        <5>2. CASE i - Len(f) \in 1..Len(g) /\ i = Len(f) + (i - Len(f))
          <6>1. PICK k \in 1..Len(g) : i = Len(f) + k
            BY <5>2
          <6> QED BY <1>3, <2>2, <6>1
        <5> QED BY <1>3, <5>1, <5>2
      <4> QED BY <2>2, <3>2, <4>1
    <3> QED BY <1>2, <2>2, <3>1, <3>2 DEF Layer
  <2> QED BY <1>2, <2>1, <2>2 DEF Layer
<1>6. \A p \in DOMAIN limits : p \notin DOMAIN Gate!RemoveLimit(limits, p)
  BY DEF Gate!RemoveLimit
<1> QED BY <1>4, <1>5, <1>6 DEF Gate!Layered, limits, said, f, g, base

-----------------------------------------------------------------------------
\* Half a hundredth of a per cent is not lost in rounding.
LEMMA RoundedUp ==
    ASSUME NEW num \in Nat, NEW den \in Nat \ {0}, 2 * num > den
    PROVE  Gate!Rounded2(num, den) > 0
<1> DEFINE q == num \div den  r == num % den
<1>1. q \in Nat /\ r \in 0..(den - 1) /\ num = den * q + r
  OBVIOUS
<1>2. CASE q = 0
  <2>1. 2 * r > den
    BY <1>1, <1>2
  <2> HIDE DEF q, r
  <2>2. Gate!Rounded2(num, den) = q + 1
    BY <2>1 DEF Gate!Rounded2, q, r
  <2> QED BY <1>1, <2>2
<1>3. CASE q # 0
  <2> HIDE DEF q, r
  <2>1. Gate!Rounded2(num, den) \in {q, q + 1}
    BY DEF Gate!Rounded2, q, r
  <2> QED BY <1>1, <1>3, <2>1
<1> QED BY <1>2, <1>3

(* For every limit and every measured value: the water is compliant exactly*)
(* when the limit is off, not of this stage, or holds; only a broken one   *)
(* shows an excess, and it does unless the limit is zero or the excess is  *)
(* lost in rounding.                                                       *)
THEOREM VerdictsAreTrue ==
    ASSUME NEW Text,
           NEW l \in [bound : {"max", "min"}, limit : Int, stage : Text, enabled : BOOLEAN],
           NEW v \in Int
    PROVE  Gate!VerdictTrue(l, v)
<1> DEFINE limits == [p \in {"x"} |-> l]
           measured == [k \in {<<"finished", "x">>} |-> v]
           e == Gate!Evaluate(limits, measured)
           broken == (l.bound = "max" /\ v > l.limit) \/ (l.bound = "min" /\ v < l.limit)
<1>1. l.bound \in {"max", "min"} /\ l.limit \in Int /\ l.enabled \in BOOLEAN
  OBVIOUS
<1>2. Gate!Within(l, v) <=> ~broken
  BY <1>1 DEF Gate!Within
<1>3. Gate!Screened(limits, measured) = IF l.enabled /\ l.stage = "finished" THEN {"x"} ELSE {}
  BY DEF Gate!Screened
<1>4. /\ e.checks = [p \in Gate!Screened(limits, measured) |-> Gate!Check(limits[p], measured[<<limits[p].stage, p>>])]
      /\ e.compliant <=> \A p \in DOMAIN e.checks : e.checks[p].within
  BY DEF Gate!Evaluate
<1>5. \A p \in DOMAIN e.checks : p = "x" /\ l.stage = "finished" /\ e.checks[p] = Gate!Check(l, v)
  BY <1>3, <1>4
<1>6. DOMAIN e.checks = IF l.enabled /\ l.stage = "finished" THEN {"x"} ELSE {}
  BY <1>3, <1>4
<1> HIDE DEF e, limits, measured
<1>7. /\ Gate!Check(l, v).within <=> ~broken
      /\ Gate!Check(l, v).pct = IF broken THEN Gate!ExceedancePct(l, v) ELSE 0
  BY <1>2 DEF Gate!Check
<1>8. ASSUME broken, l.limit # 0, Gate!Magnitude(v - l.limit) * 20000 > Gate!Magnitude(l.limit)
      PROVE  Gate!ExceedancePct(l, v) > 0
  <2> DEFINE breach == IF l.bound = "max" THEN v - l.limit ELSE l.limit - v
             den == Gate!Magnitude(l.limit)
  <2>1. breach \in Nat \ {0} /\ breach = Gate!Magnitude(v - l.limit)
    BY <1>1, <1>8 DEF Gate!Magnitude
  <2>2. den \in Nat \ {0}
    BY <1>1, <1>8 DEF Gate!Magnitude
  <2>3. Gate!ExceedancePct(l, v) = Gate!Rounded2(breach * 10000, den)
    BY <1>1, <1>8, <2>1 DEF Gate!ExceedancePct
  <2>4. breach * 20000 > den
    BY <1>8, <2>1
  <2> HIDE DEF breach, den
  <2>5. breach * 10000 \in Nat /\ 2 * (breach * 10000) > den
    BY <2>1, <2>2, <2>4
  <2> QED BY <2>2, <2>3, <2>5, RoundedUp
<1>9. e.compliant <=> ~(l.enabled /\ l.stage = "finished" /\ broken)
  <2>1. CASE l.enabled /\ l.stage = "finished"
    <3>1. DOMAIN e.checks = {"x"} /\ e.checks["x"] = Gate!Check(l, v)
      BY <1>5, <1>6, <2>1
    <3>2. e.compliant <=> \A p \in {"x"} : e.checks[p].within
      BY <1>4, <3>1
    <3>3. (\A p \in {"x"} : e.checks[p].within) <=> e.checks["x"].within
      OBVIOUS
    <3> QED BY <1>7, <2>1, <3>1, <3>2, <3>3
  <2>2. CASE ~(l.enabled /\ l.stage = "finished")
    BY <1>4, <1>6, <2>2
  <2> QED BY <2>1, <2>2
<1>10. ASSUME NEW p \in DOMAIN e.checks
       PROVE  /\ e.checks[p].pct > 0 => broken
              /\ broken /\ l.limit # 0 /\ Gate!Magnitude(v - l.limit) * 20000 > Gate!Magnitude(l.limit)
                    => e.checks[p].pct > 0
  <2>1. e.checks[p].pct = IF broken THEN Gate!ExceedancePct(l, v) ELSE 0
    BY <1>5, <1>7
  <2> HIDE DEF broken
  <2> QED BY <1>8, <2>1
<1> QED BY <1>9, <1>10 DEF Gate!VerdictTrue, e, limits, measured

(* Whatever keys are configured and sent: a manifest passes only with a    *)
(* signature made over it by the key in force.                             *)
THEOREM OnlySignedPasses ==
    ASSUME NEW Text, NEW m, NEW s \in [hex : BOOLEAN, by : Text, of : Text],
           NEW requestPem \in [usable : BOOLEAN, name : Text],
           NEW pem \in [usable : BOOLEAN, name : Text],
           NEW hex \in [usable : BOOLEAN, name : Text]
    PROVE  Gate!OnlySigned(m, s, requestPem, pem, hex)
<1> DEFINE chosen == IF requestPem # Gate!NoKey THEN requestPem ELSE pem
           key == Gate!LoadKey(chosen, hex)
           result == Gate!VerifyManifest(m, s, requestPem, pem, hex)
<1>1. /\ ~result.applied /\ result.key = key.name
      /\ result.verified => key # Gate!NoKey /\ s.hex /\ s.by = key.name /\ s.of = m
  BY DEF Gate!VerifyManifest
<1>2. key # Gate!NoKey /\ chosen # Gate!NoKey => key = chosen /\ chosen.usable
  BY DEF Gate!LoadKey
<1>3. /\ requestPem # Gate!NoKey => chosen = requestPem
      /\ requestPem = Gate!NoKey => chosen = pem
  OBVIOUS
<1> HIDE DEF result, key, chosen
<1>4. /\ result.verified /\ requestPem # Gate!NoKey => requestPem.usable /\ s.by = requestPem.name
      /\ result.verified /\ requestPem = Gate!NoKey /\ pem # Gate!NoKey => pem.usable /\ s.by = pem.name
  BY <1>1, <1>2, <1>3
<1> QED BY <1>1, <1>4 DEF Gate!OnlySigned, result

LEMMA GatekeepingHolds == Gate!GatekeepingSound
<1>1. ASSUME NEW c \in Gate!SampleConfigs PROVE Gate!OneWay(c)
  <2> DEFINE Text == {"", "standard", "one_way_diode", "diode", "csv", "rest", "sql"}
                       \cup Gate!Sources \cup Gate!AllSettings
  <2>1. c \in [profile : Text, historianKind : Text, source : Text,
               settings : SUBSET Text, broken : SUBSET Text, probes : BOOLEAN]
    <3>1. {"registers"} \subseteq Text /\ {"access"} \subseteq Text
      BY DEF Gate!AllSettings
    <3>2. /\ {"", "standard", "one_way_diode", "diode"} \subseteq Text
          /\ {"", "csv", "rest", "sql"} \subseteq Text
          /\ Gate!Sources \subseteq Text /\ Gate!AllSettings \subseteq Text
      OBVIOUS
    <3> HIDE DEF Text
    <3> QED BY <3>1, <3>2 DEF Gate!SampleConfigs
  <2> QED BY <2>1, DiodeIsOneWay
<1>2. ASSUME NEW document \in Gate!SampleDocuments(2), NEW inline \in Gate!SampleDocuments(1)
      PROVE  Gate!Layered(document, inline)
  <2> DEFINE Text == {"turbidity_ntu", "iron_mg_l"}
             Value == [bound : {"max"}, limit : {0, 10000}, stage : {"finished"}, enabled : BOOLEAN]
             Item == [parameter : Text, valid : BOOLEAN, value : Value]
  <2>1. ASSUME NEW i \in Gate!SampleItems PROVE i \in Item
    <3>1. \A l \in {0, 10000}, e \in BOOLEAN :
              [bound |-> "max", limit |-> l, stage |-> "finished", enabled |-> e] \in Value
      OBVIOUS
    <3> HIDE DEF Value
    <3> QED BY <3>1 DEF Gate!SampleItems
  <2> HIDE DEF Value, Item, Text
  <2>2. ASSUME NEW n \in Nat, NEW d \in Gate!SampleDocuments(n) PROVE d \in Seq(Item)
    <3>1. PICK k \in 0..n : d \in [1..k -> Gate!SampleItems]
      BY <2>2 DEF Gate!SampleDocuments
    <3>2. k \in Nat /\ d \in [1..k -> Item]
      BY <2>1, <3>1
    <3> QED BY <3>2
  <2>3. document \in Seq(Item) /\ inline \in Seq(Item)
    BY <2>2
  <2>4. document \in Document(Text, Value) /\ inline \in Document(Text, Value)
    BY <2>3 DEF Document, Item
  <2> QED BY <2>4, LimitsAreLayered
<1>3. ASSUME NEW l \in Gate!SampleLimits, NEW v \in Gate!SampleValues PROVE Gate!VerdictTrue(l, v)
  <2> DEFINE Text == {"finished", "ro_feed"}
  <2>1. l \in [bound : {"max", "min"}, limit : Int, stage : Text, enabled : BOOLEAN]
    BY DEF Gate!SampleLimits
  <2>2. v \in Int
    BY DEF Gate!SampleValues
  <2> QED BY <2>1, <2>2, VerdictsAreTrue
<1>4. ASSUME NEW requestPem \in Gate!Keys, NEW pem \in Gate!Keys, NEW hex \in Gate!Keys,
             NEW s \in Gate!Signatures, NEW m \in {"m1", "m2"}
      PROVE  Gate!OnlySigned(m, s, requestPem, pem, hex)
  <2> DEFINE Text == {"none", "release", "other", "m1", "m2"}
  <2>1. \A k \in Gate!Keys : k \in [usable : BOOLEAN, name : Text]
    <3>1. Gate!NoKey \in [usable : BOOLEAN, name : Text]
      BY DEF Gate!NoKey
    <3>2. \A k \in [usable : BOOLEAN, name : {"release", "other"}] : k \in [usable : BOOLEAN, name : Text]
      OBVIOUS
    <3> QED BY <3>1, <3>2 DEF Gate!Keys
  <2>2. s \in [hex : BOOLEAN, by : Text, of : Text]
    BY DEF Gate!Signatures
  <2> QED BY <2>1, <2>2, OnlySignedPasses
<1> QED BY <1>1, <1>2, <1>3, <1>4 DEF Gate!GatekeepingSound

-----------------------------------------------------------------------------
(* Maintenance: sums and quotients, and then what equipment.py and         *)
(* root_cause.py promise for every telemetry, asset, history and symptom.   *)

(* Sums of whole numbers.                                                  *)
Summable(s) == Len(s) \in Nat /\ \A i \in 1..Len(s) : s[i] \in Int
LEMMA TotalsAre ==
    ASSUME NEW s, Summable(s)
    PROVE  /\ Condition!Totals(s)[0] = 0
           /\ \A n \in 1..Len(s) : Condition!Totals(s)[n] = Condition!Totals(s)[n - 1] + s[n]
           /\ \A n \in 0..Len(s) : Condition!Totals(s)[n] \in Int
<1> DEFINE sum == Condition!Totals(s)
           step == [k \in Nat |-> [x \in Int |-> x + (IF k \in 1..Len(s) THEN s[k] ELSE 0)]]
<1>1. step \in [Nat -> [Int -> Int]]
  BY DEF Summable
<1>2. PICK f \in [0..Len(s) -> Int] : Recursion(f, 0, step, Len(s))
  <2>1. Len(s) \in Nat /\ 0 \in Int
    BY DEF Summable
  <2> HIDE DEF step
  <2> QED BY <1>1, <2>1, RecursionExists
<1>3. f = [n \in 0..Len(s) |-> IF n = 0 THEN 0 ELSE f[n - 1] + s[n]]
  <2> DEFINE h == [n \in 0..Len(s) |-> IF n = 0 THEN 0 ELSE f[n - 1] + s[n]]
  <2>1. ASSUME NEW n \in 0..Len(s) PROVE f[n] = h[n]
    <3>1. f[n] = IF n = 0 THEN 0 ELSE step[n][f[n - 1]]
      <4> HIDE DEF step
      <4> QED BY <1>2 DEF Recursion
    <3>2. n # 0 => n - 1 \in 0..Len(s) /\ f[n - 1] \in Int /\ n \in 1..Len(s) /\ n \in Nat
      BY DEF Summable
    <3>3. n # 0 => step[n][f[n - 1]] = f[n - 1] + s[n]
      BY <3>2
    <3> QED BY <3>1, <3>3
  <2> HIDE DEF h
  <2>2. h = [n \in 0..Len(s) |-> h[n]]
    BY DEF h
  <2>3. f = h
    BY <2>1, <2>2
  <2> QED BY <2>3 DEF h
<1>4. sum = [n \in 0..Len(s) |-> IF n = 0 THEN 0 ELSE sum[n - 1] + s[n]]
  <2> HIDE DEF step
  <2> QED BY <1>3, Zenon DEF Condition!Totals
<1> HIDE DEF sum, step
<1>5. /\ sum[0] = 0
      /\ \A n \in 1..Len(s) : sum[n] = sum[n - 1] + s[n]
  BY <1>4 DEF Summable
<1>6. \A n \in 0..Len(s) : sum[n] \in Int
  <2> DEFINE Bad == {n \in Nat : n <= Len(s) /\ sum[n] \notin Int}
  <2>1. SUFFICES ASSUME Bad # {} PROVE FALSE
    BY DEF Summable
  <2>2. PICK n \in Bad : \A j \in Bad : n <= j
    BY <2>1, FirstOf
  <2>3. CASE n = 0
    BY <1>5, <2>2, <2>3
  <2>4. CASE n # 0
    <3>1. n - 1 \in Nat /\ n - 1 \notin Bad /\ n - 1 <= Len(s) /\ n \in 1..Len(s)
      BY <2>2, <2>4 DEF Summable
    <3>2. sum[n - 1] \in Int /\ s[n] \in Int
      BY <3>1 DEF Summable
    <3> QED BY <1>5, <2>2, <3>1, <3>2
  <2> QED BY <2>3, <2>4
<1> QED BY <1>5, <1>6 DEF sum

LEMMA TotalGrows ==
    ASSUME NEW s, NEW t, Summable(s), Summable(t), Len(s) = Len(t),
           \A i \in 1..Len(s) : s[i] <= t[i]
    PROVE  Condition!Total(s) \in Int /\ Condition!Total(t) \in Int /\ Condition!Total(s) <= Condition!Total(t)
<1> DEFINE a == Condition!Totals(s)
           b == Condition!Totals(t)
           Bad == {n \in Nat : n <= Len(s) /\ ~(a[n] <= b[n])}
<1>1. /\ a[0] = 0 /\ b[0] = 0
      /\ \A n \in 1..Len(s) : a[n] = a[n - 1] + s[n] /\ b[n] = b[n - 1] + t[n]
      /\ \A n \in 0..Len(s) : a[n] \in Int /\ b[n] \in Int
  BY TotalsAre
<1> HIDE DEF a, b
<1>2. ASSUME Bad # {} PROVE FALSE
  <2>1. PICK n \in Bad : \A j \in Bad : n <= j
    BY <1>2, FirstOf
  <2>2. CASE n = 0
    BY <1>1, <2>1, <2>2
  <2>3. CASE n # 0
    <3>1. n - 1 \in Nat /\ n - 1 \notin Bad /\ n - 1 <= Len(s) /\ n \in 1..Len(s) /\ n - 1 \in 0..Len(s) /\ n \in 0..Len(s)
      BY <2>1, <2>3 DEF Summable
    <3>2. a[n - 1] <= b[n - 1] /\ s[n] <= t[n]
      BY <3>1
    <3>3. a[n] = a[n - 1] + s[n] /\ b[n] = b[n - 1] + t[n]
      BY <1>1, <3>1
    <3>4. {a[n - 1], b[n - 1], s[n], t[n]} \subseteq Int
      BY <1>1, <3>1 DEF Summable
    <3> HIDE DEF Bad
    <3>5. a[n] <= b[n]
      BY <3>2, <3>3, <3>4
    <3> QED BY <2>1, <3>5 DEF Bad
  <2> QED BY <2>2, <2>3
<1>3. Len(s) \in Nat /\ Len(s) \in 0..Len(s)
  BY DEF Summable
<1>4. a[Len(s)] <= b[Len(s)]
  BY <1>2, <1>3
<1> QED BY <1>1, <1>3, <1>4 DEF Condition!Total, a, b

(* Quotients of whole numbers.                                             *)
LEMMA QuotientIs ==
    ASSUME NEW a \in Int, NEW b \in Int, b > 0
    PROVE  a \div b \in Int /\ (a \div b) * b <= a /\ a < (a \div b) * b + b /\ (a >= 0 => a \div b >= 0)
  OBVIOUS

LEMMA QuotientGrows ==
    ASSUME NEW a \in Int, NEW b \in Int, NEW c \in Int, NEW d \in Int, b > 0, d > 0, a * d <= c * b
    PROVE  a \div b <= c \div d
  OBVIOUS

LEMMA QuotientLess ==
    ASSUME NEW a \in Int, NEW b \in Int, NEW d \in Int, d > 0, a <= b
    PROVE  a \div d <= b \div d
  OBVIOUS

LEMMA ProductGrows ==
    ASSUME NEW a \in Nat, NEW b \in Nat, NEW c \in Nat, NEW d \in Nat, a <= b, c <= d
    PROVE  a * c \in Nat /\ b * d \in Nat /\ a * c <= b * d
<1>1. a * c \in Nat /\ b * d \in Nat
  OBVIOUS
<1>2. a * c <= b * c
  OBVIOUS
<1>3. b * c <= b * d
  OBVIOUS
<1>4. b * c \in Nat
  OBVIOUS
<1> QED BY <1>1, <1>2, <1>3, <1>4

LEMMA WithinIs ==
    ASSUME NEW v \in Int, NEW low \in Int, NEW high \in Int, low <= high
    PROVE  /\ Condition!Within(v, low, high) \in low..high
           /\ Condition!Within(v, low, high) = IF v < low THEN low ELSE IF v > high THEN high ELSE v
<1>1. Condition!Min({high, v}) = IF v > high THEN high ELSE v
  BY DEF Condition!Min
<1>2. ASSUME NEW m \in Int PROVE Condition!Max({low, m}) = IF m < low THEN low ELSE m
  BY DEF Condition!Max
<1> QED BY <1>1, <1>2 DEF Condition!Within

-----------------------------------------------------------------------------
(* Component health.                                                       *)
Numbers(f) == \A k \in DOMAIN f : f[k] \in Int
IsTelemetry(t) == Numbers(t.value) /\ Numbers(t.limit)
LEMMA AtIs ==
    ASSUME NEW f, Numbers(f), NEW k, NEW d \in Int
    PROVE  Condition!At(f, k, d) \in Int
  BY DEF Condition!At, Numbers

LEMMA ReadingIs ==
    ASSUME NEW t, IsTelemetry(t), NEW metric
    PROVE  Condition!Reading(t, metric) \in Int
<1>1. Condition!EfficiencyDrop(t) \in Int
  <2>1. Condition!At(t.value, "transfer_efficiency", 0) \in Int /\ Condition!At(t.limit, "transfer_efficiency", 960) \in Int
    BY AtIs DEF IsTelemetry
  <2> QED BY <2>1 DEF Condition!EfficiencyDrop
<1>2. Condition!NormalizedDp(t) \in Int
  <2>1. Condition!At(t.value, "clean_dp", 3) \in Int /\ Condition!At(t.value, "dp", 0) \in Int
    BY AtIs DEF IsTelemetry
  <2>2. "normalized_dp" \in DOMAIN t.value => t.value["normalized_dp"] \in Int
    BY DEF IsTelemetry, Numbers
  <2> DEFINE clean == Condition!At(t.value, "clean_dp", 3)
             dp == Condition!At(t.value, "dp", 0)
  <2>3. clean > 0 => (10 * dp) \div clean \in Int
    BY <2>1
  <2> QED BY <2>2, <2>3 DEF Condition!NormalizedDp
<1>3. Condition!At(t.value, metric, 0) \in Int
  BY AtIs DEF IsTelemetry
<1> QED BY <1>1, <1>2, <1>3 DEF Condition!Reading

MetricNames == {"current_imbalance", "voltage_imbalance", "winding_temp", "vibration", "bearing_temp", "seal_leakage",
                "vfd_fault_count", "thd", "dp_rise", "position_error", "travel_deviation", "efficiency_drop", "efficiency_drift"}
Penalty == [kind : {"rise", "excess"}, metric : MetricNames, limit : Nat, rate : Nat, cap : Nat]
LEMMA RiseIs ==
    ASSUME NEW metric \in MetricNames, NEW limit \in Nat, NEW rate \in Nat, NEW cap \in Nat
    PROVE  Condition!Rise(metric, rate, cap) \in Penalty /\ Condition!Excess(metric, limit, rate, cap) \in Penalty
  BY DEF Penalty, Condition!Rise, Condition!Excess

LEMMA PenaltiesAre ==
    \A type \in DOMAIN Condition!Penalties : Condition!Penalties[type] \in Seq(Penalty)
<1>1. \A m \in MetricNames : \A limit, rate, cap \in Nat :
          Condition!Rise(m, rate, cap) \in Penalty /\ Condition!Excess(m, limit, rate, cap) \in Penalty
  BY RiseIs
<1>2. Condition!Motor \in Seq(Penalty)
  BY <1>1 DEF Condition!Motor, MetricNames
<1>3. Condition!Bearing \in Seq(Penalty)
  BY <1>1 DEF Condition!Bearing, MetricNames
<1>4. Condition!Seal \in Seq(Penalty)
  BY <1>1 DEF Condition!Seal, MetricNames
<1>5. Condition!Vfd \in Seq(Penalty) /\ Condition!Filter \in Seq(Penalty)
  BY <1>1 DEF Condition!Vfd, Condition!Filter, MetricNames
<1>6. Condition!Valve \in Seq(Penalty) /\ Condition!Erd \in Seq(Penalty)
  BY <1>1 DEF Condition!Valve, Condition!Erd, MetricNames
<1>7. Condition!Pump \in Seq(Penalty)
  <2>1. <<Condition!Rise("efficiency_drift", 200, 2500)>> \in Seq(Penalty)
    BY <1>1 DEF MetricNames
  <2> QED BY <1>2, <1>3, <1>4, <2>1 DEF Condition!Pump
<1> QED BY <1>2, <1>3, <1>4, <1>5, <1>6, <1>7 DEF Condition!Penalties

LEMMA DeltaGrows ==
    ASSUME NEW t, NEW u, IsTelemetry(t), IsTelemetry(u), t.limit = u.limit, NEW p \in Penalty,
           Condition!Reading(t, p.metric) <= Condition!Reading(u, p.metric)
    PROVE  /\ Condition!Delta(t, p) \in 0..p.cap /\ Condition!Delta(u, p) \in 0..p.cap
           /\ Condition!Delta(t, p) <= Condition!Delta(u, p)
<1> DEFINE v == Condition!Reading(t, p.metric)
           w == Condition!Reading(u, p.metric)
           limit == Condition!At(t.limit, p.metric, p.limit)
           Cost(x) == IF p.kind = "rise" THEN (p.rate * x) \div 10
                     ELSE IF limit <= 0 THEN 0 ELSE (p.rate * (x - limit)) \div limit
<1>1. p.kind \in {"rise", "excess"} /\ p.limit \in Nat /\ p.rate \in Nat /\ p.cap \in Nat
  BY DEF Penalty
<1>2. v \in Int /\ w \in Int /\ v <= w
  BY ReadingIs
<1>3. limit \in Int
  BY <1>1, AtIs DEF IsTelemetry
<1>4. /\ Condition!Delta(t, p) = Condition!Within(Cost(v), 0, p.cap)
      /\ Condition!Delta(u, p) = Condition!Within(Cost(w), 0, p.cap)
  BY DEF Condition!Delta
<1> HIDE DEF v, w, limit
<1>5. Cost(v) \in Int /\ Cost(w) \in Int /\ Cost(v) <= Cost(w)
  <2>1. p.rate * v \in Int /\ p.rate * w \in Int /\ p.rate * v <= p.rate * w
    BY <1>1, <1>2
  <2>2. CASE p.kind = "rise"
    BY <2>1, <2>2
  <2>3. CASE p.kind # "rise" /\ limit <= 0
    BY <2>3
  <2>4. CASE p.kind # "rise" /\ ~(limit <= 0)
    <3>1. p.rate * (v - limit) \in Int /\ p.rate * (w - limit) \in Int /\ p.rate * (v - limit) <= p.rate * (w - limit)
      BY <1>1, <1>2, <1>3
    <3>2. (p.rate * (v - limit)) \div limit <= (p.rate * (w - limit)) \div limit
      BY <1>3, <2>4, <3>1, QuotientLess
    <3>3. (p.rate * (v - limit)) \div limit \in Int /\ (p.rate * (w - limit)) \div limit \in Int
      BY <1>3, <2>4, <3>1
    <3> QED BY <2>4, <3>2, <3>3
  <2> QED BY <2>2, <2>3, <2>4
<1> HIDE DEF Cost
<1>6. ASSUME NEW x \in Int
      PROVE  /\ Condition!Within(x, 0, p.cap) \in 0..p.cap
             /\ Condition!Within(x, 0, p.cap) = IF x < 0 THEN 0 ELSE IF x > p.cap THEN p.cap ELSE x
  <2>1. 0 \in Int /\ p.cap \in Int /\ 0 <= p.cap
    BY <1>1
  <2> QED BY <2>1, WithinIs
<1> QED BY <1>1, <1>4, <1>5, <1>6

LEMMA ContributionsAre ==
    ASSUME NEW type \in DOMAIN Condition!Penalties, NEW t, IsTelemetry(t)
    PROVE  /\ Summable(Condition!Contributions(type, t))
           /\ Len(Condition!Contributions(type, t)) = Len(Condition!Penalties[type])
           /\ \A i \in 1..Len(Condition!Penalties[type]) :
                 /\ Condition!Penalties[type][i] \in Penalty
                 /\ Condition!Contributions(type, t)[i] = Condition!Material(Condition!Delta(t, Condition!Penalties[type][i]))
                 /\ Condition!Contributions(type, t)[i] \in Nat
<1> DEFINE ps == Condition!Penalties[type]
           cs == Condition!Contributions(type, t)
<1>1. ps \in Seq(Penalty)
  BY PenaltiesAre
<1>2. cs = [i \in DOMAIN ps |-> Condition!Material(Condition!Delta(t, ps[i]))]
  BY DEF Condition!Contributions
<1> HIDE DEF ps, cs
<1>3. \A i \in 1..Len(ps) : ps[i] \in Penalty /\ cs[i] = Condition!Material(Condition!Delta(t, ps[i]))
  BY <1>1, <1>2
<1>4. ASSUME NEW i \in 1..Len(ps) PROVE cs[i] \in Nat
  <2>1. Condition!Delta(t, ps[i]) \in 0..ps[i].cap /\ ps[i].cap \in Nat
    <3>1. Condition!Reading(t, ps[i].metric) <= Condition!Reading(t, ps[i].metric)
      <4>1. Condition!Reading(t, ps[i].metric) \in Int
        BY ReadingIs
      <4> QED BY <4>1
    <3>2. ps[i].cap \in Nat
      BY <1>3 DEF Penalty
    <3> QED BY <1>3, <3>1, <3>2, DeltaGrows
  <2> QED BY <1>3, <2>1 DEF Condition!Material
<1>5. cs \in Seq(Nat) /\ Len(cs) = Len(ps)
  <2>1. DOMAIN ps = 1..Len(ps) /\ Len(ps) \in Nat
    BY <1>1
  <2>2. DOMAIN cs = 1..Len(ps)
    BY <1>2, <2>1
  <2>3. cs = [i \in 1..Len(ps) |-> cs[i]]
    BY <1>2, <2>2
  <2>4. cs \in [1..Len(ps) -> Nat]
    BY <1>4, <2>3
  <2> QED BY <2>1, <2>4
<1> QED BY <1>3, <1>4, <1>5 DEF Summable, ps, cs

AtMostOneMore(T, S) ==
    IsFiniteSet(T) /\ Cardinality(T) \in Nat /\ Cardinality(S) \in Nat /\ Cardinality(T) <= Cardinality(S) + 1
LEMMA OneMore ==
    ASSUME NEW S, NEW x, IsFiniteSet(S)
    PROVE  AtMostOneMore(S \cup {x}, S)
<1> DEFINE T == S \cup {x}
<1>1. Cardinality(S) \in Nat
  BY FS_CardinalityType
<1>2. IsFiniteSet(T) /\ Cardinality(T) = IF x \in S THEN Cardinality(S) ELSE Cardinality(S) + 1
  BY FS_AddElement, Zenon
<1> HIDE DEF T
<1>3. AtMostOneMore(T, S)
  BY <1>1, <1>2 DEF AtMostOneMore
<1> QED BY <1>3 DEF T

LEMMA SetOfFour ==
    ASSUME NEW c, NEW d, NEW e, NEW f
    PROVE  IsFiniteSet({c, d, e, f}) /\ Cardinality({c, d, e, f}) <= 4
<1> DEFINE C == {} \cup {c}
           D == C \cup {d}
           E == D \cup {e}
           F == E \cup {f}
<1>1. F = {c, d, e, f}
  OBVIOUS
<1>2. IsFiniteSet({}) /\ Cardinality({}) = 0
  BY FS_EmptySet
<1>3. AtMostOneMore(C, {})
  BY <1>2, OneMore, Zenon
<1>4. AtMostOneMore(D, C)
  <2> HIDE DEF C
  <2> QED BY <1>3, OneMore, Zenon DEF AtMostOneMore
<1>5. AtMostOneMore(E, D)
  <2> HIDE DEF C, D
  <2> QED BY <1>4, OneMore, Zenon DEF AtMostOneMore
<1>6. AtMostOneMore(F, E)
  <2> HIDE DEF C, D, E
  <2> QED BY <1>5, OneMore, Zenon DEF AtMostOneMore
<1> HIDE DEF C, D, E, F
<1> QED BY <1>1, <1>2, <1>3, <1>4, <1>5, <1>6 DEF AtMostOneMore

LEMMA BandsFall ==
    ASSUME NEW a \in Int, NEW b \in Int, a <= b
    PROVE  /\ Condition!BandIndex(a) \in 1..5 /\ Condition!BandIndex(b) \in 1..5
           /\ Condition!BandIndex(a) <= Condition!BandIndex(b)
<1> DEFINE first == 4000
           second == 6000
           third == 7500
           fourth == 9000
           Cuts == {first, second, third, fourth}
           Passed(h) == {c \in Cuts : h >= c}
<1>1. IsFiniteSet(Cuts) /\ Cardinality(Cuts) <= 4
  <2> HIDE DEF first, second, third, fourth
  <2> QED BY SetOfFour, Zenon
<1>2. Passed(a) \subseteq Passed(b) /\ Passed(b) \subseteq Cuts
  OBVIOUS
<1>3. /\ Condition!BandIndex(a) = 1 + Cardinality(Passed(a))
      /\ Condition!BandIndex(b) = 1 + Cardinality(Passed(b))
  BY DEF Condition!BandIndex, Condition!Cardinality, Cardinality
<1> HIDE DEF Cuts, Passed
<1>4. IsFiniteSet(Passed(b)) /\ Cardinality(Passed(b)) <= Cardinality(Cuts)
  BY <1>1, <1>2, FS_Subset
<1>5. IsFiniteSet(Passed(a)) /\ Cardinality(Passed(a)) <= Cardinality(Passed(b))
  BY <1>2, <1>4, FS_Subset
<1>6. Cardinality(Passed(a)) \in Nat /\ Cardinality(Passed(b)) \in Nat /\ Cardinality(Cuts) \in Nat
  BY <1>1, <1>4, <1>5, FS_CardinalityType
<1> QED BY <1>1, <1>3, <1>4, <1>5, <1>6

LEMMA HealthIs ==
    ASSUME NEW type \in DOMAIN Condition!Penalties, NEW t, IsTelemetry(t)
    PROVE  Condition!ComponentHealth(type, t) \in Nat /\ Condition!ComponentHealth(type, t) <= 10000
<1>1. Condition!Total(Condition!Contributions(type, t)) \in Int
  <2>1. Summable(Condition!Contributions(type, t))
    BY ContributionsAre
  <2>2. \A i \in 1..Len(Condition!Contributions(type, t)) :
            Condition!Contributions(type, t)[i] <= Condition!Contributions(type, t)[i]
    BY <2>1 DEF Summable
  <2> QED BY <2>1, <2>2, TotalGrows
<1> DEFINE x == 10000 - Condition!Total(Condition!Contributions(type, t))
<1>2. x \in Int
  BY <1>1
<1> HIDE DEF x
<1>3. Condition!Within(x, 0, 10000) = IF x < 0 THEN 0 ELSE IF x > 10000 THEN 10000 ELSE x
  BY <1>2, WithinIs
<1>4. Condition!ComponentHealth(type, t) = Condition!Within(x, 0, 10000)
  BY DEF Condition!ComponentHealth, x
<1> QED BY <1>2, <1>3, <1>4

(* A reading that gets worse never improves the score of its component, nor *)
(* its band (equipment.py, component_health).                              *)
THEOREM HealthOnlyFalls ==
    ASSUME NEW type \in DOMAIN Condition!Penalties, NEW t, NEW u, IsTelemetry(t), IsTelemetry(u)
    PROVE  Condition!HealthFalls(type, t, u)
<1>1. SUFFICES ASSUME Condition!Worse(type, t, u)
               PROVE  /\ Condition!ComponentHealth(type, u) <= Condition!ComponentHealth(type, t)
                      /\ Condition!BandIndex(Condition!ComponentHealth(type, u)) <= Condition!BandIndex(Condition!ComponentHealth(type, t))
  BY DEF Condition!HealthFalls
<1> DEFINE ps == Condition!Penalties[type]
           c == Condition!Contributions(type, t)
           d == Condition!Contributions(type, u)
<1>2. /\ Summable(c) /\ Summable(d) /\ Len(c) = Len(ps) /\ Len(d) = Len(ps) /\ Len(ps) \in Nat
      /\ \A i \in 1..Len(ps) : /\ ps[i] \in Penalty
                              /\ c[i] = Condition!Material(Condition!Delta(t, ps[i]))
                              /\ d[i] = Condition!Material(Condition!Delta(u, ps[i]))
  BY ContributionsAre DEF Summable
<1>3. ASSUME NEW i \in 1..Len(ps) PROVE c[i] <= d[i]
  <2>1. ps[i] \in Condition!Range(ps)
    <3>1. ps \in Seq(Penalty)
      BY PenaltiesAre
    <3> HIDE DEF ps
    <3> QED BY <3>1 DEF Condition!Range
  <2>2. t.limit = u.limit /\ Condition!Reading(t, ps[i].metric) <= Condition!Reading(u, ps[i].metric)
    BY <1>1, <2>1 DEF Condition!Worse
  <2>3. /\ Condition!Delta(t, ps[i]) \in 0..ps[i].cap /\ Condition!Delta(u, ps[i]) \in 0..ps[i].cap
        /\ Condition!Delta(t, ps[i]) <= Condition!Delta(u, ps[i]) /\ ps[i].cap \in Nat
    <3>1. ps[i] \in Penalty
      BY <1>2
    <3>2. ps[i].cap \in Nat
      BY <3>1 DEF Penalty
    <3> HIDE DEF ps
    <3> QED BY <2>2, <3>1, <3>2, DeltaGrows
  <2>4. Condition!Material(Condition!Delta(t, ps[i])) <= Condition!Material(Condition!Delta(u, ps[i]))
    <3> HIDE DEF ps
    <3> QED BY <2>3 DEF Condition!Material
  <2> HIDE DEF ps, c, d
  <2> QED BY <1>2, <2>4
<1> HIDE DEF ps, c, d
<1>4. Condition!Total(c) \in Int /\ Condition!Total(d) \in Int /\ Condition!Total(c) <= Condition!Total(d)
  BY <1>2, <1>3, TotalGrows
<1>5. /\ Condition!ComponentHealth(type, t) = Condition!Within(10000 - Condition!Total(c), 0, 10000)
      /\ Condition!ComponentHealth(type, u) = Condition!Within(10000 - Condition!Total(d), 0, 10000)
  BY DEF Condition!ComponentHealth, c, d
<1>6. /\ Condition!ComponentHealth(type, t) \in Int /\ Condition!ComponentHealth(type, u) \in Int
      /\ Condition!ComponentHealth(type, u) <= Condition!ComponentHealth(type, t)
  <2> DEFINE x == 10000 - Condition!Total(c)
             y == 10000 - Condition!Total(d)
  <2>1. x \in Int /\ y \in Int /\ y <= x
    BY <1>4
  <2> HIDE DEF x, y
  <2>2. /\ Condition!Within(x, 0, 10000) = IF x < 0 THEN 0 ELSE IF x > 10000 THEN 10000 ELSE x
        /\ Condition!Within(y, 0, 10000) = IF y < 0 THEN 0 ELSE IF y > 10000 THEN 10000 ELSE y
    BY <2>1, WithinIs
  <2> QED BY <1>5, <2>1, <2>2 DEF x, y
<1> QED BY <1>6, BandsFall

-----------------------------------------------------------------------------
(* Remaining life.                                                         *)
IsAged(a) ==
    /\ {"trend", "threshold", "duty", "age", "interval", "peers"} \subseteq DOMAIN a
    /\ a.trend \in Seq(Nat) /\ a.trend # <<>>
    /\ {a.threshold, a.duty, a.age, a.peers} \subseteq Nat /\ a.interval \in Nat \ {0}
IsAsset(a) ==
    IsAged(a) /\ a.type \in DOMAIN Condition!Penalties /\ IsTelemetry(a.telemetry) /\ a.anomaly \in Nat
\* x times k hundredths.
Scaled(x, k) == (x * k) \div 100

LEMMA ScaledIs ==
    ASSUME NEW x \in Nat, NEW y \in Nat, NEW k \in Nat, NEW l \in Nat, x <= y, k <= l
    PROVE  Scaled(x, k) \in Nat /\ Scaled(y, l) \in Nat /\ Scaled(x, k) <= Scaled(y, l)
<1>1. x * k \in Nat /\ y * l \in Nat /\ x * k <= y * l
  BY ProductGrows
<1> DEFINE p == x * k
           q == y * l
<1> HIDE DEF p, q
<1>2. p \div 100 \in Nat /\ q \div 100 \in Nat /\ p \div 100 <= q \div 100
  BY <1>1 DEF p, q
<1> QED BY <1>2 DEF Scaled, p, q

LEMMA TotalIs ==
    ASSUME NEW s, Summable(s)
    PROVE  Condition!Total(s) \in Int
<1>1. \A i \in 1..Len(s) : s[i] <= s[i]
  BY DEF Summable
<1> QED BY <1>1, TotalGrows

LEMMA BaseDaysIs ==
    ASSUME NEW a, IsAged(a)
    PROVE  Condition!BaseDays(a) \in Nat /\ Condition!HorizonCap(a) \in Nat
<1> DEFINE n == Len(a.trend)
           weighted == [i \in DOMAIN a.trend |-> i * a.trend[i]]
           slope == Condition!SlopeNum(a.trend)
           headroom == Condition!Max({0, a.trend[n] - a.threshold})
<1>1. n \in Nat \ {0} /\ a.trend[n] \in Nat /\ a.threshold \in Nat /\ a.interval \in Nat
  BY DEF IsAged
<1>2. Condition!HorizonCap(a) \in Nat
  BY <1>1 DEF Condition!HorizonCap
<1>3. slope \in Int
  <2>1. Summable(a.trend)
    BY DEF IsAged, Summable
  <2>2. DOMAIN a.trend = 1..n
    BY DEF IsAged
  <2>3. weighted \in [1..n -> Nat]
    BY <2>2 DEF IsAged
  <2>4. weighted \in Seq(Nat)
    <3> HIDE DEF weighted, n
    <3>1. n \in Nat
      BY <1>1
    <3> QED BY <2>3, <3>1
  <2>5. Summable(weighted)
    <3> HIDE DEF weighted
    <3> QED BY <2>4 DEF Summable
  <2> HIDE DEF weighted, n
  <2>6. Condition!Total(weighted) \in Int /\ Condition!Total(a.trend) \in Int
    BY <2>1, <2>5, TotalIs
  <2>7. n * Condition!Total(weighted) \in Int /\ (n * (n + 1)) \div 2 \in Int
    BY <1>1, <2>6
  <2>8. ((n * (n + 1)) \div 2) * Condition!Total(a.trend) \in Int
    BY <2>6, <2>7
  <2>9. slope = n * Condition!Total(weighted) - ((n * (n + 1)) \div 2) * Condition!Total(a.trend)
    BY DEF Condition!SlopeNum, n, weighted
  <2> HIDE DEF slope
  <2> QED BY <2>7, <2>8, <2>9
<1>4. Condition!SlopeDen(n) \in Nat
  <2> HIDE DEF n
  <2>1. n * n \in Nat /\ n * n >= 1
    BY <1>1
  <2>2. (n * n) * (n * n - 1) \in Nat
    BY <2>1
  <2>3. n * n * (n * n - 1) = (n * n) * (n * n - 1)
    OBVIOUS
  <2> QED BY <2>2, <2>3 DEF Condition!SlopeDen
<1>5. headroom \in Nat
  <2> HIDE DEF n
  <2> QED BY <1>1 DEF Condition!Max
<1>6. 10 * headroom * Condition!SlopeDen(n) \in Nat
  <2> HIDE DEF headroom, n
  <2> QED BY <1>4, <1>5
<1>7. slope < 0 => (10 * headroom * Condition!SlopeDen(n)) \div (-slope) \in Nat
  <2> DEFINE x == 10 * headroom * Condition!SlopeDen(n)
  <2>1. x \in Nat
    BY <1>6
  <2> HIDE DEF x, slope
  <2>2. slope < 0 => x \div (-slope) \in Nat
    BY <1>3, <2>1
  <2> QED BY <2>2 DEF x
<1> HIDE DEF slope, headroom, n
<1> QED BY <1>2, <1>7 DEF Condition!BaseDays, slope, headroom, n

LEMMA WithinGrows ==
    ASSUME NEW x \in Int, NEW y \in Int, NEW low \in Nat, NEW high \in Nat, low <= high, y <= x
    PROVE  /\ Condition!Within(x, low, high) \in Nat /\ low <= Condition!Within(x, low, high)
           /\ Condition!Within(x, low, high) <= high
           /\ Condition!Within(y, low, high) \in Nat /\ Condition!Within(y, low, high) <= Condition!Within(x, low, high)
<1>1. /\ Condition!Within(x, low, high) = IF x < low THEN low ELSE IF x > high THEN high ELSE x
      /\ Condition!Within(y, low, high) = IF y < low THEN low ELSE IF y > high THEN high ELSE y
  BY WithinIs
<1> QED BY <1>1

LEMMA FactorsAre ==
    ASSUME NEW a, NEW b, IsAged(a), IsAged(b), a.duty <= b.duty, a.age <= b.age, a.interval = b.interval
    PROVE  /\ {Condition!DutyFactor(a), Condition!AgeFactor(a), Condition!DutyFactor(b), Condition!AgeFactor(b)} \subseteq Nat
           /\ Condition!DutyFactor(b) <= Condition!DutyFactor(a)
           /\ Condition!AgeFactor(b) <= Condition!AgeFactor(a)
<1>1. /\ a.duty \in Nat /\ a.age \in Nat /\ b.duty \in Nat /\ b.age \in Nat
      /\ b.interval \in Nat /\ b.interval > 0 /\ a.interval = b.interval
  BY DEF IsAged
<1> DEFINE p == 100 - (60 * a.duty) \div 100
           q == 100 - (60 * b.duty) \div 100
           r == 100 - (50 * a.age) \div b.interval
           s == 100 - (50 * b.age) \div b.interval
<1>2. p \in Int /\ q \in Int /\ q <= p
  BY <1>1
<1>3. r \in Int /\ s \in Int /\ s <= r
  <2>1. 50 * a.age \in Int /\ 50 * b.age \in Int /\ 50 * a.age <= 50 * b.age
    BY <1>1
  <2>2. (50 * a.age) \div b.interval <= (50 * b.age) \div b.interval
    BY <1>1, <2>1, QuotientLess
  <2>3. (50 * a.age) \div b.interval \in Int /\ (50 * b.age) \div b.interval \in Int
    BY <1>1, <2>1
  <2> QED BY <2>2, <2>3
<1>4. /\ Condition!DutyFactor(a) = Condition!Within(p, 25, 100) /\ Condition!DutyFactor(b) = Condition!Within(q, 25, 100)
      /\ Condition!AgeFactor(a) = Condition!Within(r, 20, 100) /\ Condition!AgeFactor(b) = Condition!Within(s, 20, 100)
  BY <1>1 DEF Condition!DutyFactor, Condition!AgeFactor
<1> HIDE DEF p, q, r, s
<1>5. 25 \in Nat /\ 20 \in Nat /\ 100 \in Nat /\ 25 <= 100 /\ 20 <= 100
  OBVIOUS
<1>6. Condition!Within(p, 25, 100) \in Nat /\ Condition!Within(q, 25, 100) \in Nat /\ Condition!Within(q, 25, 100) <= Condition!Within(p, 25, 100)
  BY <1>2, <1>5, WithinGrows
<1>7. Condition!Within(r, 20, 100) \in Nat /\ Condition!Within(s, 20, 100) \in Nat /\ Condition!Within(s, 20, 100) <= Condition!Within(r, 20, 100)
  BY <1>3, <1>5, WithinGrows
<1> QED BY <1>4, <1>6, <1>7

LEMMA RemainingIs ==
    ASSUME NEW a, IsAged(a)
    PROVE  /\ Condition!RemainingDays(a) \in Nat /\ Condition!RemainingDays(a) <= Condition!HorizonCap(a)
           /\ LET days == Scaled(Scaled(Scaled(Condition!BaseDays(a), Condition!DutyFactor(a)), Condition!AgeFactor(a)), a.peers)
              IN /\ days \in Nat
                 /\ Condition!RemainingDays(a) = IF days < Condition!HorizonCap(a) THEN days ELSE Condition!HorizonCap(a)
<1> DEFINE base == Condition!BaseDays(a)
           duty == Condition!DutyFactor(a)
           age == Condition!AgeFactor(a)
           cap == Condition!HorizonCap(a)
           days == Scaled(Scaled(Scaled(base, duty), age), a.peers)
<1>1. base \in Nat /\ cap \in Nat
  BY BaseDaysIs
<1>2. duty \in Nat /\ age \in Nat /\ a.peers \in Nat
  <2>1. a.duty <= a.duty /\ a.age <= a.age
    BY DEF IsAged
  <2> QED BY <2>1, FactorsAre DEF IsAged
<1>3. Condition!RemainingDays(a) = Condition!Min({cap, days})
  BY DEF Condition!RemainingDays, Scaled
<1> HIDE DEF base, duty, age, cap
<1>4. \A x, k \in Nat : Scaled(x, k) \in Nat
  <2>1. ASSUME NEW x \in Nat, NEW k \in Nat PROVE Scaled(x, k) \in Nat
    <3>1. x <= x /\ k <= k
      OBVIOUS
    <3> QED BY <3>1, ScaledIs
  <2> QED BY <2>1
<1>5. days \in Nat
  <2>1. Scaled(base, duty) \in Nat
    BY <1>1, <1>2, <1>4
  <2>2. Scaled(Scaled(base, duty), age) \in Nat
    BY <1>2, <1>4, <2>1
  <2> QED BY <1>2, <1>4, <2>2
<1> HIDE DEF days
<1>6. Condition!Min({cap, days}) = IF days < cap THEN days ELSE cap
  BY <1>1, <1>5 DEF Condition!Min
<1>7. /\ Condition!RemainingDays(a) \in Nat /\ Condition!RemainingDays(a) <= cap
      /\ days \in Nat /\ Condition!RemainingDays(a) = IF days < cap THEN days ELSE cap
  BY <1>1, <1>3, <1>5, <1>6
<1> QED BY <1>7 DEF days, base, duty, age, cap

LEMMA RemainingGrows ==
    ASSUME NEW a, NEW b, IsAged(a), IsAged(b), a.duty <= b.duty, a.age <= b.age, a.interval = b.interval, a.peers = b.peers,
           Condition!BaseDays(b) <= Condition!BaseDays(a)
    PROVE  Condition!RemainingDays(b) <= Condition!RemainingDays(a)
<1>1. /\ Condition!DutyFactor(b) <= Condition!DutyFactor(a) /\ Condition!AgeFactor(b) <= Condition!AgeFactor(a)
      /\ {Condition!DutyFactor(a), Condition!AgeFactor(a), Condition!DutyFactor(b), Condition!AgeFactor(b)} \subseteq Nat
  BY FactorsAre
<1> DEFINE cap == Condition!HorizonCap(a)
           first(x) == Scaled(Condition!BaseDays(x), Condition!DutyFactor(x))
           second(x) == Scaled(first(x), Condition!AgeFactor(x))
           third(x) == Scaled(second(x), a.peers)
<1>2. /\ Condition!BaseDays(a) \in Nat /\ Condition!BaseDays(b) \in Nat /\ cap \in Nat /\ Condition!HorizonCap(b) = cap
      /\ a.peers \in Nat /\ a.peers <= a.peers
  BY BaseDaysIs DEF IsAged, Condition!HorizonCap
<1>3. first(b) \in Nat /\ first(a) \in Nat /\ first(b) <= first(a)
  BY <1>1, <1>2, ScaledIs
<1>4. second(b) \in Nat /\ second(a) \in Nat /\ second(b) <= second(a)
  <2> HIDE DEF first
  <2> QED BY <1>1, <1>3, ScaledIs
<1>5. third(b) \in Nat /\ third(a) \in Nat /\ third(b) <= third(a)
  <2> HIDE DEF second
  <2> QED BY <1>2, <1>4, ScaledIs
<1>6. /\ Condition!RemainingDays(a) = IF third(a) < cap THEN third(a) ELSE cap
      /\ Condition!RemainingDays(b) = IF third(b) < cap THEN third(b) ELSE cap
  BY <1>2, RemainingIs
<1> HIDE DEF third, cap
<1> QED BY <1>2, <1>5, <1>6

(* The band of days holds the estimate, which is within the horizon, the   *)
(* intervention comes before the band begins, and a harder duty or an      *)
(* older service never lengthens life (equipment.py,                       *)
(* remaining_useful_life_days; predictive_maintenance.py, pdm_for).         *)
THEOREM LifeIsBounded ==
    ASSUME NEW a, IsAged(a), NEW duty \in Nat, NEW age \in Nat
    PROVE  Condition!LifeBand(a) /\ Condition!UseShortens(a, duty, age)
<1> DEFINE days == Condition!RemainingDays(a)
           spread == Condition!Spread(a)
<1>1. days \in Nat /\ days <= Condition!HorizonCap(a)
  BY RemainingIs
<1>2. spread \in 20..90
  <2> DEFINE x == 25 + a.duty \div 2 + (IF Len(a.trend) >= 5 THEN 15 ELSE 30)
  <2>1. a.duty \in Nat
    BY DEF IsAged
  <2>2. x \in Int
    BY <2>1
  <2> HIDE DEF x
  <2>3. 20 \in Int /\ 90 \in Int /\ 20 <= 90
    OBVIOUS
  <2>4. Condition!Within(x, 20, 90) \in 20..90
    BY <2>2, <2>3, WithinIs
  <2> QED BY <2>4 DEF Condition!Spread, x
<1> HIDE DEF days, spread
<1>3. LET lower == Scaled(days, 100 - spread)
          upper == Scaled(days, 100 + spread)
      IN lower \in Nat /\ lower <= days /\ days <= upper
  <2> DEFINE lower == Scaled(days, 100 - spread)
             upper == Scaled(days, 100 + spread)
  <2>1. 100 - spread \in Nat /\ 100 - spread <= 100 /\ 100 + spread \in Nat /\ 100 <= 100 + spread
    BY <1>2
  <2>2. Scaled(days, 100) = days
    BY <1>1 DEF Scaled
  <2>3. days <= days /\ 100 \in Nat
    BY <1>1
  <2>4. lower \in Nat /\ lower <= Scaled(days, 100)
    BY <1>1, <2>1, <2>3, ScaledIs
  <2>5. Scaled(days, 100) <= upper
    BY <1>1, <2>1, <2>3, ScaledIs
  <2> HIDE DEF lower, upper
  <2>6. lower \in Nat /\ lower <= days /\ days <= upper
    BY <2>2, <2>4, <2>5
  <2> QED BY <2>6 DEF lower, upper
<1>4. Condition!LifeBand(a)
  <2> DEFINE lower == Condition!LowerDays(a)
  <2>1. lower = Scaled(days, 100 - spread) /\ Condition!UpperDays(a) = Scaled(days, 100 + spread)
    BY DEF Condition!LowerDays, Condition!UpperDays, Scaled, days, spread
  <2>2. lower \in Nat /\ lower <= days /\ days <= Condition!UpperDays(a)
    BY <1>3, <2>1
  <2>3. Condition!TimeToIntervention(a) = Condition!Min({(lower * 70) \div 100, days \div 2})
    BY DEF Condition!TimeToIntervention, days
  <2> HIDE DEF lower
  <2>4. (lower * 70) \div 100 \in Nat /\ (lower * 70) \div 100 <= lower /\ days \div 2 \in Nat
    BY <1>1, <2>2
  <2>5. \A x, y \in Nat : Condition!Min({x, y}) <= x
    BY DEF Condition!Min
  <2>6. Condition!Min({(lower * 70) \div 100, days \div 2}) <= (lower * 70) \div 100
    BY <2>4, <2>5
  <2>7. Condition!Min({(lower * 70) \div 100, days \div 2}) \in Nat
    <3>1. \A x, y \in Nat : Condition!Min({x, y}) \in Nat
      BY DEF Condition!Min
    <3> QED BY <2>4, <3>1
  <2>8. Condition!TimeToIntervention(a) <= lower
    <3> DEFINE cut == (lower * 70) \div 100
    <3>1. cut \in Nat /\ cut <= lower
      BY <2>4
    <3> HIDE DEF cut
    <3>2. Condition!TimeToIntervention(a) \in Nat /\ Condition!TimeToIntervention(a) <= cut
      BY <2>3, <2>6, <2>7 DEF cut
    <3> QED BY <2>2, <3>1, <3>2
  <2> QED BY <1>1, <2>2, <2>8 DEF Condition!LifeBand, lower, days
<1>5. ASSUME a.duty <= duty, a.age <= age
      PROVE  Condition!RemainingDays([a EXCEPT !.duty = duty, !.age = age]) <= Condition!RemainingDays(a)
  <2> DEFINE b == [a EXCEPT !.duty = duty, !.age = age]
  <2>1. /\ DOMAIN b = DOMAIN a /\ b.trend = a.trend /\ b.threshold = a.threshold /\ b.interval = a.interval
        /\ b.peers = a.peers /\ b.duty = duty /\ b.age = age
    BY DEF IsAged
  <2> HIDE DEF b
  <2>2. IsAged(b)
    BY <2>1 DEF IsAged
  <2>3. Condition!BaseDays(b) = Condition!BaseDays(a) /\ Condition!HorizonCap(b) = Condition!HorizonCap(a)
    BY <2>1 DEF Condition!BaseDays, Condition!HorizonCap
  <2>4. Condition!BaseDays(b) <= Condition!BaseDays(a)
    BY <2>3, BaseDaysIs
  <2>5. Condition!RemainingDays(b) <= Condition!RemainingDays(a)
    BY <1>5, <2>1, <2>2, <2>4, RemainingGrows
  <2> QED BY <2>5 DEF b
<1> QED BY <1>4, <1>5 DEF Condition!UseShortens

LEMMA HazardGrows ==
    ASSUME NEW band \in 1..5, NEW worse \in 1..5, worse <= band, NEW anomaly \in Nat, NEW more \in Nat, anomaly <= more,
           NEW days \in Nat, NEW fewer \in Nat, fewer <= days
    PROVE  /\ Condition!Hazard(band, anomaly, days) \in Int /\ Condition!Hazard(worse, more, fewer) \in Int
           /\ Condition!Hazard(band, anomaly, days) <= Condition!Hazard(worse, more, fewer)
<1>1. /\ Condition!BaseHazard[band] \in Int /\ Condition!BaseHazard[worse] \in Int
      /\ Condition!BaseHazard[band] <= Condition!BaseHazard[worse]
  BY DEF Condition!BaseHazard
<1>2. 150000 \div (days + 10) \in Int /\ 150000 \div (fewer + 10) \in Int /\ 150000 \div (days + 10) <= 150000 \div (fewer + 10)
  BY QuotientGrows
<1>3. 25 * anomaly \in Int /\ 25 * more \in Int /\ 25 * anomaly <= 25 * more
  OBVIOUS
<1> QED BY <1>1, <1>2, <1>3 DEF Condition!Hazard

(* An asset that reads worse, is more anomalous and has less life left is    *)
(* never given the smaller failure exponent (equipment.py,                  *)
(* failure_probability, over component_health).                            *)
THEOREM WearNeverHides ==
    ASSUME NEW a, NEW b, IsAsset(a), IsAsset(b)
    PROVE  Condition!WearShows(a, b)
<1>1. SUFFICES ASSUME a.type = b.type, Condition!Worse(a.type, a.telemetry, b.telemetry), a.anomaly <= b.anomaly,
                      Condition!RemainingDays(b) <= Condition!RemainingDays(a)
               PROVE  Condition!Exponent30(a) <= Condition!Exponent30(b)
  BY DEF Condition!WearShows
<1> DEFINE before == Condition!BandIndex(Condition!ComponentHealth(a.type, a.telemetry))
           after == Condition!BandIndex(Condition!ComponentHealth(b.type, b.telemetry))
<1>2. a.type \in DOMAIN Condition!Penalties /\ IsTelemetry(a.telemetry) /\ IsTelemetry(b.telemetry)
      /\ a.anomaly \in Nat /\ b.anomaly \in Nat
  BY DEF IsAsset
<1>3. before \in 1..5 /\ after \in 1..5 /\ after <= before
  <2>1. /\ Condition!ComponentHealth(a.type, a.telemetry) \in Int /\ Condition!ComponentHealth(b.type, b.telemetry) \in Int
    BY <1>1, <1>2, HealthIs
  <2>2. Condition!ComponentHealth(b.type, b.telemetry) <= Condition!ComponentHealth(a.type, a.telemetry)
    BY <1>1, <1>2, HealthOnlyFalls DEF Condition!HealthFalls
  <2> QED BY <2>1, <2>2, BandsFall
<1>4. Condition!RemainingDays(a) \in Nat /\ Condition!RemainingDays(b) \in Nat
  BY RemainingIs DEF IsAsset
<1> DEFINE low == Condition!Hazard(before, a.anomaly, Condition!RemainingDays(a))
           high == Condition!Hazard(after, b.anomaly, Condition!RemainingDays(b))
<1>5. Condition!Exponent30(a) = 30 * low /\ Condition!Exponent30(b) = 30 * high
  BY DEF Condition!Exponent30, Condition!FailureExponents, Condition!HorizonDays
<1> HIDE DEF before, after
<1>6. low \in Int /\ high \in Int /\ low <= high
  BY <1>1, <1>2, <1>3, <1>4, HazardGrows
<1> HIDE DEF low, high
<1> QED BY <1>5, <1>6

-----------------------------------------------------------------------------
(* Operating regimes.                                                      *)
LEMMA SharesFit ==
    ASSUME NEW n \in Nat, n > 0, NEW x \in Nat, NEW y \in Nat, x + y <= n
    PROVE  (10000 * x) \div n + (10000 * y) \div n <= 10000
<1> DEFINE p == (10000 * x) \div n
           q == (10000 * y) \div n
<1>1. p \in Int /\ p * n <= 10000 * x /\ q \in Int /\ q * n <= 10000 * y
  BY QuotientIs
<1> HIDE DEF p, q
<1>2. (p + q) * n = p * n + q * n /\ p * n \in Int /\ q * n \in Int
  BY <1>1
<1>3. (p + q) * n <= 10000 * n
  BY <1>1, <1>2
<1>4. p + q <= 10000
  <2> DEFINE s == p + q
  <2>1. s \in Int /\ s * n <= 10000 * n
    BY <1>1, <1>3
  <2> HIDE DEF s
  <2>2. s <= 10000
    BY <2>1
  <2> QED BY <2>2 DEF s
<1> QED BY <1>4 DEF p, q

\* A sample's fields are numbers, its best point is not negative.
IsHistory(samples) ==
    /\ Len(samples) \in Nat \ {0} /\ DOMAIN samples = 1..Len(samples)
    /\ \A i \in DOMAIN samples : Numbers(samples[i]) /\ ("bep" \in DOMAIN samples[i] => samples[i].bep \in Nat)

LEMMA OneRegime ==
    ASSUME NEW s, Numbers(s), "bep" \in DOMAIN s => s.bep \in Nat,
           Condition!At(s, "tolerance", 10) + Condition!At(s, "low", 70) <= 100
    PROVE  ~(Condition!InRegime(s, "at_bep") /\ Condition!InRegime(s, "low_flow"))
<1> DEFINE tolerance == Condition!At(s, "tolerance", 10)
           low == Condition!At(s, "low", 70)
<1>1. tolerance \in Int /\ low \in Int
  BY AtIs
<1>2. SUFFICES ASSUME "flow" \in DOMAIN s, Condition!At(s, "bep", 0) # 0,
                      100 * (s.bep - s.flow) <= tolerance * s.bep, 100 * s.flow < low * s.bep
               PROVE  FALSE
  BY DEF Condition!InRegime
<1>3. s.flow \in Int /\ s.bep \in Nat
  BY <1>2 DEF Numbers, Condition!At
<1> DEFINE flow == s.flow
           bep == s.bep
<1>4. 100 * (bep - flow) <= tolerance * bep /\ 100 * flow < low * bep /\ tolerance + low <= 100
  BY <1>2
<1> HIDE DEF tolerance, low, flow, bep
<1>5. flow \in Int /\ bep \in Nat
  BY <1>3 DEF flow, bep
<1>6. tolerance * bep \in Int /\ low * bep \in Int /\ (tolerance + low) * bep = tolerance * bep + low * bep
  BY <1>1, <1>5
<1>7. (tolerance + low) * bep <= 100 * bep
  <2> DEFINE both == tolerance + low
  <2>1. both \in Int /\ both <= 100
    BY <1>1, <1>4
  <2> HIDE DEF both
  <2>2. both * bep <= 100 * bep
    BY <1>5, <2>1
  <2> QED BY <2>2 DEF both
<1> QED BY <1>4, <1>5, <1>6, <1>7

(* Unless a sample widens its tolerance or its low-flow limit past each     *)
(* other, the shares at the best point and low in flow make no more than    *)
(* the whole (equipment.py, operating_envelope_score).                     *)
THEOREM RegimesAreApart ==
    ASSUME NEW samples, IsHistory(samples)
    PROVE  Condition!RegimesExclude(samples)
<1>1. SUFFICES ASSUME \A i \in DOMAIN samples : Condition!At(samples[i], "tolerance", 10) + Condition!At(samples[i], "low", 70) <= 100
               PROVE  Condition!OperatingEnvelope(samples)["at_bep"] + Condition!OperatingEnvelope(samples)["low_flow"] <= 10000
  BY DEF Condition!RegimesExclude
<1> DEFINE n == Len(samples)
           A == {i \in DOMAIN samples : Condition!InRegime(samples[i], "at_bep")}
           B == {i \in DOMAIN samples : Condition!InRegime(samples[i], "low_flow")}
<1>2. n \in Nat /\ n > 0 /\ DOMAIN samples = 1..n
  BY DEF IsHistory
<1>3. A \cap B = {}
  BY <1>1, OneRegime DEF IsHistory
<1>4. /\ Condition!OperatingEnvelope(samples)["at_bep"] = (10000 * Cardinality(A)) \div n
      /\ Condition!OperatingEnvelope(samples)["low_flow"] = (10000 * Cardinality(B)) \div n
  BY DEF Condition!OperatingEnvelope, Condition!Regimes, Condition!Cardinality, Cardinality
<1>5. A \subseteq 1..n /\ B \subseteq 1..n
  BY <1>2
<1> HIDE DEF A, B, n
<1>6. IsFiniteSet(1..n) /\ Cardinality(1..n) = n
  <2>1. 1 \in Int /\ n \in Int /\ 1 <= n
    BY <1>2
  <2>2. Cardinality(1..n) = IF 1 > n THEN 0 ELSE n - 1 + 1
    BY <2>1, FS_Interval
  <2>3. IsFiniteSet(1..n)
    BY <2>1, FS_Interval
  <2> QED BY <2>1, <2>2, <2>3
<1>7. IsFiniteSet(A) /\ IsFiniteSet(B) /\ IsFiniteSet(A \cup B) /\ Cardinality(A \cup B) <= n
  <2>1. A \cup B \subseteq 1..n
    BY <1>5
  <2> QED BY <1>5, <1>6, <2>1, FS_Subset
<1>8. Cardinality(A \cup B) = Cardinality(A) + Cardinality(B) - Cardinality(A \cap B)
  BY <1>7, FS_Union
<1>9. Cardinality(A \cap B) = 0
  BY <1>3, FS_EmptySet
<1>10. Cardinality(A) \in Nat /\ Cardinality(B) \in Nat
  BY <1>7, FS_CardinalityType
<1>11. Cardinality(A) + Cardinality(B) <= n
  BY <1>7, <1>8, <1>9, <1>10
<1>12. (10000 * Cardinality(A)) \div n + (10000 * Cardinality(B)) \div n <= 10000
  <2> DEFINE x == Cardinality(A)
             y == Cardinality(B)
  <2>1. x \in Nat /\ y \in Nat /\ x + y <= n
    BY <1>10, <1>11
  <2> HIDE DEF x, y
  <2>2. (10000 * x) \div n + (10000 * y) \div n <= 10000
    BY <1>2, <2>1, SharesFit
  <2> QED BY <2>2 DEF x, y
<1> QED BY <1>4, <1>12

-----------------------------------------------------------------------------
(* Root causes.                                                            *)
LEMMA FunctionIsSequence ==
    ASSUME NEW S, NEW n \in Nat, NEW s \in [1..n -> S]
    PROVE  s \in Seq(S) /\ Len(s) = n
  OBVIOUS

LEMMA NumbersAdd ==
    ASSUME NEW s \in [1..5 -> Int]
    PROVE  Summable(s) /\ Len(s) = 5
<1>1. 5 \in Nat
  OBVIOUS
<1>2. s \in Seq(Int) /\ Len(s) = 5
  BY <1>1, FunctionIsSequence, Zenon
<1>3. \A i \in 1..5 : s[i] \in Int
  OBVIOUS
<1> QED BY <1>1, <1>2, <1>3 DEF Summable

LEMMA TotalOfFive ==
    ASSUME NEW s, Summable(s), Len(s) = 5
    PROVE  Condition!Total(s) = s[1] + s[2] + s[3] + s[4] + s[5]
<1> DEFINE sum == Condition!Totals(s)
<1>1. sum[0] = 0 /\ \A n \in 1..5 : sum[n] = sum[n - 1] + s[n]
  BY TotalsAre
<1> HIDE DEF sum
<1>2. sum[1] = sum[0] + s[1]
  BY <1>1
<1>3. sum[2] = sum[1] + s[2]
  BY <1>1
<1>4. sum[3] = sum[2] + s[3]
  BY <1>1
<1>5. sum[4] = sum[3] + s[4]
  BY <1>1
<1>6. sum[5] = sum[4] + s[5]
  BY <1>1
<1>7. s[1] \in Int
  BY DEF Summable
<1> QED BY <1>1, <1>2, <1>3, <1>4, <1>5, <1>6, <1>7 DEF Condition!Total, sum

LEMMA ScoreIs ==
    ASSUME NEW x, Numbers(x), NEW cause \in Condition!Range(Condition!Causes)
    PROVE  Condition!CauseScore(cause, x) \in Nat /\ Condition!CauseScore(cause, x) > 0
<1> DEFINE Of(k) == Condition!Max({0, Condition!At(x, k, 0)})
           drop == Condition!Max({0, -Condition!At(x, "production", 0)})
           doubt == Condition!Max({0, 100 - Condition!At(x, "sensor_consistency", 100)})
<1>1. \A n \in Int : Condition!Max({0, n}) \in Nat
  BY DEF Condition!Max
<1>2. \A k : Of(k) \in Nat
  BY <1>1, AtIs
<1>3. drop \in Nat
  <2>1. -Condition!At(x, "production", 0) \in Int
    BY AtIs
  <2> QED BY <1>1, <2>1
<1>4. doubt \in Nat
  <2>1. 100 - Condition!At(x, "sensor_consistency", 100) \in Int
    BY AtIs
  <2> QED BY <1>1, <2>1
<1>5. cause \in {"membrane_fouling", "pump_efficiency_loss", "feed_salinity_rise", "valve_restriction", "sensor_error"}
  BY DEF Condition!Range, Condition!Causes
<1>6. Condition!CauseScore(cause, x) =
          CASE cause = "membrane_fouling" -> 5 + 8 * Of("power") + 12 * drop + 6 * Of("dp_rise") + 5 * Of("salt_passage")
            [] cause = "pump_efficiency_loss" -> 5 + 10 * Of("power") + 12 * Of("curve_deviation")
            [] cause = "feed_salinity_rise" -> 5 + 5 * Of("power") + 6 * drop + 10 * Of("salinity_rise")
            [] cause = "valve_restriction" -> 5 + 4 * Of("power") + 20 * Of("valve_error")
            [] cause = "sensor_error" -> 10 + 2 * doubt
  BY DEF Condition!CauseScore
<1> HIDE DEF Of, drop, doubt
<1> QED BY <1>2, <1>3, <1>4, <1>5, <1>6

\* The five shares add up, and each is of the same positive whole.
CauseNames == Condition!Range(Condition!Causes)
Whole(x) == Condition!Total([i \in DOMAIN Condition!Causes |-> Condition!CauseScore(Condition!Causes[i], x)])
LEMMA WholeIs ==
    ASSUME NEW x, Numbers(x)
    PROVE  /\ Whole(x) = Condition!CauseScore("membrane_fouling", x) + Condition!CauseScore("pump_efficiency_loss", x)
                         + Condition!CauseScore("feed_salinity_rise", x) + Condition!CauseScore("valve_restriction", x)
                         + Condition!CauseScore("sensor_error", x)
           /\ CauseNames = {"membrane_fouling", "pump_efficiency_loss", "feed_salinity_rise", "valve_restriction", "sensor_error"}
           /\ \A c \in CauseNames : Condition!CauseScore(c, x) \in Nat /\ Condition!CauseScore(c, x) > 0
<1> DEFINE s == [i \in DOMAIN Condition!Causes |-> Condition!CauseScore(Condition!Causes[i], x)]
           Names == {"membrane_fouling", "pump_efficiency_loss", "feed_salinity_rise", "valve_restriction", "sensor_error"}
<1>1. DOMAIN Condition!Causes = 1..5
  BY DEF Condition!Causes
<1>2. CauseNames = Names
  BY DEF Condition!Range, Condition!Causes, CauseNames
<1>3. \A c \in CauseNames : Condition!CauseScore(c, x) \in Nat /\ Condition!CauseScore(c, x) > 0
  BY ScoreIs DEF CauseNames
<1>4. /\ s[1] = Condition!CauseScore("membrane_fouling", x) /\ s[2] = Condition!CauseScore("pump_efficiency_loss", x)
      /\ s[3] = Condition!CauseScore("feed_salinity_rise", x) /\ s[4] = Condition!CauseScore("valve_restriction", x)
      /\ s[5] = Condition!CauseScore("sensor_error", x)
  BY <1>1 DEF Condition!Causes
<1>5. s \in [1..5 -> Int]
  <2>1. \A i \in 1..5 : Condition!Causes[i] \in CauseNames
    BY <1>1 DEF CauseNames, Condition!Range
  <2> QED BY <1>1, <1>3, <2>1
<1> HIDE DEF s, Names
<1>6. Summable(s) /\ Len(s) = 5
  BY <1>5, NumbersAdd
<1>8. Condition!Total(s) = s[1] + s[2] + s[3] + s[4] + s[5]
  BY <1>6, TotalOfFive
<1> QED BY <1>2, <1>3, <1>4, <1>8 DEF Whole, s, Names

LEMMA FiveShares ==
    ASSUME NEW a \in Nat, NEW b \in Nat, NEW c \in Nat, NEW d \in Nat, NEW e \in Nat,
           NEW w \in Nat, w > 0, w = a + b + c + d + e
    PROVE  LET total == (10000 * a) \div w + (10000 * b) \div w + (10000 * c) \div w + (10000 * d) \div w + (10000 * e) \div w
           IN 9996 <= total /\ total <= 10000
<1> DEFINE p == (10000 * a) \div w
           q == (10000 * b) \div w
           r == (10000 * c) \div w
           s == (10000 * d) \div w
           t == (10000 * e) \div w
           total == p + q + r + s + t
<1>1. /\ p \in Int /\ p * w <= 10000 * a /\ 10000 * a < p * w + w
      /\ q \in Int /\ q * w <= 10000 * b /\ 10000 * b < q * w + w
  BY QuotientIs
<1>2. /\ r \in Int /\ r * w <= 10000 * c /\ 10000 * c < r * w + w
      /\ s \in Int /\ s * w <= 10000 * d /\ 10000 * d < s * w + w
      /\ t \in Int /\ t * w <= 10000 * e /\ 10000 * e < t * w + w
  BY QuotientIs
<1> HIDE DEF p, q, r, s, t
<1>3. total \in Int /\ total * w = p * w + q * w + r * w + s * w + t * w
      /\ p * w \in Int /\ q * w \in Int /\ r * w \in Int /\ s * w \in Int /\ t * w \in Int
  BY <1>1, <1>2
<1>4. total * w <= 10000 * w /\ 10000 * w < total * w + 5 * w
  BY <1>1, <1>2, <1>3
<1> HIDE DEF total
<1>5. total <= 10000
  BY <1>3, <1>4
<1>6. 10000 < total + 5
  <2> DEFINE more == total + 5
  <2>1. more \in Int /\ more * w = total * w + 5 * w /\ 10000 * w < more * w
    BY <1>3, <1>4
  <2> HIDE DEF more
  <2>2. 10000 < more
    BY <2>1
  <2> QED BY <2>2 DEF more
<1>7. 9996 <= total /\ total <= 10000
  BY <1>3, <1>5, <1>6
<1> QED BY <1>7 DEF total, p, q, r, s, t

(* The causes share the whole but for what rounding loses (root_cause.py,   *)
(* root_cause_rank).                                                       *)
THEOREM CausesShareWhole ==
    ASSUME NEW x, Numbers(x)
    PROVE  Condition!CausesShare(x)
<1> DEFINE s == [i \in DOMAIN Condition!Causes |-> Condition!Probability(Condition!Causes[i], x)]
           score(c) == Condition!CauseScore(c, x)
           w == Whole(x)
           total == (10000 * score("membrane_fouling")) \div w + (10000 * score("pump_efficiency_loss")) \div w
                    + (10000 * score("feed_salinity_rise")) \div w + (10000 * score("valve_restriction")) \div w
                    + (10000 * score("sensor_error")) \div w
<1>1. /\ w = score("membrane_fouling") + score("pump_efficiency_loss") + score("feed_salinity_rise")
             + score("valve_restriction") + score("sensor_error")
      /\ CauseNames = {"membrane_fouling", "pump_efficiency_loss", "feed_salinity_rise", "valve_restriction", "sensor_error"}
      /\ \A c \in CauseNames : score(c) \in Nat /\ score(c) > 0
  BY WholeIs
<1>2. \A c : Condition!Probability(c, x) = (10000 * score(c)) \div w
  BY DEF Condition!Probability, Whole
<1>3. DOMAIN Condition!Causes = 1..5
  BY DEF Condition!Causes
<1>4. /\ s[1] = Condition!Probability("membrane_fouling", x) /\ s[2] = Condition!Probability("pump_efficiency_loss", x)
      /\ s[3] = Condition!Probability("feed_salinity_rise", x) /\ s[4] = Condition!Probability("valve_restriction", x)
      /\ s[5] = Condition!Probability("sensor_error", x)
  BY <1>3 DEF Condition!Causes
<1> HIDE DEF score, w
<1>5. w \in Nat /\ w > 0
  BY <1>1
<1>6. \A c \in CauseNames : Condition!Probability(c, x) \in Int
  BY <1>1, <1>2, <1>5
<1>7. s \in [1..5 -> Int]
  <2>1. \A i \in 1..5 : Condition!Causes[i] \in CauseNames
    BY <1>3 DEF CauseNames, Condition!Range
  <2> QED BY <1>3, <1>6, <2>1
<1> HIDE DEF s
<1>8. Summable(s) /\ Len(s) = 5
  BY <1>7, NumbersAdd
<1>10. Condition!Total(s) = s[1] + s[2] + s[3] + s[4] + s[5]
  BY <1>8, TotalOfFive
<1>11. Condition!Total(s) = total
  BY <1>2, <1>4, <1>10
<1>12. 9996 <= total /\ total <= 10000
  <2>1. /\ score("membrane_fouling") \in Nat /\ score("pump_efficiency_loss") \in Nat /\ score("feed_salinity_rise") \in Nat
        /\ score("valve_restriction") \in Nat /\ score("sensor_error") \in Nat
    BY <1>1
  <2> DEFINE a == score("membrane_fouling")
             b == score("pump_efficiency_loss")
             c == score("feed_salinity_rise")
             d == score("valve_restriction")
             e == score("sensor_error")
  <2>2. a \in Nat /\ b \in Nat /\ c \in Nat /\ d \in Nat /\ e \in Nat /\ w = a + b + c + d + e
    BY <1>1, <2>1
  <2>3. total = (10000 * a) \div w + (10000 * b) \div w + (10000 * c) \div w + (10000 * d) \div w + (10000 * e) \div w
    OBVIOUS
  <2> HIDE DEF a, b, c, d, e, total
  <2> QED BY <1>5, <2>2, <2>3, FiveShares
<1> HIDE DEF total
<1>13. 9996 <= Condition!Total(s) /\ Condition!Total(s) <= 10000
  BY <1>11, <1>12
<1> QED BY <1>13 DEF Condition!CausesShare, s

LEMMA EvidenceShows ==
    ASSUME NEW x, NEW y, Numbers(x), Numbers(y), NEW sign \in DOMAIN Condition!SignOf,
           \A k, d : k # sign => Condition!At(y, k, d) = Condition!At(x, k, d),
           Condition!At(x, sign, 0) <= Condition!At(y, sign, 0)
    PROVE  \A c \in CauseNames : IF c = Condition!SignOf[sign] THEN Condition!CauseScore(c, x) <= Condition!CauseScore(c, y)
                                 ELSE Condition!CauseScore(c, y) = Condition!CauseScore(c, x)
<1> DEFINE Of(z, k) == Condition!Max({0, Condition!At(z, k, 0)})
           drop(z) == Condition!Max({0, -Condition!At(z, "production", 0)})
           doubt(z) == Condition!Max({0, 100 - Condition!At(z, "sensor_consistency", 100)})
<1>1. sign \in {"dp_rise", "salt_passage", "curve_deviation", "salinity_rise", "valve_error"}
  BY DEF Condition!SignOf
<1>2. \A n \in Int : Condition!Max({0, n}) = IF n < 0 THEN 0 ELSE n
  BY DEF Condition!Max
<1>3. \A k : Of(x, k) \in Nat /\ Of(y, k) \in Nat
  <2>1. \A k : Condition!At(x, k, 0) \in Int /\ Condition!At(y, k, 0) \in Int
    BY AtIs
  <2> QED BY <1>2, <2>1
<1>4. Of(x, sign) <= Of(y, sign)
  <2>1. Condition!At(x, sign, 0) \in Int /\ Condition!At(y, sign, 0) \in Int
    BY AtIs
  <2> QED BY <1>2, <2>1
<1>5. \A k : k # sign => Of(x, k) = Of(y, k)
  OBVIOUS
<1>6. drop(x) = drop(y) /\ doubt(x) = doubt(y) /\ drop(x) \in Nat /\ doubt(x) \in Nat
  <2>1. -Condition!At(x, "production", 0) \in Int /\ 100 - Condition!At(x, "sensor_consistency", 100) \in Int
    BY AtIs
  <2>2. "production" # sign /\ "sensor_consistency" # sign
    BY <1>1
  <2> QED BY <1>2, <2>1, <2>2
<1>7. \A c, z : Condition!CauseScore(c, z) =
          CASE c = "membrane_fouling" -> 5 + 8 * Of(z, "power") + 12 * drop(z) + 6 * Of(z, "dp_rise") + 5 * Of(z, "salt_passage")
            [] c = "pump_efficiency_loss" -> 5 + 10 * Of(z, "power") + 12 * Of(z, "curve_deviation")
            [] c = "feed_salinity_rise" -> 5 + 5 * Of(z, "power") + 6 * drop(z) + 10 * Of(z, "salinity_rise")
            [] c = "valve_restriction" -> 5 + 4 * Of(z, "power") + 20 * Of(z, "valve_error")
            [] c = "sensor_error" -> 10 + 2 * doubt(z)
  BY DEF Condition!CauseScore
<1>8. CauseNames = {"membrane_fouling", "pump_efficiency_loss", "feed_salinity_rise", "valve_restriction", "sensor_error"}
  BY DEF Condition!Range, Condition!Causes, CauseNames
<1> HIDE DEF Of, drop, doubt
<1>9. CASE sign = "dp_rise"
  BY <1>3, <1>4, <1>5, <1>6, <1>7, <1>8, <1>9 DEF Condition!SignOf
<1>10. CASE sign = "salt_passage"
  BY <1>3, <1>4, <1>5, <1>6, <1>7, <1>8, <1>10 DEF Condition!SignOf
<1>11. CASE sign = "curve_deviation"
  BY <1>3, <1>4, <1>5, <1>6, <1>7, <1>8, <1>11 DEF Condition!SignOf
<1>12. CASE sign = "salinity_rise"
  BY <1>3, <1>4, <1>5, <1>6, <1>7, <1>8, <1>12 DEF Condition!SignOf
<1>13. CASE sign = "valve_error"
  BY <1>3, <1>4, <1>5, <1>6, <1>7, <1>8, <1>13 DEF Condition!SignOf
<1> QED BY <1>1, <1>9, <1>10, <1>11, <1>12, <1>13

LEMMA ShareMoves ==
    ASSUME NEW s \in Nat, NEW t \in Nat, s <= t, NEW rest \in Nat, NEW v \in Nat, NEW w \in Nat, v > 0, w > 0,
           v = s + rest, w = t + rest, NEW r \in Nat
    PROVE  (10000 * s) \div v <= (10000 * t) \div w /\ (10000 * r) \div w <= (10000 * r) \div v
<1>1. (10000 * s) * w <= (10000 * t) * v
  <2>1. s * w = s * t + s * rest /\ t * v = t * s + t * rest /\ s * t = t * s
    OBVIOUS
  <2>2. s * rest <= t * rest /\ s * rest \in Nat /\ t * rest \in Nat /\ s * t \in Nat
    OBVIOUS
  <2>3. (10000 * s) * w = 10000 * (s * w) /\ (10000 * t) * v = 10000 * (t * v)
    OBVIOUS
  <2> QED BY <2>1, <2>2, <2>3
<1>2. (10000 * s) \div v <= (10000 * t) \div w
  <2>1. 10000 * s \in Int /\ 10000 * t \in Int
    OBVIOUS
  <2> QED BY <1>1, <2>1, QuotientGrows
<1>3. (10000 * r) * v <= (10000 * r) * w
  <2> DEFINE k == 10000 * r
  <2>1. k \in Nat
    OBVIOUS
  <2> HIDE DEF k
  <2>2. k * v <= k * w
    BY <2>1
  <2> QED BY <2>2 DEF k
<1>4. (10000 * r) \div w <= (10000 * r) \div v
  <2>1. 10000 * r \in Int
    OBVIOUS
  <2> QED BY <1>3, <2>1, QuotientGrows
<1> QED BY <1>2, <1>4

(* A sign of one cause that grows never moves that cause down nor another   *)
(* one up (root_cause.py, root_cause_rank).                                *)
THEOREM EvidenceCounts ==
    ASSUME NEW x, Numbers(x), NEW sign \in DOMAIN Condition!SignOf, NEW v \in Int
    PROVE  Condition!EvidenceMoves(x, sign, v)
<1> DEFINE y == [s \in DOMAIN x \cup {sign} |-> IF s = sign THEN v ELSE x[s]]
           own == Condition!SignOf[sign]
<1>1. SUFFICES ASSUME Condition!At(x, sign, 0) <= v, NEW c \in CauseNames
               PROVE  IF c = own THEN Condition!Probability(c, x) <= Condition!Probability(c, y)
                      ELSE Condition!Probability(c, y) <= Condition!Probability(c, x)
  BY DEF Condition!EvidenceMoves, CauseNames
<1>2. Numbers(y)
  BY DEF Numbers
<1>3. /\ \A k, d : k # sign => Condition!At(y, k, d) = Condition!At(x, k, d)
      /\ Condition!At(y, sign, 0) = v
  BY DEF Condition!At
<1>4. own \in CauseNames
  <2>1. CauseNames = {"membrane_fouling", "pump_efficiency_loss", "feed_salinity_rise", "valve_restriction", "sensor_error"}
    BY WholeIs
  <2> QED BY <2>1 DEF Condition!SignOf
<1> HIDE DEF y
<1> DEFINE before(d) == Condition!CauseScore(d, x)
           after(d) == Condition!CauseScore(d, y)
           rest == Whole(x) - before(own)
<1>5. \A d \in CauseNames : IF d = own THEN before(d) <= after(d) ELSE after(d) = before(d)
  <2>1. Condition!At(x, sign, 0) <= Condition!At(y, sign, 0)
    BY <1>1, <1>3
  <2> QED BY <1>2, <1>3, <2>1, EvidenceShows
<1>6. /\ CauseNames = {"membrane_fouling", "pump_efficiency_loss", "feed_salinity_rise", "valve_restriction", "sensor_error"}
      /\ Whole(x) = before("membrane_fouling") + before("pump_efficiency_loss") + before("feed_salinity_rise")
                    + before("valve_restriction") + before("sensor_error")
      /\ \A d \in CauseNames : before(d) \in Nat /\ before(d) > 0
  BY WholeIs
<1>7. /\ Whole(y) = after("membrane_fouling") + after("pump_efficiency_loss") + after("feed_salinity_rise")
                    + after("valve_restriction") + after("sensor_error")
      /\ \A d \in CauseNames : after(d) \in Nat /\ after(d) > 0
  BY <1>2, WholeIs
<1>8. /\ \A d : Condition!Probability(d, x) = (10000 * before(d)) \div Whole(x)
      /\ \A d : Condition!Probability(d, y) = (10000 * after(d)) \div Whole(y)
  BY DEF Condition!Probability, Whole
<1> HIDE DEF before, after, own
<1>9. /\ rest \in Nat /\ Whole(x) = before(own) + rest /\ Whole(y) = after(own) + rest
      /\ Whole(x) \in Nat /\ Whole(x) > 0 /\ Whole(y) \in Nat /\ Whole(y) > 0
  BY <1>4, <1>5, <1>6, <1>7
<1> HIDE DEF rest
<1>10. CASE c = own
  <2>1. before(own) \in Nat /\ after(own) \in Nat /\ before(own) <= after(own)
    BY <1>4, <1>5, <1>6, <1>7
  <2>2. (10000 * before(own)) \div Whole(x) <= (10000 * after(own)) \div Whole(y)
    BY <1>9, <2>1, ShareMoves
  <2> QED BY <1>8, <1>10, <2>2
<1>11. CASE c # own
  <2>1. before(own) \in Nat /\ after(own) \in Nat /\ before(own) <= after(own) /\ before(c) \in Nat /\ after(c) = before(c)
    BY <1>1, <1>4, <1>5, <1>6, <1>7, <1>11
  <2>2. (10000 * before(c)) \div Whole(y) <= (10000 * before(c)) \div Whole(x)
    BY <1>9, <2>1, ShareMoves
  <2> QED BY <1>8, <1>11, <2>1, <2>2
<1> QED BY <1>10, <1>11

-----------------------------------------------------------------------------
(* Ranking.                                                                *)
IsExposure(a) ==
    /\ {"consequence", "impact", "weight", "spares", "redundancy"} \subseteq DOMAIN a
    /\ {a.consequence, a.impact, a.weight, a.redundancy} \subseteq Nat /\ a.spares \in BOOLEAN
Exposed(p, a) == (p * (a.consequence + a.impact) * a.weight) \div 100
Spare(a) == IF a.spares THEN 85 ELSE 115
LEMMA RankIs ==
    ASSUME NEW p \in Nat, NEW q \in Nat, p <= q, NEW a, IsExposure(a)
    PROVE  /\ Condition!RankScore(p, a) = (Exposed(p, a) * Spare(a)) \div (100 * (1 + a.redundancy))
           /\ Exposed(p, a) \in Nat /\ Exposed(q, a) \in Nat /\ Exposed(p, a) <= Exposed(q, a)
<1>1. Condition!RankScore(p, a) = (Exposed(p, a) * Spare(a)) \div (100 * (1 + a.redundancy))
  BY DEF Condition!RankScore, Exposed, Spare
<1> DEFINE m == a.consequence + a.impact
           n == a.weight
<1>2. m \in Nat /\ n \in Nat
  BY DEF IsExposure
<1>3. Exposed(p, a) = (p * m * n) \div 100 /\ Exposed(q, a) = (q * m * n) \div 100
  BY DEF Exposed
<1> HIDE DEF m, n
<1>4. p * m \in Nat /\ q * m \in Nat /\ p * m <= q * m
  BY <1>2, ProductGrows
<1> DEFINE i == p * m
           j == q * m
<1> HIDE DEF i, j
<1>5. i \in Nat /\ j \in Nat /\ i <= j
  BY <1>4 DEF i, j
<1>6. i * n \in Nat /\ j * n \in Nat /\ i * n <= j * n
  BY <1>2, <1>5, ProductGrows
<1> DEFINE k == i * n
           l == j * n
<1>7. k \in Nat /\ l \in Nat /\ k <= l
  BY <1>6
<1> HIDE DEF k, l
<1>8. k \div 100 \in Nat /\ l \div 100 \in Nat /\ k \div 100 <= l \div 100
  BY <1>7
<1> QED BY <1>1, <1>3, <1>8 DEF k, l, i, j

(* A likelier failure never ranks lower, nor does an asset with less        *)
(* redundancy or no spares (equipment.py, maintenance_priority).           *)
THEOREM RankFollowsRisk ==
    ASSUME NEW p \in Nat, NEW q \in Nat, NEW a, IsExposure(a)
    PROVE  Condition!RankGrows(p, q, a)
<1> DEFINE more == [a EXCEPT !.redundancy = @ + 1]
           none == [a EXCEPT !.spares = FALSE]
           x == Exposed(p, a)
           r == a.redundancy
<1>1. /\ IsExposure(more) /\ more.redundancy = r + 1 /\ Exposed(p, more) = x /\ Spare(more) = Spare(a)
      /\ IsExposure(none) /\ none.redundancy = r /\ Exposed(p, none) = x /\ Spare(none) = 115
  BY DEF IsExposure, Exposed, Spare
<1> HIDE DEF more, none
<1>2. x \in Nat /\ r \in Nat /\ Spare(a) \in {85, 115}
  <2>1. p <= p
    OBVIOUS
  <2>2. x \in Nat
    BY <2>1, RankIs
  <2> QED BY <2>2 DEF IsExposure, Spare
<1>3. /\ Condition!RankScore(p, a) = (x * Spare(a)) \div (100 * (1 + r))
      /\ Condition!RankScore(p, more) = (x * Spare(a)) \div (100 * (1 + (r + 1)))
      /\ Condition!RankScore(p, none) = (x * 115) \div (100 * (1 + r))
  <2>1. p <= p
    OBVIOUS
  <2> HIDE DEF x, r
  <2> QED BY <1>1, <2>1, RankIs DEF x, r
<1>4. p <= q => Condition!RankScore(p, a) <= Condition!RankScore(q, a)
  <2>1. SUFFICES ASSUME p <= q PROVE Condition!RankScore(p, a) <= Condition!RankScore(q, a)
    OBVIOUS
  <2> DEFINE y == Exposed(q, a)
  <2>2. y \in Nat /\ x <= y
    BY <2>1, RankIs
  <2>3. q <= q
    OBVIOUS
  <2>4. Condition!RankScore(q, a) = (y * Spare(a)) \div (100 * (1 + r))
    BY <2>3, RankIs
  <2> HIDE DEF x, y, r
  <2>5. x * Spare(a) \in Int /\ y * Spare(a) \in Int /\ x * Spare(a) <= y * Spare(a)
    BY <1>2, <2>2
  <2>6. 100 * (1 + r) \in Int /\ 100 * (1 + r) > 0
    BY <1>2
  <2> QED BY <1>3, <2>4, <2>5, <2>6, QuotientLess
<1> HIDE DEF x, r
<1>5. Condition!RankScore(p, more) <= Condition!RankScore(p, a)
  <2> DEFINE k == x * Spare(a)
  <2>1. k \in Nat
    BY <1>2
  <2> HIDE DEF k
  <2>2. k * (100 * (1 + r)) <= k * (100 * (1 + (r + 1)))
    BY <1>2, <2>1
  <2>3. k \div (100 * (1 + (r + 1))) <= k \div (100 * (1 + r))
    BY <1>2, <2>1, <2>2, QuotientGrows
  <2> QED BY <1>3, <2>3 DEF k
<1>6. Condition!RankScore(p, a) <= Condition!RankScore(p, none)
  <2>1. x * Spare(a) \in Int /\ x * 115 \in Int /\ x * Spare(a) <= x * 115
    BY <1>2
  <2>2. 100 * (1 + r) \in Int /\ 100 * (1 + r) > 0
    BY <1>2
  <2> QED BY <1>3, <2>1, <2>2, QuotientLess
<1> QED BY <1>4, <1>5, <1>6 DEF Condition!RankGrows, more, none

-----------------------------------------------------------------------------
\* The inputs the model is run on are inputs the theorems are about.
LEMMA InputsAre ==
    /\ \A m, v : v \in Int => IsTelemetry(Condition!Telemetry(m, v))
    /\ \A a \in Condition!Assets : IsAsset(a) /\ a.type = "pump"
    /\ \A first, second \in Condition!Samples : IsHistory(<<first, second>>)
    /\ \A x \in Condition!Symptoms : Numbers(x)
    /\ \A a \in Condition!Exposures : IsExposure(a)
<1>1. ASSUME NEW m, NEW v \in Int PROVE IsTelemetry(Condition!Telemetry(m, v))
  BY DEF IsTelemetry, Numbers, Condition!Telemetry, Condition!Nominal
<1>2. ASSUME NEW a \in Condition!Assets PROVE IsAsset(a) /\ a.type = "pump"
  <2>1. /\ {"trend", "threshold", "duty", "age", "interval", "peers"} \subseteq DOMAIN a
        /\ a.type = "pump" /\ a.trend \in Condition!Trends /\ a.threshold = Condition!FailureThreshold
        /\ a.duty \in {0, 82, 100} /\ a.age \in {0, 220, 900} /\ a.interval \in {90, 365} /\ a.peers \in {90, 110}
        /\ a.anomaly \in {0, 61}
    BY DEF Condition!Assets
  <2>2. \E v \in {40, 46, 90} : a.telemetry = Condition!Telemetry("vibration", v)
    BY DEF Condition!Assets
  <2>3. IsTelemetry(a.telemetry)
    BY <1>1, <2>2
  <2>4. a.trend \in Seq(Nat) /\ a.trend # <<>>
    <3> DEFINE one == <<9000>>
               two == <<8000, 8000>>
               three == <<8000, 7400>>
               four == <<7400, 7100, 6900, 6600, 6300>>
               five == <<6000, 2000>>
    <3>1. one \in Seq(Nat) /\ two \in Seq(Nat) /\ three \in Seq(Nat) /\ five \in Seq(Nat)
      OBVIOUS
    <3>2. four \in Seq(Nat)
      OBVIOUS
    <3>3. \A t \in Condition!Trends : t # <<>>
      BY DEF Condition!Trends
    <3>4. Condition!Trends = {one, two, three, four, five}
      BY DEF Condition!Trends
    <3> HIDE DEF one, two, three, four, five
    <3>5. Condition!Trends \subseteq Seq(Nat)
      BY <3>1, <3>2, <3>4, Zenon
    <3>6. a.trend \in Condition!Trends
      BY <2>1
    <3> QED BY <3>3, <3>5, <3>6, Zenon
  <2>5. "pump" \in DOMAIN Condition!Penalties
    BY DEF Condition!Penalties
  <2>6. {a.threshold, a.duty, a.age, a.peers} \subseteq Nat /\ a.interval \in Nat \ {0} /\ a.anomaly \in Nat
    BY <2>1 DEF Condition!FailureThreshold
  <2> QED BY <2>1, <2>3, <2>4, <2>5, <2>6 DEF IsAsset, IsAged
<1>3. ASSUME NEW s \in Condition!Samples PROVE Numbers(s) /\ s.bep \in Nat
  BY DEF Condition!Samples, Numbers
<1>4. ASSUME NEW first \in Condition!Samples, NEW second \in Condition!Samples PROVE IsHistory(<<first, second>>)
  <2> DEFINE h == <<first, second>>
  <2>1. Len(h) = 2 /\ DOMAIN h = {1, 2} /\ 1..2 = {1, 2} /\ h[1] = first /\ h[2] = second
    OBVIOUS
  <2> HIDE DEF h
  <2>2. \A i \in {1, 2} : Numbers(h[i]) /\ h[i].bep \in Nat
    BY <1>3, <2>1
  <2>3. IsHistory(h)
    BY <2>1, <2>2 DEF IsHistory
  <2> QED BY <2>3 DEF h
<1>5. ASSUME NEW x \in Condition!Symptoms PROVE Numbers(x)
  BY DEF Condition!Symptoms, Numbers
<1>6. ASSUME NEW a \in Condition!Exposures PROVE IsExposure(a)
  BY DEF Condition!Exposures, IsExposure
<1> QED BY <1>1, <1>2, <1>4, <1>5, <1>6

LEMMA MaintenanceHolds == Condition!MaintenanceSound
<1>1. ASSUME NEW type \in DOMAIN Condition!Penalties, NEW m \in Condition!Metrics(type),
             NEW v \in Condition!Values, NEW w \in Condition!Values
      PROVE  Condition!HealthFalls(type, Condition!Telemetry(m, v), Condition!Telemetry(m, w))
  <2>1. v \in Int /\ w \in Int
    BY DEF Condition!Values
  <2>2. IsTelemetry(Condition!Telemetry(m, v)) /\ IsTelemetry(Condition!Telemetry(m, w))
    BY <2>1, InputsAre
  <2> QED BY <2>2, HealthOnlyFalls
<1>2. ASSUME NEW a \in Condition!Assets
      PROVE  /\ Condition!LifeBand(a)
             /\ \A duty \in {82, 100}, age \in {220, 900} : Condition!UseShortens(a, duty, age)
             /\ \A v \in {40, 46, 90}, anomaly \in {0, 100} :
                    Condition!WearShows(a, [a EXCEPT !.telemetry = Condition!Telemetry("vibration", v), !.anomaly = anomaly])
  <2>1. IsAsset(a)
    BY InputsAre
  <2>2. \A duty, age \in Nat : Condition!LifeBand(a) /\ Condition!UseShortens(a, duty, age)
    BY <2>1, LifeIsBounded DEF IsAsset
  <2>3. Condition!LifeBand(a) /\ \A duty \in {82, 100}, age \in {220, 900} : Condition!UseShortens(a, duty, age)
    BY <2>2
  <2>4. ASSUME NEW v \in {40, 46, 90}, NEW anomaly \in {0, 100}
        PROVE  Condition!WearShows(a, [a EXCEPT !.telemetry = Condition!Telemetry("vibration", v), !.anomaly = anomaly])
    <3> DEFINE b == [a EXCEPT !.telemetry = Condition!Telemetry("vibration", v), !.anomaly = anomaly]
    <3>1. v \in Int /\ anomaly \in Nat
      OBVIOUS
    <3>2. IsTelemetry(Condition!Telemetry("vibration", v))
      BY <3>1, InputsAre
    <3>3. /\ DOMAIN b = DOMAIN a /\ b.trend = a.trend /\ b.threshold = a.threshold /\ b.duty = a.duty /\ b.age = a.age
          /\ b.interval = a.interval /\ b.peers = a.peers /\ b.type = a.type
          /\ b.telemetry = Condition!Telemetry("vibration", v) /\ b.anomaly = anomaly
      BY DEF Condition!Assets
    <3> HIDE DEF b
    <3>4. IsAsset(b)
      BY <2>1, <3>1, <3>2, <3>3 DEF IsAsset, IsAged
    <3>5. Condition!WearShows(a, b)
      BY <2>1, <3>4, WearNeverHides
    <3> QED BY <3>5 DEF b
  <2> QED BY <2>3, <2>4
<1>3. \A first, second \in Condition!Samples : Condition!RegimesExclude(<<first, second>>)
  BY InputsAre, RegimesAreApart
<1>4. ASSUME NEW x \in Condition!Symptoms
      PROVE  /\ Condition!CausesShare(x)
             /\ \A sign \in DOMAIN Condition!SignOf, v \in {5, 20} : Condition!EvidenceMoves(x, sign, v)
  <2>1. Numbers(x)
    BY InputsAre
  <2>2. \A sign \in DOMAIN Condition!SignOf, v \in Int : Condition!EvidenceMoves(x, sign, v)
    BY <2>1, EvidenceCounts
  <2>3. Condition!CausesShare(x)
    BY <2>1, CausesShareWhole
  <2>4. \A v \in {5, 20} : v \in Int
    OBVIOUS
  <2> QED BY <2>2, <2>3, <2>4
<1>5. \A p, q \in {0, 40, 97}, a \in Condition!Exposures : Condition!RankGrows(p, q, a)
  <2>1. \A p \in {0, 40, 97} : p \in Nat
    OBVIOUS
  <2> QED BY <2>1, InputsAre, RankFollowsRisk
<1> QED BY <1>1, <1>2, <1>3, <1>4, <1>5 DEF Condition!MaintenanceSound

-----------------------------------------------------------------------------
(* The logistic curve and the blends of the condition models.              *)
HalfOf(z) == IF z < 100 THEN 500 + (z * 231) \div 100
            ELSE IF z < 200 THEN 731 + ((z - 100) * 150) \div 100
            ELSE IF z < 300 THEN 881 + ((z - 200) * 72) \div 100
            ELSE IF z < 400 THEN 953 + ((z - 300) * 29) \div 100
            ELSE IF z < 500 THEN 982 + ((z - 400) * 11) \div 100
            ELSE IF z < 600 THEN 993 + ((z - 500) * 5) \div 100
            ELSE 998
LEMMA HalfIs ==
    ASSUME NEW z \in Nat
    PROVE  Condition!HalfLogistic(z) = HalfOf(z)
<1> DEFINE k == z \div 100
           rest == z % 100
           P == Condition!LogisticPoints
<1>1. k \in Nat /\ rest \in Nat /\ rest < 100 /\ z = 100 * k + rest
  OBVIOUS
<1>2. Condition!HalfLogistic(z) = IF k >= 6 THEN 998 ELSE P[k + 1] + (rest * (P[k + 2] - P[k + 1])) \div 100
  BY DEF Condition!HalfLogistic
<1>3. /\ P[1] = 500 /\ P[2] = 731 /\ P[3] = 881 /\ P[4] = 953 /\ P[5] = 982 /\ P[6] = 993 /\ P[7] = 998
  BY DEF Condition!LogisticPoints
<1> HIDE DEF k, rest, P
<1>4. CASE k = 0
  <2>1. Condition!HalfLogistic(z) = P[1] + (rest * (P[2] - P[1])) \div 100
    BY <1>2, <1>4
  <2>2. P[2] - P[1] = 231 /\ rest = z /\ z < 100
    BY <1>1, <1>3, <1>4
  <2> QED BY <1>3, <2>1, <2>2 DEF HalfOf
<1>5. CASE k = 1
  <2>1. Condition!HalfLogistic(z) = P[2] + (rest * (P[3] - P[2])) \div 100
    BY <1>2, <1>5
  <2>2. P[3] - P[2] = 150 /\ rest = z - 100 /\ ~(z < 100) /\ z < 200
    BY <1>1, <1>3, <1>5
  <2> QED BY <1>3, <2>1, <2>2 DEF HalfOf
<1>6. CASE k = 2
  <2>1. Condition!HalfLogistic(z) = P[3] + (rest * (P[4] - P[3])) \div 100
    BY <1>2, <1>6
  <2>2. P[4] - P[3] = 72 /\ rest = z - 200 /\ ~(z < 200) /\ ~(z < 100) /\ z < 300
    BY <1>1, <1>3, <1>6
  <2> QED BY <1>3, <2>1, <2>2 DEF HalfOf
<1>7. CASE k = 3
  <2>1. Condition!HalfLogistic(z) = P[4] + (rest * (P[5] - P[4])) \div 100
    BY <1>2, <1>7
  <2>2. P[5] - P[4] = 29 /\ rest = z - 300 /\ ~(z < 300) /\ ~(z < 200) /\ ~(z < 100) /\ z < 400
    BY <1>1, <1>3, <1>7
  <2> QED BY <1>3, <2>1, <2>2 DEF HalfOf
<1>8. CASE k = 4
  <2>1. Condition!HalfLogistic(z) = P[5] + (rest * (P[6] - P[5])) \div 100
    BY <1>2, <1>8
  <2>2. P[6] - P[5] = 11 /\ rest = z - 400 /\ ~(z < 400) /\ ~(z < 300) /\ ~(z < 200) /\ ~(z < 100) /\ z < 500
    BY <1>1, <1>3, <1>8
  <2> QED BY <1>3, <2>1, <2>2 DEF HalfOf
<1>9. CASE k = 5
  <2>1. Condition!HalfLogistic(z) = P[6] + (rest * (P[7] - P[6])) \div 100
    BY <1>2, <1>9
  <2>2. P[7] - P[6] = 5 /\ rest = z - 500 /\ ~(z < 500) /\ ~(z < 400) /\ ~(z < 300) /\ ~(z < 200) /\ ~(z < 100) /\ z < 600
    BY <1>1, <1>3, <1>9
  <2> QED BY <1>3, <2>1, <2>2 DEF HalfOf
<1>10. CASE k >= 6
  <2>1. ~(z < 600) /\ ~(z < 500) /\ ~(z < 400) /\ ~(z < 300) /\ ~(z < 200) /\ ~(z < 100)
    BY <1>1, <1>10
  <2> QED BY <1>2, <1>10, <2>1 DEF HalfOf
<1> QED BY <1>1, <1>4, <1>5, <1>6, <1>7, <1>8, <1>9, <1>10

LEMMA PieceGrows ==
    ASSUME NEW y \in Nat, NEW z \in Nat, y <= z, z <= 100, NEW d \in Nat
    PROVE  /\ (y * d) \div 100 \in Nat /\ (z * d) \div 100 \in Nat
           /\ (y * d) \div 100 <= (z * d) \div 100 /\ (z * d) \div 100 <= d
<1>1. y * d \in Nat /\ z * d \in Nat /\ y * d <= z * d /\ z * d <= 100 * d
  BY ProductGrows
<1> DEFINE a == y * d
           b == z * d
<1> HIDE DEF a, b
<1>2. a \div 100 \in Nat /\ b \div 100 \in Nat /\ a \div 100 <= b \div 100 /\ b \div 100 <= d
  BY <1>1 DEF a, b
<1> QED BY <1>2 DEF a, b

\* Between two of its points the curve grows, and stays between them.
LEMMA PiecesGrow ==
    ASSUME NEW y \in Nat, NEW z \in Nat, y <= z, NEW start \in Nat, start <= y, z < start + 100, NEW d \in Nat
    PROVE  /\ ((y - start) * d) \div 100 \in Nat /\ ((z - start) * d) \div 100 \in Nat
           /\ ((y - start) * d) \div 100 <= ((z - start) * d) \div 100
           /\ ((z - start) * d) \div 100 <= d
<1>1. y - start \in Nat /\ z - start \in Nat /\ y - start <= z - start /\ z - start <= 100
  OBVIOUS
<1> QED BY <1>1, PieceGrows

LEMMA HalfGrows ==
    ASSUME NEW y \in Nat, NEW z \in Nat, y <= z
    PROVE  /\ HalfOf(y) \in Nat /\ HalfOf(z) \in Nat /\ HalfOf(y) <= HalfOf(z)
           /\ 500 <= HalfOf(y) /\ HalfOf(y) <= 998 /\ (y > 0 => 502 <= HalfOf(y))
<1>1. ASSUME NEW x \in Nat
      PROVE  /\ HalfOf(x) \in Nat
             /\ x < 100 => 500 <= HalfOf(x) /\ HalfOf(x) <= 731
             /\ 100 <= x /\ x < 200 => 731 <= HalfOf(x) /\ HalfOf(x) <= 881
             /\ 200 <= x /\ x < 300 => 881 <= HalfOf(x) /\ HalfOf(x) <= 953
             /\ 300 <= x /\ x < 400 => 953 <= HalfOf(x) /\ HalfOf(x) <= 982
             /\ 400 <= x /\ x < 500 => 982 <= HalfOf(x) /\ HalfOf(x) <= 993
             /\ 500 <= x /\ x < 600 => 993 <= HalfOf(x) /\ HalfOf(x) <= 998
             /\ 600 <= x => HalfOf(x) = 998
  <2>1. CASE 0 <= x /\ x < 100
    <3>1. 0 \in Nat /\ 231 \in Nat /\ x <= x /\ x < 0 + 100
      BY <2>1
    <3>2. ((x - 0) * 231) \div 100 \in Nat /\ ((x - 0) * 231) \div 100 <= 231
      BY <2>1, <3>1, PiecesGrow
    <3>3. HalfOf(x) = 500 + ((x - 0) * 231) \div 100
      BY <2>1 DEF HalfOf
    <3> QED BY <2>1, <3>2, <3>3
  <2>2. CASE 100 <= x /\ x < 200
    <3>1. 100 \in Nat /\ 150 \in Nat /\ x <= x /\ x < 100 + 100
      BY <2>2
    <3>2. ((x - 100) * 150) \div 100 \in Nat /\ ((x - 100) * 150) \div 100 <= 150
      BY <2>2, <3>1, PiecesGrow
    <3>3. HalfOf(x) = 731 + ((x - 100) * 150) \div 100
      BY <2>2 DEF HalfOf
    <3> QED BY <2>2, <3>2, <3>3
  <2>3. CASE 200 <= x /\ x < 300
    <3>1. 200 \in Nat /\ 72 \in Nat /\ x <= x /\ x < 200 + 100
      BY <2>3
    <3>2. ((x - 200) * 72) \div 100 \in Nat /\ ((x - 200) * 72) \div 100 <= 72
      BY <2>3, <3>1, PiecesGrow
    <3>3. HalfOf(x) = 881 + ((x - 200) * 72) \div 100
      BY <2>3 DEF HalfOf
    <3> QED BY <2>3, <3>2, <3>3
  <2>4. CASE 300 <= x /\ x < 400
    <3>1. 300 \in Nat /\ 29 \in Nat /\ x <= x /\ x < 300 + 100
      BY <2>4
    <3>2. ((x - 300) * 29) \div 100 \in Nat /\ ((x - 300) * 29) \div 100 <= 29
      BY <2>4, <3>1, PiecesGrow
    <3>3. HalfOf(x) = 953 + ((x - 300) * 29) \div 100
      BY <2>4 DEF HalfOf
    <3> QED BY <2>4, <3>2, <3>3
  <2>5. CASE 400 <= x /\ x < 500
    <3>1. 400 \in Nat /\ 11 \in Nat /\ x <= x /\ x < 400 + 100
      BY <2>5
    <3>2. ((x - 400) * 11) \div 100 \in Nat /\ ((x - 400) * 11) \div 100 <= 11
      BY <2>5, <3>1, PiecesGrow
    <3>3. HalfOf(x) = 982 + ((x - 400) * 11) \div 100
      BY <2>5 DEF HalfOf
    <3> QED BY <2>5, <3>2, <3>3
  <2>6. CASE 500 <= x /\ x < 600
    <3>1. 500 \in Nat /\ 5 \in Nat /\ x <= x /\ x < 500 + 100
      BY <2>6
    <3>2. ((x - 500) * 5) \div 100 \in Nat /\ ((x - 500) * 5) \div 100 <= 5
      BY <2>6, <3>1, PiecesGrow
    <3>3. HalfOf(x) = 993 + ((x - 500) * 5) \div 100
      BY <2>6 DEF HalfOf
    <3> QED BY <2>6, <3>2, <3>3
  <2>7. CASE 600 <= x
    BY <2>7 DEF HalfOf
  <2> QED BY <2>1, <2>2, <2>3, <2>4, <2>5, <2>6, <2>7
<1>2. ASSUME 0 <= y /\ z < 100 PROVE HalfOf(y) <= HalfOf(z)
  <2>1. 0 \in Nat /\ 231 \in Nat /\ z < 0 + 100
    BY <1>2
  <2>2. ((y - 0) * 231) \div 100 <= ((z - 0) * 231) \div 100
    BY <1>2, <2>1, PiecesGrow
  <2>3. ((y - 0) * 231) \div 100 \in Nat /\ ((z - 0) * 231) \div 100 \in Nat
    BY <1>2, <2>1, PiecesGrow
  <2>4. HalfOf(y) = 500 + ((y - 0) * 231) \div 100 /\ HalfOf(z) = 500 + ((z - 0) * 231) \div 100
    BY <1>2 DEF HalfOf
  <2> QED BY <2>2, <2>3, <2>4
<1>3. ASSUME 100 <= y /\ z < 200 PROVE HalfOf(y) <= HalfOf(z)
  <2>1. 100 \in Nat /\ 150 \in Nat /\ z < 100 + 100
    BY <1>3
  <2>2. ((y - 100) * 150) \div 100 <= ((z - 100) * 150) \div 100
    BY <1>3, <2>1, PiecesGrow
  <2>3. ((y - 100) * 150) \div 100 \in Nat /\ ((z - 100) * 150) \div 100 \in Nat
    BY <1>3, <2>1, PiecesGrow
  <2>4. HalfOf(y) = 731 + ((y - 100) * 150) \div 100 /\ HalfOf(z) = 731 + ((z - 100) * 150) \div 100
    BY <1>3 DEF HalfOf
  <2> QED BY <2>2, <2>3, <2>4
<1>4. ASSUME 200 <= y /\ z < 300 PROVE HalfOf(y) <= HalfOf(z)
  <2>1. 200 \in Nat /\ 72 \in Nat /\ z < 200 + 100
    BY <1>4
  <2>2. ((y - 200) * 72) \div 100 <= ((z - 200) * 72) \div 100
    BY <1>4, <2>1, PiecesGrow
  <2>3. ((y - 200) * 72) \div 100 \in Nat /\ ((z - 200) * 72) \div 100 \in Nat
    BY <1>4, <2>1, PiecesGrow
  <2>4. HalfOf(y) = 881 + ((y - 200) * 72) \div 100 /\ HalfOf(z) = 881 + ((z - 200) * 72) \div 100
    BY <1>4 DEF HalfOf
  <2> QED BY <2>2, <2>3, <2>4
<1>5. ASSUME 300 <= y /\ z < 400 PROVE HalfOf(y) <= HalfOf(z)
  <2>1. 300 \in Nat /\ 29 \in Nat /\ z < 300 + 100
    BY <1>5
  <2>2. ((y - 300) * 29) \div 100 <= ((z - 300) * 29) \div 100
    BY <1>5, <2>1, PiecesGrow
  <2>3. ((y - 300) * 29) \div 100 \in Nat /\ ((z - 300) * 29) \div 100 \in Nat
    BY <1>5, <2>1, PiecesGrow
  <2>4. HalfOf(y) = 953 + ((y - 300) * 29) \div 100 /\ HalfOf(z) = 953 + ((z - 300) * 29) \div 100
    BY <1>5 DEF HalfOf
  <2> QED BY <2>2, <2>3, <2>4
<1>6. ASSUME 400 <= y /\ z < 500 PROVE HalfOf(y) <= HalfOf(z)
  <2>1. 400 \in Nat /\ 11 \in Nat /\ z < 400 + 100
    BY <1>6
  <2>2. ((y - 400) * 11) \div 100 <= ((z - 400) * 11) \div 100
    BY <1>6, <2>1, PiecesGrow
  <2>3. ((y - 400) * 11) \div 100 \in Nat /\ ((z - 400) * 11) \div 100 \in Nat
    BY <1>6, <2>1, PiecesGrow
  <2>4. HalfOf(y) = 982 + ((y - 400) * 11) \div 100 /\ HalfOf(z) = 982 + ((z - 400) * 11) \div 100
    BY <1>6 DEF HalfOf
  <2> QED BY <2>2, <2>3, <2>4
<1>7. ASSUME 500 <= y /\ z < 600 PROVE HalfOf(y) <= HalfOf(z)
  <2>1. 500 \in Nat /\ 5 \in Nat /\ z < 500 + 100
    BY <1>7
  <2>2. ((y - 500) * 5) \div 100 <= ((z - 500) * 5) \div 100
    BY <1>7, <2>1, PiecesGrow
  <2>3. ((y - 500) * 5) \div 100 \in Nat /\ ((z - 500) * 5) \div 100 \in Nat
    BY <1>7, <2>1, PiecesGrow
  <2>4. HalfOf(y) = 993 + ((y - 500) * 5) \div 100 /\ HalfOf(z) = 993 + ((z - 500) * 5) \div 100
    BY <1>7 DEF HalfOf
  <2> QED BY <2>2, <2>3, <2>4
<1>8. HalfOf(y) <= HalfOf(z)
  BY <1>1, <1>2, <1>3, <1>4, <1>5, <1>6, <1>7
<1>9. y > 0 => 502 <= HalfOf(y)
  <2>1. CASE 0 < y /\ y < 100
    <3>1. HalfOf(y) = 500 + (y * 231) \div 100
      BY <2>1 DEF HalfOf
    <3>2. (y * 231) \div 100 >= 2
      BY <2>1
    <3> QED BY <3>1, <3>2
  <2> QED BY <1>1, <2>1
<1> QED BY <1>1, <1>8, <1>9

LEMMA LogisticGrows ==
    ASSUME NEW y \in Int, NEW z \in Int, y <= z
    PROVE  /\ Condition!Logistic(y) \in Nat /\ Condition!Logistic(z) \in Nat
           /\ Condition!Logistic(y) <= Condition!Logistic(z)
           /\ Condition!Logistic(z) <= 998
           /\ (z >= 0 => Condition!Logistic(z) >= 500) /\ (z < 0 => Condition!Logistic(z) <= 498)
<1>1. ASSUME NEW x \in Int
      PROVE  /\ x >= 0 => Condition!Logistic(x) = HalfOf(x)
             /\ x < 0 => Condition!Logistic(x) = 1000 - HalfOf(-x)
  <2>1. x >= 0 => x \in Nat /\ Condition!HalfLogistic(x) = HalfOf(x)
    BY HalfIs
  <2>2. x < 0 => -x \in Nat /\ Condition!HalfLogistic(-x) = HalfOf(-x)
    BY HalfIs
  <2> QED BY <2>1, <2>2 DEF Condition!Logistic
<1>2. ASSUME NEW x \in Nat
      PROVE  HalfOf(x) \in Nat /\ 500 <= HalfOf(x) /\ HalfOf(x) <= 998 /\ (x > 0 => 502 <= HalfOf(x))
  BY HalfGrows
<1>3. CASE y >= 0
  <2>1. y \in Nat /\ z \in Nat
    BY <1>3
  <2>2. HalfOf(y) <= HalfOf(z)
    BY <2>1, HalfGrows
  <2> QED BY <1>1, <1>2, <1>3, <2>1, <2>2
<1>4. CASE y < 0 /\ z >= 0
  <2>1. -y \in Nat /\ z \in Nat
    BY <1>4
  <2> QED BY <1>1, <1>2, <1>4, <2>1
<1>5. CASE z < 0
  <2>1. -y \in Nat /\ -z \in Nat /\ -z <= -y /\ -z > 0
    BY <1>5
  <2>2. HalfOf(-z) <= HalfOf(-y)
    BY <2>1, HalfGrows
  <2>3. /\ HalfOf(-y) \in Nat /\ HalfOf(-z) \in Nat /\ 502 <= HalfOf(-z) /\ HalfOf(-y) <= 998 /\ HalfOf(-z) <= 998
    BY <1>2, <2>1
  <2>4. y < 0
    BY <1>5
  <2> QED BY <1>1, <1>5, <2>2, <2>3, <2>4
<1> QED BY <1>3, <1>4, <1>5

LEMMA BlendGrows ==
    ASSUME NEW w \in 0..10, NEW p \in Nat, NEW q \in Nat, NEW r \in Nat, NEW s \in Nat, p <= r, q <= s
    PROVE  /\ Condition!Blend(w, p, q) \in Nat /\ Condition!Blend(w, p, q) <= 1000
           /\ Condition!Blend(w, p, q) <= Condition!Blend(w, r, s)
<1> DEFINE x == (w * p + (10 - w) * q) \div 10
           y == (w * r + (10 - w) * s) \div 10
<1>1. w \in Nat /\ 10 - w \in Nat
  OBVIOUS
<1> DEFINE v == 10 - w
<1> HIDE DEF v
<1>2. w * p \in Nat /\ w * r \in Nat /\ w * p <= w * r /\ v * q \in Nat /\ v * s \in Nat /\ v * q <= v * s
  <2>1. v \in Nat /\ w <= w /\ v <= v
    BY <1>1 DEF v
  <2> QED BY <1>1, <2>1, ProductGrows
<1>3. x \in Int /\ y \in Int /\ x <= y
  <2> DEFINE a == w * p + v * q
             b == w * r + v * s
  <2>1. a \in Int /\ b \in Int /\ a <= b
    BY <1>2
  <2> HIDE DEF a, b
  <2>2. a \div 10 \in Int /\ b \div 10 \in Int /\ a \div 10 <= b \div 10
    BY <2>1
  <2> QED BY <2>2 DEF a, b, v
<1>4. Condition!Blend(w, p, q) = Condition!Within(x, 0, 1000) /\ Condition!Blend(w, r, s) = Condition!Within(y, 0, 1000)
  BY DEF Condition!Blend
<1> HIDE DEF x, y
<1>5. 0 \in Nat /\ 1000 \in Nat /\ 0 <= 1000
  OBVIOUS
<1>6. /\ Condition!Within(y, 0, 1000) \in Nat /\ Condition!Within(x, 0, 1000) \in Nat
      /\ Condition!Within(x, 0, 1000) <= Condition!Within(y, 0, 1000) /\ Condition!Within(y, 0, 1000) <= 1000
  BY <1>3, <1>5, WithinGrows
<1> QED BY <1>4, <1>6

-----------------------------------------------------------------------------
(* The condition models: alerts, and then each model.                      *)
LEMMA AlertsAre ==
    ASSUME NEW thresholds, NEW i \in DOMAIN thresholds, NEW observed,
           \A j \in DOMAIN thresholds : thresholds[j].metric = thresholds[i].metric => thresholds[j] = thresholds[i]
    PROVE  thresholds[i].metric \in Condition!EvaluateThresholds(thresholds, observed)
               <=> Condition!Crossed(thresholds[i], observed)
<1>1. Condition!EvaluateThresholds(thresholds, observed)
          = {th.metric : th \in {t \in {thresholds[j] : j \in DOMAIN thresholds} : Condition!Crossed(t, observed)}}
  BY DEF Condition!EvaluateThresholds, Condition!Range
<1> QED BY <1>1

LEMMA OverIs ==
    ASSUME NEW f, NEW g, Numbers(f), Numbers(g)
    PROVE  /\ Numbers(Condition!Over(f, g)) /\ DOMAIN Condition!Over(f, g) = DOMAIN f \cup DOMAIN g
           /\ \A k \in DOMAIN g : k \in DOMAIN Condition!Over(f, g) /\ Condition!Over(f, g)[k] \in Int
BY DEF Condition!Over, Numbers

LEMMA UnhealthGrows ==
    ASSUME NEW h \in Nat, NEW k \in Nat, k <= h, h <= 10000
    PROVE  /\ Condition!Unhealth(h) \in Nat /\ Condition!Unhealth(k) \in Nat
           /\ Condition!Unhealth(h) <= Condition!Unhealth(k)
<1>1. /\ Condition!Shown(h) \in Int /\ Condition!Shown(k) \in Int
      /\ Condition!Shown(k) <= Condition!Shown(h) /\ Condition!Shown(h) <= 1000
  BY DEF Condition!Shown
<1> QED BY <1>1 DEF Condition!Unhealth

LEMMA ShareIs ==
    ASSUME NEW v \in Int
    PROVE  Condition!Within(v, 0, 1000) = IF v < 0 THEN 0 ELSE IF v > 1000 THEN 1000 ELSE v
<1> DEFINE low == 0
           high == 1000
<1>1. low \in Int /\ high \in Int /\ low <= high
  OBVIOUS
<1> HIDE DEF low, high
<1>2. Condition!Within(v, low, high) = IF v < low THEN low ELSE IF v > high THEN high ELSE v
  BY <1>1, WithinIs
<1> QED BY <1>2 DEF low, high

LEMMA EnvelopeOfOne ==
    ASSUME NEW s
    PROVE  Condition!OperatingEnvelope(<<s>>)["cavitation"] \div 10
               = IF Condition!InRegime(s, "cavitation") THEN 1000 ELSE 0
<1> DEFINE h == <<s>>
           S == {i \in DOMAIN h : Condition!InRegime(h[i], "cavitation")}
<1>1. Len(h) = 1 /\ DOMAIN h = {1} /\ h[1] = s
  OBVIOUS
<1> HIDE DEF h
<1>2. Condition!OperatingEnvelope(h)["cavitation"] = (10000 * Cardinality(S)) \div Len(h)
  <2>1. "cavitation" \in Condition!Regimes
    BY DEF Condition!Regimes
  <2>2. Condition!OperatingEnvelope(h) = [r \in Condition!Regimes |->
            (10000 * Cardinality({i \in DOMAIN h : Condition!InRegime(h[i], r)})) \div Len(h)]
    BY DEF Condition!OperatingEnvelope, Condition!Cardinality, Cardinality
  <2> QED BY <2>1, <2>2
<1>3. S = IF Condition!InRegime(s, "cavitation") THEN {1} ELSE {}
  BY <1>1
<1> HIDE DEF S
<1>4. Cardinality(S) = IF Condition!InRegime(s, "cavitation") THEN 1 ELSE 0
  BY <1>3, FS_EmptySet, FS_Singleton
<1> QED BY <1>1, <1>2, <1>4 DEF h

-----------------------------------------------------------------------------
(* The pump.                                                               *)
Pumped(sent) == Condition!Over(sent, Condition!PumpBaseline)
Suction(x) == x["npsh_a"] - x["npsh_r"]
Margin(x) == Condition!NpshMargin(x)
MarginPoints(x) == ((5 - Margin(x)) * 1000) \div 60
LEMMA PumpIs ==
    ASSUME NEW sent, Numbers(sent)
    PROVE  /\ Numbers(Pumped(sent)) /\ IsTelemetry(Condition!PumpTelemetry(Pumped(sent)))
           /\ Suction(Pumped(sent)) \in Int /\ Margin(Pumped(sent)) \in Int /\ MarginPoints(Pumped(sent)) \in Int
           /\ "npsh_margin" \notin DOMAIN sent => Margin(Pumped(sent)) = Suction(Pumped(sent))
           /\ Condition!CavitationProbability(Pumped(sent))
                  = Condition!Blend(6, Condition!Logistic(MarginPoints(Pumped(sent))), IF Suction(Pumped(sent)) <= 5 THEN 1000 ELSE 0)
<1> DEFINE x == Pumped(sent)
           base == Condition!PumpBaseline
<1>1. Numbers(base) /\ DOMAIN base = {"flow", "bep", "pressure", "max_pressure", "vibration", "bearing_temp",
                                     "seal_leakage", "curve_deviation", "temp", "temp_limit", "npsh_a", "npsh_r"}
  BY DEF Condition!PumpBaseline, Numbers
<1>2. /\ Numbers(x) /\ DOMAIN x = DOMAIN sent \cup DOMAIN base /\ \A k \in DOMAIN base : k \in DOMAIN x /\ x[k] \in Int
  BY <1>1, OverIs DEF Pumped
<1> HIDE DEF x, base
<1>3. /\ {"vibration", "bearing_temp", "seal_leakage", "curve_deviation", "npsh_a", "npsh_r"} \subseteq DOMAIN base
      /\ Condition!EnvelopeKeys \subseteq DOMAIN base /\ "npsh_margin" \notin DOMAIN base
  BY <1>1 DEF Condition!EnvelopeKeys
<1>4. IsTelemetry(Condition!PumpTelemetry(x))
  <2>1. /\ Condition!At(x, "current_imbalance", 0) \in Int /\ Condition!At(x, "winding_temp", 0) \in Int
        /\ Condition!At(x, "vibration_limit", 45) \in Int /\ Condition!At(x, "bearing_temp_limit", 900) \in Int
        /\ Condition!At(x, "seal_leakage_limit", 50) \in Int
    BY <1>2, AtIs
  <2>2. x["vibration"] \in Int /\ x["bearing_temp"] \in Int /\ x["seal_leakage"] \in Int /\ x["curve_deviation"] \in Int
    BY <1>2, <1>3
  <2> QED BY <2>1, <2>2 DEF IsTelemetry, Numbers, Condition!PumpTelemetry
<1>5. x["npsh_a"] \in Int /\ x["npsh_r"] \in Int /\ Suction(x) \in Int
  BY <1>2, <1>3 DEF Suction
<1>6. Margin(x) \in Int /\ ("npsh_margin" \notin DOMAIN sent => Margin(x) = Suction(x))
  BY <1>2, <1>3, <1>5 DEF Margin, Suction, Condition!NpshMargin, Numbers
<1>7. MarginPoints(x) \in Int
  BY <1>6 DEF MarginPoints
<1>8. Condition!InRegime(Condition!EnvelopeSample(x), "cavitation") <=> Suction(x) <= 5
  <2> DEFINE s == Condition!EnvelopeSample(x)
  <2>1. DOMAIN s = Condition!EnvelopeKeys /\ \A k \in Condition!EnvelopeKeys : s[k] = x[k]
    BY DEF Condition!EnvelopeSample
  <2> HIDE DEF s
  <2>2. /\ "npsh_a" \in DOMAIN s /\ "npsh_r" \in DOMAIN s /\ s["npsh_a"] = x["npsh_a"] /\ s["npsh_r"] = x["npsh_r"]
        /\ "cavitation_risk" \notin DOMAIN s
    BY <2>1 DEF Condition!EnvelopeKeys
  <2>3. Condition!InRegime(s, "cavitation") <=> s["npsh_a"] <= s["npsh_r"] + 5
    BY <2>2 DEF Condition!InRegime, Condition!At
  <2> QED BY <1>5, <2>2, <2>3 DEF s, Suction
<1>9. Condition!CavitationProbability(x)
          = Condition!Blend(6, Condition!Logistic(MarginPoints(x)), IF Suction(x) <= 5 THEN 1000 ELSE 0)
  <2>1. Condition!OperatingEnvelope(<<Condition!EnvelopeSample(x)>>)["cavitation"] \div 10
            = IF Suction(x) <= 5 THEN 1000 ELSE 0
    BY <1>8, EnvelopeOfOne
  <2> QED BY <2>1 DEF Condition!CavitationProbability, MarginPoints, Margin, Condition!NpshMarginRule
<1> QED BY <1>2, <1>4, <1>5, <1>6, <1>7, <1>9 DEF x

LEMMA PumpRiskIs ==
    ASSUME NEW sent, Numbers(sent)
    PROVE  /\ Condition!Logistic(MarginPoints(Pumped(sent))) \in Nat
           /\ Condition!CavitationProbability(Pumped(sent)) \in Nat
           /\ Condition!PumpHealth(Pumped(sent)) \in Nat /\ Condition!PumpHealth(Pumped(sent)) <= 10000
           /\ Condition!Unhealth(Condition!PumpHealth(Pumped(sent))) \in Nat
           /\ Condition!PumpRisk(Pumped(sent)) \in Nat /\ Condition!PumpRisk(Pumped(sent)) <= 1000
<1> DEFINE x == Pumped(sent)
           c == Condition!CavitationProbability(x)
           u == Condition!Unhealth(Condition!PumpHealth(x))
           l == Condition!Logistic(MarginPoints(x))
           e == IF Suction(x) <= 5 THEN 1000 ELSE 0
<1>1. IsTelemetry(Condition!PumpTelemetry(x)) /\ MarginPoints(x) \in Int /\ c = Condition!Blend(6, l, e)
  BY PumpIs
<1>2. Condition!PumpHealth(x) \in Nat /\ Condition!PumpHealth(x) <= 10000
  BY <1>1, HealthIs DEF Condition!PumpHealth, Condition!Penalties
<1>3. u \in Nat
  BY <1>2, UnhealthGrows
<1>4. l \in Nat
  <2>1. MarginPoints(x) <= MarginPoints(x)
    BY <1>1
  <2> QED BY <1>1, <2>1, LogisticGrows
<1> HIDE DEF l
<1>5. e \in Nat
  OBVIOUS
<1> HIDE DEF e
<1>6. c \in Nat
  <2>1. 6 \in 0..10 /\ l <= l /\ e <= e
    BY <1>4, <1>5
  <2> QED BY <1>1, <1>4, <1>5, <2>1, BlendGrows
<1> HIDE DEF c, u
<1>7. Condition!Blend(6, u, c) \in Nat /\ Condition!Blend(6, u, c) <= 1000
  <2>1. 6 \in 0..10 /\ u <= u /\ c <= c
    BY <1>3, <1>6
  <2> QED BY <1>3, <1>6, <2>1, BlendGrows
<1> QED BY <1>2, <1>3, <1>4, <1>6, <1>7 DEF l, c, u, Condition!PumpRisk

(* The alert of a pump's blended cavitation probability is that of its      *)
(* suction margin, unless a margin is sent that is not the one of the two   *)
(* heads, its risk and its confidence are shares; and worse readings or     *)
(* less suction head never lower the risk (models/pump_condition.py).       *)
THEOREM PumpIsTrue ==
    ASSUME NEW sent, NEW other, Numbers(sent), Numbers(other)
    PROVE  Condition!PumpAgrees(sent) /\ Condition!PumpWorsens(sent, other)
<1>1. Condition!PumpAgrees(sent)
  <2> DEFINE x == Pumped(sent)
             r == Condition!AssessPump(sent)
             observed == [vibration |-> x["vibration"], bearing_temp |-> x["bearing_temp"],
                          seal_leakage |-> x["seal_leakage"], npsh_margin |-> Condition!NpshMargin(x),
                          cavitation_probability |-> Condition!CavitationProbability(x),
                          pump_health |-> 10 * Condition!Shown(Condition!PumpHealth(x))]
  <2>1. r.alerts = Condition!EvaluateThresholds(Condition!PumpThresholds, observed)
    BY DEF Condition!AssessPump, Pumped
  <2>2. r.risk = Condition!PumpRisk(x) /\ r.confidence = Condition!PumpConfidence(sent)
    BY DEF Condition!AssessPump, Pumped
  <2> HIDE DEF r
  <2>3. 0 <= r.risk /\ r.risk <= 1000
    BY <2>2, PumpRiskIs
  <2>4. r.confidence <= 1000
    <3> DEFINE S == {"vibration", "bearing_temp", "npsh_a", "npsh_r"}
               T == S \cap DOMAIN sent
    <3>1. IsFiniteSet(S) /\ Cardinality(S) <= 4 /\ Cardinality(S) \in Nat
      BY SetOfFour, FS_CardinalityType
    <3>2. T \subseteq S
      OBVIOUS
    <3> HIDE DEF S
    <3>3. Cardinality(T) \in Nat /\ Cardinality(T) <= Cardinality(S)
      BY <3>1, <3>2, FS_Subset, FS_CardinalityType
    <3>4. r.confidence = 550 + 100 * Cardinality(T)
      BY <2>2 DEF Condition!PumpConfidence, S, Condition!Cardinality, Cardinality
    <3> HIDE DEF T
    <3> QED BY <3>1, <3>3, <3>4
  <2>5. ASSUME "npsh_margin" \notin DOMAIN sent
        PROVE  "cavitation_probability" \in r.alerts <=> "npsh_margin" \in r.alerts
    <3> DEFINE ths == Condition!PumpThresholds
               c == Condition!CavitationProbability(x)
               m == Condition!NpshMargin(x)
               l == Condition!Logistic(MarginPoints(x))
               e == IF Suction(x) <= 5 THEN 1000 ELSE 0
    <3>1. /\ DOMAIN ths = 1..6 /\ ths[1].metric = "vibration" /\ ths[2].metric = "bearing_temp" /\ ths[3].metric = "seal_leakage"
          /\ ths[4] = Condition!Below("npsh_margin", 5) /\ ths[5] = Condition!Above("cavitation_probability", 500)
          /\ ths[4].metric = "npsh_margin" /\ ths[5].metric = "cavitation_probability" /\ ths[6].metric = "pump_health"
      BY DEF Condition!PumpThresholds, Condition!Above, Condition!Below, Condition!NpshMarginRule
    <3>2. /\ 4 \in DOMAIN ths /\ 5 \in DOMAIN ths
          /\ \A j \in DOMAIN ths : ths[j].metric = ths[4].metric => ths[j] = ths[4]
          /\ \A j \in DOMAIN ths : ths[j].metric = ths[5].metric => ths[j] = ths[5]
      BY <3>1
    <3>3. /\ "npsh_margin" \in r.alerts <=> Condition!Crossed(ths[4], observed)
          /\ "cavitation_probability" \in r.alerts <=> Condition!Crossed(ths[5], observed)
      <4> HIDE DEF ths, observed
      <4>1. /\ ths[4].metric \in Condition!EvaluateThresholds(ths, observed) <=> Condition!Crossed(ths[4], observed)
            /\ ths[5].metric \in Condition!EvaluateThresholds(ths, observed) <=> Condition!Crossed(ths[5], observed)
        BY <3>2, AlertsAre
      <4> QED BY <2>1, <3>1, <4>1 DEF ths
    <3>4. Condition!Crossed(ths[4], observed) <=> m <= 5
      BY <3>1 DEF Condition!Crossed, Condition!Below
    <3>5. Condition!Crossed(ths[5], observed) <=> c >= 500
      BY <3>1 DEF Condition!Crossed, Condition!Above
    <3>6. m = Suction(x) /\ m \in Int /\ MarginPoints(x) \in Int /\ c = Condition!Blend(6, l, e)
      BY <2>5, PumpIs DEF Margin
    <3>7. MarginPoints(x) = ((5 - m) * 1000) \div 60
      BY DEF MarginPoints, Margin
    <3> HIDE DEF x, m, ths, observed
    <3>8. l \in Nat /\ (MarginPoints(x) >= 0 => l >= 500) /\ (MarginPoints(x) < 0 => l <= 498)
      <4>1. MarginPoints(x) <= MarginPoints(x)
        BY <3>6
      <4> QED BY <3>6, <4>1, LogisticGrows
    <3>9. m <= 5 => MarginPoints(x) >= 0
      BY <3>6, <3>7
    <3>10. m > 5 => MarginPoints(x) < 0
      BY <3>6, <3>7
    <3>11. e = IF m <= 5 THEN 1000 ELSE 0
      BY <3>6
    <3> HIDE DEF l, e
    <3>12. m <= 5 => 6 * l + 4 * e >= 7000
      BY <3>6, <3>8, <3>9, <3>11
    <3>13. m > 5 => 6 * l + 4 * e < 3000 /\ 0 <= 6 * l + 4 * e
      BY <3>6, <3>8, <3>10, <3>11
    <3>14. c = Condition!Within((6 * l + 4 * e) \div 10, 0, 1000)
      BY <3>6 DEF Condition!Blend
    <3> DEFINE v == (6 * l + 4 * e) \div 10
    <3>15. v \in Int /\ (m <= 5 => v >= 700) /\ (m > 5 => v < 300)
      <4> DEFINE a == 6 * l + 4 * e
      <4>1. a \in Int
        BY <3>6, <3>8, <3>11
      <4> HIDE DEF a
      <4>2. (m <= 5 => a >= 7000) /\ (m > 5 => a < 3000)
        BY <3>12, <3>13 DEF a
      <4>3. v = a \div 10
        BY DEF a
      <4> QED BY <3>6, <4>1, <4>2, <4>3
    <3> HIDE DEF v
    <3>16. c = IF v < 0 THEN 0 ELSE IF v > 1000 THEN 1000 ELSE v
      <4>1. Condition!Within(v, 0, 1000) = IF v < 0 THEN 0 ELSE IF v > 1000 THEN 1000 ELSE v
        BY <3>15, ShareIs
      <4> QED BY <3>14, <4>1 DEF v
    <3> HIDE DEF c
    <3>17. c >= 500 <=> m <= 5
      BY <3>6, <3>15, <3>16
    <3> QED BY <3>3, <3>4, <3>5, <3>17 DEF c, m
  <2> QED BY <2>3, <2>4, <2>5 DEF r, Condition!PumpAgrees
<1>2. Condition!PumpWorsens(sent, other)
  <2> DEFINE x == Pumped(sent)
             y == Pumped(other)
  <2> SUFFICES ASSUME Condition!Worse("pump", Condition!PumpTelemetry(x), Condition!PumpTelemetry(y)),
                      Margin(y) <= Margin(x), Suction(y) <= Suction(x)
               PROVE  Condition!PumpRisk(x) <= Condition!PumpRisk(y)
    BY DEF Condition!PumpWorsens, Pumped, Margin, Suction
  <2>1. /\ IsTelemetry(Condition!PumpTelemetry(x)) /\ IsTelemetry(Condition!PumpTelemetry(y))
        /\ Margin(x) \in Int /\ Margin(y) \in Int /\ Suction(x) \in Int /\ Suction(y) \in Int
        /\ MarginPoints(x) \in Int /\ MarginPoints(y) \in Int
        /\ Condition!CavitationProbability(x)
               = Condition!Blend(6, Condition!Logistic(MarginPoints(x)), IF Suction(x) <= 5 THEN 1000 ELSE 0)
        /\ Condition!CavitationProbability(y)
               = Condition!Blend(6, Condition!Logistic(MarginPoints(y)), IF Suction(y) <= 5 THEN 1000 ELSE 0)
    BY PumpIs
  <2>2. /\ Condition!PumpHealth(x) \in Nat /\ Condition!PumpHealth(x) <= 10000 /\ Condition!PumpHealth(y) \in Nat
        /\ Condition!CavitationProbability(x) \in Nat /\ Condition!CavitationProbability(y) \in Nat
        /\ Condition!Logistic(MarginPoints(x)) \in Nat /\ Condition!Logistic(MarginPoints(y)) \in Nat
    BY PumpRiskIs
  <2> HIDE DEF x, y
  <2>3. Condition!PumpHealth(y) <= Condition!PumpHealth(x)
    BY <2>1, HealthOnlyFalls DEF Condition!HealthFalls, Condition!PumpHealth, Condition!Penalties
  <2>4. Condition!Unhealth(Condition!PumpHealth(x)) <= Condition!Unhealth(Condition!PumpHealth(y))
        /\ Condition!Unhealth(Condition!PumpHealth(x)) \in Nat /\ Condition!Unhealth(Condition!PumpHealth(y)) \in Nat
    BY <2>2, <2>3, UnhealthGrows
  <2>5. Condition!CavitationProbability(x) <= Condition!CavitationProbability(y)
    <3> DEFINE l == Condition!Logistic(MarginPoints(x))
               k == Condition!Logistic(MarginPoints(y))
               d == IF Suction(x) <= 5 THEN 1000 ELSE 0
               e == IF Suction(y) <= 5 THEN 1000 ELSE 0
    <3>1. MarginPoints(x) <= MarginPoints(y)
      BY <2>1 DEF MarginPoints
    <3>2. l <= k /\ l \in Nat /\ k \in Nat
      BY <2>1, <2>2, <3>1, LogisticGrows
    <3>3. d <= e /\ d \in Nat /\ e \in Nat
      BY <2>1
    <3> HIDE DEF l, k, d, e
    <3>4. 6 \in 0..10
      OBVIOUS
    <3>5. Condition!Blend(6, l, d) <= Condition!Blend(6, k, e)
      BY <3>2, <3>3, <3>4, BlendGrows
    <3> QED BY <2>1, <3>5 DEF l, k, d, e
  <2> DEFINE u == Condition!Unhealth(Condition!PumpHealth(x))
             v == Condition!Unhealth(Condition!PumpHealth(y))
             c == Condition!CavitationProbability(x)
             d == Condition!CavitationProbability(y)
  <2>6. u \in Nat /\ v \in Nat /\ c \in Nat /\ d \in Nat /\ u <= v /\ c <= d /\ 6 \in 0..10
    BY <2>2, <2>4, <2>5
  <2> HIDE DEF u, v, c, d
  <2>7. Condition!Blend(6, u, c) <= Condition!Blend(6, v, d)
    BY <2>6, BlendGrows
  <2> QED BY <2>7 DEF Condition!PumpRisk, u, v, c, d
<1> QED BY <1>1, <1>2

-----------------------------------------------------------------------------
(* A score that has declined for five days, and the life left to it.       *)
IsDecline(trend, score, decline) ==
    /\ trend \in Seq(Nat) /\ Len(trend) = 5
    /\ \A i \in 1..5 : trend[i] = IF score + decline * (5 - i) < 10000 THEN score + decline * (5 - i) ELSE 10000
LEMMA DeclineIs ==
    ASSUME NEW score \in Nat, NEW decline \in Nat
    PROVE  IsDecline(Condition!DeclineTrend(score, decline), score, decline)
<1> DEFINE trend == Condition!DeclineTrend(score, decline)
           s == [i \in 1..5 |-> IF score + decline * (5 - i) < 10000 THEN score + decline * (5 - i) ELSE 10000]
<1>1. \A i \in 1..5 : score + decline * (5 - i) \in Nat
  <2> SUFFICES ASSUME NEW i \in 1..5 PROVE score + decline * (5 - i) \in Nat
    OBVIOUS
  <2>1. 5 - i \in Nat
    OBVIOUS
  <2> DEFINE k == 5 - i
  <2> HIDE DEF k
  <2>2. decline \in Nat /\ k \in Nat /\ decline <= decline /\ k <= k
    BY <2>1 DEF k
  <2>3. decline * k \in Nat
    BY <2>2, ProductGrows
  <2> QED BY <2>3 DEF k
<1>2. \A v \in Nat : Condition!Min({10000, v}) = IF v < 10000 THEN v ELSE 10000
  BY DEF Condition!Min
<1>3. trend = s
  BY <1>1, <1>2 DEF Condition!DeclineTrend
<1>4. s \in [1..5 -> Nat]
  BY <1>1
<1>5. s \in Seq(Nat) /\ Len(s) = 5
  <2>1. 5 \in Nat
    OBVIOUS
  <2> HIDE DEF s
  <2> QED BY <1>4, <2>1, FunctionIsSequence
<1>6. \A i \in 1..5 : s[i] = IF score + decline * (5 - i) < 10000 THEN score + decline * (5 - i) ELSE 10000
  OBVIOUS
<1> HIDE DEF s
<1> QED BY <1>3, <1>5, <1>6 DEF IsDecline

\* Uncut, its slope is the decline, so that its days are its headroom over it.
LEMMA DeclineDays ==
    ASSUME NEW a, IsAged(a), NEW score \in Nat, NEW decline \in Nat, decline > 0,
           a.trend = Condition!DeclineTrend(score, decline), Condition!Uncut(a.trend)
    PROVE  LET headroom == IF score > a.threshold THEN score - a.threshold ELSE 0
           IN headroom \in Nat /\ Condition!BaseDays(a) = (500 * headroom) \div (50 * decline)
<1> DEFINE t == a.trend
           headroom == IF score > a.threshold THEN score - a.threshold ELSE 0
<1>1. /\ t \in Seq(Nat) /\ Len(t) = 5 /\ DOMAIN t = 1..5
      /\ \A i \in 1..5 : t[i] = IF score + decline * (5 - i) < 10000 THEN score + decline * (5 - i) ELSE 10000
  <2>1. IsDecline(t, score, decline)
    BY DeclineIs
  <2> HIDE DEF t
  <2>2. t \in Seq(Nat) /\ Len(t) = 5 /\ DOMAIN t = 1..5
    BY <2>1 DEF IsDecline
  <2> QED BY <2>1, <2>2 DEF IsDecline
<1>2. score + 4 * decline < 10000
  BY <1>1 DEF Condition!Uncut
<1>3. /\ t[1] = score + 4 * decline /\ t[2] = score + 3 * decline /\ t[3] = score + 2 * decline
      /\ t[4] = score + decline /\ t[5] = score
  BY <1>1, <1>2
<1> DEFINE xy == [i \in DOMAIN t |-> i * t[i]]
<1>4. Condition!Total(t) = 5 * score + 10 * decline
  <2>1. Summable(t) /\ Len(t) = 5
    <3>1. \A i \in 1..5 : t[i] \in Int
      BY <1>1
    <3>2. t \in [1..5 -> Int] /\ Len(t) = 5
      BY <1>1, <3>1
    <3> HIDE DEF t
    <3> QED BY <3>2, NumbersAdd
  <2>2. Condition!Total(t) = t[1] + t[2] + t[3] + t[4] + t[5]
    BY <2>1, TotalOfFive
  <2> HIDE DEF t
  <2> QED BY <1>3, <2>2
<1>5. Condition!Total(xy) = 15 * score + 20 * decline
  <2>1. xy \in [1..5 -> Int]
    BY <1>1
  <2>2. xy[1] = t[1] /\ xy[2] = 2 * t[2] /\ xy[3] = 3 * t[3] /\ xy[4] = 4 * t[4] /\ xy[5] = 5 * t[5]
    BY <1>1
  <2> HIDE DEF xy, t
  <2>3. Summable(xy) /\ Len(xy) = 5
    BY <2>1, NumbersAdd
  <2>4. Condition!Total(xy) = xy[1] + xy[2] + xy[3] + xy[4] + xy[5]
    BY <2>3, TotalOfFive
  <2> QED BY <1>3, <2>2, <2>4
<1>6. Condition!SlopeNum(t) = -(50 * decline)
  <2>1. Condition!SlopeNum(t) = 5 * Condition!Total(xy) - 15 * Condition!Total(t)
    <3>1. Condition!SlopeNum(t) = 5 * Condition!Total(xy) - ((5 * (5 + 1)) \div 2) * Condition!Total(t)
      BY <1>1 DEF Condition!SlopeNum
    <3>2. (5 * (5 + 1)) \div 2 = 15
      OBVIOUS
    <3> QED BY <3>1, <3>2
  <2> HIDE DEF t, xy
  <2> QED BY <1>4, <1>5, <2>1
<1>7. Condition!SlopeDen(Len(t)) = 50
  <2>1. Condition!SlopeDen(5) = (5 * 5 * (5 * 5 - 1)) \div 12
    BY DEF Condition!SlopeDen
  <2> QED BY <1>1, <2>1
<1>8. headroom \in Nat /\ Condition!Max({0, t[Len(t)] - a.threshold}) = headroom
  <2>1. t[Len(t)] = score /\ a.threshold \in Nat
    BY <1>1, <1>3 DEF IsAged
  <2>2. \A v \in Int : Condition!Max({0, v}) = IF v > 0 THEN v ELSE 0
    BY DEF Condition!Max
  <2> HIDE DEF t
  <2> QED BY <2>1, <2>2
<1>9. Condition!BaseDays(a) = (10 * headroom * 50) \div (-(-(50 * decline)))
  <2>1. Len(t) >= 2 /\ Condition!SlopeNum(t) < 0
    BY <1>1, <1>6
  <2> HIDE DEF headroom
  <2> QED BY <1>6, <1>7, <1>8, <2>1 DEF Condition!BaseDays
<1>10. 10 * headroom * 50 = 500 * headroom /\ -(-(50 * decline)) = 50 * decline
  <2> HIDE DEF headroom
  <2> QED BY <1>8
<1> QED BY <1>8, <1>9, <1>10

LEMMA FasterDeclineIsShorter ==
    ASSUME NEW a, NEW b, IsAged(a), IsAged(b), a.threshold = b.threshold,
           NEW s \in Nat, NEW d \in Nat, NEW r \in Nat, NEW e \in Nat, r <= s, 0 < d, d <= e,
           a.trend = Condition!DeclineTrend(s, d), Condition!Uncut(a.trend),
           b.trend = Condition!DeclineTrend(r, e), Condition!Uncut(b.trend)
    PROVE  Condition!BaseDays(b) <= Condition!BaseDays(a)
<1> DEFINE h == IF s > a.threshold THEN s - a.threshold ELSE 0
           g == IF r > b.threshold THEN r - b.threshold ELSE 0
<1>1. h \in Nat /\ Condition!BaseDays(a) = (500 * h) \div (50 * d)
  BY DeclineDays
<1>2. e > 0 /\ g \in Nat /\ Condition!BaseDays(b) = (500 * g) \div (50 * e)
  <2>1. e > 0
    OBVIOUS
  <2> QED BY <2>1, DeclineDays
<1>3. g <= h
  <2>1. a.threshold \in Nat /\ b.threshold = a.threshold
    BY DEF IsAged
  <2> QED BY <2>1
<1> HIDE DEF h, g
<1>4. (500 * g) * (50 * d) <= (500 * h) * (50 * e)
  <2>1. 500 * g \in Nat /\ 500 * h \in Nat /\ 50 * d \in Nat /\ 50 * e \in Nat /\ 500 * g <= 500 * h /\ 50 * d <= 50 * e
    BY <1>1, <1>2, <1>3
  <2> QED BY <2>1, ProductGrows
<1>5. 500 * g \in Int /\ 500 * h \in Int /\ 50 * d \in Int /\ 50 * e \in Int /\ 50 * d > 0 /\ 50 * e > 0
  BY <1>1, <1>2
<1>6. (500 * g) \div (50 * e) <= (500 * h) \div (50 * d)
  BY <1>4, <1>5, QuotientGrows
<1> QED BY <1>1, <1>2, <1>6

-----------------------------------------------------------------------------
(* The cartridge filter.                                                   *)
Filtered(sent) == Condition!Over(sent, Condition!FilterBaseline)
Choked(x) == Condition!NormalizedDp([value |-> x])
\* Readings are numbers, and a duty or an age that is sent is not negative.
IsFilter(sent) ==
    Numbers(sent) /\ \A k \in {"duty", "age"} \cap DOMAIN sent : sent[k] \in Nat

LEMMA ChokedIs ==
    ASSUME NEW x, Numbers(x)
    PROVE  /\ Choked(x) \in Int
           /\ \A limit : Condition!NormalizedDp([value |-> [normalized_dp |-> Choked(x)], limit |-> limit]) = Choked(x)
<1> DEFINE clean == Condition!At(x, "clean_dp", 3)
           dp == Condition!At(x, "dp", 0)
<1>1. clean \in Int /\ dp \in Int
  BY AtIs
<1>2. Choked(x) = IF "normalized_dp" \in DOMAIN x THEN x["normalized_dp"]
                  ELSE IF clean > 0 THEN (10 * dp) \div clean ELSE 10
  BY DEF Choked, Condition!NormalizedDp
<1> HIDE DEF clean, dp
<1>3. clean > 0 => (10 * dp) \div clean \in Int
  <2>1. 10 * dp \in Int
    BY <1>1
  <2> QED BY <1>1, <2>1, QuotientIs
<1>4. Choked(x) \in Int
  BY <1>2, <1>3 DEF Numbers
<1> DEFINE c == Choked(x)
<1> HIDE DEF c
<1>5. \A limit : Condition!NormalizedDp([value |-> [normalized_dp |-> c], limit |-> limit]) = c
  BY DEF Condition!NormalizedDp
<1> QED BY <1>4, <1>5 DEF c

LEMMA ShareGrows ==
    ASSUME NEW v \in Int, NEW w \in Int, v <= w
    PROVE  /\ Condition!Within(v, 0, 1000) \in Nat /\ Condition!Within(w, 0, 1000) \in Nat
           /\ Condition!Within(v, 0, 1000) <= Condition!Within(w, 0, 1000) /\ Condition!Within(w, 0, 1000) <= 1000
<1>1. /\ Condition!Within(v, 0, 1000) = IF v < 0 THEN 0 ELSE IF v > 1000 THEN 1000 ELSE v
      /\ Condition!Within(w, 0, 1000) = IF w < 0 THEN 0 ELSE IF w > 1000 THEN 1000 ELSE w
  BY ShareIs
<1> QED BY <1>1

LEMMA LoadingGrows ==
    ASSUME NEW x, NEW y, Numbers(x), Numbers(y),
           \A k \in {"sdi", "turbidity", "particles"} : Condition!At(x, k, 0) <= Condition!At(y, k, 0)
    PROVE  /\ Condition!Loading(x) \in Nat /\ Condition!Loading(y) \in Nat
           /\ Condition!Loading(x) <= Condition!Loading(y) /\ Condition!Loading(y) <= 1000
           /\ Condition!At(x, "sdi", 0) >= 65 => Condition!Loading(x) >= 500
<1> DEFINE s(z) == (1000 * Condition!At(z, "sdi", 0)) \div 65
           t(z) == (1000 * Condition!At(z, "turbidity", 0)) \div 50
           p(z) == Condition!At(z, "particles", 0) \div 5
           S(z) == Condition!Within(s(z), 0, 1000)
           T(z) == Condition!Within(t(z), 0, 1000)
           P(z) == Condition!Within(p(z), 0, 1000)
<1>1. /\ Condition!At(x, "sdi", 0) \in Int /\ Condition!At(x, "turbidity", 0) \in Int /\ Condition!At(x, "particles", 0) \in Int
      /\ Condition!At(y, "sdi", 0) \in Int /\ Condition!At(y, "turbidity", 0) \in Int /\ Condition!At(y, "particles", 0) \in Int
  BY AtIs
<1>2. s(x) \in Int /\ s(y) \in Int /\ s(x) <= s(y) /\ (Condition!At(x, "sdi", 0) >= 65 => s(x) >= 1000)
  BY <1>1
<1>3. t(x) \in Int /\ t(y) \in Int /\ t(x) <= t(y)
  BY <1>1
<1>4. p(x) \in Int /\ p(y) \in Int /\ p(x) <= p(y)
  BY <1>1
<1>5. /\ Condition!Loading(x) = (5 * S(x) + 3 * T(x) + 2 * P(x)) \div 10
      /\ Condition!Loading(y) = (5 * S(y) + 3 * T(y) + 2 * P(y)) \div 10
  BY DEF Condition!Loading
<1> HIDE DEF s, t, p
<1>6. S(x) \in Nat /\ S(y) \in Nat /\ S(x) <= S(y) /\ S(y) <= 1000
  BY <1>2, ShareGrows
<1>7. T(x) \in Nat /\ T(y) \in Nat /\ T(x) <= T(y) /\ T(y) <= 1000
  BY <1>3, ShareGrows
<1>8. P(x) \in Nat /\ P(y) \in Nat /\ P(x) <= P(y) /\ P(y) <= 1000
  BY <1>4, ShareGrows
<1>9. Condition!At(x, "sdi", 0) >= 65 => S(x) = 1000
  <2>1. S(x) = IF s(x) < 0 THEN 0 ELSE IF s(x) > 1000 THEN 1000 ELSE s(x)
    BY <1>2, ShareIs
  <2> QED BY <1>2, <2>1
<1> HIDE DEF S, T, P
<1> DEFINE a == 5 * S(x) + 3 * T(x) + 2 * P(x)
           b == 5 * S(y) + 3 * T(y) + 2 * P(y)
<1>10. a \in Nat /\ b \in Nat /\ a <= b /\ b <= 10000 /\ (Condition!At(x, "sdi", 0) >= 65 => a >= 5000)
  BY <1>6, <1>7, <1>8, <1>9
<1>11. Condition!Loading(x) = a \div 10 /\ Condition!Loading(y) = b \div 10
  BY <1>5
<1> HIDE DEF a, b
<1> QED BY <1>1, <1>10, <1>11

LEMMA FilterIs ==
    ASSUME NEW sent, IsFilter(sent)
    PROVE  /\ Numbers(Filtered(sent)) /\ Choked(Filtered(sent)) \in Int
           /\ Condition!Loading(Filtered(sent)) \in Nat /\ Condition!Loading(Filtered(sent)) <= 1000
           /\ IsTelemetry(Condition!FilterTelemetry(Filtered(sent)))
           /\ Condition!FilterHealth(Filtered(sent)) \in Nat /\ Condition!FilterHealth(Filtered(sent)) <= 10000
           /\ 10 * Condition!Shown(Condition!FilterHealth(Filtered(sent))) \in Nat
           /\ 30 + (600 * Condition!Loading(Filtered(sent))) \div 1000 \in Nat
           /\ 30 + (600 * Condition!Loading(Filtered(sent))) \div 1000 > 0
           /\ IsAged(Condition!FilterAsset(Filtered(sent)))
<1> DEFINE x == Filtered(sent)
           base == Condition!FilterBaseline
           a == Condition!FilterAsset(x)
<1>1. Numbers(base) /\ DOMAIN base = {"dp", "clean_dp", "turbidity", "particles", "sdi", "age"} /\ base["age"] \in Nat
  BY DEF Condition!FilterBaseline, Numbers
<1>2. /\ Numbers(x) /\ DOMAIN x = DOMAIN sent \cup DOMAIN base
      /\ \A k \in DOMAIN x : x[k] = IF k \in DOMAIN sent THEN sent[k] ELSE base[k]
  <2>1. Numbers(x) /\ DOMAIN x = DOMAIN sent \cup DOMAIN base
    BY <1>1, OverIs DEF IsFilter, Filtered
  <2>2. \A k \in DOMAIN x : x[k] = IF k \in DOMAIN sent THEN sent[k] ELSE base[k]
    BY <2>1 DEF Filtered, Condition!Over
  <2> QED BY <2>1, <2>2
<1> HIDE DEF base
<1>3. Condition!At(x, "duty", 65) \in Nat /\ Condition!At(x, "age", 45) \in Nat
  <2>1. "duty" \in DOMAIN x => x["duty"] \in Nat
    BY <1>1, <1>2 DEF IsFilter
  <2>2. "age" \in DOMAIN x => x["age"] \in Nat
    BY <1>1, <1>2 DEF IsFilter
  <2> HIDE DEF x
  <2> QED BY <2>1, <2>2 DEF Condition!At
<1> HIDE DEF x
<1>4. Choked(x) \in Int
  BY <1>2, ChokedIs
<1>5. Condition!Loading(x) \in Nat /\ Condition!Loading(x) <= 1000
  <2>1. \A k \in {"sdi", "turbidity", "particles"} : Condition!At(x, k, 0) <= Condition!At(x, k, 0)
    BY <1>2, AtIs
  <2> QED BY <1>2, <2>1, LoadingGrows
<1>6. IsTelemetry(Condition!FilterTelemetry(x))
  BY <1>4 DEF Condition!FilterTelemetry, Choked, IsTelemetry, Numbers
<1>7. Condition!FilterHealth(x) \in Nat /\ Condition!FilterHealth(x) <= 10000
  BY <1>6, HealthIs DEF Condition!FilterHealth, Condition!Penalties
<1> DEFINE score == 10 * Condition!Shown(Condition!FilterHealth(x))
           decline == 30 + (600 * Condition!Loading(x)) \div 1000
<1>8. score \in Nat
  BY <1>7 DEF Condition!Shown
<1>9. decline \in Nat /\ decline > 0
  BY <1>5
<1>10. /\ a.trend = Condition!DeclineTrend(score, decline) /\ a.threshold = 4500 /\ a.duty = Condition!At(x, "duty", 65)
       /\ a.age = Condition!At(x, "age", 45) /\ a.interval = 90 /\ a.peers = 100
       /\ DOMAIN a = {"trend", "threshold", "duty", "age", "interval", "peers"}
  BY DEF Condition!FilterAsset
<1>11. IsAged(a)
  <2> HIDE DEF a, score, decline
  <2>1. a.trend \in Seq(Nat) /\ Len(a.trend) = 5
    BY <1>8, <1>9, <1>10, DeclineIs DEF IsDecline
  <2>2. a.trend # <<>>
    BY <2>1
  <2> QED BY <1>3, <1>10, <2>1, <2>2 DEF IsAged
<1> QED BY <1>2, <1>4, <1>5, <1>6, <1>7, <1>8, <1>9, <1>11 DEF x

(* A filter that is due by its pressure and by its fouling index is          *)
(* announced, and its days lie in a band within the horizon; a dirtier one   *)
(* never has the smaller risk nor, as long as neither trend is cut at a      *)
(* perfect score, the longer life (models/cartridge_filter.py).             *)
THEOREM FilterIsTrue ==
    ASSUME NEW sent, NEW other, IsFilter(sent), IsFilter(other)
    PROVE  Condition!FilterAgrees(sent) /\ Condition!FilterWorsens(sent, other)
<1> DEFINE x == Filtered(sent)
           y == Filtered(other)
           Press(z) == (Choked(z) - 25) * 25
<1>1. ASSUME NEW z, NEW w, Numbers(z), Numbers(w), Choked(z) <= Choked(w), Condition!Loading(z) \in Nat,
             Condition!Loading(w) \in Nat, Condition!Loading(z) <= Condition!Loading(w)
      PROVE  /\ Condition!ReplacementDue(z) \in Nat /\ Condition!ReplacementDue(w) \in Nat
             /\ Condition!ReplacementDue(z) <= Condition!ReplacementDue(w)
             /\ Choked(z) >= 25 /\ Condition!Loading(z) >= 500 => Condition!ReplacementDue(z) >= 500
  <2> DEFINE p == Condition!Logistic(Press(z))
             q == Condition!Logistic(Press(w))
             l == Condition!Loading(z)
             k == Condition!Loading(w)
  <2>1. Choked(z) \in Int /\ Choked(w) \in Int
    BY <1>1, ChokedIs
  <2>2. Press(z) \in Int /\ Press(w) \in Int /\ Press(z) <= Press(w) /\ (Choked(z) >= 25 => Press(z) >= 0)
    BY <1>1, <2>1
  <2>3. p \in Nat /\ q \in Nat /\ p <= q
    BY <2>2, LogisticGrows
  <2>4. Press(z) >= 0 => p >= 500
    <3>1. Press(z) <= Press(z)
      BY <2>2
    <3> QED BY <2>2, <3>1, LogisticGrows
  <2>5. Condition!ReplacementDue(z) = Condition!Blend(8, p, l) /\ Condition!ReplacementDue(w) = Condition!Blend(8, q, k)
    BY DEF Condition!ReplacementDue, Condition!ChangeOut, Choked
  <2> HIDE DEF p, q, Press
  <2>6. l \in Nat /\ k \in Nat /\ l <= k
    BY <1>1
  <2> HIDE DEF l, k
  <2>7. 8 \in 0..10 /\ q <= q /\ k <= k
    BY <2>3, <2>6
  <2>8. /\ Condition!Blend(8, p, l) \in Nat /\ Condition!Blend(8, q, k) \in Nat
        /\ Condition!Blend(8, p, l) <= Condition!Blend(8, q, k)
    <3>1. Condition!Blend(8, p, l) \in Nat /\ Condition!Blend(8, p, l) <= Condition!Blend(8, q, k)
      BY <2>3, <2>6, <2>7, BlendGrows
    <3>2. Condition!Blend(8, q, k) \in Nat
      BY <2>3, <2>6, <2>7, BlendGrows
    <3> QED BY <3>1, <3>2
  <2>9. p >= 500 /\ l >= 500 => Condition!Blend(8, p, l) >= 500
    <3> DEFINE a == 8 * p + 2 * l
               v == a \div 10
    <3>1. a \in Nat /\ (p >= 500 /\ l >= 500 => a >= 5000)
      BY <2>3, <2>6
    <3> HIDE DEF a
    <3>2. v \in Int /\ (p >= 500 /\ l >= 500 => v >= 500)
      BY <3>1
    <3>3. Condition!Blend(8, p, l) = Condition!Within(v, 0, 1000)
      BY DEF Condition!Blend, a
    <3> HIDE DEF v
    <3>4. Condition!Within(v, 0, 1000) = IF v < 0 THEN 0 ELSE IF v > 1000 THEN 1000 ELSE v
      BY <3>2, ShareIs
    <3> QED BY <3>2, <3>3, <3>4
  <2>10. Choked(z) >= 25 /\ Condition!Loading(z) >= 500 => p >= 500 /\ l >= 500
    BY <2>2, <2>4 DEF l
  <2> QED BY <2>5, <2>8, <2>9, <2>10
<1>2. Condition!FilterAgrees(sent)
  <2> DEFINE r == Condition!AssessFilter(sent)
             ths == Condition!FilterThresholds
             observed == [normalized_dp |-> Choked(x), sdi |-> Condition!At(x, "sdi", 0),
                          replacement_due_probability |-> Condition!ReplacementDue(x),
                          filter_health |-> 10 * Condition!Shown(Condition!FilterHealth(x))]
  <2>1. r.alerts = Condition!EvaluateThresholds(ths, observed)
    BY DEF Condition!AssessFilter, Filtered, Choked
  <2>2. /\ DOMAIN ths = 1..4 /\ ths[1].metric = "normalized_dp" /\ ths[2].metric = "sdi"
        /\ ths[3] = Condition!Above("replacement_due_probability", 500) /\ ths[4].metric = "filter_health"
        /\ ths[3].metric = "replacement_due_probability"
    BY DEF Condition!FilterThresholds, Condition!Above, Condition!Below
  <2>3. 3 \in DOMAIN ths /\ \A j \in DOMAIN ths : ths[j].metric = ths[3].metric => ths[j] = ths[3]
    BY <2>2
  <2>4. "replacement_due_probability" \in r.alerts <=> Condition!Crossed(ths[3], observed)
    <3> HIDE DEF ths, observed, r
    <3>1. ths[3].metric \in Condition!EvaluateThresholds(ths, observed) <=> Condition!Crossed(ths[3], observed)
      BY <2>3, AlertsAre
    <3> QED BY <2>1, <2>2, <3>1
  <2>5. Condition!Crossed(ths[3], observed) <=> Condition!ReplacementDue(x) >= 500
    BY <2>2 DEF Condition!Crossed, Condition!Above
  <2>6. /\ Numbers(x) /\ Choked(x) \in Int /\ Condition!Loading(x) \in Nat
        /\ IsAged(Condition!FilterAsset(x))
    BY FilterIs
  <2> HIDE DEF x, ths, observed, r
  <2>7. Condition!At(x, "sdi", 0) >= 65 => Condition!Loading(x) >= 500
    <3>1. \A k \in {"sdi", "turbidity", "particles"} : Condition!At(x, k, 0) <= Condition!At(x, k, 0)
      BY <2>6, AtIs
    <3> QED BY <2>6, <3>1, LoadingGrows
  <2>8. Choked(x) >= 25 /\ Condition!Loading(x) >= 500 => Condition!ReplacementDue(x) >= 500
    <3>1. Choked(x) <= Choked(x) /\ Condition!Loading(x) <= Condition!Loading(x)
      BY <2>6
    <3> QED BY <1>1, <2>6, <3>1
  <2>9. Condition!LifeBand(Condition!FilterAsset(x))
    <3>1. 0 \in Nat
      OBVIOUS
    <3> QED BY <2>6, <3>1, LifeIsBounded
  <2> QED BY <2>4, <2>5, <2>7, <2>8, <2>9 DEF Condition!FilterAgrees, Condition!ChangeOut, Choked, x, r, Filtered
<1>3. Condition!FilterWorsens(sent, other)
  <2>1. SUFFICES ASSUME Condition!Dirtier(x, y)
                 PROVE  /\ Condition!FilterRisk(x) <= Condition!FilterRisk(y)
                        /\ /\ Condition!At(x, "duty", 65) <= Condition!At(y, "duty", 65)
                           /\ Condition!At(x, "age", 45) <= Condition!At(y, "age", 45)
                           /\ Condition!Uncut(Condition!FilterAsset(x).trend) /\ Condition!Uncut(Condition!FilterAsset(y).trend)
                           => Condition!RemainingDays(Condition!FilterAsset(y)) <= Condition!RemainingDays(Condition!FilterAsset(x))
    BY DEF Condition!FilterWorsens, Filtered
  <2> DEFINE A == Condition!FilterAsset(x)
             B == Condition!FilterAsset(y)
             s == 10 * Condition!Shown(Condition!FilterHealth(x))
             r == 10 * Condition!Shown(Condition!FilterHealth(y))
             d == 30 + (600 * Condition!Loading(x)) \div 1000
             e == 30 + (600 * Condition!Loading(y)) \div 1000
  <2>2. /\ Numbers(x) /\ Choked(x) \in Int /\ Condition!Loading(x) \in Nat /\ IsTelemetry(Condition!FilterTelemetry(x))
        /\ Condition!FilterHealth(x) \in Nat /\ Condition!FilterHealth(x) <= 10000 /\ IsAged(A)
        /\ s \in Nat /\ d \in Nat /\ d > 0
    BY FilterIs
  <2>3. /\ Numbers(y) /\ Choked(y) \in Int /\ Condition!Loading(y) \in Nat /\ IsTelemetry(Condition!FilterTelemetry(y))
        /\ Condition!FilterHealth(y) \in Nat /\ Condition!FilterHealth(y) <= 10000 /\ IsAged(B)
        /\ r \in Nat /\ e \in Nat
    BY FilterIs
  <2> HIDE DEF x, y
  <2>4. /\ Choked(x) <= Choked(y)
        /\ \A k \in {"sdi", "turbidity", "particles"} : Condition!At(x, k, 0) <= Condition!At(y, k, 0)
    BY <2>1 DEF Condition!Dirtier, Choked
  <2>5. Condition!Loading(x) <= Condition!Loading(y)
    BY <2>2, <2>3, <2>4, LoadingGrows
  <2>6. Condition!FilterHealth(y) <= Condition!FilterHealth(x)
    <3>1. Condition!Worse("filter", Condition!FilterTelemetry(x), Condition!FilterTelemetry(y))
      <4>1. Condition!FilterTelemetry(x).limit = Condition!FilterTelemetry(y).limit
        BY DEF Condition!FilterTelemetry
      <4>2. \A p \in Condition!Range(Condition!Penalties["filter"]) : p.metric = "dp_rise"
        BY DEF Condition!Range, Condition!Penalties, Condition!Filter, Condition!Rise
      <4>3. /\ Condition!NormalizedDp(Condition!FilterTelemetry(x)) = Choked(x)
            /\ Condition!NormalizedDp(Condition!FilterTelemetry(y)) = Choked(y)
        <5> DEFINE none == [k \in {} |-> 0]
        <5>1. /\ Condition!FilterTelemetry(x) = [value |-> [normalized_dp |-> Choked(x)], limit |-> none]
              /\ Condition!FilterTelemetry(y) = [value |-> [normalized_dp |-> Choked(y)], limit |-> none]
          BY DEF Condition!FilterTelemetry, Choked
        <5> HIDE DEF none
        <5> QED BY <2>2, <2>3, <5>1, ChokedIs
      <4>4. /\ Condition!Reading(Condition!FilterTelemetry(x), "dp_rise") = Choked(x) - 10
            /\ Condition!Reading(Condition!FilterTelemetry(y), "dp_rise") = Choked(y) - 10
        BY <4>3 DEF Condition!Reading
      <4>5. Choked(x) - 10 <= Choked(y) - 10
        BY <2>2, <2>3, <2>4
      <4> QED BY <4>1, <4>2, <4>4, <4>5 DEF Condition!Worse
    <3>2. "filter" \in DOMAIN Condition!Penalties
      BY DEF Condition!Penalties
    <3>3. Condition!HealthFalls("filter", Condition!FilterTelemetry(x), Condition!FilterTelemetry(y))
      BY <2>2, <2>3, <3>2, HealthOnlyFalls
    <3> QED BY <3>1, <3>3 DEF Condition!HealthFalls, Condition!FilterHealth
  <2>7. Condition!FilterRisk(x) <= Condition!FilterRisk(y)
    <3> DEFINE u == Condition!Unhealth(Condition!FilterHealth(x))
               v == Condition!Unhealth(Condition!FilterHealth(y))
               p == Condition!ReplacementDue(x)
               q == Condition!ReplacementDue(y)
    <3>1. u \in Nat /\ v \in Nat /\ u <= v
      BY <2>2, <2>3, <2>6, UnhealthGrows
    <3>2. p \in Nat /\ q \in Nat /\ p <= q
      BY <1>1, <2>2, <2>3, <2>4, <2>5
    <3> HIDE DEF u, v, p, q
    <3>3. 5 \in 0..10
      OBVIOUS
    <3>4. Condition!Blend(5, u, p) <= Condition!Blend(5, v, q)
      BY <3>1, <3>2, <3>3, BlendGrows
    <3> QED BY <3>4 DEF Condition!FilterRisk, u, v, p, q
  <2>8. ASSUME Condition!At(x, "duty", 65) <= Condition!At(y, "duty", 65),
               Condition!At(x, "age", 45) <= Condition!At(y, "age", 45),
               Condition!Uncut(A.trend), Condition!Uncut(B.trend)
        PROVE  Condition!RemainingDays(B) <= Condition!RemainingDays(A)
    <3>1. /\ A.trend = Condition!DeclineTrend(s, d) /\ A.threshold = 4500 /\ A.duty = Condition!At(x, "duty", 65)
          /\ A.age = Condition!At(x, "age", 45) /\ A.interval = 90 /\ A.peers = 100
      BY DEF Condition!FilterAsset
    <3>2. /\ B.trend = Condition!DeclineTrend(r, e) /\ B.threshold = 4500 /\ B.duty = Condition!At(y, "duty", 65)
          /\ B.age = Condition!At(y, "age", 45) /\ B.interval = 90 /\ B.peers = 100
      BY DEF Condition!FilterAsset
    <3>3. r <= s
      BY <2>2, <2>3, <2>6 DEF Condition!Shown
    <3>4. d <= e
      BY <2>2, <2>3, <2>5
    <3> HIDE DEF A, B, s, r, d, e
    <3>5. Condition!BaseDays(B) <= Condition!BaseDays(A)
      <4>1. 0 < d /\ A.threshold = B.threshold /\ {s, d, r, e} \subseteq Nat
        BY <2>2, <2>3, <3>1, <3>2
      <4>2. A.trend = Condition!DeclineTrend(s, d) /\ B.trend = Condition!DeclineTrend(r, e)
        BY <3>1, <3>2
      <4>3. IsAged(A) /\ IsAged(B)
        BY <2>2, <2>3
      <4> QED BY <2>8, <3>3, <3>4, <4>1, <4>2, <4>3, FasterDeclineIsShorter
    <3>6. A.duty <= B.duty /\ A.age <= B.age /\ A.interval = B.interval /\ A.peers = B.peers
      BY <2>8, <3>1, <3>2
    <3>7. IsAged(A) /\ IsAged(B)
      BY <2>2, <2>3
    <3> QED BY <3>5, <3>6, <3>7, RemainingGrows
  <2> QED BY <2>7, <2>8
<1> QED BY <1>2, <1>3

-----------------------------------------------------------------------------
(* The membrane.                                                           *)
Membranes == [flow : Int, salt : Int, dp : Int, fouling : Nat, age : Nat]

LEMMA PenaltyGrows ==
    ASSUME NEW rate \in Nat, NEW cap \in Nat, NEW a \in Int, NEW b \in Int, a <= b
    PROVE  /\ Condition!Penalty(rate, a, cap) \in Nat /\ Condition!Penalty(rate, b, cap) \in Nat
           /\ Condition!Penalty(rate, a, cap) <= Condition!Penalty(rate, b, cap)
<1>1. \A v \in Int : Condition!Min({cap, v}) = IF v < cap THEN v ELSE cap
  BY DEF Condition!Min
<1>2. ASSUME NEW x \in Int, x > 50 PROVE (rate * x) \div 100 \in Nat
  <2>1. x \in Nat /\ rate <= rate /\ x <= x
    BY <1>2
  <2>2. rate * x \in Nat
    BY <2>1, ProductGrows
  <2> DEFINE v == rate * x
  <2> HIDE DEF v
  <2>3. v \div 100 \in Nat
    BY <2>2 DEF v
  <2> QED BY <2>3 DEF v
<1>3. ASSUME NEW x \in Int
      PROVE  /\ Condition!Penalty(rate, x, cap)
                    = IF x > 50 THEN (IF (rate * x) \div 100 < cap THEN (rate * x) \div 100 ELSE cap) ELSE 0
             /\ Condition!Penalty(rate, x, cap) \in Nat
  <2>1. x > 50 => Condition!Min({cap, (rate * x) \div 100}) = IF (rate * x) \div 100 < cap THEN (rate * x) \div 100 ELSE cap
    BY <1>1, <1>2
  <2>2. Condition!Penalty(rate, x, cap) = IF x > 50 THEN (IF (rate * x) \div 100 < cap THEN (rate * x) \div 100 ELSE cap) ELSE 0
    BY <2>1 DEF Condition!Penalty
  <2> QED BY <1>2, <2>2
<1>4. CASE a > 50
  <2>1. b > 50 /\ a \in Nat /\ b \in Nat /\ rate <= rate
    BY <1>4
  <2>2. rate * a \in Nat /\ rate * b \in Nat /\ rate * a <= rate * b
    BY <2>1, ProductGrows
  <2>3. (rate * a) \div 100 <= (rate * b) \div 100
    <3>1. rate * a \in Int /\ rate * b \in Int /\ 100 \in Int /\ 100 > 0
      BY <2>2
    <3> QED BY <2>2, <3>1, QuotientLess
  <2> DEFINE p == (rate * a) \div 100
             q == (rate * b) \div 100
  <2>4. p \in Nat /\ q \in Nat
    BY <1>2, <1>4, <2>1
  <2> HIDE DEF p, q
  <2>5. /\ Condition!Penalty(rate, a, cap) = IF p < cap THEN p ELSE cap
        /\ Condition!Penalty(rate, b, cap) = IF q < cap THEN q ELSE cap
    BY <1>3, <1>4, <2>1 DEF p, q
  <2>6. p <= q
    BY <2>3 DEF p, q
  <2> QED BY <2>4, <2>5, <2>6
<1>5. CASE ~(a > 50)
  <2>1. Condition!Penalty(rate, a, cap) = 0
    BY <1>3, <1>5
  <2>2. Condition!Penalty(rate, b, cap) \in Nat
    BY <1>3
  <2> QED BY <2>1, <2>2
<1> QED BY <1>4, <1>5

LEMMA MembraneHealthFalls ==
    ASSUME NEW m \in Membranes, NEW n \in Membranes, m.flow <= n.flow, m.salt <= n.salt, m.dp <= n.dp
    PROVE  /\ Condition!MembraneHealth(m) \in Nat /\ Condition!MembraneHealth(m) <= 10000
           /\ Condition!MembraneHealth(n) \in Nat /\ Condition!MembraneHealth(n) <= Condition!MembraneHealth(m)
<1> DEFINE s == Condition!MembranePenalties(m)
           t == Condition!MembranePenalties(n)
<1>1. /\ m.flow \in Int /\ m.salt \in Int /\ m.dp \in Int /\ n.flow \in Int /\ n.salt \in Int /\ n.dp \in Int
      /\ 15 \in Nat /\ 12 \in Nat /\ 8 \in Nat /\ 4000 \in Nat /\ 3000 \in Nat
  BY DEF Membranes
<1>2. ASSUME NEW rate \in Nat, NEW cap \in Nat, NEW v \in Int, NEW w \in Int, v <= w
      PROVE  /\ Condition!Penalty(rate, v, cap) \in Nat /\ Condition!Penalty(rate, w, cap) \in Nat
             /\ Condition!Penalty(rate, v, cap) <= Condition!Penalty(rate, w, cap)
  BY <1>2, PenaltyGrows
<1> HIDE DEF s, t
<1>3. ASSUME NEW v \in Int, NEW w \in Int, v <= w
      PROVE  /\ Condition!Penalty(15, v, 4000) \in Nat /\ Condition!Penalty(15, w, 4000) \in Nat
             /\ Condition!Penalty(15, v, 4000) <= Condition!Penalty(15, w, 4000)
  BY <1>1, <1>2, <1>3
<1>4. /\ Condition!Penalty(15, m.flow, 4000) \in Nat /\ Condition!Penalty(15, n.flow, 4000) \in Nat
      /\ Condition!Penalty(15, m.flow, 4000) <= Condition!Penalty(15, n.flow, 4000)
  BY <1>1, <1>3
<1>5. /\ Condition!Penalty(12, m.salt, 4000) \in Nat /\ Condition!Penalty(12, n.salt, 4000) \in Nat
      /\ Condition!Penalty(12, m.salt, 4000) <= Condition!Penalty(12, n.salt, 4000)
  BY <1>1, <1>2
<1>6. /\ Condition!Penalty(8, m.dp, 3000) \in Nat /\ Condition!Penalty(8, n.dp, 3000) \in Nat
      /\ Condition!Penalty(8, m.dp, 3000) <= Condition!Penalty(8, n.dp, 3000)
  BY <1>1, <1>2
<1>7. /\ Len(s) = 3 /\ s[1] = Condition!Penalty(15, m.flow, 4000) /\ s[2] = Condition!Penalty(12, m.salt, 4000)
      /\ s[3] = Condition!Penalty(8, m.dp, 3000)
      /\ Len(t) = 3 /\ t[1] = Condition!Penalty(15, n.flow, 4000) /\ t[2] = Condition!Penalty(12, n.salt, 4000)
      /\ t[3] = Condition!Penalty(8, n.dp, 3000)
  BY DEF Condition!MembranePenalties, s, t
<1>8. Summable(s) /\ Summable(t) /\ Len(s) = Len(t) /\ \A i \in 1..Len(s) : s[i] <= t[i]
  BY <1>4, <1>5, <1>6, <1>7 DEF Summable
<1>9. Condition!Total(s) \in Int /\ Condition!Total(t) \in Int /\ Condition!Total(s) <= Condition!Total(t)
  BY <1>8, TotalGrows
<1> DEFINE high == 10000
           low == 0
           v == high - Condition!Total(s)
           w == high - Condition!Total(t)
<1>10. v \in Int /\ w \in Int /\ w <= v /\ low \in Nat /\ high \in Nat /\ low <= high
  BY <1>9
<1>11. Condition!MembraneHealth(m) = Condition!Within(v, low, high) /\ Condition!MembraneHealth(n) = Condition!Within(w, low, high)
  BY DEF Condition!MembraneHealth, s, t
<1> HIDE DEF v, w, low, high
<1>12. /\ Condition!Within(v, low, high) \in Nat /\ Condition!Within(v, low, high) <= high
       /\ Condition!Within(w, low, high) \in Nat /\ Condition!Within(w, low, high) <= Condition!Within(v, low, high)
  BY <1>10, WithinGrows
<1> QED BY <1>11, <1>12 DEF high

LEMMA RoundedGrows ==
    ASSUME NEW a \in Int, NEW b \in Int, a <= b
    PROVE  /\ Condition!Rounded(a) \in Int /\ Condition!Rounded(b) \in Int
           /\ Condition!Rounded(a) <= Condition!Rounded(b)
           /\ (a >= 15000 => Condition!Rounded(a) >= 15000) /\ (a >= 10000 => Condition!Rounded(a) >= 10000)
BY DEF Condition!Rounded

LEMMA BreakthroughGrows ==
    ASSUME NEW m \in Membranes, NEW n \in Membranes, m.salt <= n.salt
    PROVE  /\ Condition!Breakthrough(m) \in Nat /\ Condition!Breakthrough(n) \in Nat
           /\ Condition!Breakthrough(m) <= Condition!Breakthrough(n)
           /\ Condition!Breakthrough(m) >= 500 <=> Condition!Rounded(m.salt) >= 10000
<1> DEFINE a == Condition!Rounded(m.salt)
           b == Condition!Rounded(n.salt)
           y == (a - 10000) \div 40
           z == (b - 10000) \div 40
<1>1. a \in Int /\ b \in Int /\ a <= b
  <2>1. m.salt \in Int /\ n.salt \in Int
    BY DEF Membranes
  <2> QED BY <2>1, RoundedGrows
<1>2. Condition!Breakthrough(m) = Condition!Logistic(y) /\ Condition!Breakthrough(n) = Condition!Logistic(z)
  BY DEF Condition!Breakthrough, Condition!CipSaltRise
<1> HIDE DEF a, b
<1>3. y \in Int /\ z \in Int /\ y <= z /\ (a >= 10000 <=> y >= 0)
  BY <1>1
<1> HIDE DEF y, z
<1>4. /\ Condition!Logistic(y) \in Nat /\ Condition!Logistic(z) \in Nat /\ Condition!Logistic(y) <= Condition!Logistic(z)
  BY <1>3, LogisticGrows
<1>5. (y >= 0 => Condition!Logistic(y) >= 500) /\ (y < 0 => Condition!Logistic(y) <= 498)
  <2>1. y <= y
    BY <1>3
  <2> QED BY <1>3, <2>1, LogisticGrows
<1> QED BY <1>2, <1>3, <1>4, <1>5 DEF a

(* Cleaning is required exactly when a rise alert says so, but for a rise    *)
(* that the rounding lifts to its threshold; the breakthrough alert is the   *)
(* alert of the salt passage; larger rises never lower the risk, nor does    *)
(* age lengthen the life (models/membrane_fouling.py, membrane.py).         *)
THEOREM MembraneIsTrue ==
    ASSUME NEW m \in Membranes, NEW n \in Membranes
    PROVE  Condition!MembraneAgrees(m) /\ Condition!MembraneWorsens(m, n)
<1>1. /\ m.flow \in Int /\ m.salt \in Int /\ m.dp \in Int /\ m.fouling \in Nat /\ m.age \in Nat
      /\ n.flow \in Int /\ n.salt \in Int /\ n.dp \in Int /\ n.age \in Nat
  BY DEF Membranes
<1>2. Condition!MembraneAgrees(m)
  <2> DEFINE r == Condition!AssessMembrane(m)
             ths == Condition!MembraneThresholds
             observed == [dp_rise |-> Condition!Rounded(m.dp), salt_rise |-> Condition!Rounded(m.salt),
                          flow_decline |-> Condition!Rounded(m.flow), breakthrough_probability |-> Condition!Breakthrough(m),
                          membrane_health |-> 10 * Condition!Shown(Condition!MembraneHealth(m))]
             given == {i \in 1..3 : Condition!MembranePenalties(m)[i] > 0}
  <2>1. /\ r.alerts = Condition!EvaluateThresholds(ths, observed) /\ (r.cleaning <=> Condition!CleaningRequired(m))
        /\ r.confidence = 600 + 100 * Cardinality(given)
    BY DEF Condition!AssessMembrane, Condition!Cardinality, Cardinality
  <2>2. /\ DOMAIN ths = 1..5 /\ ths[1] = Condition!Above("dp_rise", 15000) /\ ths[2] = Condition!Above("salt_rise", 10000)
        /\ ths[4] = Condition!Above("breakthrough_probability", 500)
        /\ ths[1].metric = "dp_rise" /\ ths[2].metric = "salt_rise" /\ ths[3].metric = "flow_decline"
        /\ ths[4].metric = "breakthrough_probability" /\ ths[5].metric = "membrane_health"
    BY DEF Condition!MembraneThresholds, Condition!Above, Condition!Below, Condition!CipDpRise, Condition!CipSaltRise
  <2>3. \A i \in {1, 2, 4} : i \in DOMAIN ths /\ \A j \in DOMAIN ths : ths[j].metric = ths[i].metric => ths[j] = ths[i]
    BY <2>2
  <2>4. /\ "dp_rise" \in r.alerts <=> Condition!Crossed(ths[1], observed)
        /\ "salt_rise" \in r.alerts <=> Condition!Crossed(ths[2], observed)
        /\ "breakthrough_probability" \in r.alerts <=> Condition!Crossed(ths[4], observed)
    <3> HIDE DEF ths, observed, r
    <3>1. ASSUME NEW i \in {1, 2, 4}
          PROVE  ths[i].metric \in Condition!EvaluateThresholds(ths, observed) <=> Condition!Crossed(ths[i], observed)
      BY <2>3, AlertsAre
    <3> QED BY <2>1, <2>2, <3>1
  <2>5. /\ Condition!Crossed(ths[1], observed) <=> Condition!Rounded(m.dp) >= 15000
        /\ Condition!Crossed(ths[2], observed) <=> Condition!Rounded(m.salt) >= 10000
        /\ Condition!Crossed(ths[4], observed) <=> Condition!Breakthrough(m) >= 500
    BY <2>2 DEF Condition!Crossed, Condition!Above
  <2> HIDE DEF r, ths, observed
  <2>6. /\ "dp_rise" \in r.alerts <=> Condition!Rounded(m.dp) >= 15000
        /\ "salt_rise" \in r.alerts <=> Condition!Rounded(m.salt) >= 10000
        /\ "breakthrough_probability" \in r.alerts <=> Condition!Rounded(m.salt) >= 10000
    <3>1. m.salt <= m.salt
      BY <1>1
    <3>2. Condition!Breakthrough(m) >= 500 <=> Condition!Rounded(m.salt) >= 10000
      BY <3>1, BreakthroughGrows
    <3> QED BY <2>4, <2>5, <3>2
  <2>7. r.cleaning <=> m.dp >= 15000 \/ m.salt >= 10000
    BY <2>1 DEF Condition!CleaningRequired, Condition!CipDpRise, Condition!CipSaltRise
  <2>8. (m.dp >= 15000 => Condition!Rounded(m.dp) >= 15000) /\ (m.salt >= 10000 => Condition!Rounded(m.salt) >= 10000)
    <3>1. m.dp <= m.dp /\ m.salt <= m.salt
      BY <1>1
    <3> QED BY <1>1, <3>1, RoundedGrows
  <2>9. r.confidence <= 900
    <3>1. IsFiniteSet(1..3) /\ Cardinality(1..3) = 3
      <4> DEFINE one == 1
                 three == 3
      <4>1. one \in Int /\ three \in Int /\ one <= three /\ three - one + 1 = 3
        OBVIOUS
      <4> HIDE DEF one, three
      <4>2. IsFiniteSet(one..three) /\ Cardinality(one..three) = IF one > three THEN 0 ELSE three - one + 1
        BY <4>1, FS_Interval
      <4>3. IsFiniteSet(one..three) /\ Cardinality(one..three) = 3
        BY <4>1, <4>2
      <4> QED BY <4>3 DEF one, three
    <3>2. given \subseteq 1..3
      OBVIOUS
    <3> HIDE DEF given
    <3>3. Cardinality(given) \in Nat /\ Cardinality(given) <= 3
      BY <3>1, <3>2, FS_Subset, FS_CardinalityType
    <3> QED BY <2>1, <3>3
  <2>10. /\ Condition!Rounded(m.dp) >= 15000 /\ ~(m.dp >= 15000) => Condition!Lifted(m.dp, Condition!CipDpRise)
         /\ Condition!Rounded(m.salt) >= 10000 /\ ~(m.salt >= 10000) => Condition!Lifted(m.salt, Condition!CipSaltRise)
    BY <1>1 DEF Condition!Lifted, Condition!CipDpRise, Condition!CipSaltRise
  <2>11. r.cleaning => {"dp_rise", "salt_rise"} \cap r.alerts # {}
    BY <2>6, <2>7, <2>8
  <2>12. {"dp_rise", "salt_rise"} \cap r.alerts # {} =>
             r.cleaning \/ Condition!Lifted(m.dp, Condition!CipDpRise) \/ Condition!Lifted(m.salt, Condition!CipSaltRise)
    BY <2>6, <2>7, <2>10
  <2> QED BY <2>6, <2>9, <2>11, <2>12 DEF Condition!MembraneAgrees, r
<1>3. Condition!MembraneWorsens(m, n)
  <2> SUFFICES ASSUME m.flow <= n.flow, m.salt <= n.salt, m.dp <= n.dp, m.age <= n.age
               PROVE  /\ Condition!MembraneRisk(m) <= Condition!MembraneRisk(n)
                      /\ Condition!RemainingDays(Condition!MembraneAsset([m EXCEPT !.age = n.age]))
                             <= Condition!RemainingDays(Condition!MembraneAsset(m))
    BY DEF Condition!MembraneWorsens
  <2>1. /\ Condition!MembraneHealth(m) \in Nat /\ Condition!MembraneHealth(m) <= 10000
        /\ Condition!MembraneHealth(n) \in Nat /\ Condition!MembraneHealth(n) <= Condition!MembraneHealth(m)
    BY MembraneHealthFalls
  <2>2. Condition!MembraneRisk(m) <= Condition!MembraneRisk(n)
    <3> DEFINE u == Condition!Unhealth(Condition!MembraneHealth(m))
               v == Condition!Unhealth(Condition!MembraneHealth(n))
               p == Condition!Breakthrough(m)
               q == Condition!Breakthrough(n)
    <3>1. u \in Nat /\ v \in Nat /\ u <= v
      BY <2>1, UnhealthGrows
    <3>2. p \in Nat /\ q \in Nat /\ p <= q
      BY BreakthroughGrows
    <3> HIDE DEF u, v, p, q
    <3>3. 5 \in 0..10
      OBVIOUS
    <3>4. Condition!Blend(5, u, p) <= Condition!Blend(5, v, q)
      BY <3>1, <3>2, <3>3, BlendGrows
    <3> QED BY <3>4 DEF Condition!MembraneRisk, u, v, p, q
  <2>3. Condition!RemainingDays(Condition!MembraneAsset([m EXCEPT !.age = n.age]))
            <= Condition!RemainingDays(Condition!MembraneAsset(m))
    <3> DEFINE k == [m EXCEPT !.age = n.age]
               a == Condition!MembraneAsset(m)
               b == Condition!MembraneAsset(k)
               decline == 10 + (200 * m.fouling) \div 1000
    <3>1. k.age = n.age /\ k.flow = m.flow /\ k.salt = m.salt /\ k.dp = m.dp /\ k.fouling = m.fouling
      BY DEF Membranes
    <3>2. Condition!MembraneHealth(k) = Condition!MembraneHealth(m)
      BY <3>1 DEF Condition!MembraneHealth, Condition!MembranePenalties
    <3> HIDE DEF k
    <3>3. /\ a.trend = Condition!DeclineTrend(Condition!MembraneHealth(m), decline) /\ a.threshold = 4000 /\ a.duty = 70
          /\ a.age = m.age /\ a.interval = 180 /\ a.peers = 100
          /\ DOMAIN a = {"trend", "threshold", "duty", "age", "interval", "peers"}
      BY DEF Condition!MembraneAsset
    <3>4. /\ b.trend = a.trend /\ b.threshold = 4000 /\ b.duty = 70 /\ b.age = n.age /\ b.interval = 180 /\ b.peers = 100
          /\ DOMAIN b = {"trend", "threshold", "duty", "age", "interval", "peers"}
      BY <3>1, <3>2 DEF Condition!MembraneAsset
    <3>5. decline \in Nat
      BY <1>1
    <3> HIDE DEF a, b, decline
    <3> DEFINE score == Condition!MembraneHealth(m)
               trend == Condition!DeclineTrend(score, decline)
    <3> HIDE DEF score
    <3>6. trend \in Seq(Nat) /\ Len(trend) = 5
      <4>1. score \in Nat
        BY <2>1 DEF score
      <4>2. IsDecline(trend, score, decline)
        BY <3>5, <4>1, DeclineIs
      <4> HIDE DEF trend
      <4> QED BY <4>2 DEF IsDecline
    <3>7. a.trend = trend /\ trend # <<>>
      <4>1. a.trend = trend
        BY <3>3 DEF score
      <4> HIDE DEF trend
      <4>2. Len(trend) # Len(<<>>)
        BY <3>6
      <4> QED BY <4>1, <4>2
    <3> HIDE DEF trend
    <3>8. IsAged(a) /\ IsAged(b)
      BY <1>1, <3>3, <3>4, <3>6, <3>7 DEF IsAged
    <3>9. Condition!BaseDays(b) = Condition!BaseDays(a)
      BY <3>3, <3>4 DEF Condition!BaseDays, Condition!HorizonCap
    <3>10. Condition!BaseDays(a) \in Nat
      BY <3>8, BaseDaysIs
    <3>11. a.duty <= b.duty /\ a.age <= b.age /\ a.interval = b.interval /\ a.peers = b.peers
           /\ Condition!BaseDays(b) <= Condition!BaseDays(a)
      BY <3>3, <3>4, <3>9, <3>10
    <3>12. Condition!RemainingDays(b) <= Condition!RemainingDays(a)
      BY <3>8, <3>11, RemainingGrows
    <3> QED BY <3>12 DEF a, b, k
  <2> QED BY <2>2, <2>3
<1> QED BY <1>2, <1>3

LEMMA ConditionModelsHold == Condition!ConditionModelsSound
<1>1. \A s \in Condition!PumpInputs : Numbers(s)
  BY DEF Condition!PumpInputs, Numbers
<1>2. \A s \in Condition!FilterInputs : IsFilter(s)
  BY DEF Condition!FilterInputs, IsFilter, Numbers
<1>3. Condition!MembraneInputs \subseteq Membranes
  BY DEF Condition!MembraneInputs, Membranes
<1>4. \A s, t \in Condition!PumpInputs : Condition!PumpAgrees(s) /\ Condition!PumpWorsens(s, t)
  BY <1>1, PumpIsTrue
<1>5. \A s, t \in Condition!FilterInputs : Condition!FilterAgrees(s) /\ Condition!FilterWorsens(s, t)
  BY <1>2, FilterIsTrue
<1>6. \A m, n \in Condition!MembraneInputs : Condition!MembraneAgrees(m) /\ Condition!MembraneWorsens(m, n)
  BY <1>3, MembraneIsTrue
<1> QED BY <1>4, <1>5, <1>6 DEF Condition!ConditionModelsSound
=============================================================================
