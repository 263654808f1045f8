-------------------------- MODULE Collector_proofs --------------------------
(***************************************************************************)
(* Proofs about Collector, for every cap of the buffer, size of a push,    *)
(* number of signals, readings, starts and late requests, every wall clock *)
(* and both endpoints.                                                     *)
(***************************************************************************)
EXTENDS Collector, SequenceTheorems, FiniteSetTheorems, WellFoundedInduction, TLAPS

-----------------------------------------------------------------------------
(* Numbers and sets of row ids.                                            *)

(* A set of naturals has a least element: what stands in for induction.    *)
LEMMA Least ==
    ASSUME NEW T, T \subseteq Nat, T # {}
    PROVE  \E x \in T : \A y \in T : x <= y
<1>1. \E R : IsWellFoundedOn(R, Nat) /\ \A a, b \in Nat : a < b => <<a, b>> \in R
  <2>1. \A a, b \in Nat : a < b => <<a, b>> \in OpToRel(<, Nat)
    BY DEF OpToRel
  <2> QED BY <2>1, NatLessThanWellFounded
<1>2. PICK R : IsWellFoundedOn(R, Nat) /\ \A a, b \in Nat : a < b => <<a, b>> \in R
  BY <1>1
<1>0. \E x \in T : \A y \in T : ~ (<<y, x>> \in R)
  <2>1. IsWellFoundedOn(R, Nat)
    BY <1>2
  <2>2. T \subseteq Nat /\ T # {}
    OBVIOUS
  <2> QED BY ONLY <2>1, <2>2, WFMin, Zenon
<1>3. PICK x \in T : \A y \in T : ~ (<<y, x>> \in R)
  BY <1>0
<1>4. ASSUME NEW y \in T PROVE x <= y
  <2>1. x \in Nat /\ y \in Nat
    OBVIOUS
  <2>2. ~ (y < x)
    BY <1>2, <1>3, <2>1
  <2> QED BY <2>1, <2>2
<1> QED
  BY <1>4

(* The rows in the table are finitely many, and so are those before one.   *)
LEMMA OutboxFinite ==
    ASSUME TypeOK, NEW S \in SUBSET outbox
    PROVE  /\ IsFiniteSet(S)
           /\ Cardinality(S) \in Nat
           /\ Cardinality(S) <= Cardinality(outbox)
           /\ Cardinality(outbox) \in Nat
           /\ outbox \subseteq Nat
<1>1. outbox \subseteq 1 .. Len(rows) /\ Len(rows) \in Nat
  BY DEF TypeOK
<1>2. IsFiniteSet(1 .. Len(rows))
  BY <1>1, FS_Interval
<1>3. IsFiniteSet(outbox)
  BY <1>1, <1>2, FS_Subset
<1>4. IsFiniteSet(S) /\ Cardinality(S) <= Cardinality(outbox)
  BY <1>3, FS_Subset
<1>5. Cardinality(S) \in Nat /\ Cardinality(outbox) \in Nat
  BY <1>3, <1>4, FS_CardinalityType
<1> QED
  BY <1>1, <1>4, <1>5

(* A row among the n oldest has only rows among the n oldest before it.    *)
LEMMA OldestDownward ==
    ASSUME TypeOK, NEW n \in Nat, NEW i \in OldestRows(n), NEW j \in outbox, j < i
    PROVE  j \in OldestRows(n)
<1>1. i \in outbox /\ Cardinality(Older(i, outbox)) < n
  BY DEF OldestRows
<1>2. i \in Nat /\ j \in Nat /\ outbox \subseteq Nat
  BY <1>1, OutboxFinite
<1>3. Older(j, outbox) \subseteq Older(i, outbox) /\ Older(i, outbox) \subseteq outbox
  <2>1. ASSUME NEW k \in outbox, k < j PROVE k < i
    BY <1>2, <2>1
  <2> QED BY <2>1 DEF Older
<1>4. IsFiniteSet(Older(i, outbox)) /\ Cardinality(Older(i, outbox)) \in Nat
  BY <1>3, OutboxFinite
<1>5. Cardinality(Older(j, outbox)) <= Cardinality(Older(i, outbox)) /\ Cardinality(Older(j, outbox)) \in Nat
  BY <1>3, <1>4, FS_Subset, FS_CardinalityType
<1> QED
  BY <1>1, <1>4, <1>5 DEF OldestRows

(* Taking away the n oldest leaves all but n rows at most.                 *)
LEMMA OldestMany ==
    ASSUME TypeOK, NEW n \in Nat, n <= Cardinality(outbox)
    PROVE  Cardinality(outbox \ OldestRows(n)) <= Cardinality(outbox) - n
<1> DEFINE T == outbox \ OldestRows(n)
<1>1. CASE T = {}
  BY <1>1, FS_EmptySet, OutboxFinite
<1>2. CASE T # {}
  <2>1. PICK m \in T : \A y \in T : m <= y
    BY <1>2, Least, OutboxFinite
  <2>2. Older(m, outbox) \subseteq outbox /\ Older(m, outbox) \cap T = {} /\ T \subseteq outbox
    BY <2>1, OutboxFinite DEF Older
  <2>3. ~ (Cardinality(Older(m, outbox)) < n)
    BY <2>1 DEF OldestRows
  <2>4. /\ IsFiniteSet(Older(m, outbox)) /\ IsFiniteSet(T)
        /\ Cardinality(Older(m, outbox)) \in Nat /\ Cardinality(T) \in Nat
        /\ Cardinality(outbox) \in Nat
    BY <2>2, OutboxFinite
  <2>5. Cardinality(Older(m, outbox) \cup T)
          = Cardinality(Older(m, outbox)) + Cardinality(T) - Cardinality(Older(m, outbox) \cap T)
    BY <2>4, FS_Union
  <2>6. Cardinality(Older(m, outbox) \cap T) = 0
    BY <2>2, FS_EmptySet
  <2>7. Cardinality(Older(m, outbox) \cup T) <= Cardinality(outbox)
    BY <2>2, OutboxFinite
  <2> QED BY <2>3, <2>4, <2>5, <2>6, <2>7
<1> QED
  BY <1>1, <1>2

(* A row is one of those before, itself, or one of those after it.         *)
LEMMA SplitAt ==
    ASSUME TypeOK, NEW i \in outbox
    PROVE  Cardinality({j \in outbox : j > i}) = Cardinality(outbox) - Cardinality(Older(i, outbox)) - 1
<1> DEFINE A == Older(i, outbox)
           B == {j \in outbox : j > i}
<1>1. A \subseteq outbox /\ B \subseteq outbox /\ i \notin A /\ i \notin B /\ A \cap B = {}
      /\ outbox = (A \cup B) \cup {i}
  BY OutboxFinite DEF Older
<1>2. /\ IsFiniteSet(A) /\ IsFiniteSet(B) /\ Cardinality(A) \in Nat /\ Cardinality(B) \in Nat
  BY <1>1, OutboxFinite
<1> HIDE DEF A, B
<1>6. Cardinality(A \cap B) = 0
  BY <1>1, FS_EmptySet
<1>7. IsFiniteSet(A \cup B)
      /\ Cardinality(A \cup B) = Cardinality(A) + Cardinality(B) - Cardinality(A \cap B)
  BY <1>2, FS_Union
<1>3. IsFiniteSet(A \cup B) /\ Cardinality(A \cup B) = Cardinality(A) + Cardinality(B)
  BY <1>2, <1>6, <1>7
<1>4. Cardinality((A \cup B) \cup {i}) = Cardinality(A \cup B) + 1
  BY <1>1, <1>3, FS_AddElement
<1>5. Cardinality(B) = Cardinality(outbox) - Cardinality(A) - 1
  BY <1>1, <1>2, <1>3, <1>4
<1> QED
  BY <1>5 DEF A, B

-----------------------------------------------------------------------------
(* The stamps of one poll.                                                 *)

(* Each stamp lies past the one before it, so all lie past the last one    *)
(* given and they increase: by the least reading for which that fails.     *)
LEMMA StampsIncrease ==
    ASSUME TypeOK, NEW clock \in [1 .. Signals -> Now], NEW stamps \in [1 .. Signals -> StampRange],
           Stamped(clock, stamps)
    PROVE  /\ stamps \in [1 .. Signals -> Nat]
           /\ \A k \in 1 .. Signals : last < stamps[k]
           /\ \A k \in 1 .. Signals : \A j \in 1 .. Signals : j < k => stamps[j] < stamps[k]
<1>1. last \in Nat /\ Signals \in Nat /\ 1 \in 1 .. Signals /\ Now \subseteq Nat
  BY CollectorAssumption DEF TypeOK
<1>2. StampRange \subseteq Nat
  BY <1>1 DEF StampRange
<1>3. stamps \in [1 .. Signals -> Nat]
  BY <1>2
<1>4. \A n \in Nat, prev \in Nat : prev < Stamp(n, prev)
  BY DEF Stamp
<1>5. last < stamps[1]
  BY <1>1, <1>4 DEF Stamped
<1>6. ASSUME NEW k \in 1 .. Signals, k # 1 PROVE k - 1 \in 1 .. Signals /\ stamps[k - 1] < stamps[k]
  <2>1. k - 1 \in 1 .. Signals /\ stamps[k] = Stamp(clock[k], stamps[k - 1])
    BY <1>1, <1>6 DEF Stamped
  <2> QED BY <1>1, <1>3, <1>4, <2>1
<1> DEFINE Good(k) == last < stamps[k] /\ \A j \in 1 .. Signals : j < k => stamps[j] < stamps[k]
           T == {k \in 1 .. Signals : ~ Good(k)}
<1>7. T = {}
  <2> SUFFICES ASSUME T # {} PROVE FALSE
    OBVIOUS
  <2>1. T \subseteq Nat
    BY <1>1
  <2>2. \E m \in T : \A y \in T : m <= y
    BY <2>1, Least
  <2>3. PICK m \in T : \A y \in T : m <= y
    BY <2>2
  <2>4. m \in 1 .. Signals /\ ~ Good(m)
    BY <2>3
  <2>5. m # 1
    BY <1>1, <1>5, <2>4
  <2>6. m - 1 \in 1 .. Signals /\ stamps[m - 1] < stamps[m]
    BY <1>6, <2>4, <2>5
  <2>7. Good(m - 1)
    <3>1. ~ (m <= m - 1)
      BY <2>4, <1>1
    <3>2. m - 1 \notin T
      BY <2>3, <3>1
    <3> QED BY <2>6, <3>2
  <2>8. last < stamps[m]
    BY <1>1, <1>3, <2>4, <2>6, <2>7
  <2>9. ASSUME NEW j \in 1 .. Signals, j < m PROVE stamps[j] < stamps[m]
    <3>1. j = m - 1 \/ j < m - 1
      BY <1>1, <2>4, <2>9
    <3>2. stamps[j] \in Nat /\ stamps[m - 1] \in Nat /\ stamps[m] \in Nat
      BY <1>3, <2>4, <2>6
    <3> QED BY <2>6, <2>7, <3>1, <3>2
  <2> QED BY <2>4, <2>8, <2>9
<1> QED
  BY <1>3, <1>7

-----------------------------------------------------------------------------
(* What the actions do to the rows.                                        *)

(* The rows of a poll follow those that were there.                        *)
LEMMA CollectFrame ==
    ASSUME TypeOK, NEW s, Collect(s)
    PROVE  /\ rows' \in Seq(Row)
           /\ Len(rows') = Len(rows) + Signals
           /\ \A i \in DOMAIN rows : i \in DOMAIN rows' /\ rows'[i] = rows[i]
           /\ \A i \in DOMAIN rows' : i \notin DOMAIN rows => rows'[i].boot = boot
           /\ last' \in Nat /\ last <= last'
           /\ \A i \in DOMAIN rows' : i \notin DOMAIN rows =>
                 /\ last < rows'[i].stamp /\ rows'[i].stamp <= last'
                 /\ \A j \in DOMAIN rows' : j \notin DOMAIN rows /\ i < j => rows'[i].stamp < rows'[j].stamp
<1>1. PICK clock \in [1 .. Signals -> Now], stamps \in [1 .. Signals -> StampRange] :
        /\ Stamped(clock, stamps)
        /\ last' = stamps[Signals]
        /\ \E values \in [1 .. Signals -> {"finite", "nonfinite"}] :
            rows' = rows \o [k \in 1 .. Signals |->
                               [stamp |-> stamps[k], value |-> values[k], boot |-> boot]]
  BY DEF Collect
<1>2. PICK values \in [1 .. Signals -> {"finite", "nonfinite"}] :
        rows' = rows \o [k \in 1 .. Signals |->
                           [stamp |-> stamps[k], value |-> values[k], boot |-> boot]]
  BY <1>1
<1>3. /\ stamps \in [1 .. Signals -> Nat]
      /\ \A k \in 1 .. Signals : last < stamps[k]
      /\ \A k \in 1 .. Signals : \A j \in 1 .. Signals : j < k => stamps[j] < stamps[k]
  BY <1>1, StampsIncrease
<1>4. Signals \in Nat /\ Signals \in 1 .. Signals /\ last \in Nat /\ boot \in Nat
  BY CollectorAssumption DEF TypeOK
<1> DEFINE row(k) == [stamp |-> stamps[k], value |-> values[k], boot |-> boot]
           poll == [k \in 1 .. Signals |-> row(k)]
<1>5. ASSUME NEW k \in 1 .. Signals
      PROVE  row(k) \in Row /\ row(k).stamp = stamps[k] /\ row(k).boot = boot
  BY <1>3, <1>4 DEF Row
<1> HIDE DEF row
<1>6. poll \in Seq(Row) /\ Len(poll) = Signals /\ rows \in Seq(Row) /\ \A k \in 1 .. Signals : poll[k] = row(k)
  BY <1>4, <1>5 DEF TypeOK
<1>7. rows' = rows \o poll
  BY <1>2 DEF row
<1> HIDE DEF poll
<1>8. /\ rows' \in Seq(Row)
      /\ Len(rows') = Len(rows) + Signals
      /\ \A i \in 1 .. Len(rows) + Signals :
            rows'[i] = IF i <= Len(rows) THEN rows[i] ELSE poll[i - Len(rows)]
  BY <1>6, <1>7, ConcatProperties
<1>9. /\ Len(rows) \in Nat /\ DOMAIN rows = 1 .. Len(rows)
      /\ DOMAIN rows' = 1 .. Len(rows) + Signals
  BY <1>6, <1>8
<1>10. \A i \in DOMAIN rows : i \in DOMAIN rows' /\ rows'[i] = rows[i]
  BY <1>4, <1>8, <1>9
<1>11. ASSUME NEW i \in DOMAIN rows', i \notin DOMAIN rows
       PROVE  /\ i - Len(rows) \in 1 .. Signals
              /\ rows'[i].stamp = stamps[i - Len(rows)] /\ rows'[i].boot = boot
  <2>1. i - Len(rows) \in 1 .. Signals /\ ~ (i <= Len(rows))
    BY <1>4, <1>9, <1>11
  <2>2. rows'[i] = row(i - Len(rows))
    BY <1>6, <1>8, <1>9, <2>1
  <2> QED BY <1>5, <2>1, <2>2
<1>12. ASSUME NEW k \in 1 .. Signals PROVE stamps[k] <= last'
  <2>1. k = Signals \/ k < Signals
    BY <1>4
  <2> QED BY <1>1, <1>3, <1>4, <2>1
<1>13. last' \in Nat /\ last <= last'
  BY <1>1, <1>3, <1>4
<1>14. ASSUME NEW i \in DOMAIN rows', i \notin DOMAIN rows
       PROVE  /\ last < rows'[i].stamp /\ rows'[i].stamp <= last'
              /\ \A j \in DOMAIN rows' : j \notin DOMAIN rows /\ i < j => rows'[i].stamp < rows'[j].stamp
  <2>1. last < rows'[i].stamp /\ rows'[i].stamp <= last'
    BY <1>3, <1>11, <1>12, <1>14
  <2>2. ASSUME NEW j \in DOMAIN rows', j \notin DOMAIN rows, i < j PROVE rows'[i].stamp < rows'[j].stamp
    <3>1. i - Len(rows) < j - Len(rows)
      BY <1>9, <2>2, <1>8
    <3> QED BY <1>3, <1>11, <1>14, <2>2, <3>1
  <2> QED BY <2>1, <2>2
<1> QED
  BY <1>8, <1>10, <1>11, <1>13, <1>14

(* The newest reading of a signal that a push shows is one of its readings,*)
(* and none of them is newer.                                              *)
LEMMA AcceptFrame ==
    ASSUME TypeOK, NEW batch \in SUBSET DOMAIN rows, Accept(batch)
    PROVE  /\ accepted' = accepted \cup batch
           /\ \A s \in 1 .. Signals :
                \/ view'[s] = view[s] /\ \A j \in batch : SignalOf(j) # s
                \/ /\ view'[s] \in batch /\ SignalOf(view'[s]) = s
                   /\ \A j \in batch : SignalOf(j) = s => j <= view'[s]
<1>1. accepted' = accepted \cup batch
  BY DEF Accept
<1>2. ASSUME NEW s \in 1 .. Signals
      PROVE  \/ view'[s] = view[s] /\ \A j \in batch : SignalOf(j) # s
             \/ /\ view'[s] \in batch /\ SignalOf(view'[s]) = s
                /\ \A j \in batch : SignalOf(j) = s => j <= view'[s]
  <2>1. view'[s] = IF NewestOf(batch, s) = {} THEN view[s] ELSE CHOOSE i \in NewestOf(batch, s) : TRUE
    BY DEF Accept
  <2>2. CASE NewestOf(batch, s) # {}
    <3>1. view'[s] \in NewestOf(batch, s)
      BY <2>1, <2>2
    <3> QED BY <3>1 DEF NewestOf
  <2>3. CASE NewestOf(batch, s) = {}
    <3> DEFINE T == {j \in batch : SignalOf(j) = s}
    <3>1. CASE T = {}
      BY <2>1, <2>3, <3>1
    <3>2. CASE T # {}
      \* The greatest row of the push for the signal: the least distance from the end.
      <4> DEFINE D == {Len(rows) - j : j \in T}
      <4>1. Len(rows) \in Nat /\ batch \subseteq 1 .. Len(rows)
        BY DEF TypeOK
      <4>2. D \subseteq Nat /\ D # {}
        BY <3>2, <4>1
      <4>3. PICK d \in D : \A e \in D : d <= e
        <5> HIDE DEF D
        <5> QED BY <4>2, Least
      <4>4. PICK m \in T : d = Len(rows) - m
        BY <4>3
      <4>5. ASSUME NEW j \in T PROVE j <= m
        <5>1. d <= Len(rows) - j
          BY <4>3
        <5> QED BY <4>1, <4>4, <5>1
      <4>6. m \in NewestOf(batch, s)
        BY <4>5 DEF NewestOf
      <4> QED BY <2>3, <4>6
    <3> QED BY <3>1, <3>2
  <2> QED BY <2>2, <2>3
<1> QED
  BY <1>1, <1>2

-----------------------------------------------------------------------------
(* Types.  A process that is down has a start left.                        *)
TypeInv == TypeOK /\ (loop = "down" => boot < MaxBoots)

LEMMA InitTypeInv == Init => TypeInv
  BY CollectorAssumption DEF Init, TypeInv, TypeOK

LEMMA TypeStep == TypeInv /\ [Next]_vars => TypeInv'
<1> SUFFICES ASSUME TypeInv, [Next]_vars PROVE TypeInv'
  OBVIOUS
<1>0. TypeOK
  BY DEF TypeInv
<1>1. CASE UNCHANGED vars
  BY <1>0, <1>1 DEF vars, edgeVars, TypeInv, TypeOK, SignalOf
<1>2. ASSUME NEW s \in {"real", "synthetic"}, Collect(s) PROVE TypeInv'
  <2>1. /\ rows' \in Seq(Row) /\ last' \in Nat
        /\ DOMAIN rows \subseteq DOMAIN rows'
    BY <1>0, <1>2, CollectFrame
  <2>2. /\ outbox' = outbox \cup (DOMAIN rows' \ DOMAIN rows)
        /\ source' = s /\ loop' = "trim" /\ loop = "collect"
        /\ UNCHANGED <<key, boot, sent, late, accepted, view>>
    BY <1>2 DEF Collect
  <2> QED BY <1>0, <2>1, <2>2 DEF TypeInv, TypeOK, SignalOf
<1>3. ASSUME NEW s \in {"real", "synthetic"}, CollectNothing(s) PROVE TypeInv'
  BY <1>0, <1>3 DEF CollectNothing, TypeInv, TypeOK, SignalOf
<1>4. CASE Trim
  BY <1>0, <1>4 DEF Trim, TypeInv, TypeOK, SignalOf
<1>5. CASE Flush
  <2> DEFINE batch == {i \in Pending : Readable(i)}
  <2>1. /\ outbox' \subseteq outbox /\ loop = "flush"
        /\ UNCHANGED <<rows, key, boot, last, source, late, accepted, view>>
        /\ \/ batch # {} /\ loop' = "waiting" /\ sent' = batch
           \/ loop' = "collect" /\ sent' = {}
    BY <1>5 DEF Flush
  <2>2. batch \subseteq DOMAIN rows
    BY <1>0 DEF TypeOK, Pending, OldestRows
  <2> HIDE DEF batch
  <2> QED BY <1>0, <2>1, <2>2 DEF TypeInv, TypeOK, SignalOf
<1>6. CASE EndCycle
  BY <1>0, <1>6 DEF EndCycle, AckConfirmed, TypeInv, TypeOK, SignalOf
<1>7. ASSUME NEW batch \in SUBSET DOMAIN rows, Accept(batch), UNCHANGED rows
      PROVE  /\ accepted' \subseteq DOMAIN rows'
             /\ \A s \in 1 .. Signals : view'[s] # 0 => view'[s] \in accepted' /\ SignalOf(view'[s]) = s
  BY <1>0, <1>7, AcceptFrame DEF TypeOK, SignalOf
<1>8. CASE Serve
  <2>1. /\ loop = "waiting" /\ loop' \in {"answered", "refused"}
        /\ UNCHANGED <<rows, outbox, key, boot, sent, last, source, late>>
        /\ Accept(sent) \/ UNCHANGED <<accepted, view>>
    BY <1>8 DEF Serve
  <2>2. sent \in SUBSET DOMAIN rows
    BY <1>0 DEF TypeOK
  <2>3. /\ accepted' \subseteq DOMAIN rows'
        /\ \A s \in 1 .. Signals : view'[s] # 0 => view'[s] \in accepted' /\ SignalOf(view'[s]) = s
    BY <1>0, <1>7, <2>1, <2>2 DEF TypeOK, SignalOf
  <2> QED BY <1>0, <2>1, <2>3 DEF TypeInv, TypeOK, SignalOf
<1>9. ASSUME NEW batch \in late, ServeLate(batch) PROVE TypeInv'
  <2>1. /\ UNCHANGED edgeVars /\ late' = late \ {batch}
        /\ Accept(batch) \/ UNCHANGED <<accepted, view>>
    BY <1>9 DEF ServeLate
  <2>2. batch \in SUBSET DOMAIN rows /\ UNCHANGED rows
    BY <1>0, <2>1 DEF TypeOK, edgeVars
  <2>3. /\ accepted' \subseteq DOMAIN rows'
        /\ \A s \in 1 .. Signals : view'[s] # 0 => view'[s] \in accepted' /\ SignalOf(view'[s]) = s
    BY <1>0, <1>7, <2>1, <2>2 DEF TypeOK, SignalOf
  <2> QED BY <1>0, <2>1, <2>3 DEF TypeInv, TypeOK, SignalOf, edgeVars
<1>10. ASSUME Abandon, UNCHANGED rows PROVE late' \subseteq SUBSET DOMAIN rows'
  BY <1>0, <1>10 DEF Abandon, TypeOK
<1>11. CASE PushFails
  BY <1>0, <1>10, <1>11 DEF PushFails, TypeInv, TypeOK, SignalOf
<1>12. CASE Crash
  BY <1>0, <1>10, <1>12 DEF Crash, TypeInv, TypeOK, SignalOf
<1>13. CASE Restart
  BY <1>0, <1>13, CollectorAssumption DEF Restart, TypeInv, TypeOK, SignalOf
<1>14. CASE ApiRestart
  BY <1>0, <1>14 DEF ApiRestart, TypeInv, TypeOK, SignalOf
<1> QED
  BY <1>1, <1>2, <1>3, <1>4, <1>5, <1>6, <1>8, <1>9, <1>11, <1>12, <1>13, <1>14
     DEF Next, Cycle, Fault

LEMMA TypeInvHolds == Spec => []TypeInv
  BY InitTypeInv, TypeStep, PTL DEF Spec

(* Every variable keeps its type: in particular what is pushed, accepted   *)
(* and shown are rows that were written, and the view shows each signal a  *)
(* reading of its own.                                                     *)
THEOREM TypeCorrect == Spec => []TypeOK
<1>1. TypeInv => TypeOK
  BY DEF TypeInv
<1> QED
  BY <1>1, TypeInvHolds, PTL

LEMMA RowFields ==
    ASSUME TypeOK
    PROVE  /\ boot \in Nat
           /\ \A i \in DOMAIN rows : rows[i].boot \in Nat /\ rows[i].stamp \in Nat
<1>1. ASSUME NEW i \in DOMAIN rows PROVE rows[i].boot \in Nat /\ rows[i].stamp \in Nat
  <2>1. rows[i] \in Row
    BY DEF TypeOK
  <2> QED BY <2>1 DEF Row
<1> QED
  BY <1>1, CollectorAssumption DEF TypeOK

-----------------------------------------------------------------------------
(* What the loop and the requests left behind know about the buffer.       *)

(* Rows leave the table in their order, and starts follow one another.     *)
LeftInOrder == \A i \in DOMAIN rows \ outbox : \A j \in outbox : i < j
StartsInOrder ==
    \A i \in DOMAIN rows :
        /\ rows[i].boot <= boot
        /\ \A j \in DOMAIN rows : i < j => rows[i].boot <= rows[j].boot

(* A push is the oldest rows of the table until its answer is dealt with;  *)
(* a request left behind has been overtaken only by rows that arrived.     *)
SentFirst == sent \subseteq Pending /\ \A i \in sent : \A j \in outbox : j < i => j \in sent
Ahead(batch) == \A i \in batch : \A j \in outbox : j < i => j \in batch \cup accepted

(* Whatever the server has, or will get to, is gone from the table or among*)
(* the rows to be pushed next.                                             *)
Known == accepted \cup UNION late
KnownIsNext == \A v \in Known : v \in outbox => v \in Pending /\ (loop = "waiting" => v \in sent)

DeliveryInv ==
    /\ NoGaps
    /\ \A batch \in late : Ahead(batch)
    /\ LeftInOrder /\ StartsInOrder
    /\ SentFirst
    /\ KnownIsNext
    /\ loop = "answered" => sent \subseteq accepted

(* A row stays among the oldest when other rows leave or newer ones come.  *)
LEMMA PendingStays ==
    ASSUME TypeOK, NEW v \in Pending, v \in outbox',
           \A j \in outbox' : j \in outbox \/ v < j
    PROVE  v \in Pending'
<1> DEFINE A == Older(v, outbox)
           B == Older(v, outbox')
<1>1. v \in outbox /\ Cardinality(A) < Limit /\ Limit \in Nat
  BY BufferAssumption DEF Pending, OldestRows
<1>2. outbox \subseteq Nat /\ A \subseteq outbox
  BY OutboxFinite DEF Older
<1>3. B \subseteq A
  <2>1. ASSUME NEW j \in outbox', j < v PROVE j \in outbox
    <3>1. CASE v < j
      BY <1>1, <1>2, <2>1, <3>1
    <3> QED BY <3>1
  <2> QED BY <2>1 DEF Older
<1>4. IsFiniteSet(A) /\ Cardinality(A) \in Nat
  BY <1>2, OutboxFinite
<1>5. IsFiniteSet(B) /\ Cardinality(B) <= Cardinality(A)
  BY <1>3, <1>4, FS_Subset
<1>6. Cardinality(B) \in Nat
  BY <1>5, FS_CardinalityType
<1>7. Cardinality(B) < Limit
  BY <1>1, <1>4, <1>5, <1>6
<1> QED
  BY <1>7 DEF Pending, OldestRows

LEMMA PendingDownward ==
    ASSUME TypeOK, NEW i \in Pending, NEW j \in outbox, j < i
    PROVE  j \in Pending
  BY OldestDownward, BufferAssumption DEF Pending

(* Collecting adds rows behind those that were there.                      *)
LEMMA CollectDelivery ==
    ASSUME TypeOK, DeliveryInv, NEW s, Collect(s)
    PROVE  DeliveryInv'
<1>1. /\ loop = "collect" /\ loop' = "trim"
      /\ outbox' = outbox \cup (DOMAIN rows' \ DOMAIN rows)
      /\ UNCHANGED <<boot, sent, late, accepted>>
  BY DEF Collect
<1>2. /\ rows' \in Seq(Row)
      /\ Len(rows') = Len(rows) + Signals
      /\ \A i \in DOMAIN rows : i \in DOMAIN rows' /\ rows'[i] = rows[i]
      /\ \A i \in DOMAIN rows' : i \notin DOMAIN rows => rows'[i].boot = boot
  BY CollectFrame
<1>3. /\ DOMAIN rows = 1 .. Len(rows) /\ DOMAIN rows' = 1 .. Len(rows') /\ Len(rows) \in Nat
      /\ Signals \in Nat /\ boot \in Nat
      /\ outbox \subseteq DOMAIN rows /\ accepted \subseteq DOMAIN rows
      /\ late \subseteq SUBSET DOMAIN rows
  BY <1>2, CollectorAssumption DEF TypeOK
<1>4. \A i \in DOMAIN rows, j \in DOMAIN rows' : j \notin DOMAIN rows => i < j
  BY <1>2, <1>3
<1>5. sent = {} /\ sent' = {}
  BY <1>1 DEF TypeOK
<1>6. \A i \in DOMAIN rows, j \in outbox' : j < i => j \in outbox
  <2>1. ASSUME NEW i \in DOMAIN rows, NEW j \in outbox', j < i, j \notin outbox PROVE FALSE
    <3>1. j \in DOMAIN rows' /\ j \notin DOMAIN rows
      BY <1>1, <2>1
    <3>2. i < j
      BY <1>4, <3>1
    <3> QED BY <1>2, <1>3, <2>1, <3>1, <3>2
  <2> QED BY <2>1
<1>7. NoGaps'
  BY <1>1, <1>3, <1>6 DEF DeliveryInv, NoGaps
<1>8. ASSUME NEW batch \in late' PROVE Ahead(batch)'
  <2>1. batch \in late /\ batch \subseteq DOMAIN rows
    BY <1>1, <1>3
  <2> QED BY <1>1, <1>6, <2>1 DEF DeliveryInv, Ahead
<1>9. LeftInOrder'
  <2>1. ASSUME NEW i \in DOMAIN rows', i \notin outbox', NEW j \in outbox' PROVE i < j
    <3>1. i \in DOMAIN rows /\ i \notin outbox
      BY <1>1, <2>1
    <3>2. CASE j \in outbox
      BY <3>1, <3>2 DEF DeliveryInv, LeftInOrder
    <3>3. CASE j \notin outbox
      BY <1>1, <1>4, <3>1, <3>3
    <3> QED BY <3>2, <3>3
  <2> QED BY <2>1 DEF LeftInOrder
<1>10. StartsInOrder'
  <2>1. ASSUME NEW i \in DOMAIN rows' PROVE rows'[i].boot <= boot
    BY <1>2, <1>3, <2>1 DEF DeliveryInv, StartsInOrder
  <2>2. ASSUME NEW i \in DOMAIN rows', NEW j \in DOMAIN rows', i < j
        PROVE  rows'[i].boot <= rows'[j].boot
    <3>1. CASE j \in DOMAIN rows
      <4>1. i \in DOMAIN rows
        BY <1>2, <1>3, <2>2, <3>1
      <4> QED BY <1>2, <2>2, <3>1, <4>1 DEF DeliveryInv, StartsInOrder
    <3>2. CASE j \notin DOMAIN rows
      BY <1>2, <2>1, <3>2
    <3> QED BY <3>1, <3>2
  <2> QED BY <1>1, <2>1, <2>2 DEF StartsInOrder
<1>11. SentFirst'
  BY <1>5 DEF SentFirst
<1>12. KnownIsNext'
  <2>1. ASSUME NEW v \in Known, v \in outbox' PROVE v \in Pending'
    <3>1. v \in DOMAIN rows /\ v \in outbox
      BY <1>1, <1>3, <2>1 DEF Known
    <3>2. v \in Pending
      BY <2>1, <3>1 DEF DeliveryInv, KnownIsNext
    <3>3. \A j \in outbox' : j \in outbox \/ v < j
      BY <1>1, <1>4, <3>1
    <3> QED BY <2>1, <3>2, <3>3, PendingStays
  <2>2. Known' = Known
    BY <1>1 DEF Known
  <2> QED BY <1>1, <2>1, <2>2 DEF KnownIsNext
<1> QED
  BY <1>1, <1>7, <1>8, <1>9, <1>10, <1>11, <1>12 DEF DeliveryInv

(* Rows that leave the table from its oldest end.                          *)
LEMMA LeaveDelivery ==
    ASSUME TypeOK, DeliveryInv, outbox' \subseteq outbox,
           UNCHANGED <<rows, boot, late, accepted>>,
           \A i \in outbox \ outbox' : \A j \in outbox' : i < j,
           SentFirst',
           loop' = "answered" => sent' \subseteq accepted,
           loop' = "waiting" => \A v \in Known : v \in outbox' => v \in sent'
    PROVE  DeliveryInv'
<1>1. NoGaps' /\ \A batch \in late' : Ahead(batch)'
  BY DEF DeliveryInv, NoGaps, Ahead
<1>2. LeftInOrder' /\ StartsInOrder'
  BY DEF DeliveryInv, LeftInOrder, StartsInOrder
<1>3. KnownIsNext'
  <2>1. ASSUME NEW v \in Known, v \in outbox' PROVE v \in Pending'
    <3>1. v \in Pending
      BY <2>1 DEF DeliveryInv, KnownIsNext
    <3> QED BY <2>1, <3>1, PendingStays
  <2>2. Known' = Known
    BY DEF Known
  <2> QED BY <2>1, <2>2 DEF KnownIsNext
<1> QED
  BY <1>1, <1>2, <1>3 DEF DeliveryInv

LEMMA TrimDelivery ==
    ASSUME TypeOK, DeliveryInv, Trim
    PROVE  DeliveryInv'
<1>1. /\ loop = "trim" /\ loop' = "flush" /\ outbox' = outbox \ Overflow
      /\ UNCHANGED <<rows, boot, sent, late, accepted>>
  BY DEF Trim
<1>2. sent' = {}
  BY <1>1 DEF TypeOK
<1>3. ASSUME NEW i \in outbox \ outbox', NEW j \in outbox' PROVE i < j
  <2>1. i \in Overflow /\ j \notin Overflow
    BY <1>1, <1>3
  <2>2. /\ MaxRows > 0 /\ Cardinality(outbox) > MaxRows
        /\ Overflow = OldestRows(Cardinality(outbox) - MaxRows)
    BY <2>1 DEF Overflow
  <2>3. Cardinality(outbox) - MaxRows \in Nat
    BY <2>2, OutboxFinite, BufferAssumption
  <2>4. ~ (j < i)
    BY <1>1, <2>1, <2>2, <2>3, OldestDownward
  <2>5. i \in Nat /\ j \in Nat /\ i # j
    BY <1>1, <1>3, OutboxFinite
  <2> QED BY <2>4, <2>5
<1> QED
  BY <1>1, <1>2, <1>3, LeaveDelivery DEF SentFirst

LEMMA FlushDelivery ==
    ASSUME TypeOK, DeliveryInv, Flush
    PROVE  DeliveryInv'
<1> DEFINE batch == {i \in Pending : Readable(i)}
<1>1. /\ outbox' = outbox \ {i \in Pending : ~Readable(i)}
      /\ UNCHANGED <<rows, boot, late, accepted>>
      /\ \/ loop' = "waiting" /\ sent' = batch
         \/ loop' = "collect" /\ sent' = {}
  BY DEF Flush
<1>2. Pending \subseteq outbox /\ outbox \subseteq DOMAIN rows /\ DOMAIN rows \subseteq Nat
  BY DEF TypeOK, Pending, OldestRows
<1>3. ASSUME NEW i \in outbox \ outbox', NEW j \in outbox' PROVE i < j
  <2>1. i \in Pending /\ ~Readable(i) /\ j \in outbox /\ i # j
    BY <1>1, <1>3
  <2>2. ASSUME j < i PROVE FALSE
    <3>1. j \in Pending
      BY <2>1, <2>2, PendingDownward
    <3>2. Readable(j)
      BY <1>1, <1>3, <3>1
    <3>3. rows[j].boot = boot /\ rows[i].boot # boot
      BY <2>1, <3>2 DEF Readable
    <3>4. rows[j].boot <= rows[i].boot /\ rows[i].boot <= boot
      BY <1>2, <2>1, <2>2 DEF DeliveryInv, StartsInOrder
    <3>5. rows[i].boot \in Nat /\ boot \in Nat
      BY <1>2, <2>1, RowFields
    <3> QED BY <3>3, <3>4, <3>5
  <2> QED BY <1>2, <2>1, <2>2
<1>4. batch \subseteq outbox'
  BY <1>1, <1>2
<1>5. ASSUME NEW i \in batch PROVE i \in Pending'
  BY <1>1, <1>4, <1>5, PendingStays
<1>6. ASSUME NEW i \in batch, NEW j \in outbox', j < i PROVE j \in batch
  <2>1. j \in Pending
    BY <1>1, <1>6, PendingDownward
  <2> QED BY <1>1, <1>6, <2>1
<1>7. SentFirst'
  BY <1>1, <1>5, <1>6 DEF SentFirst
<1>8. ASSUME NEW v \in Known, v \in outbox' PROVE v \in batch
  <2>1. v \in Pending
    BY <1>1, <1>8 DEF DeliveryInv, KnownIsNext
  <2> QED BY <1>1, <1>8, <2>1
<1> HIDE DEF batch
<1> QED
  BY <1>1, <1>3, <1>7, <1>8, LeaveDelivery

(* A push that is answered: its rows leave only when the server has them.  *)
LEMMA EndDelivery ==
    ASSUME TypeOK, DeliveryInv, EndCycle
    PROVE  DeliveryInv'
<1>1. /\ loop' = "collect" /\ sent' = {}
      /\ outbox' = outbox \/ outbox' = outbox \ sent
      /\ UNCHANGED <<rows, boot, late, accepted>>
  BY DEF EndCycle, AckConfirmed
<1>2. ASSUME NEW i \in outbox \ outbox', NEW j \in outbox' PROVE i < j
  <2>1. i \in sent /\ j \in outbox /\ j \notin sent
    BY <1>1, <1>2
  <2>2. ~ (j < i)
    BY <2>1 DEF DeliveryInv, SentFirst
  <2>3. i \in Nat /\ j \in Nat /\ i # j
    BY <1>2, <2>1, OutboxFinite
  <2> QED BY <2>2, <2>3
<1> QED
  BY <1>1, <1>2, LeaveDelivery DEF SentFirst

(* What the server accepts is ahead of everything it leaves in the table.  *)
LEMMA ServeDelivery ==
    ASSUME TypeOK, DeliveryInv, Serve
    PROVE  DeliveryInv'
<1>1. /\ loop = "waiting" /\ loop' \in {"answered", "refused"}
      /\ UNCHANGED <<rows, outbox, boot, sent, late>>
      /\ \/ accepted' = accepted \cup sent
         \/ loop' = "refused" /\ accepted' = accepted
  BY DEF Serve, Accept
<1>2. accepted \subseteq accepted' /\ accepted' \subseteq accepted \cup sent
  BY <1>1
<1>3. NoGaps' /\ \A batch \in late' : Ahead(batch)'
  BY <1>1, <1>2 DEF DeliveryInv, NoGaps, Ahead, SentFirst
<1>4. LeftInOrder' /\ StartsInOrder' /\ Pending' = Pending /\ SentFirst'
  BY <1>1 DEF DeliveryInv, LeftInOrder, StartsInOrder, SentFirst, Pending, OldestRows
<1>5. KnownIsNext'
  BY <1>1, <1>2, <1>4 DEF DeliveryInv, KnownIsNext, Known, SentFirst
<1> QED
  BY <1>1, <1>3, <1>4, <1>5 DEF DeliveryInv

LEMMA ServeLateDelivery ==
    ASSUME TypeOK, DeliveryInv, NEW batch \in late, ServeLate(batch)
    PROVE  DeliveryInv'
<1>1. /\ UNCHANGED <<rows, outbox, boot, sent, loop>>
      /\ late' = late \ {batch}
      /\ accepted \subseteq accepted' /\ accepted' \subseteq accepted \cup batch
      /\ accepted' = accepted \/ accepted' = accepted \cup batch
  BY DEF ServeLate, Accept, edgeVars
<1>2. NoGaps'
  BY <1>1 DEF DeliveryInv, NoGaps, Ahead
<1>3. \A other \in late' : Ahead(other)'
  BY <1>1 DEF DeliveryInv, Ahead
<1>4. LeftInOrder' /\ StartsInOrder' /\ Pending' = Pending /\ SentFirst'
  BY <1>1 DEF DeliveryInv, LeftInOrder, StartsInOrder, SentFirst, Pending, OldestRows
<1>5. Known' \subseteq Known
  BY <1>1 DEF Known
<1>6. KnownIsNext'
  BY <1>1, <1>4, <1>5 DEF DeliveryInv, KnownIsNext
<1> QED
  BY <1>1, <1>2, <1>3, <1>4, <1>6 DEF DeliveryInv

(* A request that its client leaves behind carries the oldest rows.        *)
LEMMA AbandonDelivery ==
    ASSUME TypeOK, DeliveryInv, Abandon, UNCHANGED <<rows, outbox, boot, accepted>>,
           sent' = sent \/ sent' = {}, loop' \notin {"waiting", "answered"}
    PROVE  DeliveryInv'
<1>1. late' = late \/ late' = late \cup {sent}
  BY DEF Abandon
<1>2. Ahead(sent) /\ sent \subseteq Pending
  BY DEF DeliveryInv, SentFirst, Ahead
<1>3. NoGaps' /\ \A batch \in late' : Ahead(batch)'
  BY <1>1, <1>2 DEF DeliveryInv, NoGaps, Ahead
<1>4. LeftInOrder' /\ StartsInOrder' /\ Pending' = Pending /\ SentFirst'
  BY DEF DeliveryInv, LeftInOrder, StartsInOrder, SentFirst, Pending, OldestRows
<1>5. Known' \subseteq Known \cup sent
  BY <1>1 DEF Known
<1>6. KnownIsNext'
  BY <1>2, <1>4, <1>5 DEF DeliveryInv, KnownIsNext
<1> QED
  BY <1>3, <1>4, <1>6 DEF DeliveryInv

LEMMA DeliveryStep == TypeOK /\ DeliveryInv /\ [Next]_vars => DeliveryInv'
<1> SUFFICES ASSUME TypeOK, DeliveryInv, [Next]_vars PROVE DeliveryInv'
  OBVIOUS
<1>1. ASSUME UNCHANGED <<rows, outbox, boot, sent, accepted>>,
             late' \subseteq late, loop' \in {"waiting", "answered"} => loop' = loop
      PROVE  DeliveryInv'
  <2>1. NoGaps' /\ \A batch \in late' : Ahead(batch)'
    BY <1>1 DEF DeliveryInv, NoGaps, Ahead
  <2>2. LeftInOrder' /\ StartsInOrder' /\ Pending' = Pending /\ SentFirst' /\ Known' \subseteq Known
    BY <1>1 DEF DeliveryInv, LeftInOrder, StartsInOrder, SentFirst, Pending, OldestRows, Known
  <2>3. KnownIsNext'
    BY <1>1, <2>2 DEF DeliveryInv, KnownIsNext
  <2> QED BY <1>1, <2>1, <2>2, <2>3 DEF DeliveryInv
<1>2. CASE UNCHANGED vars
  BY <1>1, <1>2 DEF vars, edgeVars
<1>3. ASSUME NEW s \in {"real", "synthetic"}, CollectNothing(s) PROVE DeliveryInv'
  BY <1>1, <1>3 DEF CollectNothing
<1>4. CASE PushFails
  BY <1>4, AbandonDelivery DEF PushFails
<1>5. CASE Crash
  BY <1>5, AbandonDelivery DEF Crash
<1>6. CASE Restart
  <2>1. /\ boot' = boot + 1 /\ loop' = "collect" /\ boot \in Nat
        /\ UNCHANGED <<rows, outbox, sent, late, accepted>>
    BY <1>6 DEF Restart, TypeOK
  <2>2. NoGaps' /\ \A batch \in late' : Ahead(batch)'
    BY <2>1 DEF DeliveryInv, NoGaps, Ahead
  <2>3. \A i \in DOMAIN rows : rows[i].boot \in Nat
    BY RowFields
  <2>4. StartsInOrder'
    BY <2>1, <2>3 DEF DeliveryInv, StartsInOrder
  <2>5. LeftInOrder' /\ Pending' = Pending /\ SentFirst' /\ Known' = Known
    BY <2>1 DEF DeliveryInv, LeftInOrder, SentFirst, Pending, OldestRows, Known
  <2>6. KnownIsNext'
    BY <2>1, <2>5 DEF DeliveryInv, KnownIsNext
  <2> QED BY <2>1, <2>2, <2>4, <2>5, <2>6 DEF DeliveryInv
<1>7. CASE ApiRestart
  BY <1>1, <1>7 DEF ApiRestart
<1> QED
  BY <1>2, <1>3, <1>4, <1>5, <1>6, <1>7, CollectDelivery, TrimDelivery, FlushDelivery,
     EndDelivery, ServeDelivery, ServeLateDelivery DEF Next, Cycle, Fault

LEMMA DeliveryHolds == Spec => []DeliveryInv
<1>1. Init => DeliveryInv
  BY DEF Init, DeliveryInv, NoGaps, LeftInOrder, StartsInOrder, SentFirst, KnownIsNext, Known
<1> QED
  BY <1>1, DeliveryStep, TypeCorrect, PTL DEF Spec

(* Rows reach the API oldest first and without gaps, whatever timed out,   *)
(* was served late or pushed again, across restarts of both sides.         *)
THEOREM NoRowPassedOver == Spec => []NoGaps
<1>1. DeliveryInv => NoGaps
  BY DEF DeliveryInv
<1> QED
  BY <1>1, DeliveryHolds, PTL

-----------------------------------------------------------------------------
(* Stamps.  The rows of this start were stamped no later than the clock's  *)
(* last stamp; none is of a start to come.                                 *)
StampInv ==
    /\ StampsFollowCollection
    /\ \A i \in DOMAIN rows :
         /\ rows[i].boot <= boot
         /\ rows[i].boot = boot => rows[i].stamp <= last

LEMMA StampStep == TypeOK /\ StampInv /\ [Next]_vars => StampInv'
<1> SUFFICES ASSUME TypeOK, StampInv, [Next]_vars PROVE StampInv'
  OBVIOUS
<1>1. CASE UNCHANGED <<rows, boot, last>>
  BY <1>1 DEF StampInv, StampsFollowCollection
<1>2. CASE Restart
  <2>1. boot' = boot + 1 /\ rows' = rows
    BY <1>2 DEF Restart
  <2>2. \A i \in DOMAIN rows : rows[i].boot <= boot' /\ rows[i].boot # boot'
    BY <2>1, RowFields DEF StampInv
  <2> QED BY <2>1, <2>2 DEF StampInv, StampsFollowCollection
<1>3. ASSUME NEW s \in {"real", "synthetic"}, Collect(s) PROVE StampInv'
  <2>1. /\ boot' = boot /\ last \in Nat
        /\ \A i \in DOMAIN rows : i \in DOMAIN rows' /\ rows'[i] = rows[i]
        /\ \A i \in DOMAIN rows' : i \notin DOMAIN rows => rows'[i].boot = boot
        /\ last' \in Nat /\ last <= last'
        /\ \A i \in DOMAIN rows' : i \notin DOMAIN rows =>
              /\ last < rows'[i].stamp /\ rows'[i].stamp <= last'
              /\ \A j \in DOMAIN rows' : j \notin DOMAIN rows /\ i < j => rows'[i].stamp < rows'[j].stamp
    BY <1>3, CollectFrame DEF Collect, TypeOK
  <2>2. rows' \in Seq(Row) /\ rows \in Seq(Row) /\ Len(rows') = Len(rows) + Signals /\ Signals \in Nat
    BY <1>3, CollectFrame, CollectorAssumption DEF TypeOK
  <2>3. ASSUME NEW i \in DOMAIN rows'
        PROVE  rows'[i].boot <= boot /\ (rows'[i].boot = boot => rows'[i].stamp <= last')
    <3>1. CASE i \in DOMAIN rows
      <4>1. rows[i].stamp \in Nat
        BY <3>1, RowFields
      <4> QED BY <2>1, <3>1, <4>1 DEF StampInv
    <3>2. CASE i \notin DOMAIN rows
      BY <2>1, <2>3, <3>2, RowFields
    <3> QED BY <3>1, <3>2
  <2>4. ASSUME NEW i \in DOMAIN rows', NEW j \in DOMAIN rows', i < j, rows'[i].boot = rows'[j].boot
        PROVE  rows'[i].stamp < rows'[j].stamp
    <3>1. CASE j \in DOMAIN rows
      <4>1. i \in DOMAIN rows
        BY <2>2, <2>4, <3>1
      <4> QED BY <2>1, <2>4, <3>1, <4>1 DEF StampInv, StampsFollowCollection
    <3>2. CASE i \in DOMAIN rows /\ j \notin DOMAIN rows
      <4>1. rows[i].boot = boot /\ rows'[i] = rows[i]
        BY <2>1, <2>4, <3>2
      <4>2. rows[i].stamp <= last /\ last < rows'[j].stamp
        BY <2>1, <3>2, <4>1 DEF StampInv
      <4>3. rows[i].stamp \in Nat
        BY <3>2, RowFields
      <4>4. rows'[j] \in Row
        BY <2>2
      <4>5. rows'[j].stamp \in Nat
        BY <4>4 DEF Row
      <4> QED BY <2>1, <4>1, <4>2, <4>3, <4>5
    <3>3. CASE i \notin DOMAIN rows /\ j \notin DOMAIN rows
      BY <2>1, <2>4, <3>3
    <3> QED BY <3>1, <3>2, <3>3
  <2> QED BY <2>1, <2>3, <2>4 DEF StampInv, StampsFollowCollection
<1> QED
  BY <1>1, <1>2, <1>3 DEF Next, Cycle, Fault, CollectNothing, Trim, Flush, EndCycle, Serve,
     ServeLate, PushFails, Crash, ApiRestart, vars, edgeVars

(* Between two starts of the gateway stamps increase in the order of       *)
(* collection, whatever the wall clock does (MonotonicClock).              *)
THEOREM StampsIncreaseAlways == Spec => []StampsFollowCollection
<1>1. Init => StampInv
  BY DEF Init, StampInv, StampsFollowCollection
<1>2. StampInv => StampsFollowCollection
  BY DEF StampInv
<1> QED
  BY <1>1, <1>2, StampStep, TypeCorrect, PTL DEF Spec

-----------------------------------------------------------------------------
(* The size of the buffer.  A poll is over the cap until it is trimmed; a  *)
(* start may end before it trims what it collected.                        *)
Surplus == (IF loop \in {"trim", "down"} THEN boot ELSE boot - 1) * Signals
BoundInv == MaxRows > 0 => Cardinality(outbox) <= MaxRows + Surplus

LEMMA Products ==
    ASSUME NEW a \in Nat, NEW b \in Nat
    PROVE  /\ a * b \in Nat
           /\ (a + 1) * b = a * b + b
           /\ a # 0 => (a - 1) * b \in Nat /\ (a - 1) * b + b = a * b
  OBVIOUS

LEMMA BoundStep ==
    TypeInv /\ TypeInv' /\ BoundInv /\ [Next]_vars => BoundInv'
<1> SUFFICES ASSUME TypeInv, TypeInv', BoundInv, [Next]_vars, MaxRows > 0
             PROVE  Cardinality(outbox') <= MaxRows + Surplus'
  BY DEF BoundInv
<1>1. /\ TypeOK /\ TypeOK' /\ boot \in Nat /\ boot # 0 /\ Signals \in Nat /\ MaxRows \in Nat
      /\ Cardinality(outbox) <= MaxRows + Surplus
  BY CollectorAssumption, BufferAssumption DEF TypeInv, TypeOK, BoundInv
<1> DEFINE low == (boot - 1) * Signals
           high == boot * Signals
<1>2. /\ low \in Nat /\ high \in Nat /\ low + Signals = high
      /\ (boot + 1) * Signals = high + Signals
      /\ Surplus = IF loop \in {"trim", "down"} THEN high ELSE low
  BY <1>1, Products DEF Surplus
<1>3. Cardinality(outbox) \in Nat /\ Cardinality(outbox') \in Nat
  <2>1. Cardinality(outbox) \in Nat
    BY <1>1, OutboxFinite
  <2>2. outbox' \subseteq DOMAIN rows' /\ DOMAIN rows' = 1 .. Len(rows') /\ Len(rows') \in Nat
    BY <1>1 DEF TypeOK
  <2>3. IsFiniteSet(1 .. Len(rows'))
    BY <2>2, FS_Interval
  <2>4. IsFiniteSet(outbox')
    BY <2>2, <2>3, FS_Subset
  <2> QED BY <2>1, <2>4, FS_CardinalityType
<1> HIDE DEF low, high
<1>4. ASSUME outbox' \subseteq outbox, boot' = boot,
             loop \in {"trim", "down"} => loop' \in {"trim", "down"}
      PROVE  Cardinality(outbox') <= MaxRows + Surplus'
  <2>1. Cardinality(outbox') <= Cardinality(outbox)
    BY <1>1, <1>4, OutboxFinite
  <2>2. Surplus' = high \/ Surplus' = low
    BY <1>4 DEF Surplus, low, high
  <2>3. loop \in {"trim", "down"} => Surplus' = high
    BY <1>4 DEF Surplus, high
  <2> QED BY <1>1, <1>2, <1>3, <2>1, <2>2, <2>3
<1>5. CASE Trim
  <2>1. outbox' = outbox \ Overflow /\ boot' = boot /\ loop' = "flush"
    BY <1>5 DEF Trim
  <2>2. Surplus' = low
    BY <2>1 DEF Surplus, low
  <2>3. Cardinality(outbox') <= MaxRows
    <3>1. CASE Cardinality(outbox) > MaxRows
      <4> DEFINE n == Cardinality(outbox) - MaxRows
      <4>1. n \in Nat /\ n <= Cardinality(outbox) /\ Cardinality(outbox) - n = MaxRows
        BY <1>1, <1>3, <3>1
      <4>2. Overflow = OldestRows(n)
        BY <3>1 DEF Overflow
      <4> HIDE DEF n
      <4>3. Cardinality(outbox \ OldestRows(n)) <= Cardinality(outbox) - n
        BY <1>1, <4>1, OldestMany
      <4> QED BY <2>1, <4>1, <4>2, <4>3
    <3>2. CASE ~ (Cardinality(outbox) > MaxRows)
      <4>1. outbox' = outbox
        BY <2>1, <3>2 DEF Overflow
      <4> QED BY <1>1, <1>3, <3>2, <4>1
    <3> QED BY <3>1, <3>2
  <2> QED BY <1>1, <1>2, <1>3, <2>2, <2>3
<1>6. ASSUME NEW s \in {"real", "synthetic"}, Collect(s)
      PROVE  Cardinality(outbox') <= MaxRows + Surplus'
  <2> DEFINE poll == (Len(rows) + 1) .. (Len(rows) + Signals)
  <2>1. /\ outbox' = outbox \cup (DOMAIN rows' \ DOMAIN rows)
        /\ boot' = boot /\ loop = "collect" /\ loop' = "trim"
    BY <1>6 DEF Collect
  <2>2. DOMAIN rows' \ DOMAIN rows = poll /\ Len(rows) \in Nat /\ outbox \subseteq 1 .. Len(rows)
    <3>1. rows' \in Seq(Row) /\ rows \in Seq(Row) /\ Len(rows') = Len(rows) + Signals
      BY <1>1, <1>6, CollectFrame DEF TypeOK
    <3>2. DOMAIN rows' = 1 .. Len(rows) + Signals /\ DOMAIN rows = 1 .. Len(rows) /\ Len(rows) \in Nat
      BY <3>1
    <3> QED BY <1>1, <3>2 DEF TypeOK
  <2>3. IsFiniteSet(poll) /\ Cardinality(poll) = Signals
    <3>1. \A a, b \in Int : IsFiniteSet(a .. b) /\ Cardinality(a .. b) = IF a > b THEN 0 ELSE b - a + 1
      BY FS_Interval
    <3>2. Len(rows) + 1 \in Int /\ Len(rows) + Signals \in Int /\ ~ (Len(rows) + 1 > Len(rows) + Signals)
      BY <1>1, <2>2, CollectorAssumption
    <3>3. IsFiniteSet(poll) /\ Cardinality(poll) = (Len(rows) + Signals) - (Len(rows) + 1) + 1
      BY <3>1, <3>2
    <3> QED BY <1>1, <2>2, <3>3
  <2>4. IsFiniteSet(outbox)
    BY <1>1, OutboxFinite
  <2>5. outbox \cap poll = {}
    BY <1>1, <2>2
  <2> HIDE DEF poll
  <2>6. Cardinality(outbox \cup poll) = Cardinality(outbox) + Cardinality(poll) - Cardinality(outbox \cap poll)
    BY <2>3, <2>4, FS_Union
  <2>7. Cardinality(outbox') = Cardinality(outbox) + Signals
    <3>1. Cardinality(outbox \cap poll) = 0
      BY <2>5, FS_EmptySet
    <3>2. outbox' = outbox \cup poll
      BY <2>1, <2>2
    <3>3. Cardinality(outbox') = Cardinality(outbox) + Signals - 0
      BY <2>3, <2>6, <3>1, <3>2
    <3> QED BY <1>1, <1>3, <3>3
  <2>8. Surplus = low /\ Surplus' = high
    BY <1>2, <2>1 DEF Surplus, high
  <2> QED BY <1>1, <1>2, <1>3, <2>7, <2>8
<1>7. CASE Restart
  <2>1. outbox' = outbox /\ boot' = boot + 1 /\ loop = "down" /\ loop' = "collect"
    BY <1>7 DEF Restart
  <2>2. Surplus = high /\ Surplus' = high
    <3>1. Surplus = high
      BY <2>1 DEF Surplus, high
    <3>2. Surplus' = ((boot + 1) - 1) * Signals
      BY <2>1 DEF Surplus
    <3>3. (boot + 1) - 1 = boot
      BY <1>1
    <3> QED BY <3>1, <3>2, <3>3 DEF high
  <2> QED BY <1>1, <2>1, <2>2
<1>8. ASSUME Flush \/ EndCycle \/ Serve \/ PushFails \/ Crash \/ ApiRestart
             \/ UNCHANGED vars \/ \E batch \in late : ServeLate(batch)
      PROVE  /\ outbox' \subseteq outbox /\ boot' = boot
             /\ loop \in {"trim", "down"} => loop' \in {"trim", "down"}
  BY <1>8 DEF Flush, EndCycle, AckConfirmed, Serve, PushFails, Crash, ApiRestart, ServeLate,
     vars, edgeVars
<1>9. ASSUME NEW s \in {"real", "synthetic"}, CollectNothing(s)
      PROVE  /\ outbox' \subseteq outbox /\ boot' = boot
             /\ loop \in {"trim", "down"} => loop' \in {"trim", "down"}
  BY <1>9 DEF CollectNothing
<1> QED
  BY <1>4, <1>5, <1>6, <1>7, <1>8, <1>9 DEF Next, Cycle, Fault

(* The buffer never holds more than the cap and one poll for each start of *)
(* the gateway (_trim_locked, in a transaction after the append's).        *)
THEOREM BufferStaysBounded == Spec => []BufferBounded
<1>1. Init => BoundInv
  <2>1. Init => Cardinality(outbox) = 0 /\ Surplus = 0
    BY FS_EmptySet, CollectorAssumption DEF Init, Surplus
  <2> QED BY <2>1, BufferAssumption DEF BoundInv
<1>2. TypeInv /\ BoundInv => BufferBounded
  <2> SUFFICES ASSUME TypeInv, BoundInv, MaxRows > 0
               PROVE  Cardinality(outbox) <= MaxRows + boot * Signals
    BY DEF BufferBounded
  <2>1. /\ boot \in Nat /\ boot # 0 /\ Signals \in Nat /\ MaxRows \in Nat
        /\ Cardinality(outbox) <= MaxRows + Surplus
    BY CollectorAssumption, BufferAssumption DEF TypeInv, TypeOK, BoundInv
  <2>2. Cardinality(outbox) \in Nat
    BY OutboxFinite DEF TypeInv
  <2>3. /\ boot * Signals \in Nat /\ (boot - 1) * Signals \in Nat
        /\ (boot - 1) * Signals + Signals = boot * Signals
    BY <2>1, Products
  <2>4. Surplus = boot * Signals \/ Surplus = (boot - 1) * Signals
    BY DEF Surplus
  <2> QED BY <2>1, <2>2, <2>3, <2>4
<1> QED
  BY <1>1, <1>2, BoundStep, TypeInvHolds, PTL DEF Spec

-----------------------------------------------------------------------------
(* What a step may do to the buffer and to the view.                       *)

LEMMA LeavesStep ==
    ASSUME TypeOK, DeliveryInv, [Next]_vars, NEW i \in outbox \ outbox'
    PROVE  \/ i \in accepted
           \/ ~Readable(i)
           \/ MaxRows > 0 /\ Cardinality({j \in outbox : j > i}) >= MaxRows
<1>1. CASE Trim
  <2>1. i \in Overflow /\ i \in outbox
    BY <1>1 DEF Trim
  <2>2. /\ MaxRows > 0 /\ Cardinality(outbox) > MaxRows
        /\ Cardinality(Older(i, outbox)) < Cardinality(outbox) - MaxRows
    BY <2>1 DEF Overflow, OldestRows
  <2>3. Older(i, outbox) \subseteq outbox
    BY DEF Older
  <2>4. Cardinality(outbox) \in Nat /\ Cardinality(Older(i, outbox)) \in Nat /\ MaxRows \in Nat
    BY <2>3, OutboxFinite, BufferAssumption
  <2>5. Cardinality({j \in outbox : j > i}) = Cardinality(outbox) - Cardinality(Older(i, outbox)) - 1
    BY <2>1, SplitAt
  <2>6. Cardinality({j \in outbox : j > i}) >= MaxRows
    BY <2>2, <2>4, <2>5
  <2> QED BY <2>2, <2>6
<1>2. CASE Flush
  BY <1>2 DEF Flush
<1>3. CASE EndCycle
  BY <1>3 DEF EndCycle, AckConfirmed, DeliveryInv
<1>4. ASSUME NEW s \in {"real", "synthetic"}, Collect(s) \/ CollectNothing(s) PROVE FALSE
  BY <1>4 DEF Collect, CollectNothing
<1>5. ASSUME NEW batch \in late, ServeLate(batch) PROVE FALSE
  BY <1>5 DEF ServeLate, edgeVars
<1>6. CASE UNCHANGED outbox
  BY <1>6
<1> QED
  BY <1>1, <1>2, <1>3, <1>4, <1>5, <1>6 DEF Next, Cycle, Fault, Serve, PushFails, Crash, Restart,
     ApiRestart, vars, edgeVars

(* A row leaves the buffer for one of three reasons only: the API has it,  *)
(* it cannot be decrypted, or the cap is reached by newer ones.            *)
THEOREM RowsLeaveForCause == Spec => LeavesForCause
<1>1. TypeOK /\ DeliveryInv /\ [Next]_vars =>
        [\A i \in outbox \ outbox' :
           \/ i \in accepted
           \/ ~Readable(i)
           \/ MaxRows > 0 /\ Cardinality({j \in outbox : j > i}) >= MaxRows]_vars
  BY LeavesStep
<1> QED
  BY <1>1, TypeCorrect, DeliveryHolds, PTL DEF Spec, LeavesForCause

LEMMA SignalRange ==
    ASSUME TypeOK, NEW s \in 1 .. Signals
    PROVE  view[s] \in Nat
<1>1. view[s] = 0 \/ view[s] \in accepted
  BY DEF TypeOK
<1>2. ASSUME NEW i \in accepted PROVE i \in Nat
  <2>1. i \in 1 .. Len(rows) /\ Len(rows) \in Nat
    BY <1>2 DEF TypeOK
  <2> QED BY <2>1
<1>3. CASE view[s] = 0
  BY <1>3
<1> QED
  BY <1>1, <1>2, <1>3

(* A push that is answered in time shows, for each signal, a reading at    *)
(* least as new as the one it replaces: that one is in the push, or has    *)
(* left the table before everything in it.                                 *)
LEMMA ServeShowsNewer ==
    ASSUME TypeOK, DeliveryInv, Serve, NEW s \in 1 .. Signals
    PROVE  ~ (view'[s] < view[s])
<1>1. CASE UNCHANGED view
  <2>1. view[s] \in Nat
    BY SignalRange
  <2> QED BY <1>1, <2>1
<1>2. CASE Accept(sent) /\ loop = "waiting"
  <2>1. sent \in SUBSET DOMAIN rows
    BY DEF TypeOK
  <2>2. \/ view'[s] = view[s]
        \/ /\ view'[s] \in sent
           /\ \A j \in sent : SignalOf(j) = s => j <= view'[s]
    BY <1>2, <2>1, AcceptFrame
  <2>3. view[s] \in Nat
    BY SignalRange
  <2>4. CASE view'[s] \in sent /\ (\A j \in sent : SignalOf(j) = s => j <= view'[s]) /\ view[s] # 0
    <3>1. view[s] \in accepted /\ SignalOf(view[s]) = s /\ view[s] \in DOMAIN rows
      BY <2>4 DEF TypeOK
    <3>2. view'[s] \in outbox /\ view'[s] \in Nat
      <4>1. view'[s] \in outbox
        BY <2>4 DEF DeliveryInv, SentFirst, Pending, OldestRows
      <4> QED BY <4>1, OutboxFinite
    <3>3. CASE view[s] \in outbox
      <4>1. view[s] \in sent
        BY <1>2, <3>1, <3>3 DEF DeliveryInv, KnownIsNext, Known
      <4> QED BY <2>3, <2>4, <3>1, <3>2, <4>1
    <3>4. CASE view[s] \notin outbox
      <4>1. view[s] < view'[s]
        BY <3>1, <3>2, <3>4 DEF DeliveryInv, LeftInOrder
      <4> QED BY <2>3, <3>2, <4>1
    <3> QED BY <3>3, <3>4
  <2>5. CASE view'[s] \in sent /\ view[s] = 0
    <3>1. view'[s] \in Nat
      BY <2>1, <2>5 DEF TypeOK
    <3> QED BY <2>5, <3>1
  <2> QED BY <2>2, <2>3, <2>4, <2>5
<1> QED
  BY <1>1, <1>2 DEF Serve

(* The view never goes back to an older reading, but by a request whose    *)
(* client has left or a restart of the API (ingest_gateway_telemetry).     *)
THEOREM ViewOnlyNewer == Spec => ViewNewest
<1>1. TypeOK /\ DeliveryInv /\ [Next]_vars =>
        [\A s \in 1 .. Signals :
           view'[s] < view[s] => ApiRestart \/ \E batch \in late : ServeLate(batch)]_vars
  <2> SUFFICES ASSUME TypeOK, DeliveryInv, Next, NEW s \in 1 .. Signals, view'[s] < view[s]
               PROVE  ApiRestart \/ \E batch \in late : ServeLate(batch)
    OBVIOUS
  <2>1. view[s] \in Nat
    BY SignalRange
  <2>2. ~ UNCHANGED view
    BY <2>1
  <2>3. ~ Serve
    BY ServeShowsNewer
  <2> QED
    BY <2>2, <2>3 DEF Next, Cycle, Fault, Collect, CollectNothing, Trim, Flush, EndCycle, PushFails,
       Crash, Restart
<1> QED
  BY <1>1, TypeCorrect, DeliveryHolds, PTL DEF Spec, ViewNewest
=============================================================================
