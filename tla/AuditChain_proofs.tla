-------------------------- MODULE AuditChain_proofs --------------------------
(***************************************************************************)
(* Type correctness of AuditChain, the validity of every memory chain for  *)
(* any number of processes, and the validity of the table's chain when a   *)
(* single process writes it.                                               *)
(***************************************************************************)
EXTENDS AuditChain, SequenceTheorems, TLAPS

-----------------------------------------------------------------------------
(* How the chain of the table reacts to the changes the actions make.      *)

(* A committed row that points to the head extends a valid chain.          *)
LEMMA ExtendChain ==
    ASSUME NEW t \in Seq(Row), NEW r \in Row, Verifies(t),
           r.status = "committed", IsDbHead(t, r.prev)
    PROVE  Verifies(Append(t, r))
<1> DEFINE u == Append(t, r)
<1>1. /\ DOMAIN t = 1 .. Len(t) /\ DOMAIN u = 1 .. Len(t) + 1
      /\ Len(t) \in Nat
      /\ \A i \in 1 .. Len(t) : u[i] = t[i]
      /\ u[Len(t) + 1] = r
  OBVIOUS
<1>2. Committed(u) = Committed(t) \cup {Len(t) + 1}
  BY <1>1 DEF Committed
<1>3. ASSUME NEW i \in Committed(t) PROVE LinkHolds(u, i)
  <2>1. i \in 1 .. Len(t) /\ u[i] = t[i]
    BY <1>1 DEF Committed
  <2>2. {j \in Committed(u) : j < i} = {j \in Committed(t) : j < i}
    BY <1>1, <1>2, <2>1
  <2>3. \A j \in Committed(t) : u[j] = t[j]
    BY <1>1 DEF Committed
  <2> QED BY <2>1, <2>2, <2>3 DEF Verifies, LinkHolds
<1>4. LinkHolds(u, Len(t) + 1)
  <2>1. {j \in Committed(u) : j < Len(t) + 1} = Committed(t)
    BY <1>1, <1>2 DEF Committed
  <2>2. \A j \in Committed(t) : u[j] = t[j]
    BY <1>1 DEF Committed
  <2> QED BY <1>1, <2>1, <2>2 DEF LinkHolds, IsDbHead
<1> QED BY <1>2, <1>3, <1>4 DEF Verifies

(* Rows that change neither what is committed nor the ids and links of     *)
(* what is leave the chain and its head as they are.                       *)
LEMMA SameChain ==
    ASSUME NEW t, NEW u, Committed(u) = Committed(t),
           \A i \in Committed(t) : u[i].id = t[i].id /\ u[i].prev = t[i].prev
    PROVE  /\ Verifies(t) => Verifies(u)
           /\ \A h : IsDbHead(t, h) => IsDbHead(u, h)
BY DEF Verifies, LinkHolds, IsDbHead

(* The open row at the end becomes committed.                              *)
LEMMA CommitLast ==
    ASSUME NEW t \in Seq(Row), NEW u \in Seq(Row), Verifies(t), t # <<>>,
           DOMAIN u = DOMAIN t,
           t[Len(t)].status = "open", u[Len(t)].status = "committed",
           u[Len(t)].prev = t[Len(t)].prev,
           \A i \in DOMAIN t : i # Len(t) => u[i] = t[i],
           IsDbHead(t, t[Len(t)].prev)
    PROVE  Verifies(u)
<1> DEFINE n == Len(t)
<1>1. n \in Nat \ {0} /\ DOMAIN t = 1 .. n
  OBVIOUS
<1>2. n \notin Committed(t) /\ Committed(u) = Committed(t) \cup {n}
  BY <1>1 DEF Committed
<1>3. \A i \in Committed(t) : i \in 1 .. n - 1 /\ u[i] = t[i]
  BY <1>1, <1>2 DEF Committed
<1>4. ASSUME NEW i \in Committed(t) PROVE LinkHolds(u, i)
  <2>1. {j \in Committed(u) : j < i} = {j \in Committed(t) : j < i}
    BY <1>1, <1>2, <1>3
  <2> QED BY <1>3, <2>1 DEF Verifies, LinkHolds
<1>5. LinkHolds(u, n)
  <2>1. {j \in Committed(u) : j < n} = Committed(t)
    BY <1>1, <1>2, <1>3
  <2> QED BY <1>3, <2>1 DEF LinkHolds, IsDbHead
<1> QED BY <1>2, <1>4, <1>5 DEF Verifies

-----------------------------------------------------------------------------
(* Type correctness.                                                       *)

LEMMA SettleType ==
    ASSUME TypeOK, NEW id, NEW status \in {"committed", "void"}, Settle(id, status)
    PROVE  table' \in Seq(Row)
<1>1. \A i \in DOMAIN table : table[i] \in Row
  BY DEF TypeOK
<1>2. Len(table) \in Nat /\ DOMAIN table = 1 .. Len(table)
  BY DEF TypeOK
<1>3. \A r \in Row : [r EXCEPT !.status = status] \in Row
  BY DEF Row
<1>4. table' \in [1 .. Len(table) -> Row]
  BY <1>1, <1>2, <1>3 DEF Settle
<1> QED BY <1>2, <1>4, SeqDef

LEMMA PhaseType ==
    ASSUME NEW c \in Call,
           NEW p \in {"head", "insert", "commit", "emit", "truncate"}
    PROVE  [c EXCEPT !.phase = p] \in Call
BY DEF Call

LEMMA HeadType == ASSUME NEW m \in Seq(Entry) PROVE MemHead(m) \in Nat
<1>1. CASE m = <<>>
  BY <1>1 DEF MemHead, Genesis
<1>2. CASE m # <<>>
  <2>1. m[Len(m)] \in Entry
    BY <1>2
  <2> QED BY <1>2, <2>1 DEF MemHead, Entry
<1> QED BY <1>1, <1>2

LEMMA TypeStep == TypeOK /\ [Next]_vars => TypeOK'
<1> SUFFICES ASSUME TypeOK, [Next]_vars PROVE TypeOK'
  OBVIOUS
<1> USE DEF TypeOK
<1>0. CASE UNCHANGED vars
  BY <1>0 DEF vars
<1>a. \A a \in Api : call[a] # Idle => call[a] \in Call
  OBVIOUS
<1>b. ASSUME NEW a \in Api, call[a] # Idle, Finish(a)
      PROVE  /\ call' \in [Api -> Call \cup {Idle}]
             /\ unsent' \in [Api -> SUBSET Nat]
  <2>1. call[a] \in Call /\ call[a].id \in Nat
    BY <1>a, <1>b DEF Call
  <2>2. [call[a] EXCEPT !.phase = "emit"] \in Call
    BY <2>1, PhaseType
  <2>3. CASE call[a].kind = "fallback"
    <3>1. call' = [call EXCEPT ![a] = [call[a] EXCEPT !.phase = "emit"]] /\ unsent' = unsent
      BY <1>b, <2>3 DEF Finish, Step
    <3> DEFINE c == [call[a] EXCEPT !.phase = "emit"]
    <3>2. c \in Call
      BY <2>2
    <3>3. call' = [call EXCEPT ![a] = c]
      BY <3>1
    <3> HIDE DEF c
    <3> QED BY <3>1, <3>2, <3>3
  <2>4. CASE call[a].kind # "fallback"
    <3>1. call' = [call EXCEPT ![a] = Idle] /\ unsent' = [unsent EXCEPT ![a] = @ \cup {call[a].id}]
      BY <1>b, <2>4 DEF Finish, Release
    <3> QED BY <2>1, <3>1
  <2> QED BY <2>3, <2>4
<1>c. ASSUME NEW a \in Api, call[a] # Idle, NEW status \in {"open", "committed"}
      PROVE  Append(table, NewRow(a, status)) \in Seq(Row)
  <2>1. call[a].id \in Nat /\ call[a].prev \in Nat
    BY <1>a, <1>c DEF Call
  <2>2. NewRow(a, status) \in Row
    BY <2>1 DEF NewRow, Row
  <2> QED BY <2>2
<1>d. \A a \in Api : call[a] # Idle => MemEntry(a) \in Entry
  <2> SUFFICES ASSUME NEW a \in Api, call[a] # Idle PROVE MemEntry(a) \in Entry
    OBVIOUS
  <2>1. call[a].id \in Nat
    BY <1>a DEF Call
  <2>2. MemHead(mem[a]) \in Nat
    BY HeadType
  <2> QED BY <2>1, <2>2 DEF MemEntry, Entry
<1>1. ASSUME NEW a \in Api, NEW kind \in {"audit", "ingest"}, Enter(a, kind) PROVE TypeOK'
  BY <1>1 DEF Enter, Call, Genesis
<1>2. ASSUME NEW a \in Api, BeginReset(a) PROVE TypeOK'
  BY <1>2 DEF BeginReset, Call, Genesis, Entry
<1>3. ASSUME NEW a \in Api, ReadHead(a) PROVE TypeOK'
  <2>1. call[a] \in Call
    BY <1>3, <1>a DEF ReadHead, Holds
  <2> QED BY <1>3, <2>1 DEF ReadHead, Call
<1>4. ASSUME NEW a \in Api, InsertRow(a) PROVE TypeOK'
  BY <1>4, <1>b, <1>c DEF InsertRow, In
<1>5. ASSUME NEW a \in Api, InsertInTransaction(a) PROVE TypeOK'
  <2>1. call[a] # Idle /\ [call[a] EXCEPT !.phase = "commit"] \in Call
    BY <1>5, <1>a, PhaseType DEF InsertInTransaction, In
  <2> QED BY <1>5, <1>c, <2>1 DEF InsertInTransaction, Step
<1>6. ASSUME NEW a \in Api, CommitRow(a) PROVE TypeOK'
  BY <1>6, SettleType DEF CommitRow, Release
<1>7. ASSUME NEW a \in Api, AuditInMemory(a) PROVE TypeOK'
  BY <1>7, <1>b, <1>d DEF AuditInMemory, In
<1>8. ASSUME NEW a \in Api, InsertUnacknowledged(a) PROVE TypeOK'
  BY <1>8, <1>b, <1>c, <1>d DEF InsertUnacknowledged, In
<1>9. ASSUME NEW a \in Api, IngestFallsBack(a) PROVE TypeOK'
  <2>1. PICK status \in {"void", "committed"} :
            /\ Settle(call[a].id, status)
            /\ link' = [link EXCEPT ![a] = IF status = "committed" THEN "lost" ELSE @]
    BY <1>9 DEF IngestFallsBack
  <2>2. table' \in Seq(Row)
    BY <2>1, SettleType
  <2>3. call[a].id \in Nat
    BY <1>9, <1>a DEF IngestFallsBack, Call
  <2> QED BY <1>9, <2>1, <2>2, <2>3 DEF IngestFallsBack, Call, Genesis
<1>10. ASSUME NEW a \in Api, AnnounceLocked(a) PROVE TypeOK'
  BY <1>10, <1>a DEF AnnounceLocked, Holds, Release, Call
<1>11. ASSUME NEW a \in Api, Truncate(a) PROVE TypeOK'
  BY <1>11 DEF Truncate, Release
<1>12. ASSUME NEW a \in Api, TruncateFails(a) PROVE TypeOK'
  BY <1>12 DEF TruncateFails, Release
<1>13. ASSUME NEW a \in Api, NEW e \in unsent[a], Announce(a, e) PROVE TypeOK'
  BY <1>13 DEF Announce
<1>14. ASSUME NEW a \in Api, LinkBreaks(a) PROVE TypeOK'
  BY <1>14, SettleType DEF LinkBreaks
<1>15. ASSUME NEW a \in Api, Crash(a) PROVE TypeOK'
  BY <1>15, SettleType DEF Crash, Release
<1>16. ASSUME NEW a \in Api, StartMigration(a) PROVE TypeOK'
  BY <1>16 DEF StartMigration
<1>17. ASSUME NEW a \in Api, Backfill(a) PROVE TypeOK'
  <2>1. Len(table) \in Nat /\ DOMAIN table = 1 .. Len(table)
    OBVIOUS
  <2>2. \A i \in DOMAIN table : table[i] \in Row
    OBVIOUS
  <2>3. \A r \in Row : [r EXCEPT !.tenant = "set"] \in Row
    BY DEF Row
  <2>4. table' \in [1 .. Len(table) -> Row]
    BY <1>17, <2>1, <2>2, <2>3 DEF Backfill
  <2>5. table' \in Seq(Row)
    BY <2>1, <2>4, SeqDef
  <2> QED BY <1>17, <2>5 DEF Backfill
<1>18. ASSUME NEW a \in Api, BackfillRejected(a) PROVE TypeOK'
  BY <1>18 DEF BackfillRejected
<1>19. ASSUME NEW a \in Api, InstallGuard(a) PROVE TypeOK'
  BY <1>19 DEF InstallGuard
<1>20. ASSUME NEW a \in Api, StartInMemory(a) PROVE TypeOK'
  BY <1>20 DEF StartInMemory
<1> QED
  BY <1>0, <1>1, <1>2, <1>3, <1>4, <1>5, <1>6, <1>7, <1>8, <1>9, <1>10, <1>11, <1>12,
     <1>13, <1>14, <1>15, <1>16, <1>17, <1>18, <1>19, <1>20
     DEF Next, Proceed, Start

(* Every variable keeps its type.                                          *)
THEOREM TypeCorrect == Spec => []TypeOK
<1>1. Init => TypeOK
  BY DEF Init, TypeOK, Idle, Genesis
<1> QED BY <1>1, TypeStep, PTL DEF Spec

-----------------------------------------------------------------------------
(* The memory chains.                                                      *)

LEMMA MemoryStep == TypeOK /\ MemoryVerifies /\ [Next]_vars => MemoryVerifies'
<1> SUFFICES ASSUME TypeOK, MemoryVerifies, [Next]_vars PROVE MemoryVerifies'
  OBVIOUS
<1>1. ASSUME UNCHANGED mem PROVE MemoryVerifies'
  BY <1>1 DEF MemoryVerifies
<1>2. ASSUME NEW a \in Api, mem' = [mem EXCEPT ![a] = <<>>] PROVE MemoryVerifies'
  BY <1>2 DEF MemoryVerifies, TypeOK
<1>3. ASSUME NEW a \in Api, call[a] # Idle,
             mem' = [mem EXCEPT ![a] = Append(@, MemEntry(a))]
      PROVE  MemoryVerifies'
  <2>1. mem[a] \in Seq(Entry)
    BY DEF TypeOK
  <2>2. ASSUME NEW i \in DOMAIN Append(mem[a], MemEntry(a))
        PROVE  Append(mem[a], MemEntry(a))[i].prev =
                 IF i = 1 THEN Genesis ELSE Append(mem[a], MemEntry(a))[i - 1].id
    <3> DEFINE n == Len(mem[a])
    <3>1. n \in Nat /\ DOMAIN mem[a] = 1 .. n /\ i \in 1 .. n + 1
      BY <2>1, <2>2
    <3>2. CASE i \in 1 .. n
      <4>1. Append(mem[a], MemEntry(a))[i] = mem[a][i]
        BY <2>1, <3>1, <3>2
      <4>2. i # 1 => Append(mem[a], MemEntry(a))[i - 1] = mem[a][i - 1]
        BY <2>1, <3>1, <3>2
      <4> QED BY <3>1, <3>2, <4>1, <4>2 DEF MemoryVerifies
    <3>3. CASE i = n + 1
      <4>1. Append(mem[a], MemEntry(a))[i] = MemEntry(a)
        BY <2>1, <3>1, <3>3
      <4>2. CASE n = 0
        BY <2>1, <3>3, <4>1, <4>2 DEF MemEntry, MemHead
      <4>3. CASE n # 0
        <5>1. Append(mem[a], MemEntry(a))[i - 1] = mem[a][n]
          BY <2>1, <3>1, <3>3, <4>3
        <5>2. mem[a] # <<>>
          BY <2>1, <4>3
        <5> QED BY <3>1, <3>3, <4>1, <4>3, <5>1, <5>2 DEF MemEntry, MemHead
      <4> QED BY <4>2, <4>3
    <3> QED BY <3>1, <3>2, <3>3
  <2> QED BY <1>3, <2>2 DEF MemoryVerifies, TypeOK
<1>4. CASE UNCHANGED vars
  BY <1>1, <1>4 DEF vars
<1>5. ASSUME NEW a \in Api, AuditInMemory(a) \/ InsertUnacknowledged(a) PROVE MemoryVerifies'
  BY <1>3, <1>5 DEF AuditInMemory, InsertUnacknowledged, In
<1>6. ASSUME NEW a \in Api, BeginReset(a) \/ Crash(a) PROVE MemoryVerifies'
  BY <1>2, <1>6 DEF BeginReset, Crash
<1>7. ASSUME NEW a \in Api,
             \/ \E kind \in {"audit", "ingest"} : Enter(a, kind)
             \/ ReadHead(a) \/ InsertRow(a) \/ InsertInTransaction(a) \/ CommitRow(a)
             \/ IngestFallsBack(a) \/ AnnounceLocked(a) \/ Truncate(a) \/ TruncateFails(a)
             \/ (\E e \in unsent[a] : Announce(a, e)) \/ LinkBreaks(a) \/ Start(a)
             \/ StartInMemory(a)
      PROVE  UNCHANGED mem
  BY <1>7 DEF Enter, ReadHead, InsertRow, InsertInTransaction, CommitRow, IngestFallsBack,
     AnnounceLocked, Truncate, TruncateFails, Announce, LinkBreaks, Start, StartMigration,
     Backfill, BackfillRejected, InstallGuard, StartInMemory
<1> QED BY <1>1, <1>4, <1>5, <1>6, <1>7 DEF Next, Proceed

(* The memory chain of every process always verifies, for any number of    *)
(* processes and whatever fails.                                           *)
THEOREM MemoryValid == Spec => []MemoryVerifies
<1>1. Init => MemoryVerifies
  BY DEF Init, MemoryVerifies
<1> QED BY <1>1, MemoryStep, TypeCorrect, PTL DEF Spec

-----------------------------------------------------------------------------
(* The chain of the table, when a single process writes it.  Between the   *)
(* read of the head and the insert nobody else appends, and a transaction  *)
(* has at most one open row, the last.                                     *)

LastRow(t) == t[Len(t)]

HeadStillValid(p) == Holds(p, "insert") => IsDbHead(table, call[p].prev)

OpenIsLast(p) ==
    \A i \in DOMAIN table : table[i].status = "open" =>
        Holds(p, "commit") /\ link[p] = "ok" /\ i = Len(table)

OpenIsLinked(p) ==
    Holds(p, "commit") /\ link[p] = "ok" =>
        /\ table # <<>>
        /\ LastRow(table).status = "open"
        /\ LastRow(table).id = call[p].id
        /\ IsDbHead(table, LastRow(table).prev)

ChainInv(p) ==
    /\ TypeOK
    /\ TableVerifies
    /\ stage[p] # "up" => call[p] = Idle
    /\ HeadStillValid(p)
    /\ OpenIsLast(p)
    /\ OpenIsLinked(p)

(* Voiding an open row changes nothing committed.                          *)
LEMMA VoidKeeps ==
    ASSUME TypeOK, NEW id, Settle(id, "void")
    PROVE  /\ Committed(table') = Committed(table)
           /\ DOMAIN table' = DOMAIN table
           /\ \A i \in DOMAIN table :
                /\ table'[i].id = table[i].id /\ table'[i].prev = table[i].prev
                /\ table'[i].status = "open" =>
                     table[i].status = "open" /\ table[i].id # id
<1>1. \A i \in DOMAIN table : table[i] \in Row
  BY DEF TypeOK
<1>2. DOMAIN table' = DOMAIN table
  BY DEF Settle
<1>3. \A i \in DOMAIN table :
        IF table[i].id = id /\ table[i].status = "open"
          THEN table'[i] = [table[i] EXCEPT !.status = "void"]
          ELSE table'[i] = table[i]
  BY DEF Settle
<1>4. \A i \in DOMAIN table :
        /\ table'[i].id = table[i].id /\ table'[i].prev = table[i].prev
        /\ table'[i].status = IF table[i].id = id /\ table[i].status = "open"
                               THEN "void" ELSE table[i].status
  BY <1>1, <1>3 DEF Row
<1> QED BY <1>2, <1>4 DEF Committed

LEMMA ChainStep ==
    ASSUME NEW p, Api = {p}, ChainInv(p), TypeOK', Next
    PROVE  ChainInv(p)'
<1> USE DEF Idle
<1>a. p \in Api /\ table \in Seq(Row) /\ Len(table) \in Nat /\ DOMAIN table = 1 .. Len(table)
  BY DEF ChainInv, TypeOK
<1>b. call[p] # Idle => call[p] \in Call
  BY <1>a DEF ChainInv, TypeOK
(* An append of a committed row, with the call leaving the insert phase.   *)
<1>c. ASSUME Holds(p, "insert"), table' = Append(table, NewRow(p, "committed")), Finish(p)
      PROVE  /\ TableVerifies'
             /\ HeadStillValid(p)' /\ OpenIsLast(p)' /\ OpenIsLinked(p)'
  <2> DEFINE r == NewRow(p, "committed")
  <2>1. /\ r \in Row /\ r.status = "committed" /\ r.prev = call[p].prev
    BY <1>b, <1>c DEF NewRow, Row, Call, Holds
  <2>2. IsDbHead(table, r.prev)
    BY <1>c, <2>1 DEF ChainInv, HeadStillValid
  <2>3. Verifies(Append(table, r))
    BY <1>a, <2>1, <2>2, ExtendChain DEF ChainInv, TableVerifies
  <2>4. ~Holds(p, "insert")' /\ ~Holds(p, "commit")'
    <3>1. CASE call[p].kind = "fallback"
      BY <1>a, <1>b, <1>c, <3>1 DEF Finish, Step, Holds, Call, ChainInv, TypeOK
    <3>2. CASE call[p].kind # "fallback"
      BY <1>a, <1>b, <1>c, <3>2 DEF Finish, Release, Holds, ChainInv, TypeOK
    <3> QED BY <3>1, <3>2
  <2>5. \A i \in DOMAIN table' : table'[i].status # "open"
    <3>1. \A i \in DOMAIN table : table[i].status # "open"
      BY <1>c DEF ChainInv, OpenIsLast, Holds
    <3>2. DOMAIN table' = 1 .. Len(table) + 1 /\ table'[Len(table) + 1] = r
          /\ \A i \in 1 .. Len(table) : table'[i] = table[i]
      BY <1>a, <1>c, <2>1
    <3> QED BY <1>a, <2>1, <3>1, <3>2
  <2> QED BY <1>c, <2>3, <2>4, <2>5 DEF TableVerifies, HeadStillValid, OpenIsLast, OpenIsLinked
(* The table stays and the call is outside the insert and commit phases.   *)
<1>d. ASSUME UNCHANGED table, ~Holds(p, "commit"), ~Holds(p, "insert")', ~Holds(p, "commit")'
      PROVE  TableVerifies' /\ HeadStillValid(p)' /\ OpenIsLast(p)' /\ OpenIsLinked(p)'
  BY <1>d DEF ChainInv, TableVerifies, HeadStillValid, OpenIsLast, OpenIsLinked
(* Nothing the chain depends on changes.                                   *)
<1>e. ASSUME UNCHANGED <<table, call>>, link'[p] = link[p]
      PROVE  TableVerifies' /\ HeadStillValid(p)' /\ OpenIsLast(p)' /\ OpenIsLinked(p)'
  BY <1>e DEF ChainInv, TableVerifies, HeadStillValid, OpenIsLast, OpenIsLinked, Holds
<1>f. (stage'[p] # "up" => call'[p] = Idle) /\ TableVerifies' /\ HeadStillValid(p)'
      /\ OpenIsLast(p)' /\ OpenIsLinked(p)' => ChainInv(p)'
  BY DEF ChainInv
<1>1. ASSUME NEW kind \in {"audit", "ingest"}, Enter(p, kind) PROVE ChainInv(p)'
  <2>1. ~Holds(p, "commit") /\ ~Holds(p, "insert")' /\ ~Holds(p, "commit")'
    BY <1>1, <1>a DEF Enter, Holds, ChainInv, TypeOK
  <2> QED BY <1>1, <1>d, <1>f, <2>1 DEF Enter
<1>2. ASSUME BeginReset(p) PROVE ChainInv(p)'
  <2>1. ~Holds(p, "commit") /\ ~Holds(p, "insert")' /\ ~Holds(p, "commit")'
    BY <1>2, <1>a DEF BeginReset, Holds, ChainInv, TypeOK
  <2> QED BY <1>2, <1>d, <1>f, <2>1 DEF BeginReset
<1>3. ASSUME ReadHead(p) PROVE ChainInv(p)'
  <2>1. PICK h \in 0 .. created :
          /\ IsDbHead(table, h)
          /\ call' = [call EXCEPT ![p] = [phase |-> "insert", kind |-> @.kind,
                                          id |-> @.id, prev |-> h]]
    BY <1>3 DEF ReadHead, PrevHash
  <2>2. call'[p] = [phase |-> "insert", kind |-> call[p].kind, id |-> call[p].id, prev |-> h]
    BY <1>a, <2>1 DEF ChainInv, TypeOK
  <2>3. ~Holds(p, "commit") /\ ~Holds(p, "commit")' /\ call'[p].prev = h
    BY <1>3, <2>2 DEF ReadHead, Holds
  <2>4. UNCHANGED <<table, stage>> /\ stage[p] = "up"
    BY <1>3 DEF ReadHead, Holds, ChainInv
  <2> QED BY <2>1, <2>3, <2>4, <1>f DEF ChainInv, TableVerifies, HeadStillValid,
             OpenIsLast, OpenIsLinked
<1>4. ASSUME InsertRow(p) PROVE ChainInv(p)'
  <2>1. Holds(p, "insert") /\ stage' = stage /\ stage[p] = "up"
    BY <1>4 DEF InsertRow, In, Holds, ChainInv
  <2> QED BY <1>4, <1>c, <1>f, <2>1 DEF InsertRow
<1>5. ASSUME InsertInTransaction(p) PROVE ChainInv(p)'
  <2> DEFINE r == NewRow(p, "open")
  <2> DEFINE n == Len(table) + 1
  <2>1. Holds(p, "insert") /\ stage' = stage /\ stage[p] = "up"
    BY <1>5 DEF InsertInTransaction, In, Holds, ChainInv
  <2>2. r \in Row /\ r.status = "open" /\ r.prev = call[p].prev /\ r.id = call[p].id
    BY <1>b, <2>1 DEF NewRow, Row, Call, Holds
  <2>3. /\ table' = Append(table, r)
        /\ DOMAIN table' = 1 .. n /\ Len(table') = n /\ table' # <<>>
        /\ table'[n] = r /\ \A i \in 1 .. Len(table) : table'[i] = table[i]
    BY <1>5, <1>a, <2>2 DEF InsertInTransaction
  <2>4. call'[p].phase = "commit" /\ call'[p].id = call[p].id /\ call'[p] # Idle
    BY <1>5, <1>a, <1>b, <2>1 DEF InsertInTransaction, Step, Holds, Call, ChainInv, TypeOK
  <2>5. Committed(table') = Committed(table)
    BY <1>a, <2>2, <2>3 DEF Committed
  <2>6. \A i \in Committed(table) : table'[i] = table[i]
    BY <1>a, <2>3 DEF Committed
  <2>7. TableVerifies' /\ IsDbHead(table', r.prev)
    BY <2>1, <2>2, <2>5, <2>6, SameChain DEF ChainInv, TableVerifies, HeadStillValid
  <2>8. \A i \in DOMAIN table : table[i].status # "open"
    BY <2>1 DEF ChainInv, OpenIsLast, Holds
  <2>9. OpenIsLast(p)'
    BY <1>5, <1>a, <2>3, <2>4, <2>8 DEF OpenIsLast, Holds, InsertInTransaction
  <2>10. OpenIsLinked(p)'
    BY <2>2, <2>3, <2>4, <2>7 DEF OpenIsLinked, LastRow
  <2>11. HeadStillValid(p)'
    BY <2>4 DEF HeadStillValid, Holds
  <2> QED BY <1>f, <2>1, <2>7, <2>9, <2>10, <2>11
<1>6. ASSUME Settle(call[p].id, "committed"), Holds(p, "commit"), link[p] = "ok"
      PROVE  Verifies(table') /\ \A i \in DOMAIN table' : table'[i].status # "open"
  <2> DEFINE n == Len(table)
  <2>1. /\ n \in DOMAIN table /\ table # <<>> /\ table[n].status = "open"
        /\ table[n].id = call[p].id /\ IsDbHead(table, table[n].prev)
    BY <1>6, <1>a DEF ChainInv, OpenIsLinked, LastRow
  <2>2. \A i \in DOMAIN table : i # n => table[i].status # "open"
    BY DEF ChainInv, OpenIsLast
  <2>3. DOMAIN table' = DOMAIN table /\ \A i \in DOMAIN table : i # n => table'[i] = table[i]
    BY <1>6, <2>2 DEF Settle
  <2>4. table'[n] = [table[n] EXCEPT !.status = "committed"] /\ table[n] \in Row
    BY <1>6, <1>a, <2>1 DEF Settle
  <2>5. table'[n].status = "committed" /\ table'[n].prev = table[n].prev
    BY <2>4 DEF Row
  <2>6. table' \in Seq(Row)
    BY DEF TypeOK
  <2>7. Verifies(table')
    BY <1>a, <2>1, <2>3, <2>5, <2>6, CommitLast DEF ChainInv, TableVerifies
  <2> QED BY <2>2, <2>3, <2>5, <2>7
<1>7. ASSUME CommitRow(p) PROVE ChainInv(p)'
  <2>1. call'[p] = Idle /\ stage' = stage
    BY <1>7, <1>a DEF CommitRow, Release, ChainInv, TypeOK
  <2>2. Verifies(table') /\ \A i \in DOMAIN table' : table'[i].status # "open"
    BY <1>6, <1>7 DEF CommitRow
  <2> QED BY <1>f, <2>1, <2>2 DEF TableVerifies, HeadStillValid, OpenIsLast, OpenIsLinked, Holds
<1>8. ASSUME NEW id, Settle(id, "void"), Holds(p, "commit") => id = call[p].id
      PROVE  /\ Verifies(table')
             /\ \A i \in DOMAIN table' : table'[i].status # "open"
  <2>1. TypeOK
    BY DEF ChainInv
  <2>2. Verifies(table')
    BY <1>8, <2>1, VoidKeeps, SameChain DEF ChainInv, TableVerifies, Committed
  <2>3. \A i \in DOMAIN table : table[i].status = "open" =>
            Holds(p, "commit") /\ link[p] = "ok" /\ i = Len(table)
    BY DEF ChainInv, OpenIsLast
  <2>4. Holds(p, "commit") /\ link[p] = "ok" => table[Len(table)].id = id
    BY <1>8 DEF ChainInv, OpenIsLinked, LastRow
  <2> QED BY <1>8, <2>1, <2>2, <2>3, <2>4, VoidKeeps
<1>9. ASSUME Finish(p), UNCHANGED table, ~Holds(p, "commit"), call[p] # Idle, stage' = stage
      PROVE  ChainInv(p)'
  <2>1. ~Holds(p, "insert")' /\ ~Holds(p, "commit")'
    <3>1. CASE call[p].kind = "fallback"
      BY <1>a, <1>b, <1>9, <3>1 DEF Finish, Step, Holds, Call, ChainInv, TypeOK
    <3>2. CASE call[p].kind # "fallback"
      BY <1>a, <1>b, <1>9, <3>2 DEF Finish, Release, Holds, ChainInv, TypeOK
    <3> QED BY <3>1, <3>2
  <2>2. stage[p] = "up"
    BY <1>9 DEF ChainInv
  <2> QED BY <1>9, <1>d, <1>f, <2>1, <2>2
<1>10. ASSUME AuditInMemory(p) PROVE ChainInv(p)'
  BY <1>9, <1>10 DEF AuditInMemory, In, Holds
<1>11. ASSUME InsertUnacknowledged(p) PROVE ChainInv(p)'
  <2>1. Holds(p, "insert") /\ stage' = stage /\ stage[p] = "up"
    BY <1>11 DEF InsertUnacknowledged, In, Holds, ChainInv
  <2> QED BY <1>11, <1>c, <1>f, <2>1 DEF InsertUnacknowledged
<1>12. ASSUME IngestFallsBack(p) PROVE ChainInv(p)'
  <2>1. PICK status \in {"void", "committed"} :
            /\ status = "committed" => link[p] = "ok" /\ Holds(p, "commit")
            /\ Settle(call[p].id, status)
    BY <1>12 DEF IngestFallsBack
  <2>2. Verifies(table') /\ \A i \in DOMAIN table' : table'[i].status # "open"
    BY <1>6, <1>8, <2>1
  <2>3. call'[p] # Idle => call'[p].phase = "head"
    BY <1>12, <1>a DEF IngestFallsBack, ChainInv, TypeOK
  <2>4. stage' = stage /\ stage[p] = "up"
    BY <1>12 DEF IngestFallsBack, ChainInv
  <2> QED BY <1>f, <2>2, <2>3, <2>4 DEF TableVerifies, HeadStillValid, OpenIsLast,
             OpenIsLinked, Holds
<1>13. ASSUME call'[p] = Idle, UNCHANGED table, ~Holds(p, "commit") PROVE ChainInv(p)'
  BY <1>13, <1>d, <1>f DEF Holds
<1>14. ASSUME AnnounceLocked(p) \/ TruncateFails(p) PROVE ChainInv(p)'
  <2>1. call'[p] = Idle /\ UNCHANGED table /\ ~Holds(p, "commit")
    BY <1>14, <1>a DEF AnnounceLocked, TruncateFails, Release, Holds, ChainInv, TypeOK
  <2> QED BY <1>13, <2>1
<1>15. ASSUME Truncate(p) PROVE ChainInv(p)'
  <2>1. call'[p] = Idle /\ table' = <<>>
    BY <1>15, <1>a DEF Truncate, Release, ChainInv, TypeOK
  <2> QED BY <1>f, <2>1 DEF TableVerifies, Verifies, Committed, HeadStillValid, OpenIsLast,
             OpenIsLinked, Holds
<1>16. ASSUME NEW e \in unsent[p], Announce(p, e) PROVE ChainInv(p)'
  BY <1>16, <1>e, <1>f DEF Announce, ChainInv
<1>17. ASSUME LinkBreaks(p) PROVE ChainInv(p)'
  <2>1. UNCHANGED <<call, stage>> /\ link'[p] = "lost" /\ stage[p] = "up"
    BY <1>17, <1>a DEF LinkBreaks, ChainInv, TypeOK
  <2>2. CASE Holds(p, "commit")
    <3>1. Verifies(table') /\ \A i \in DOMAIN table' : table'[i].status # "open"
      BY <1>8, <1>17, <2>2 DEF LinkBreaks
    <3> QED BY <1>f, <2>1, <2>2, <3>1 DEF TableVerifies, HeadStillValid, OpenIsLast,
               OpenIsLinked, Holds
  <2>3. CASE ~Holds(p, "commit")
    <3>1. UNCHANGED table
      BY <1>17, <2>3 DEF LinkBreaks
    <3> QED BY <1>f, <2>1, <2>3, <3>1 DEF ChainInv, TableVerifies, HeadStillValid,
               OpenIsLast, OpenIsLinked, Holds
  <2> QED BY <2>2, <2>3
<1>18. ASSUME Crash(p) PROVE ChainInv(p)'
  <2>1. call'[p] = Idle
    BY <1>18, <1>a DEF Crash, Release, ChainInv, TypeOK
  <2>2. CASE Holds(p, "commit")
    <3>1. Verifies(table') /\ \A i \in DOMAIN table' : table'[i].status # "open"
      BY <1>8, <1>18, <2>2 DEF Crash
    <3> QED BY <1>f, <2>1, <3>1 DEF TableVerifies, HeadStillValid, OpenIsLast, OpenIsLinked, Holds
  <2>3. CASE ~Holds(p, "commit")
    BY <1>13, <1>18, <2>1, <2>3 DEF Crash
  <2> QED BY <2>2, <2>3
<1>19. ASSUME StartMigration(p) \/ BackfillRejected(p) \/ InstallGuard(p) \/ StartInMemory(p)
       PROVE  ChainInv(p)'
  <2>1. UNCHANGED table /\ call' = call /\ stage[p] # "up"
    BY <1>19 DEF StartMigration, BackfillRejected, InstallGuard, StartInMemory
  <2> QED BY <1>13, <2>1 DEF ChainInv, Holds
<1>20. ASSUME Backfill(p) PROVE ChainInv(p)'
  <2>1. call'[p] = Idle /\ call[p] = Idle
    BY <1>20 DEF Backfill, ChainInv
  <2>2. \A i \in DOMAIN table : table[i] \in Row
    BY <1>a
  <2>3. DOMAIN table' = DOMAIN table
        /\ \A i \in DOMAIN table : table'[i] = table[i]
                                   \/ table'[i] = [table[i] EXCEPT !.tenant = "set"]
    BY <1>20 DEF Backfill
  <2>4. \A i \in DOMAIN table : /\ table'[i].status = table[i].status
                               /\ table'[i].id = table[i].id
                               /\ table'[i].prev = table[i].prev
    BY <2>2, <2>3 DEF Row
  <2>5. Verifies(table')
    BY <2>3, <2>4, SameChain DEF Committed, ChainInv, TableVerifies
  <2>6. \A i \in DOMAIN table' : table'[i].status # "open"
    BY <2>1, <2>3, <2>4 DEF ChainInv, OpenIsLast, Holds
  <2> QED BY <1>f, <2>1, <2>5, <2>6 DEF TableVerifies, HeadStillValid, OpenIsLast,
             OpenIsLinked, Holds
<1> QED
  BY <1>1, <1>2, <1>3, <1>4, <1>5, <1>7, <1>10, <1>11, <1>12, <1>14, <1>15, <1>16, <1>17,
     <1>18, <1>19, <1>20 DEF Next, Proceed, Start

(* When one process writes the audit table, its chain always verifies:     *)
(* failed statements, rollbacks, restarts and resets do not break it.      *)
THEOREM TableValid ==
    ASSUME NEW p, Api = {p}
    PROVE  Spec => []TableVerifies
<1>1. Init => ChainInv(p)
  BY DEF Init, ChainInv, TypeOK, TableVerifies, Verifies, Committed, HeadStillValid,
     OpenIsLast, OpenIsLinked, Holds, Idle, Genesis
<1>2. TypeOK' /\ ChainInv(p) /\ [Next]_vars => ChainInv(p)'
  <2>1. ASSUME TypeOK', ChainInv(p), Next PROVE ChainInv(p)'
    BY <2>1, ChainStep
  <2>2. ASSUME ChainInv(p), UNCHANGED vars PROVE ChainInv(p)'
    BY <2>2 DEF vars, ChainInv, TypeOK, TableVerifies, HeadStillValid, OpenIsLast,
       OpenIsLinked, Holds
  <2> QED BY <2>1, <2>2
<1>3. ChainInv(p) => TableVerifies
  BY DEF ChainInv
<1> QED BY <1>1, <1>2, <1>3, TypeCorrect, PTL DEF Spec

-----------------------------------------------------------------------------
(* The hook.  Only the row of an ingest transaction is ever open, and the  *)
(* backfill gives a tenant to committed rows alone.                        *)
OpenUnscoped == \A i \in DOMAIN table : table[i].status = "open" => table[i].tenant = "null"
Announces ==
    \A i \in Committed(table') \ Committed(table) :
        table'[i].tenant = "set" =>
            \E a \in Api : \/ table'[i].id \in unsent'[a]
                           \/ Holds(a, "emit")' /\ table'[i].id = call'[a].id

\* A step that appends a row to the table.
LEMMA AppendAnnounces ==
    ASSUME TypeOK, OpenUnscoped, NEW a \in Api, NEW status \in {"open", "committed"},
           call[a] # Idle, table' = Append(table, NewRow(a, status)),
           \/ status = "open" /\ call[a].kind = "ingest"
           \/ status = "committed" /\ Finish(a)
    PROVE  OpenUnscoped' /\ Announces
<1>1. /\ DOMAIN table' = DOMAIN table \cup {Len(table) + 1} /\ Len(table) + 1 \notin DOMAIN table
      /\ table'[Len(table) + 1] = NewRow(a, status)
      /\ \A i \in DOMAIN table : table'[i] = table[i]
  BY DEF TypeOK
<1>2. NewRow(a, status).status = status /\ NewRow(a, status).id = call[a].id
      /\ (call[a].kind = "ingest" => NewRow(a, status).tenant = "null")
  BY DEF NewRow
<1>3. OpenUnscoped'
  BY <1>1, <1>2 DEF OpenUnscoped
<1>4. \A i \in Committed(table') \ Committed(table) : i = Len(table) + 1 /\ status = "committed"
  BY <1>1, <1>2 DEF Committed
<1>5. ASSUME Finish(a)
      PROVE  call[a].id \in unsent'[a] \/ (Holds(a, "emit")' /\ call[a].id = call'[a].id)
  <2>1. CASE call[a].kind = "fallback"
    <3>1. call' = [call EXCEPT ![a] = [@ EXCEPT !.phase = "emit"]]
      BY <1>5, <2>1 DEF Finish, Step
    <3>2. call[a] \in Call
      BY DEF TypeOK
    <3>3. call'[a].phase = "emit" /\ call'[a].id = call[a].id /\ call'[a] # Idle
      BY <3>1, <3>2 DEF TypeOK, Call, Idle
    <3> QED BY <3>3 DEF Holds
  <2>2. CASE call[a].kind # "fallback"
    BY <1>5, <2>2 DEF Finish, TypeOK
  <2> QED BY <2>1, <2>2
<1> QED BY <1>1, <1>2, <1>3, <1>4, <1>5 DEF Announces

\* A step that settles the open rows under an id, or leaves the table alone.
LEMMA SettleAnnounces ==
    ASSUME TypeOK, OpenUnscoped, NEW id, NEW status \in {"void", "committed"},
           Settle(id, status) \/ UNCHANGED table
    PROVE  OpenUnscoped' /\ Announces
<1>1. /\ DOMAIN table' = DOMAIN table
      /\ \A i \in DOMAIN table :
            \/ table'[i] = table[i]
            \/ table[i].status = "open" /\ table'[i] = [table[i] EXCEPT !.status = status]
  BY DEF Settle
<1>2. \A i \in DOMAIN table : table[i] \in Row
  BY DEF TypeOK
<1>3. \A i \in DOMAIN table : \/ table'[i] = table[i]
                              \/ /\ table[i].status = "open" /\ table'[i].tenant = "null"
                                 /\ table'[i].status # "open"
  BY <1>1, <1>2 DEF OpenUnscoped, Row
<1> QED BY <1>1, <1>3 DEF OpenUnscoped, Announces, Committed

LEMMA AnnounceStep == TypeOK /\ OpenUnscoped /\ [Next]_vars => OpenUnscoped' /\ [Announces]_vars
<1> SUFFICES ASSUME TypeOK, OpenUnscoped, [Next]_vars PROVE OpenUnscoped' /\ Announces
  OBVIOUS
<1>1. ASSUME UNCHANGED table PROVE OpenUnscoped' /\ Announces
  BY <1>1 DEF OpenUnscoped, Announces, Committed
<1>2. CASE UNCHANGED vars
  BY <1>1, <1>2 DEF vars
<1>3. ASSUME NEW a \in Api, InsertRow(a) \/ InsertUnacknowledged(a) PROVE OpenUnscoped' /\ Announces
  <2>1. call[a] # Idle /\ Finish(a) /\ table' = Append(table, NewRow(a, "committed"))
    BY <1>3 DEF InsertRow, InsertUnacknowledged, In
  <2> QED BY <2>1, AppendAnnounces
<1>4. ASSUME NEW a \in Api, InsertInTransaction(a) PROVE OpenUnscoped' /\ Announces
  <2>1. call[a] # Idle /\ call[a].kind = "ingest" /\ table' = Append(table, NewRow(a, "open"))
    BY <1>4 DEF InsertInTransaction, In
  <2> QED BY <2>1, AppendAnnounces
<1>5. ASSUME NEW a \in Api, CommitRow(a) \/ IngestFallsBack(a) \/ LinkBreaks(a) \/ Crash(a)
      PROVE  OpenUnscoped' /\ Announces
  <2>1. PICK status \in {"void", "committed"} : Settle(call[a].id, status) \/ UNCHANGED table
    BY <1>5 DEF CommitRow, IngestFallsBack, LinkBreaks, Crash
  <2> QED BY <2>1, SettleAnnounces
<1>6. ASSUME NEW a \in Api, Truncate(a) PROVE OpenUnscoped' /\ Announces
  BY <1>6 DEF Truncate, OpenUnscoped, Announces, Committed
<1>7. ASSUME NEW a \in Api, Backfill(a) PROVE OpenUnscoped' /\ Announces
  <2>1. /\ DOMAIN table' = DOMAIN table
        /\ \A i \in DOMAIN table :
              \/ table'[i] = table[i]
              \/ table[i].status = "committed" /\ table'[i] = [table[i] EXCEPT !.tenant = "set"]
    BY <1>7 DEF Backfill, Unscoped
  <2>2. \A i \in DOMAIN table : table[i] \in Row
    BY DEF TypeOK
  <2>3. \A i \in DOMAIN table : table'[i].status = table[i].status
                                /\ (table[i].status = "open" => table'[i] = table[i])
    BY <2>1, <2>2 DEF Row
  <2> QED BY <2>1, <2>3 DEF OpenUnscoped, Announces, Committed
<1>8. ASSUME NEW a \in Api,
             \/ \E kind \in {"audit", "ingest"} : Enter(a, kind)
             \/ BeginReset(a) \/ ReadHead(a) \/ AuditInMemory(a) \/ AnnounceLocked(a) \/ TruncateFails(a)
             \/ \E e \in unsent[a] : Announce(a, e)
             \/ StartMigration(a) \/ BackfillRejected(a) \/ InstallGuard(a) \/ StartInMemory(a)
      PROVE  UNCHANGED table
  BY <1>8 DEF Enter, BeginReset, ReadHead, AuditInMemory, AnnounceLocked, TruncateFails, Announce,
     StartMigration, BackfillRejected, InstallGuard, StartInMemory
<1> QED
  BY <1>1, <1>2, <1>3, <1>4, <1>5, <1>6, <1>7, <1>8 DEF Next, Proceed, Start

(* AuditAnnounced (audit_event_sink, events.py): in every process, a row   *)
(* that becomes visible is on its way to the hook, but for the rows of     *)
(* ingest transactions, which stay open until then and have no tenant.     *)
THEOREM EveryRowAnnounced == Spec => AuditAnnounced
<1>1. Init => OpenUnscoped
  BY DEF Init, OpenUnscoped
<1>2. TypeOK /\ OpenUnscoped /\ [Next]_vars => OpenUnscoped' /\ [Announces]_vars
  BY AnnounceStep
<1> QED BY <1>1, <1>2, TypeCorrect, PTL DEF Spec, AuditAnnounced, Announces
=============================================================================
