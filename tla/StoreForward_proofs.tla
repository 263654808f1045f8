------------------------- MODULE StoreForward_proofs -------------------------
(***************************************************************************)
(* Proofs about StoreForward, for every number of API processes, forwarder *)
(* threads and exchanges, and every bound MaxSeq.                          *)
(***************************************************************************)
EXTENDS StoreForward, SequenceTheorems, TLAPS

-----------------------------------------------------------------------------
(* The inductive invariant, in the three layers the theorems need.         *)

(* The spool alone: what restart recovers lies above every file on disk.   *)
SpoolInv ==
    /\ files \subseteq produced
    /\ produced \subseteq 0 .. MaxSeq - 1
    /\ gateway = "down" => reserved = NoSeq
    /\ gateway = "up" => \A s \in files : s < nextSeq
    /\ reserved # NoSeq =>
          reserved < MaxSeq /\ reserved < nextSeq /\ \A s \in files : s < reserved

(* With the counter file intact: the counter lies above every number used. *)
FreshInv ==
    /\ \A s \in produced : s < counter
    /\ gateway = "up" => counter <= nextSeq
    /\ reserved # NoSeq => reserved < counter /\ \A s \in produced : s < reserved

(* An exchange carries a batch whose predecessors are all recorded, and is *)
(* answered only when its own batch is.                                    *)
ExchangeInv(c) ==
    /\ link[wire[c].api]
    /\ wire[c].batch \in produced
    /\ \A s \in produced : s < wire[c].batch => s \in Recorded
    /\ wire[c].phase = "reply" => wire[c].batch \in Recorded

(* Without database faults: the database holds a prefix of what was        *)
(* produced.                                                               *)
DeliveryInv ==
    /\ AckedIsDurable
    /\ ReplayInOrderOnce
    /\ Recorded \subseteq produced
    /\ \A x \in Recorded, s \in produced : s < x => s \in Recorded
    /\ \A a \in Api : apiUp[a] => link[a]
    /\ \A c \in Conn : Busy(c) => ExchangeInv(c)

-----------------------------------------------------------------------------
(* Lemmas about the ledger and the exchanges.                              *)

(* Appending a batch adds exactly it to the set of recorded ones.          *)
LEMMA RangeAppend ==
    ASSUME NEW seq \in Seq(Nat), NEW x \in Nat
    PROVE  /\ Append(seq, x) \in Seq(Nat)
           /\ Range(Append(seq, x)) = Range(seq) \cup {x}
<1>1. /\ Append(seq, x) \in Seq(Nat)
      /\ Append(seq, x) = seq \o <<x>>
      /\ <<x>> \in Seq(Nat)
  BY AppendIsConcat
<1>2. Range(<<x>>) = {x}
  BY DEF Range
<1>3. Range(seq \o <<x>>) = Range(seq) \cup Range(<<x>>)
  BY <1>1, RangeConcatenation
<1> QED
  BY <1>1, <1>2, <1>3

(* A slot in use holds an exchange; answering it leaves a well-formed one. *)
LEMMA BusyIsExchange ==
    ASSUME TypeOK, NEW c \in Conn, Busy(c)
    PROVE  wire[c] \in Exchange
  BY DEF TypeOK, Busy

LEMMA AnswerType ==
    ASSUME TypeOK, NEW c \in Conn, Busy(c), Answer(c)
    PROVE  wire' \in [Conn -> Exchange \cup {Free}]
  BY BusyIsExchange DEF TypeOK, Answer, Exchange, Phase

-----------------------------------------------------------------------------
LEMMA InitTypeOK == Init => TypeOK
  BY SpoolAssumption, EmptySeq
     DEF Init, SpoolInit, IngestInit, TypeOK, SpoolTypeOK, IngestTypeOK

LEMMA SpoolStepType ==
    ASSUME SpoolTypeOK, Produce \/ CrashSpool \/ LoseCounter \/ RestartSpool
    PROVE  SpoolTypeOK'
<1> USE DEF SpoolTypeOK
<1>1. CASE ReserveSeq
  BY <1>1 DEF ReserveSeq
<1>2. CASE PersistSeqFails
  BY <1>2 DEF PersistSeqFails
<1>3. CASE AppendBatch
  BY <1>3 DEF AppendBatch
<1>4. CASE AppendFails
  BY <1>4 DEF AppendFails
<1>5. CASE CrashSpool
  BY <1>5 DEF CrashSpool
<1>6. CASE LoseCounter
  BY <1>6 DEF LoseCounter
<1>7. CASE RestartSpool
  BY <1>7 DEF RestartSpool, RecoveryCandidates
<1> QED
  BY <1>1, <1>2, <1>3, <1>4, <1>5, <1>6, <1>7 DEF Produce

LEMMA NextTypeOK == TypeOK /\ [Next]_vars => TypeOK'
<1> SUFFICES ASSUME TypeOK, [Next]_vars PROVE TypeOK'
  OBVIOUS
<1> USE DEF spoolVars, ingestVars
<1>1. CASE ProducerStep
  BY <1>1, SpoolStepType DEF ProducerStep, TypeOK, IngestTypeOK
<1>2. CASE GatewayRestart
  BY <1>2, SpoolStepType DEF GatewayRestart, TypeOK, IngestTypeOK
<1>3. ASSUME NEW f \in Forwarder, NEW c \in Conn, NEW a \in Api, SendOldest(f, c, a)
      PROVE  TypeOK'
  BY <1>3 DEF SendOldest, Oldest, TypeOK, SpoolTypeOK, IngestTypeOK, Exchange, Phase
<1>4. ASSUME NEW f \in Forwarder, NEW c \in Conn, ReceiveReply(f, c)
      PROVE  TypeOK'
  BY <1>4 DEF ReceiveReply, RemoveBatch, TypeOK, SpoolTypeOK, IngestTypeOK
<1>5. ASSUME NEW c \in Conn, BeginIngest(c)
      PROVE  TypeOK'
  <2>1. wire' \in [Conn -> Exchange \cup {Free}]
    BY <1>5, AnswerType, BusyIsExchange DEF BeginIngest, TypeOK, Exchange, Phase
  <2> QED
    BY <1>5, <2>1 DEF BeginIngest, TypeOK, SpoolTypeOK, IngestTypeOK
<1>6. ASSUME NEW c \in Conn, BeginInMemory(c) \/ RollbackIngest(c)
      PROVE  TypeOK'
  <2>1. wire' \in [Conn -> Exchange \cup {Free}]
    BY <1>6, AnswerType DEF BeginInMemory, RollbackIngest
  <2>2. mirror' \in [Api -> SUBSET Nat]
    BY <1>6, BusyIsExchange
       DEF BeginInMemory, RollbackIngest, RecordInMemory, TypeOK, IngestTypeOK, Exchange
  <2> QED
    BY <1>6, <2>1, <2>2
       DEF BeginInMemory, RollbackIngest, TypeOK, SpoolTypeOK, IngestTypeOK
<1>7. ASSUME NEW c \in Conn, CommitIngest(c)
      PROVE  TypeOK'
  <2>1. wire' \in [Conn -> Exchange \cup {Free}]
    BY <1>7, AnswerType DEF CommitIngest
  <2>2. ledger' \in Seq(Nat)
    BY <1>7, BusyIsExchange, RangeAppend
       DEF CommitIngest, CommitBatch, TypeOK, IngestTypeOK, Exchange
  <2> QED
    BY <1>7, <2>1, <2>2 DEF CommitIngest, TypeOK, SpoolTypeOK, IngestTypeOK
<1>8. ASSUME NEW c \in Conn, CommitUnacknowledged(c)
      PROVE  TypeOK'
  <2>1. wire' \in [Conn -> Exchange \cup {Free}]
    BY <1>8, AnswerType DEF CommitUnacknowledged
  <2>2. ledger' \in Seq(Nat)
    BY <1>8, BusyIsExchange, RangeAppend
       DEF CommitUnacknowledged, CommitBatch, TypeOK, IngestTypeOK, Exchange
  <2>3. mirror' \in [Api -> SUBSET Nat] /\ link' \in [Api -> BOOLEAN]
    BY <1>8, BusyIsExchange
       DEF CommitUnacknowledged, RecordInMemory, TypeOK, IngestTypeOK, Exchange
  <2> QED
    BY <1>8, <2>1, <2>2, <2>3 DEF CommitUnacknowledged, TypeOK, SpoolTypeOK, IngestTypeOK
<1>9. CASE GatewayCrash
  <2>1. wire' \in [Conn -> Exchange \cup {Free}]
    BY <1>9, BusyIsExchange DEF GatewayCrash, Exchange, Phase
  <2> QED
    BY <1>9, <2>1, SpoolStepType DEF GatewayCrash, TypeOK, IngestTypeOK
<1>10. CASE CounterLoss
  BY <1>10, SpoolStepType DEF CounterLoss, TypeOK, IngestTypeOK
<1>11. ASSUME NEW f \in Forwarder, NEW c \in Conn, GiveUp(f, c)
       PROVE  TypeOK'
  <2>1. wire' \in [Conn -> Exchange \cup {Free}]
    BY <1>11, BusyIsExchange DEF GiveUp, TypeOK, Exchange, Phase
  <2> QED
    BY <1>11, <2>1 DEF GiveUp, TypeOK, SpoolTypeOK, IngestTypeOK
<1>12. ASSUME NEW a \in Api, ApiCrash(a)
       PROVE  TypeOK'
  BY <1>12 DEF ApiCrash, CrashProcess, TypeOK, SpoolTypeOK, IngestTypeOK
<1>13. ASSUME NEW a \in Api, ApiStart(a) \/ LinkBreaks(a)
       PROVE  TypeOK'
  BY <1>13, IngestAssumption
     DEF ApiStart, StartProcess, LinkBreaks, BreakLink, TypeOK, SpoolTypeOK, IngestTypeOK
<1>14. CASE UNCHANGED vars
  BY <1>14 DEF vars, TypeOK, SpoolTypeOK, IngestTypeOK
<1> QED
  BY <1>1, <1>2, <1>3, <1>4, <1>5, <1>6, <1>7, <1>8, <1>9, <1>10, <1>11, <1>12,
     <1>13, <1>14 DEF Next, Fault, ServeRequest

(* Every variable keeps its type.                                          *)
THEOREM TypeCorrect == Spec => []TypeOK
  BY InitTypeOK, NextTypeOK, PTL DEF Spec

-----------------------------------------------------------------------------
(* The steps of the gateway that touch the spool, and those that do not.   *)
SpoolStep ==
    \/ ReserveSeq \/ PersistSeqFails \/ AppendBatch \/ AppendFails
    \/ CrashSpool \/ LoseCounter \/ RestartSpool
    \/ /\ \E s \in files : RemoveBatch(s)
       /\ UNCHANGED <<counter, nextSeq, reserved, gateway, produced>>
    \/ UNCHANGED spoolVars

LEMMA NextSpoolStep ==
    ASSUME TypeOK, SpoolInv, [Next]_vars
    PROVE  SpoolStep
<1> USE DEF SpoolStep
<1>1. CASE ProducerStep
  BY <1>1 DEF ProducerStep, Produce
<1>2. CASE GatewayRestart
  BY <1>2 DEF GatewayRestart
<1>3. ASSUME NEW f \in Forwarder, NEW c \in Conn, NEW a \in Api, SendOldest(f, c, a)
      PROVE  UNCHANGED spoolVars
  BY <1>3 DEF SendOldest
<1>4. ASSUME NEW f \in Forwarder, NEW c \in Conn, ReceiveReply(f, c)
      PROVE  SpoolStep
  BY <1>4 DEF ReceiveReply, RemoveBatch, spoolVars
<1>5. ASSUME NEW c \in Conn, ServeRequest(c) \/ CommitUnacknowledged(c)
      PROVE  UNCHANGED spoolVars
  BY <1>5 DEF ServeRequest, BeginIngest, BeginInMemory, CommitIngest, RollbackIngest,
              CommitUnacknowledged
<1>6. ASSUME NEW a \in Api, ApiStart(a) \/ ApiCrash(a) \/ LinkBreaks(a)
      PROVE  UNCHANGED spoolVars
  BY <1>6 DEF ApiStart, ApiCrash, LinkBreaks
<1>7. ASSUME NEW f \in Forwarder, NEW c \in Conn, GiveUp(f, c)
      PROVE  UNCHANGED spoolVars
  BY <1>7 DEF GiveUp
<1>8. CASE GatewayCrash \/ CounterLoss
  BY <1>8 DEF GatewayCrash, CounterLoss
<1>9. CASE UNCHANGED vars
  BY <1>9 DEF vars, spoolVars
<1> QED
  BY <1>1, <1>2, <1>3, <1>4, <1>5, <1>6, <1>7, <1>8, <1>9 DEF Next, Fault

LEMMA SpoolInvStep ==
    ASSUME TypeOK, SpoolInv, SpoolStep
    PROVE  SpoolInv'
<1> USE SpoolAssumption DEF TypeOK, SpoolTypeOK, SpoolInv
<1>1. CASE ReserveSeq
  BY <1>1 DEF ReserveSeq
<1>2. CASE PersistSeqFails
  BY <1>2 DEF PersistSeqFails
<1>3. CASE AppendBatch
  BY <1>3 DEF AppendBatch
<1>4. CASE AppendFails
  BY <1>4 DEF AppendFails
<1>5. CASE CrashSpool
  BY <1>5 DEF CrashSpool
<1>6. CASE LoseCounter
  BY <1>6 DEF LoseCounter
<1>7. CASE RestartSpool
  BY <1>7 DEF RestartSpool, RecoverNextSeq, RecoveryCandidates
<1>8. CASE /\ \E s \in files : RemoveBatch(s)
           /\ UNCHANGED <<counter, nextSeq, reserved, gateway, produced>>
  BY <1>8 DEF RemoveBatch
<1>9. CASE UNCHANGED spoolVars
  BY <1>9 DEF spoolVars
<1> QED
  BY <1>1, <1>2, <1>3, <1>4, <1>5, <1>6, <1>7, <1>8, <1>9 DEF SpoolStep

LEMMA FreshInvStep ==
    ASSUME ~CounterMayBeLost, TypeOK, SpoolInv, FreshInv, SpoolStep
    PROVE  FreshInv'
<1> USE SpoolAssumption DEF TypeOK, SpoolTypeOK, SpoolInv, FreshInv
<1>1. CASE ReserveSeq
  BY <1>1 DEF ReserveSeq
<1>2. CASE PersistSeqFails
  BY <1>2 DEF PersistSeqFails
<1>3. CASE AppendBatch
  BY <1>3 DEF AppendBatch
<1>4. CASE AppendFails
  BY <1>4 DEF AppendFails
<1>5. CASE CrashSpool
  BY <1>5 DEF CrashSpool
<1>6. CASE LoseCounter
  BY <1>6 DEF LoseCounter
<1>7. CASE RestartSpool
  BY <1>7 DEF RestartSpool, RecoverNextSeq, RecoveryCandidates
<1>8. CASE /\ \E s \in files : RemoveBatch(s)
           /\ UNCHANGED <<counter, nextSeq, reserved, gateway, produced>>
  BY <1>8 DEF RemoveBatch
<1>9. CASE UNCHANGED spoolVars
  BY <1>9 DEF spoolVars
<1> QED
  BY <1>1, <1>2, <1>3, <1>4, <1>5, <1>6, <1>7, <1>8, <1>9 DEF SpoolStep

-----------------------------------------------------------------------------
(* Whatever becomes of the counter file, a number handed to the producer   *)
(* is not that of a batch still in the spool.                              *)
THEOREM PendingSafe == Spec => []PendingNeverOverwritten
<1>1. Init => SpoolInv
  BY DEF Init, SpoolInit, SpoolInv
<1>2. TypeOK /\ SpoolInv /\ [Next]_vars => SpoolInv'
  BY NextSpoolStep, SpoolInvStep
<1>3. TypeOK /\ SpoolInv => PendingNeverOverwritten
  BY SpoolAssumption DEF TypeOK, SpoolTypeOK, SpoolInv, PendingNeverOverwritten
<1> QED
  BY <1>1, <1>2, <1>3, TypeCorrect, PTL DEF Spec

(* With the counter file intact no number names two batches.               *)
THEOREM IdsFresh ==
    ASSUME ~CounterMayBeLost
    PROVE  Spec => IdsNeverReused
<1> DEFINE Inv == TypeOK /\ SpoolInv /\ FreshInv
<1>1. Init => Inv
  BY InitTypeOK DEF Init, SpoolInit, SpoolInv, FreshInv
<1>2. Inv /\ [Next]_vars => Inv'
  BY NextTypeOK, NextSpoolStep, SpoolInvStep, FreshInvStep
<1>3. Inv /\ [Next]_vars => [\A s \in files' \ files : s \notin produced]_vars
  <2> SUFFICES ASSUME Inv, [Next]_vars, NEW s \in files' \ files
               PROVE  s \notin produced
    OBVIOUS
  <2>1. SpoolStep
    BY NextSpoolStep
  <2>2. AppendBatch /\ s = reserved
    BY <2>1 DEF SpoolStep, ReserveSeq, PersistSeqFails, AppendBatch, AppendFails,
                CrashSpool, LoseCounter, RestartSpool, RemoveBatch, spoolVars
  <2> QED
    BY <2>2, SpoolAssumption
       DEF AppendBatch, FreshInv, TypeOK, SpoolTypeOK
<1> QED
  BY <1>1, <1>2, <1>3, PTL DEF Spec, IdsNeverReused

-----------------------------------------------------------------------------
(* The whole invariant, under the assumptions of the delivery theorems.    *)
IInv == TypeOK /\ SpoolInv /\ FreshInv /\ DeliveryInv

(* What a step leaves alone keeps the order of the ledger; a larger batch  *)
(* at its end does too.                                                    *)
LEMMA AppendKeepsOrder ==
    ASSUME ledger \in Seq(Nat), ReplayInOrderOnce, NEW b \in Nat, CommitBatch(b),
           \A x \in Recorded : x < b
    PROVE  ReplayInOrderOnce'
<1> SUFFICES ASSUME NEW i \in DOMAIN ledger', NEW j \in DOMAIN ledger', i < j
             PROVE  ledger'[i] < ledger'[j]
  BY DEF ReplayInOrderOnce
<1>1. /\ Len(ledger') = Len(ledger) + 1
      /\ ledger'[Len(ledger) + 1] = b
      /\ \A k \in 1 .. Len(ledger) : ledger'[k] = ledger[k]
      /\ DOMAIN ledger' = 1 .. Len(ledger')
      /\ DOMAIN ledger = 1 .. Len(ledger)
  BY AppendProperties DEF CommitBatch
<1>2. i \in DOMAIN ledger
  BY <1>1, LenProperties
<1>3. CASE j \in DOMAIN ledger
  BY <1>1, <1>2, <1>3 DEF ReplayInOrderOnce
<1>4. CASE j = Len(ledger) + 1
  BY <1>1, <1>2, <1>4 DEF Recorded, Range
<1> QED
  BY <1>1, <1>3, <1>4, LenProperties

(* A busy slot after an answer was busy before, with the same batch and    *)
(* process; only the answered slot gained a reply.                         *)
LEMMA AnswerEffect ==
    ASSUME TypeOK, NEW c \in Conn, Busy(c), Answer(c), NEW d \in Conn, Busy(d)'
    PROVE  /\ Busy(d)
           /\ wire'[d].batch = wire[d].batch
           /\ wire'[d].api = wire[d].api
           /\ d # c => wire'[d] = wire[d]
<1>1. wire[c] \in Exchange
  BY BusyIsExchange
<1>2. CASE d = c
  BY <1>1, <1>2 DEF TypeOK, Answer, Busy, Exchange
<1>3. CASE d # c
  BY <1>3 DEF TypeOK, Answer, Busy
<1> QED
  BY <1>2, <1>3

-----------------------------------------------------------------------------
(* One lemma per group of actions: each preserves DeliveryInv.             *)
LEMMA DeliveryProducer ==
    ASSUME ~CounterMayBeLost, IInv, ProducerStep \/ GatewayRestart \/ CounterLoss
    PROVE  DeliveryInv'
<1> USE DEF IInv, ingestVars
<1>1. UNCHANGED <<ledger, link, apiUp, wire>>
  BY DEF ProducerStep, GatewayRestart, CounterLoss
<1>2. CASE AppendBatch
  <2>1. produced' = produced \cup {reserved} /\ files' = files \cup {reserved}
    BY <1>2 DEF AppendBatch
  <2>2. \A s \in produced : s < reserved
    BY <1>2 DEF AppendBatch, FreshInv
  <2>3. reserved \in Nat /\ produced \subseteq Nat
    BY <1>2 DEF AppendBatch, TypeOK, SpoolTypeOK
  <2>4. AckedIsDurable' /\ ReplayInOrderOnce' /\ (Recorded \subseteq produced)'
    BY <1>1, <2>1 DEF DeliveryInv, AckedIsDurable, ReplayInOrderOnce, Recorded, Range
  <2>5. (\A x \in Recorded, s \in produced : s < x => s \in Recorded)'
    <3>1. Recorded' = Recorded /\ Recorded \subseteq produced
      BY <1>1 DEF DeliveryInv, Recorded, Range
    <3>2. \A x \in Recorded, s \in produced : s < x => s \in Recorded
      BY DEF DeliveryInv
    <3>3. \A x \in Recorded : ~(reserved < x)
      BY <2>2, <2>3, <3>1
    <3> QED
      BY <2>1, <3>1, <3>2, <3>3
  <2>6. ASSUME NEW c \in Conn, Busy(c)'
        PROVE  ExchangeInv(c)'
    <3>1. Busy(c) /\ ExchangeInv(c) /\ wire[c] \in Exchange
      BY <1>1, <2>6, BusyIsExchange DEF DeliveryInv, Busy
    <3> QED
      BY <1>1, <2>1, <2>2, <2>3, <3>1 DEF ExchangeInv, Recorded, Range, Exchange
  <2>7. (\A a \in Api : apiUp[a] => link[a])'
    BY <1>1 DEF DeliveryInv
  <2> QED
    BY <2>4, <2>5, <2>6, <2>7 DEF DeliveryInv
<1>3. CASE UNCHANGED <<files, produced>>
  BY <1>1, <1>3
     DEF DeliveryInv, AckedIsDurable, ReplayInOrderOnce, ExchangeInv, Recorded, Range, Busy
<1>4. AppendBatch \/ UNCHANGED <<files, produced>>
  BY DEF ProducerStep, Produce, ReserveSeq, PersistSeqFails, AppendFails,
         GatewayRestart, RestartSpool, CounterLoss, LoseCounter
<1> QED
  BY <1>2, <1>3, <1>4

LEMMA DeliverySend ==
    ASSUME IInv, NEW f \in Forwarder, NEW c \in Conn, NEW a \in Api, SendOldest(f, c, a)
    PROVE  DeliveryInv'
<1>1. UNCHANGED <<spoolVars, ingestVars>>
  BY DEF SendOldest
<1>2. PICK s \in files :
        /\ Oldest(s)
        /\ wire' = [wire EXCEPT ![c] =
                        [phase |-> "request", batch |-> s, api |-> a, client |-> f]]
  BY DEF SendOldest
<1>3. \A r \in produced : r < s => r \in Recorded
  <2>1. produced \subseteq Nat /\ files \subseteq Nat
    BY DEF IInv, TypeOK, SpoolTypeOK
  <2>2. ASSUME NEW r \in produced, r < s
        PROVE  r \in Recorded
    <3>1. r \notin files
      BY <1>2, <2>1, <2>2 DEF Oldest
    <3> QED
      BY <3>1 DEF IInv, DeliveryInv, AckedIsDurable
  <2> QED
    BY <2>2
<1>4. ASSUME NEW d \in Conn, Busy(d)'
      PROVE  ExchangeInv(d)'
  <2>1. CASE d = c
    <3>1. /\ wire'[d].phase = "request"
          /\ wire'[d].batch = s
          /\ wire'[d].api = a
      BY <1>2, <2>1 DEF IInv, TypeOK
    <3>2. link[a] /\ s \in produced
      BY DEF SendOldest, IInv, DeliveryInv, SpoolInv
    <3> QED
      BY <1>1, <1>3, <3>1, <3>2 DEF ExchangeInv, spoolVars, ingestVars, Recorded, Range
  <2>2. CASE d # c
    <3>1. wire'[d] = wire[d]
      BY <1>2, <2>2 DEF IInv, TypeOK
    <3>2. ExchangeInv(d)
      BY <1>4, <3>1 DEF IInv, DeliveryInv, Busy
    <3> QED
      BY <1>1, <3>1, <3>2 DEF ExchangeInv, spoolVars, ingestVars, Recorded, Range
  <2> QED
    BY <2>1, <2>2
<1> QED
  BY <1>1, <1>4
     DEF IInv, DeliveryInv, AckedIsDurable, ReplayInOrderOnce, spoolVars, ingestVars,
         Recorded, Range

LEMMA DeliveryReply ==
    ASSUME IInv, NEW f \in Forwarder, NEW c \in Conn, ReceiveReply(f, c)
    PROVE  DeliveryInv'
<1>1. UNCHANGED <<counter, nextSeq, reserved, gateway, produced, ingestVars>>
  BY DEF ReceiveReply
<1>2. wire[c].batch \in Recorded
  BY DEF ReceiveReply, IInv, DeliveryInv, ExchangeInv
<1>3. AckedIsDurable'
  BY <1>1, <1>2 DEF ReceiveReply, RemoveBatch, IInv, DeliveryInv, AckedIsDurable,
                    ingestVars, Recorded, Range
<1>4. ASSUME NEW d \in Conn, Busy(d)'
      PROVE  ExchangeInv(d)'
  <2>1. d # c /\ wire'[d] = wire[d]
    BY <1>4 DEF ReceiveReply, IInv, TypeOK, Busy
  <2>2. ExchangeInv(d)
    BY <1>4, <2>1 DEF IInv, DeliveryInv, Busy
  <2> QED
    BY <1>1, <2>1, <2>2 DEF ExchangeInv, ingestVars, Recorded, Range
<1> QED
  BY <1>1, <1>3, <1>4
     DEF IInv, DeliveryInv, ReplayInOrderOnce, ingestVars, Recorded, Range

(* A server thread that answers without touching the database answers only *)
(* for a batch already in it.                                              *)
LEMMA DeliveryAnswer ==
    ASSUME IInv, NEW c \in Conn, Busy(c), Answer(c), wire[c].batch \in Recorded,
           UNCHANGED <<spoolVars, ledger, link, apiUp>>
    PROVE  DeliveryInv'
<1>1. ASSUME NEW d \in Conn, Busy(d)'
      PROVE  ExchangeInv(d)'
  <2>1. /\ Busy(d)
        /\ wire'[d].batch = wire[d].batch
        /\ wire'[d].api = wire[d].api
        /\ d # c => wire'[d] = wire[d]
    BY <1>1, AnswerEffect DEF IInv
  <2>2. ExchangeInv(d)
    BY <2>1 DEF IInv, DeliveryInv
  <2> QED
    BY <2>1, <2>2 DEF ExchangeInv, spoolVars, Recorded, Range
<1> QED
  BY <1>1 DEF IInv, DeliveryInv, AckedIsDurable, ReplayInOrderOnce, spoolVars, Recorded, Range

LEMMA DeliveryCommit ==
    ASSUME IInv, NEW c \in Conn, CommitIngest(c)
    PROVE  DeliveryInv'
<1> DEFINE b == wire[c].batch
<1>1. /\ Busy(c) /\ Answer(c)
      /\ b \notin Recorded
      /\ CommitBatch(b)
      /\ UNCHANGED <<spoolVars, mirror, link, apiUp>>
  BY DEF CommitIngest, KeyViolated
<1>2. /\ ledger \in Seq(Nat) /\ produced \subseteq Nat /\ b \in Nat
      /\ Recorded' = Recorded \cup {b}
  BY <1>1, BusyIsExchange, RangeAppend
     DEF IInv, TypeOK, SpoolTypeOK, IngestTypeOK, Exchange, CommitBatch, Recorded
<1>3. ExchangeInv(c)
  BY <1>1 DEF IInv, DeliveryInv
<1>4. ASSUME NEW x \in Recorded
      PROVE  x < b
  <2>1. b \in produced /\ x \in produced /\ (b < x => b \in Recorded)
    BY <1>3 DEF IInv, DeliveryInv, ExchangeInv
  <2>2. x \in Nat /\ x # b /\ ~(b < x)
    BY <1>1, <1>2, <2>1
  <2> QED
    BY <1>2, <2>2
<1>5. ReplayInOrderOnce'
  BY <1>1, <1>2, <1>4, AppendKeepsOrder DEF IInv, DeliveryInv
<1>6. AckedIsDurable' /\ (Recorded \subseteq produced)'
  BY <1>1, <1>2, <1>3 DEF IInv, DeliveryInv, ExchangeInv, AckedIsDurable, spoolVars
<1>7. (\A x \in Recorded, s \in produced : s < x => s \in Recorded)'
  BY <1>1, <1>2, <1>3 DEF IInv, DeliveryInv, ExchangeInv, spoolVars
<1>8. (\A a \in Api : apiUp[a] => link[a])'
  BY <1>1 DEF IInv, DeliveryInv
<1>9. ASSUME NEW d \in Conn, Busy(d)'
      PROVE  ExchangeInv(d)'
  <2>1. /\ Busy(d)
        /\ wire'[d].batch = wire[d].batch
        /\ wire'[d].api = wire[d].api
        /\ d # c => wire'[d] = wire[d]
    BY <1>1, <1>9, AnswerEffect DEF IInv
  <2>2. ExchangeInv(d)
    BY <2>1 DEF IInv, DeliveryInv
  <2> QED
    BY <1>1, <1>2, <2>1, <2>2 DEF ExchangeInv, spoolVars
<1> QED
  BY <1>5, <1>6, <1>7, <1>8, <1>9 DEF DeliveryInv

LEMMA DeliveryServe ==
    ASSUME ~DbFaults, IInv, NEW c \in Conn, ServeRequest(c) \/ CommitUnacknowledged(c)
    PROVE  DeliveryInv'
<1>1. Busy(c) /\ ExchangeInv(c)
  BY DEF ServeRequest, BeginIngest, BeginInMemory, CommitIngest, RollbackIngest,
         CommitUnacknowledged, IInv, DeliveryInv
<1>2. CASE BeginIngest(c) /\ DbKnows(wire[c].batch)
  BY <1>1, <1>2, DeliveryAnswer DEF BeginIngest, DbKnows, ingestVars
<1>3. CASE BeginIngest(c) /\ ~DbKnows(wire[c].batch)
  <2>1. /\ wire' = [wire EXCEPT ![c].phase = "inserting"]
        /\ UNCHANGED <<spoolVars, ingestVars>>
    BY <1>3 DEF BeginIngest
  <2>2. ASSUME NEW d \in Conn, Busy(d)'
        PROVE  ExchangeInv(d)'
    <3>1. wire[c] \in Exchange
      BY <1>1, BusyIsExchange DEF IInv
    <3>2. /\ Busy(d)
          /\ wire'[d].batch = wire[d].batch
          /\ wire'[d].api = wire[d].api
          /\ wire'[d].phase = "reply" => wire[d].phase = "reply"
      BY <1>1, <2>1, <2>2, <3>1 DEF IInv, TypeOK, Busy, Exchange
    <3>3. ExchangeInv(d)
      BY <3>2 DEF IInv, DeliveryInv
    <3> QED
      BY <2>1, <3>2, <3>3 DEF ExchangeInv, spoolVars, ingestVars, Recorded, Range
  <2> QED
    BY <2>1, <2>2
       DEF IInv, DeliveryInv, AckedIsDurable, ReplayInOrderOnce, spoolVars, ingestVars,
           Recorded, Range
<1>4. CASE CommitIngest(c)
  BY <1>4, DeliveryCommit
<1>5. CASE RollbackIngest(c)
  BY <1>1, <1>5, DeliveryAnswer DEF RollbackIngest, KeyViolated, ExchangeInv
<1> QED
  BY <1>1, <1>2, <1>3, <1>4, <1>5
     DEF ServeRequest, BeginInMemory, CommitUnacknowledged, ExchangeInv

(* Crashes, timeouts and restarts only take exchanges away or leave their  *)
(* batch and process alone.                                                *)
LEMMA DeliveryFault ==
    ASSUME ~DbFaults, IInv,
           \/ GatewayCrash
           \/ \E f \in Forwarder, c \in Conn : GiveUp(f, c)
           \/ \E a \in Api : ApiCrash(a) \/ ApiStart(a) \/ LinkBreaks(a)
    PROVE  DeliveryInv'
<1>1. UNCHANGED <<files, produced, ledger>>
  BY DEF GatewayCrash, CrashSpool, GiveUp, ApiCrash, CrashProcess, ApiStart, StartProcess,
         LinkBreaks, BreakLink, spoolVars, ingestVars
<1> DEFINE Kept(d) == /\ Busy(d)
                      /\ link'[wire[d].api]
                      /\ wire'[d].batch = wire[d].batch
                      /\ wire'[d].api = wire[d].api
                      /\ wire'[d].phase = wire[d].phase
           Linked == \A a \in Api : apiUp'[a] => link'[a]
<1>2. Linked /\ \A d \in Conn : Busy(d)' => Kept(d)
  <2>1. CASE GatewayCrash
    BY <2>1, BusyIsExchange
       DEF GatewayCrash, ingestVars, IInv, TypeOK, DeliveryInv, ExchangeInv, Busy, Exchange
  <2>2. ASSUME NEW f \in Forwarder, NEW c \in Conn, GiveUp(f, c)
        PROVE  Linked /\ \A d \in Conn : Busy(d)' => Kept(d)
    BY <2>2, BusyIsExchange
       DEF GiveUp, ingestVars, IInv, TypeOK, DeliveryInv, ExchangeInv, Busy, Exchange
  <2>3. ASSUME NEW a \in Api, ApiCrash(a)
        PROVE  Linked /\ \A d \in Conn : Busy(d)' => Kept(d)
    BY <2>3, BusyIsExchange
       DEF ApiCrash, CrashProcess, IInv, TypeOK, IngestTypeOK, DeliveryInv, ExchangeInv,
           Busy, Exchange
  <2>4. ASSUME NEW a \in Api, ApiStart(a)
        PROVE  Linked /\ \A d \in Conn : Busy(d)' => Kept(d)
    BY <2>4, BusyIsExchange
       DEF ApiStart, StartProcess, IInv, TypeOK, IngestTypeOK, DeliveryInv, ExchangeInv,
           Busy, Exchange
  <2> QED
    BY <2>1, <2>2, <2>3, <2>4 DEF LinkBreaks, BreakLink
<1>3. ASSUME NEW d \in Conn, Busy(d)'
      PROVE  ExchangeInv(d)'
  BY <1>1, <1>2, <1>3 DEF IInv, DeliveryInv, ExchangeInv, Recorded, Range
<1> QED
  BY <1>1, <1>2, <1>3
     DEF IInv, DeliveryInv, AckedIsDurable, ReplayInOrderOnce, Recorded, Range

-----------------------------------------------------------------------------
LEMMA IInvInductive ==
    ASSUME ~CounterMayBeLost, ~DbFaults
    PROVE  /\ Init => IInv
           /\ IInv /\ [Next]_vars => IInv'
<1>1. Init => IInv
  BY InitTypeOK
     DEF Init, SpoolInit, IngestInit, IInv, SpoolInv, FreshInv, DeliveryInv, AckedIsDurable,
         ReplayInOrderOnce, Recorded, Range, Busy
<1>2. IInv /\ [Next]_vars => (TypeOK /\ SpoolInv /\ FreshInv)'
  BY NextTypeOK, NextSpoolStep, SpoolInvStep, FreshInvStep DEF IInv
<1>3. IInv /\ UNCHANGED vars => DeliveryInv'
  BY DEF vars, IInv, DeliveryInv, AckedIsDurable, ReplayInOrderOnce, ExchangeInv,
         Recorded, Range, Busy
<1>4. IInv /\ Next => DeliveryInv'
  BY DeliveryProducer, DeliverySend, DeliveryReply, DeliveryServe, DeliveryFault
     DEF Next, Fault
<1> QED
  BY <1>1, <1>2, <1>3, <1>4 DEF IInv

(* Without database faults no acknowledged batch is missing from the       *)
(* database, however many processes, threads, crashes and timeouts.        *)
THEOREM NoLoss ==
    ASSUME ~CounterMayBeLost, ~DbFaults
    PROVE  Spec => []AckedIsDurable
<1>1. IInv => AckedIsDurable
  BY DEF IInv, DeliveryInv
<1> QED
  BY <1>1, IInvInductive, PTL DEF Spec

(* Nor is any batch recorded twice or out of order.                        *)
THEOREM InOrderOnce ==
    ASSUME ~CounterMayBeLost, ~DbFaults
    PROVE  Spec => []ReplayInOrderOnce
<1>1. IInv => ReplayInOrderOnce
  BY DEF IInv, DeliveryInv
<1> QED
  BY <1>1, IInvInductive, PTL DEF Spec

(* Even when processes fall back to memory and links break in the middle   *)
(* of a commit, the key of telemetry_batch keeps a batch from being        *)
(* recorded twice in the database.                                         *)
THEOREM KeyedOnce == Spec => []RecordedOnce
<1>1. Init => RecordedOnce
  BY DEF Init, IngestInit, RecordedOnce, IsInjective
<1>2. TypeOK /\ RecordedOnce /\ [Next]_vars => RecordedOnce'
  <2> SUFFICES ASSUME TypeOK, RecordedOnce, [Next]_vars PROVE RecordedOnce'
    OBVIOUS
  <2>1. ASSUME NEW c \in Conn, Busy(c), CommitBatch(wire[c].batch),
               ~KeyViolated(wire[c].batch)
        PROVE  RecordedOnce'
    <3>1. ledger \in Seq(Nat) /\ wire[c].batch \in Nat
      BY <2>1, BusyIsExchange DEF TypeOK, IngestTypeOK, Exchange
    <3>2. /\ Len(ledger') = Len(ledger) + 1
          /\ ledger'[Len(ledger) + 1] = wire[c].batch
          /\ \A k \in 1 .. Len(ledger) : ledger'[k] = ledger[k]
          /\ DOMAIN ledger' = 1 .. Len(ledger')
          /\ DOMAIN ledger = 1 .. Len(ledger)
      BY <2>1, <3>1, AppendProperties DEF CommitBatch
    <3>3. \A k \in DOMAIN ledger : ledger[k] # wire[c].batch
      BY <2>1 DEF KeyViolated, Recorded, Range
    <3> QED
      BY <3>1, <3>2, <3>3, LenProperties DEF RecordedOnce, IsInjective
  <2>2. \/ UNCHANGED ledger
        \/ \E c \in Conn : /\ Busy(c)
                          /\ CommitBatch(wire[c].batch)
                          /\ ~KeyViolated(wire[c].batch)
    BY DEF Next, Fault, vars, spoolVars, ingestVars, ProducerStep, GatewayRestart, SendOldest,
           ReceiveReply, ServeRequest, BeginIngest, BeginInMemory, CommitIngest,
           RollbackIngest, CommitUnacknowledged, GatewayCrash, CounterLoss, GiveUp,
           ApiCrash, CrashProcess, ApiStart, StartProcess, LinkBreaks, BreakLink
  <2>3. CASE UNCHANGED ledger
    BY <2>3 DEF RecordedOnce, IsInjective
  <2> QED
    BY <2>1, <2>2, <2>3
<1> QED
  BY <1>1, <1>2, TypeCorrect, PTL DEF Spec

-----------------------------------------------------------------------------
(* The gateway, the wire and the API's processes together implement the    *)
(* promise of LosslessReplay.                                              *)
THEOREM ReplayRefinement ==
    ASSUME ~CounterMayBeLost, ~DbFaults
    PROVE  Spec => KeepsPromise
<1> USE DEF Promise!absVars
<1>1. Init => Promise!AbsInit
  BY DEF Init, SpoolInit, IngestInit, Promise!AbsInit
<1>2. IInv /\ [Next]_vars => [Promise!AbsNext]_(Promise!absVars)
  <2> SUFFICES ASSUME IInv, [Next]_vars
               PROVE  Promise!AbsNext \/ UNCHANGED <<produced, files, ledger>>
    OBVIOUS
  <2>1. CASE ProducerStep
    <3>1. CASE AppendBatch
      <4>1. reserved \in 0 .. MaxSeq - 1
        BY <3>1, SpoolAssumption
           DEF AppendBatch, IInv, TypeOK, SpoolTypeOK, SpoolInv
      <4>2. Promise!Issue(reserved)
        BY <2>1, <3>1
           DEF ProducerStep, ingestVars, AppendBatch, IInv, FreshInv, Promise!Issue
      <4> QED
        BY <4>1, <4>2 DEF Promise!AbsNext
    <3>2. CASE ~AppendBatch
      BY <2>1, <3>2
         DEF ProducerStep, Produce, ReserveSeq, PersistSeqFails, AppendFails, ingestVars
    <3> QED
      BY <3>1, <3>2
  <2>2. ASSUME NEW f \in Forwarder, NEW c \in Conn, ReceiveReply(f, c)
        PROVE  Promise!AbsNext \/ UNCHANGED <<produced, files, ledger>>
    <3>1. wire[c].batch \in Recorded
      BY <2>2 DEF ReceiveReply, IInv, DeliveryInv, ExchangeInv
    <3>2. CASE wire[c].batch \in files
      <4>1. Promise!Forget(wire[c].batch)
        BY <2>2, <3>1, <3>2
           DEF ReceiveReply, RemoveBatch, ingestVars, Recorded, Range,
               Promise!Forget, Promise!Range
      <4>2. wire[c].batch \in 0 .. MaxSeq - 1
        BY <3>2 DEF IInv, SpoolInv
      <4> QED
        BY <4>1, <4>2 DEF Promise!AbsNext
    <3>3. CASE wire[c].batch \notin files
      BY <2>2, <3>3 DEF ReceiveReply, RemoveBatch, ingestVars
    <3> QED
      BY <3>2, <3>3
  <2>3. ASSUME NEW c \in Conn, CommitIngest(c)
        PROVE  Promise!AbsNext \/ UNCHANGED <<produced, files, ledger>>
    <3>1. /\ wire[c].batch \notin Recorded
          /\ ledger' = Append(ledger, wire[c].batch)
          /\ UNCHANGED <<files, produced>>
      BY <2>3 DEF CommitIngest, KeyViolated, CommitBatch, spoolVars
    <3>2. ExchangeInv(c)
      BY <2>3 DEF CommitIngest, IInv, DeliveryInv
    <3>3. wire[c].batch \in files
      BY <3>1, <3>2 DEF IInv, DeliveryInv, AckedIsDurable, ExchangeInv
    <3>4. Promise!Record(wire[c].batch)
      BY <3>1, <3>2, <3>3
         DEF ExchangeInv, Recorded, Range, Promise!Record, Promise!Range
    <3>5. wire[c].batch \in 0 .. MaxSeq - 1
      BY <3>3 DEF IInv, SpoolInv
    <3> QED
      BY <3>4, <3>5 DEF Promise!AbsNext
  <2>4. ASSUME NEW c \in Conn, BeginIngest(c) \/ BeginInMemory(c) \/ RollbackIngest(c)
        PROVE  UNCHANGED <<produced, files, ledger>>
    BY <2>4 DEF BeginIngest, BeginInMemory, RollbackIngest, spoolVars, ingestVars
  <2>5. CASE \/ GatewayRestart
             \/ \E f \in Forwarder, c \in Conn, a \in Api : SendOldest(f, c, a)
             \/ \E a \in Api : ApiStart(a)
             \/ UNCHANGED vars
    BY <2>5 DEF GatewayRestart, RestartSpool, SendOldest, ApiStart, StartProcess, vars,
                spoolVars, ingestVars
  <2>6. CASE Fault
    BY <2>6 DEF Fault, GatewayCrash, CrashSpool, CounterLoss, LoseCounter, GiveUp,
                CommitUnacknowledged, ApiCrash, CrashProcess, LinkBreaks, BreakLink,
                spoolVars, ingestVars
  <2> QED
    BY <2>1, <2>2, <2>3, <2>4, <2>5, <2>6 DEF Next, ServeRequest
<1> QED
  BY <1>1, <1>2, IInvInductive, PTL DEF Spec, KeepsPromise, Promise!AbsSpec
=============================================================================
