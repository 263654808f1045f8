------------------------- MODULE WorkOrders_proofs --------------------------
(***************************************************************************)
(* Type correctness of WorkOrders, one audited approval per ticket,        *)
(* decisions that stick when a single thread polls at a time, and what     *)
(* stands once the requests have ended: it is what the files hold and what *)
(* the trail says.                                                         *)
(***************************************************************************)
EXTENDS WorkOrders, FiniteSetTheorems, TLAPS

Holding == Step \ {"idle", "check_order"}

-----------------------------------------------------------------------------
(* What a step of one request changes.                                     *)

LEMMA GotoMeans ==
    ASSUME op \in [Thread -> Request], NEW r \in Thread, NEW s \in Step, Goto(r, s)
    PROVE  /\ op' \in [Thread -> Request]
           /\ op'[r].step = s /\ op'[r].obj = op[r].obj
           /\ op'[r].entity = op[r].entity /\ op'[r].approval = op[r].approval
           /\ \A q \in Thread \ {r} : op'[q] = op[q]
<1>1. op[r] \in Request
  OBVIOUS
<1>2. op' = [op EXCEPT ![r] = [op[r] EXCEPT !.step = s]]
  BY DEF Goto
<1>3. [op[r] EXCEPT !.step = s] \in Request
  BY <1>1 DEF Request
<1> DEFINE q == [op[r] EXCEPT !.step = s]
<1>4. q.step = s /\ q.obj = op[r].obj /\ q.entity = op[r].entity /\ q.approval = op[r].approval
  BY <1>1 DEF Request
<1> HIDE DEF q
<1> QED BY <1>2, <1>3, <1>4 DEF q

LEMMA SetMeans ==
    ASSUME op \in [Thread -> Request], NEW r \in Thread, NEW q \in Request,
           op' = [op EXCEPT ![r] = q]
    PROVE  /\ op' \in [Thread -> Request]
           /\ op'[r] = q
           /\ \A p \in Thread \ {r} : op'[p] = op[p]
OBVIOUS

(* One request moves, the heap does not shrink.                            *)
LEMMA OthersHold ==
    ASSUME RequestsOK, Len(heap) \in Nat, Len(heap') \in Nat, Len(heap) <= Len(heap'),
           NEW r \in Thread, op' \in [Thread -> Request], Holds(op'[r], Len(heap')),
           \A q \in Thread \ {r} : op'[q] = op[q]
    PROVE  RequestsOK'
<1>1. ASSUME NEW q \in Thread, q # r PROVE Holds(op'[q], Len(heap'))
  <2>1. op'[q] = op[q] /\ Holds(op[q], Len(heap))
    BY <1>1 DEF RequestsOK
  <2>2. op[q].obj \in 0 .. Len(heap')
    BY <2>1 DEF Holds
  <2> QED BY <2>1, <2>2 DEF Holds
<1> QED BY <1>1 DEF RequestsOK

(* A request goes on with the item it holds.                               *)
LEMMA GotoOK ==
    ASSUME StoreTypeOK, RequestsOK, Len(heap') = Len(heap), NEW r \in Thread, NEW s \in Holding,
           op[r].step \in Holding, Goto(r, s)
    PROVE  RequestsOK'
<1>1. Len(heap) \in Nat
  BY DEF StoreTypeOK
<1>2. /\ op' \in [Thread -> Request]
      /\ op'[r].step = s /\ op'[r].obj = op[r].obj
      /\ \A q \in Thread \ {r} : op'[q] = op[q]
  BY GotoMeans DEF RequestsOK, Holding
<1>3. Holds(op'[r], Len(heap'))
  BY <1>2 DEF RequestsOK, Holds, Holding
<1> QED BY <1>1, <1>2, <1>3, OthersHold

(* A request lets go of its item.                                          *)
LEMMA ReleaseOK ==
    ASSUME StoreTypeOK, RequestsOK, Len(heap') = Len(heap), NEW r \in Thread,
           End(r) \/ CheckOrderNext(r)
    PROVE  RequestsOK'
<1>1. Len(heap) \in Nat
  BY DEF StoreTypeOK
<1>2. PICK s \in {"idle", "check_order"} : op' = [op EXCEPT ![r] = [Idle EXCEPT !.step = s]]
  BY DEF End, CheckOrderNext, Idle
<1> DEFINE n == [Idle EXCEPT !.step = s]
<1>3. n \in Request /\ n.step = s /\ n.obj = 0
  BY DEF Idle, Request, Step, Entity
<1> HIDE DEF n
<1>4. op' \in [Thread -> Request] /\ op'[r] = n /\ \A p \in Thread \ {r} : op'[p] = op[p]
  BY <1>2, <1>3, SetMeans DEF n, RequestsOK
<1> QED BY <1>1, <1>3, <1>4, OthersHold DEF Holds

(* A request takes an item.                                                *)
LEMMA TakeOK ==
    ASSUME RequestsOK, Len(heap) \in Nat, Len(heap') \in Nat, Len(heap) <= Len(heap'),
           NEW r \in Thread, NEW n \in Request, n.step \in Holding, n.obj \in 1 .. Len(heap'),
           op' = [op EXCEPT ![r] = n]
    PROVE  RequestsOK'
<1>1. op' \in [Thread -> Request] /\ op'[r] = n /\ \A p \in Thread \ {r} : op'[p] = op[p]
  BY SetMeans DEF RequestsOK
<1> QED BY <1>1, OthersHold DEF Holds, Holding

(* The item of a request at work.                                          *)
LEMMA ItemType ==
    ASSUME TypeOK, NEW r \in Thread, op[r].step \in Holding
    PROVE  /\ op[r] \in Request /\ op[r].entity \in Entity
           /\ op[r].obj \in 1 .. Len(heap) /\ Len(heap) \in Nat
           /\ heap[op[r].obj] \in Object
<1>1. op[r] \in Request /\ op[r].entity \in Entity
  BY DEF TypeOK, RequestsOK, Request
<1>2. op[r].obj \in 1 .. Len(heap) /\ Len(heap) \in Nat
  BY DEF TypeOK, StoreTypeOK, RequestsOK, Holds, Holding
<1> QED BY <1>1, <1>2 DEF TypeOK, StoreTypeOK

-----------------------------------------------------------------------------
(* Type correctness.                                                       *)

(* A put keeps the types of the stores.                                    *)
LEMMA PutType ==
    ASSUME TypeOK, NEW r \in Thread, op[r].step \in Holding, Put(op[r].entity, op[r].obj)
    PROVE  StoreTypeOK'
BY ItemType DEF Put, TypeOK, StoreTypeOK

(* A new object goes to the end of the heap.                               *)
LEMMA NewObjectType ==
    ASSUME StoreTypeOK, NEW x \in Object, heap' = Append(heap, x), UNCHANGED <<shelf, file>>
    PROVE  StoreTypeOK' /\ Len(heap') = Len(heap) + 1 /\ Len(heap) \in Nat
BY DEF StoreTypeOK

LEMMA CheckType ==
    ASSUME TypeOK, NEW r \in Thread, NEW e \in Entity,
           \/ Check(r, e, End(r))
           \/ Check(r, e, CheckOrderNext(r))
    PROVE  StoreTypeOK' /\ RequestsOK'
<1>1. CASE Exists(e)
  <2>1. (End(r) \/ CheckOrderNext(r)) /\ UNCHANGED <<heap, shelf, file>>
    BY <1>1 DEF Check
  <2>2. RequestsOK'
    BY <2>1, ReleaseOK DEF TypeOK
  <2> QED BY <2>1, <2>2 DEF TypeOK, StoreTypeOK
<1>2. CASE ~Exists(e)
  <2> DEFINE n == [step |-> "put_new", entity |-> e, obj |-> Len(heap) + 1, approval |-> "pending"]
  <2>1. heap' = Append(heap, Proposed) /\ op' = [op EXCEPT ![r] = n] /\ UNCHANGED <<shelf, file>>
    BY <1>2 DEF Check
  <2>2. Proposed \in Object
    BY DEF Proposed, Object
  <2>3. StoreTypeOK' /\ Len(heap') = Len(heap) + 1 /\ Len(heap) \in Nat
    BY <2>1, <2>2, NewObjectType DEF TypeOK
  <2>4. n \in Request /\ n.obj = Len(heap) + 1 /\ n.step = "put_new"
    BY <2>3 DEF Request, Step
  <2>5. n.step \in Holding /\ n.obj \in 1 .. Len(heap')
    BY <2>3, <2>4 DEF Holding, Step
  <2> HIDE DEF n
  <2>6. /\ RequestsOK /\ Len(heap) \in Nat /\ Len(heap') \in Nat /\ Len(heap) <= Len(heap')
        /\ op' = [op EXCEPT ![r] = n] /\ n \in Request
    BY <2>1, <2>3, <2>4 DEF TypeOK
  <2>7. RequestsOK'
    BY ONLY <2>5, <2>6, TakeOK
  <2> QED BY <2>3, <2>7
<1> QED BY <1>1, <1>2

LEMMA LoadType == ASSUME StoreTypeOK, Load PROVE StoreTypeOK'
<1> DEFINE a == IF file["card"] = NoObject THEN Proposed ELSE file["card"]
           b == IF file["order"] = NoObject THEN Proposed ELSE file["order"]
<1>1. a \in Object /\ b \in Object
  BY DEF StoreTypeOK, Entity, Proposed, Object
<1>2. heap' = <<a, b>>
  BY DEF Load
<1> HIDE DEF a, b
<1>3. heap' \in Seq(Object) /\ Len(heap') = 2
  BY <1>1, <1>2
<1> QED BY <1>3 DEF StoreTypeOK, Load

(* Every step keeps the types.                                             *)
LEMMA TypeStep == TypeOK /\ [Next]_vars => TypeOK'
<1> SUFFICES ASSUME TypeOK, [Next]_vars PROVE TypeOK'
  OBVIOUS
<1>0. CASE UNCHANGED vars
  BY <1>0 DEF vars, TypeOK, StoreTypeOK, RequestsOK
<1>a. StoreTypeOK /\ RequestsOK /\ Len(heap) \in Nat
  BY DEF TypeOK, StoreTypeOK
<1>b. {"put_new", "dump", "save", "audit_new", "decide", "put", "set_status", "audit", "bump",
       "issue", "audit_ticket"} = Holding
  BY DEF Holding, Step
<1>c. UNCHANGED <<heap, shelf, file>> => StoreTypeOK' /\ Len(heap') = Len(heap)
  BY <1>a DEF StoreTypeOK
<1>1. ASSUME NEW r \in Thread, CheckCard(r) PROVE TypeOK'
  BY <1>1, CheckType DEF CheckCard, Check, TypeOK, Entity
<1>2. ASSUME NEW r \in Thread, CheckOrder(r) PROVE TypeOK'
  BY <1>2, CheckType DEF CheckOrder, Check, TypeOK, Entity
<1>3. ASSUME NEW r \in Thread, PutNew(r) PROVE TypeOK'
  <2>1. StoreTypeOK' /\ Len(heap') = Len(heap)
    BY <1>3, <1>a, <1>b, PutType DEF PutNew, Put
  <2>2. RequestsOK'
    BY <1>3, <1>a, <1>b, <2>1, GotoOK DEF PutNew
  <2> QED BY <1>3, <2>1, <2>2 DEF PutNew, TypeOK
<1>4. ASSUME NEW r \in Thread, DumpCard(r) PROVE TypeOK'
  <2>1. /\ op[r] \in Request /\ op[r].obj \in 1 .. Len(heap)
        /\ heap[op[r].obj].approval \in Decision \cup {"pending"}
    BY <1>4, <1>b, ItemType DEF DumpCard, Object
  <2> DEFINE n == [op[r] EXCEPT !.step = "save", !.approval = heap[op[r].obj].approval]
  <2>2. n \in Request /\ n.step = "save" /\ n.obj = op[r].obj
    BY <2>1 DEF Request, Step
  <2>3. op' = [op EXCEPT ![r] = n] /\ UNCHANGED <<heap, shelf, file>>
    BY <1>4 DEF DumpCard
  <2> HIDE DEF n
  <2>4. /\ RequestsOK /\ Len(heap) \in Nat /\ Len(heap') \in Nat /\ Len(heap) <= Len(heap')
        /\ op' = [op EXCEPT ![r] = n] /\ n \in Request
        /\ n.step \in Holding /\ n.obj \in 1 .. Len(heap')
    BY <1>a, <1>b, <1>c, <2>1, <2>2, <2>3
  <2>5. RequestsOK'
    BY ONLY <1>4, <2>4, TakeOK
  <2> QED BY <1>4, <1>c, <2>5 DEF DumpCard, TypeOK
<1>5. ASSUME NEW r \in Thread, SaveCard(r) PROVE TypeOK'
  <2>1. op[r].approval \in Decision \cup {"pending"}
    BY <1>5, <1>b, ItemType DEF SaveCard, Request
  <2>2. RequestsOK'
    BY <1>5, <1>a, <1>b, <1>c, GotoOK DEF SaveCard
  <2> QED BY <1>5, <1>c, <2>1, <2>2 DEF SaveCard, TypeOK
<1>6. ASSUME NEW r \in Thread, AuditCreated(r) PROVE TypeOK'
  <2>1. op[r].entity \in Entity
    BY <1>6, <1>b, ItemType DEF AuditCreated
  <2>2. RequestsOK'
    BY <1>6, <1>a, <1>c, ReleaseOK DEF AuditCreated
  <2> QED BY <1>6, <1>c, <2>1, <2>2 DEF AuditCreated, TypeOK
<1>7. ASSUME NEW r \in Thread, NEW e \in Entity, NEW d \in Decision, Fetch(r, e, d) PROVE TypeOK'
  <2> DEFINE n == [step |-> "decide", entity |-> e, obj |-> shelf[e], approval |-> d]
  <2>1. shelf[e] \in 1 .. Len(heap)
    BY <1>7, <1>a DEF Fetch, StoreTypeOK
  <2>2. n \in Request /\ n.step = "decide" /\ n.obj = shelf[e]
    BY <1>a, <2>1 DEF Request, Step
  <2>3. op' = [op EXCEPT ![r] = n] /\ UNCHANGED <<heap, shelf, file>>
    BY <1>7 DEF Fetch
  <2> HIDE DEF n
  <2>4. /\ RequestsOK /\ Len(heap) \in Nat /\ Len(heap') \in Nat /\ Len(heap) <= Len(heap')
        /\ op' = [op EXCEPT ![r] = n] /\ n \in Request
        /\ n.step \in Holding /\ n.obj \in 1 .. Len(heap')
    BY <1>a, <1>b, <1>c, <2>1, <2>2, <2>3
  <2>5. RequestsOK'
    BY ONLY <1>7, <2>4, TakeOK
  <2>6. decisions' \in 0 .. MaxDecisions
    BY <1>7, WorkOrdersAssumption DEF Fetch, TypeOK
  <2> QED BY <1>7, <1>c, <2>5, <2>6 DEF Fetch, TypeOK
<1>8. ASSUME NEW r \in Thread, Decide(r) PROVE TypeOK'
  <2>1. /\ op[r].obj \in 1 .. Len(heap) /\ heap[op[r].obj] \in Object
        /\ op[r].approval \in Decision \cup {"pending"}
    BY <1>8, <1>b, ItemType DEF Decide, Request
  <2>2. [heap[op[r].obj] EXCEPT !.approval = op[r].approval] \in Object
    BY <2>1 DEF Object
  <2>3. heap' = [heap EXCEPT ![op[r].obj] = [heap[op[r].obj] EXCEPT !.approval = op[r].approval]]
    BY <1>8 DEF Decide
  <2>4. heap' \in Seq(Object) /\ Len(heap') = Len(heap)
    BY <1>a, <2>1, <2>2, <2>3 DEF StoreTypeOK
  <2>5. RequestsOK'
    BY <1>8, <1>a, <1>b, <2>1, <2>4, GotoOK DEF Decide
  <2> QED BY <1>8, <2>4, <2>5 DEF Decide, TypeOK, StoreTypeOK
<1>9. ASSUME NEW r \in Thread, PutDecided(r) PROVE TypeOK'
  <2>1. StoreTypeOK' /\ Len(heap') = Len(heap)
    BY <1>9, <1>a, <1>b, PutType DEF PutDecided, Put
  <2>2. RequestsOK'
    BY <1>9, <1>a, <1>b, <2>1, GotoOK, ReleaseOK DEF PutDecided
  <2> QED BY <1>9, <2>1, <2>2 DEF PutDecided, TypeOK
<1>10. ASSUME NEW r \in Thread, SetStatus(r) PROVE TypeOK'
  <2>1. op[r].approval \in Decision \cup {"pending"}
    BY <1>10, <1>b, ItemType DEF SetStatus, Request
  <2>2. RequestsOK'
    BY <1>10, <1>a, <1>b, <1>c, GotoOK DEF SetStatus
  <2> QED BY <1>10, <1>c, <2>1, <2>2 DEF SetStatus, TypeOK
<1>11. ASSUME NEW r \in Thread, AuditDecision(r) PROVE TypeOK'
  <2>1. audited' \in [Entity \X Decision -> Nat]
    <3> DEFINE c == <<op[r].entity, op[r].approval>>
    <3>1. audited' = [audited EXCEPT ![c] = @ + 1]
      BY <1>11 DEF AuditDecision, CountDecision
    <3>2. audited \in [Entity \X Decision -> Nat]
      BY DEF TypeOK
    <3> DEFINE C == Entity \X Decision
               n == audited[c] + 1
    <3>3. audited' = [audited EXCEPT ![c] = n]
      BY <3>1
    <3>4. c \in C => n \in Nat
      BY <3>2
    <3> HIDE DEF c, C, n
    <3>5. audited' \in [C -> Nat]
      BY <3>2, <3>3, <3>4 DEF C
    <3> QED BY <3>5 DEF C
  <2>2. RequestsOK'
    BY <1>11, <1>a, <1>b, <1>c, GotoOK, ReleaseOK DEF AuditDecision
  <2> QED BY <1>11, <1>c, <2>1, <2>2 DEF AuditDecision, TypeOK
<1>12. ASSUME NEW r \in Thread, BumpSeq(r) PROVE TypeOK'
  <2>1. RequestsOK'
    BY <1>12, <1>a, <1>b, <1>c, GotoOK, ReleaseOK DEF BumpSeq
  <2> QED BY <1>12, <1>c, <2>1 DEF BumpSeq, TypeOK
<1>13. ASSUME NEW r \in Thread, IssueTicket(r) PROVE TypeOK'
  <2>1. op[r] \in Request /\ op[r].obj \in 1 .. Len(heap) /\ heap[op[r].obj] \in Object
    BY <1>13, <1>b, ItemType DEF IssueTicket
  <2>2. [heap[op[r].obj] EXCEPT !.ticket = seq] \in Object
    BY <2>1 DEF Object, TypeOK
  <2>3. StoreTypeOK' /\ Len(heap') = Len(heap) + 1
    BY <1>13, <1>a, <2>2, NewObjectType DEF IssueTicket
  <2> DEFINE n == [op[r] EXCEPT !.step = "audit_ticket", !.obj = Len(heap) + 1]
  <2>a. Len(heap) + 1 \in Nat /\ "audit_ticket" \in Step /\ op[r] \in Request
    BY <1>a, <2>1 DEF Step
  <2>4. n \in Request /\ n.step = "audit_ticket" /\ n.obj = Len(heap) + 1
    BY ONLY <2>a DEF Request
  <2>5. op' = [op EXCEPT ![r] = n]
    BY <1>13 DEF IssueTicket
  <2> HIDE DEF n
  <2>6. /\ RequestsOK /\ Len(heap) \in Nat /\ Len(heap') \in Nat /\ Len(heap) <= Len(heap')
        /\ op' = [op EXCEPT ![r] = n] /\ n \in Request
        /\ n.step \in Holding /\ n.obj \in 1 .. Len(heap')
    BY <1>a, <1>b, <2>3, <2>4, <2>5
  <2>7. RequestsOK'
    BY ONLY <1>13, <2>6, TakeOK
  <2> QED BY <1>13, <2>3, <2>7 DEF IssueTicket, TypeOK
<1>14. ASSUME NEW r \in Thread, AuditTicket(r) PROVE TypeOK'
  <2>1. RequestsOK'
    BY <1>14, <1>a, <1>b, <1>c, GotoOK DEF AuditTicket
  <2> QED BY <1>14, <1>c, <2>1 DEF AuditTicket, TypeOK
<1>15. ASSUME Crash PROVE TypeOK'
  <2>1. StoreTypeOK' /\ Len(heap') \in Nat
    BY <1>15, <1>a, LoadType DEF Crash, StoreTypeOK
  <2>2. Idle \in Request /\ Holds(Idle, Len(heap'))
    BY <2>1 DEF Idle, Request, Step, Entity, Holds
  <2>3. RequestsOK'
    BY <1>15, <2>2 DEF Crash, RequestsOK
  <2>4. crashes' \in 0 .. MaxCrashes
    BY <1>15, WorkOrdersAssumption DEF Crash, TypeOK
  <2> QED BY <1>15, <2>1, <2>3, <2>4 DEF Crash, TypeOK
<1> QED
  BY <1>0, <1>1, <1>2, <1>3, <1>4, <1>5, <1>6, <1>7, <1>8, <1>9, <1>10, <1>11, <1>12,
     <1>13, <1>14, <1>15 DEF Next, Poll, DecisionStep, Thread

(* Every variable keeps its type.                                          *)
THEOREM TypeCorrect == Spec => []TypeOK
<1>1. Init => TypeOK
  <2> SUFFICES ASSUME Init PROVE TypeOK
    OBVIOUS
  <2>1. StoreTypeOK
    BY DEF Init, StoreInit, StoreTypeOK
  <2>2. RequestsOK
    BY DEF Init, StoreInit, RequestsOK, Holds, Idle, Request, Step, Entity
  <2> QED BY <2>1, <2>2, WorkOrdersAssumption DEF Init, TypeOK
<1> QED BY <1>1, TypeStep, PTL DEF Spec

-----------------------------------------------------------------------------
(* One audited approval per ticket.                                        *)

(* Requests whose approval is audited and whose ticket is not made yet.    *)
Waiting == {r \in Operators : op[r].step \in {"bump", "issue"}}

TicketInv == issued + Cardinality(Waiting) <= audited[<<"order", "approved">>]

(* A step of one request, which moves to step s, changes who is waiting by *)
(* that request only.                                                      *)
LEMMA WaitingMeans ==
    ASSUME op \in [Thread -> Request], op' \in [Thread -> Request], NEW r \in Thread,
           \A q \in Thread \ {r} : op'[q] = op[q]
    PROVE  Waiting' = IF r \in Operators /\ op'[r].step \in {"bump", "issue"}
                        THEN Waiting \cup {r} ELSE Waiting \ {r}
BY DEF Waiting, Thread

LEMMA TicketStep == TypeOK /\ TypeOK' /\ TicketInv /\ [Next]_vars => TicketInv'
<1> SUFFICES ASSUME TypeOK, TypeOK', TicketInv, [Next]_vars PROVE TicketInv'
  OBVIOUS
<1>a. /\ op \in [Thread -> Request] /\ op' \in [Thread -> Request]
      /\ issued \in Nat /\ audited[<<"order", "approved">>] \in Nat
  BY DEF TypeOK, RequestsOK, Entity, Decision
<1>b. /\ IsFiniteSet(Waiting) /\ Cardinality(Waiting) \in Nat
      /\ IsFiniteSet(Waiting') /\ Cardinality(Waiting') \in Nat
  <2>1. IsFiniteSet(Waiting) /\ IsFiniteSet(Waiting')
    BY WorkOrdersAssumption, FS_Subset DEF Waiting
  <2> QED BY <2>1, FS_CardinalityType
(* Nobody joins those who wait, and nothing is counted.                    *)
<1>c. ASSUME Waiting' \subseteq Waiting, issued' = issued,
             audited'[<<"order", "approved">>] \in Nat,
             audited'[<<"order", "approved">>] >= audited[<<"order", "approved">>]
      PROVE TicketInv'
  <2>1. Cardinality(Waiting') <= Cardinality(Waiting)
    BY <1>b, <1>c, FS_Subset
  <2> QED BY <1>a, <1>b, <1>c, <2>1 DEF TicketInv
(* A request that does not wait moves to a step that does not wait.        *)
<1>d. ASSUME NEW r \in Thread, NEW s \in Step \ {"bump", "issue"}, Goto(r, s),
             issued' = issued, audited' = audited
      PROVE TicketInv'
  <2>1. op'[r].step = s /\ \A q \in Thread \ {r} : op'[q] = op[q]
    BY <1>a, <1>d, GotoMeans
  <2>2. Waiting' \subseteq Waiting
    BY <1>a, <2>1, WaitingMeans
  <2> QED BY <1>a, <1>c, <1>d, <2>2
(* A request takes or lets go of an item.                                  *)
<1>e. ASSUME NEW r \in Thread, NEW q \in Request, op' = [op EXCEPT ![r] = q],
             q.step \notin {"bump", "issue"}, issued' = issued, audited' = audited
      PROVE TicketInv'
  <2>1. op'[r] = q /\ \A p \in Thread \ {r} : op'[p] = op[p]
    BY <1>a, <1>e, SetMeans
  <2>2. Waiting' \subseteq Waiting
    BY <1>a, <1>e, <2>1, WaitingMeans
  <2> QED BY <1>a, <1>c, <1>e, <2>2
<1>f. /\ Idle \in Request /\ Idle.step = "idle"
      /\ [Idle EXCEPT !.step = "check_order"] \in Request
      /\ [Idle EXCEPT !.step = "check_order"].step = "check_order"
  BY DEF Idle, Request, Step, Entity
<1>0. CASE UNCHANGED vars
  BY <1>0, <1>a, <1>c DEF vars, Waiting
<1>1. ASSUME NEW r \in Thread, CheckCard(r) \/ CheckOrder(r) PROVE TicketInv'
  <2>1. CASE op' = [op EXCEPT ![r] = Idle]
    BY <1>1, <1>e, <1>f, <2>1 DEF CheckCard, CheckOrder, Check
  <2>2. CASE CheckOrderNext(r)
    BY <1>1, <1>e, <1>f, <2>2 DEF CheckCard, CheckOrder, Check, CheckOrderNext
  <2>3. CASE \E e \in Entity : op' = [op EXCEPT ![r] = [step |-> "put_new", entity |-> e,
                                          obj |-> Len(heap) + 1, approval |-> "pending"]]
    <3>1. PICK e \in Entity : op' = [op EXCEPT ![r] = [step |-> "put_new", entity |-> e,
                                          obj |-> Len(heap) + 1, approval |-> "pending"]]
      BY <2>3
    <3>2. Len(heap) + 1 \in Nat
      BY DEF TypeOK, StoreTypeOK
    <3>3. [step |-> "put_new", entity |-> e, obj |-> Len(heap) + 1, approval |-> "pending"] \in Request
      BY <3>2 DEF Request, Step
    <3> QED BY <1>1, <1>e, <3>1, <3>3 DEF CheckCard, CheckOrder, Check
  <2> QED BY <1>1, <2>1, <2>2, <2>3 DEF CheckCard, CheckOrder, Check, End, Entity
<1>2. ASSUME NEW r \in Thread, PutNew(r) PROVE TicketInv'
  BY <1>2, <1>d DEF PutNew, Step
<1>3. ASSUME NEW r \in Thread, DumpCard(r) PROVE TicketInv'
  <2> DEFINE n == [op[r] EXCEPT !.step = "save", !.approval = heap[op[r].obj].approval]
  <2>1. op' = [op EXCEPT ![r] = n] /\ op'[r] = n /\ op[r] \in Request
    BY <1>3, <1>a DEF DumpCard
  <2>2. n.step = "save"
    BY <2>1 DEF Request
  <2>3. n \in Request
    BY <1>a, <2>1
  <2> HIDE DEF n
  <2> QED BY <1>3, <1>e, <2>1, <2>2, <2>3 DEF DumpCard
<1>4. ASSUME NEW r \in Thread, SaveCard(r) PROVE TicketInv'
  BY <1>4, <1>d DEF SaveCard, Step
<1>5. ASSUME NEW r \in Thread, AuditCreated(r) PROVE TicketInv'
  BY <1>5, <1>e, <1>f DEF AuditCreated, CheckOrderNext, End
<1>6. ASSUME NEW r \in Thread, NEW e \in Entity, NEW d \in Decision, Fetch(r, e, d)
      PROVE TicketInv'
  <2> DEFINE n == [step |-> "decide", entity |-> e, obj |-> shelf[e], approval |-> d]
  <2>1. op' = [op EXCEPT ![r] = n] /\ n.step = "decide" /\ n \in Request
    BY <1>6 DEF Fetch, Request, Step, TypeOK, StoreTypeOK
  <2> HIDE DEF n
  <2> QED BY <1>6, <1>e, <2>1 DEF Fetch
<1>7. ASSUME NEW r \in Thread, Decide(r) PROVE TicketInv'
  BY <1>7, <1>d DEF Decide, Step
<1>8. ASSUME NEW r \in Thread, PutDecided(r) PROVE TicketInv'
  BY <1>8, <1>d, <1>e, <1>f DEF PutDecided, Step, End
<1>9. ASSUME NEW r \in Thread, SetStatus(r) PROVE TicketInv'
  BY <1>9, <1>d DEF SetStatus, Step
<1>10. ASSUME NEW r \in Operators, AuditDecision(r) PROVE TicketInv'
  <2>1. r \in Thread /\ op[r] \in Request /\ op[r].entity \in Entity
    BY <1>10, <1>a DEF Thread, Request
  <2> DEFINE c == <<op[r].entity, op[r].approval>>
             d == <<"order", "approved">>
  <2>2. audited' = [audited EXCEPT ![c] = @ + 1] /\ issued' = issued
    BY <1>10 DEF AuditDecision, CountDecision
  <2>3. audited \in [Entity \X Decision -> Nat] /\ d \in Entity \X Decision
    BY DEF TypeOK, Entity, Decision
  <2>4. c = d => audited'[d] = audited[d] + 1
    BY <2>2, <2>3
  <2>5. c # d => audited'[d] = audited[d]
    BY <2>2, <2>3
  <2>6. \A q \in Thread \ {r} : op'[q] = op[q]
    BY <1>10, <1>a, <2>1, GotoMeans DEF AuditDecision, End, Step
  <2>7. CASE op'[r].step \in {"bump", "issue"}
    <3>1. c = d
      BY <1>10, <1>a, <2>1, <2>7, GotoMeans, <1>f DEF AuditDecision, WantsTicket, End, Entity, Step
    <3>2. r \notin Waiting /\ Waiting' = Waiting \cup {r}
      BY <1>10, <1>a, <2>1, <2>6, <2>7, WaitingMeans DEF AuditDecision, Waiting
    <3>3. Cardinality(Waiting') = Cardinality(Waiting) + 1
      BY <1>b, <3>2, FS_AddElement
    <3> QED BY <1>a, <1>b, <2>2, <2>4, <3>1, <3>3 DEF TicketInv
  <2>8. CASE op'[r].step \notin {"bump", "issue"}
    <3>1. Waiting' \subseteq Waiting
      BY <1>a, <2>1, <2>6, <2>8, WaitingMeans
    <3> QED BY <1>a, <1>c, <2>2, <2>4, <2>5, <3>1
  <2> QED BY <2>7, <2>8
<1>11. ASSUME NEW r \in Operators, BumpSeq(r) PROVE TicketInv'
  <2>1. r \in Thread
    BY DEF Thread
  <2>2. CASE End(r)
    BY <1>11, <1>e, <1>f, <2>1, <2>2 DEF BumpSeq, End
  <2>3. CASE Goto(r, "issue")
    <3>1. op'[r].step = "issue" /\ \A q \in Thread \ {r} : op'[q] = op[q]
      BY <1>a, <2>1, <2>3, GotoMeans DEF Step
    <3>2. Waiting' \subseteq Waiting
      BY <1>11, <1>a, <2>1, <3>1, WaitingMeans DEF BumpSeq, Waiting
    <3> QED BY <1>11, <1>a, <1>c, <3>2 DEF BumpSeq
  <2> QED BY <1>11, <2>2, <2>3 DEF BumpSeq
<1>12. ASSUME NEW r \in Operators, IssueTicket(r) PROVE TicketInv'
  <2> DEFINE n == [op[r] EXCEPT !.step = "audit_ticket", !.obj = Len(heap) + 1]
  <2>1. r \in Thread /\ op[r] \in Request /\ op' = [op EXCEPT ![r] = n]
    BY <1>12, <1>a DEF IssueTicket, Thread
  <2>2. n.step = "audit_ticket"
    BY <2>1 DEF Request
  <2>3. op'[r] = n /\ \A q \in Thread \ {r} : op'[q] = op[q]
    BY <1>a, <2>1
  <2> HIDE DEF n
  <2>4. Waiting' = Waiting \ {r} /\ r \in Waiting
    BY <1>12, <1>a, <2>1, <2>2, <2>3, WaitingMeans DEF IssueTicket, Waiting
  <2>5. Cardinality(Waiting') = Cardinality(Waiting) - 1
    BY <1>b, <2>4, FS_RemoveElement
  <2>6. issued' = issued + 1 /\ audited' = audited
    BY <1>12 DEF IssueTicket
  <2> QED BY <1>a, <1>b, <2>5, <2>6 DEF TicketInv
<1>13. ASSUME NEW r \in Thread, AuditTicket(r) PROVE TicketInv'
  BY <1>13, <1>d DEF AuditTicket, Step
<1>14. ASSUME Crash PROVE TicketInv'
  <2>1. Waiting' = {}
    BY <1>14, <1>f DEF Crash, Waiting, Thread
  <2> QED BY <1>14, <1>a, <1>c, <2>1 DEF Crash
<1> QED
  BY <1>0, <1>1, <1>2, <1>3, <1>4, <1>5, <1>6, <1>7, <1>8, <1>9, <1>10, <1>11, <1>12,
     <1>13, <1>14 DEF Next, Poll, DecisionStep, Thread

(* Whatever the operators decide at once and however often the process     *)
(* ends, there is an audited approval for every ticket.                    *)
THEOREM EveryTicketBacked == Spec => []TicketsBacked
<1>1. Init => TicketInv
  <2> SUFFICES ASSUME Init PROVE TicketInv
    OBVIOUS
  <2>1. Waiting = {}
    BY DEF Init, Waiting, Thread, Idle
  <2>2. Cardinality(Waiting) = 0
    BY <2>1, FS_EmptySet
  <2>3. audited[<<"order", "approved">>] = 0 /\ issued = 0
    BY DEF Init, Entity, Decision
  <2> QED BY <2>2, <2>3 DEF TicketInv
<1>2. TypeOK /\ TicketInv => TicketsBacked
  <2> SUFFICES ASSUME TypeOK, TicketInv PROVE TicketsBacked
    OBVIOUS
  <2>1. IsFiniteSet(Waiting)
    BY WorkOrdersAssumption, FS_Subset DEF Waiting
  <2>2. /\ Cardinality(Waiting) \in Nat /\ issued \in Nat
        /\ audited[<<"order", "approved">>] \in Nat
    BY <2>1, FS_CardinalityType DEF TypeOK, Entity, Decision
  <2> QED BY <2>2 DEF TicketInv, TicketsBacked
<1> QED BY <1>1, <1>2, TicketStep, TypeCorrect, PTL DEF Spec

-----------------------------------------------------------------------------
(* Decisions stick.                                                        *)

AfterDecide == {"put", "set_status", "audit", "bump", "issue", "audit_ticket"}

(* An item that a poll is about to put is not in the store yet.            *)
Fresh(r) == op[r].step = "put_new" => r \in Pollers /\ shelf[op[r].entity] = 0

(* A decision is about an item that the store has, and has reached the     *)
(* object before anything is put.                                          *)
Settled(r) ==
    /\ op[r].step # "idle" => shelf[op[r].entity] # 0
    /\ op[r].step = "decide" => op[r].approval \in Decision
    /\ op[r].step \in AfterDecide => heap[op[r].obj].approval \in Decision

(* What the store does not have is not in its file.                        *)
FileFollows == \A e \in Entity : shelf[e] = 0 => file[e] = NoObject

DecisionInv ==
    /\ \A r \in Thread : Fresh(r)
    /\ \A r \in Operators : Settled(r)
    /\ FileFollows

(* One request moves; the others find their items as they were.            *)
LEMMA InvFrame ==
    ASSUME TypeOK, DecisionInv, NEW r \in Thread,
           \A q \in Thread \ {r} : op'[q] = op[q],
           \A e \in Entity : shelf[e] # 0 => shelf'[e] # 0,
           \A q \in Thread \ {r} :
               op[q].step = "put_new" => shelf'[op[q].entity] = shelf[op[q].entity],
           \A i \in 1 .. Len(heap) :
               heap[i].approval \in Decision => heap'[i].approval \in Decision,
           Fresh(r)', r \in Operators => Settled(r)', FileFollows'
    PROVE  DecisionInv'
<1>1. ASSUME NEW q \in Thread, q # r PROVE Fresh(q)'
  BY <1>1 DEF DecisionInv, Fresh
<1>2. ASSUME NEW q \in Operators, q # r PROVE Settled(q)'
  <2>1. q \in Thread /\ op'[q] = op[q] /\ op[q] \in Request /\ op[q].entity \in Entity
    BY <1>2 DEF Thread, TypeOK, RequestsOK, Request
  <2>2. Settled(q)
    BY <1>2 DEF DecisionInv
  <2>3. op[q].step \in AfterDecide => op[q].obj \in 1 .. Len(heap)
    BY <2>1, ItemType DEF AfterDecide, Holding, Step
  <2> QED BY <2>1, <2>2, <2>3 DEF Settled
<1> QED BY <1>1, <1>2 DEF DecisionInv, Thread

(* A request moves on and the stores stay as they are.                     *)
LEMMA MoveFrame ==
    ASSUME TypeOK, DecisionInv, NEW r \in Thread,
           \A q \in Thread \ {r} : op'[q] = op[q],
           UNCHANGED <<shelf, file>>,
           \A i \in 1 .. Len(heap) :
               heap[i].approval \in Decision => heap'[i].approval \in Decision,
           Fresh(r)', r \in Operators => Settled(r)'
    PROVE  DecisionInv'
<1>1. FileFollows'
  BY DEF DecisionInv, FileFollows
<1> QED BY <1>1, InvFrame

OnePoller == \A p, q \in Pollers : p = q

LEMMA DecisionStepInv ==
    ASSUME OnePoller, TypeOK, DecisionInv, Next
    PROVE  DecisionInv'
<1>a. op \in [Thread -> Request] /\ Pollers \cap Operators = {}
  BY WorkOrdersAssumption DEF TypeOK, RequestsOK
<1>b. Idle \in Request /\ Idle.step = "idle"
      /\ [Idle EXCEPT !.step = "check_order"] \in Request
      /\ [Idle EXCEPT !.step = "check_order"].step = "check_order"
  BY DEF Idle, Request, Step, Entity
<1>c. \A r \in Thread : r \in Operators <=> r \notin Pollers
  BY <1>a DEF Thread
(* The request lets go of its item.                                        *)
<1>d. ASSUME NEW r \in Thread, End(r) \/ (CheckOrderNext(r) /\ r \in Pollers),
             UNCHANGED <<heap, shelf, file>>
      PROVE  DecisionInv'
  <2>1. /\ \A q \in Thread \ {r} : op'[q] = op[q]
        /\ op'[r].step = "idle" \/ (op'[r].step = "check_order" /\ r \in Pollers)
    BY <1>a, <1>b, <1>d DEF End, CheckOrderNext
  <2>2. Fresh(r)' /\ (r \in Operators => Settled(r)')
    BY <1>c, <2>1 DEF Fresh, Settled, AfterDecide
  <2> QED BY <1>d, <2>1, <2>2, MoveFrame
(* A poll goes on with its item.                                           *)
<1>e. ASSUME NEW r \in Pollers, NEW s \in Step \ {"put_new"}, Goto(r, s),
             UNCHANGED <<heap, shelf, file>>
      PROVE  DecisionInv'
  <2>1. r \in Thread /\ op'[r].step = s /\ \A q \in Thread \ {r} : op'[q] = op[q]
    BY <1>a, <1>e, GotoMeans DEF Thread
  <2> QED BY <1>c, <1>e, <2>1, MoveFrame DEF Fresh
(* A decision that has reached its object goes on.                         *)
<1>f. ASSUME NEW r \in Operators, NEW s \in AfterDecide, Goto(r, s), op[r].step \in AfterDecide,
             UNCHANGED <<heap, shelf, file>>
      PROVE  DecisionInv'
  <2>1. /\ r \in Thread /\ op'[r].step = s /\ op'[r].obj = op[r].obj
        /\ op'[r].entity = op[r].entity /\ \A q \in Thread \ {r} : op'[q] = op[q]
    BY <1>a, <1>f, GotoMeans DEF Thread, AfterDecide, Step
  <2>2. Settled(r)
    BY DEF DecisionInv
  <2>3. Fresh(r)' /\ Settled(r)'
    BY <1>f, <2>1, <2>2 DEF Fresh, Settled, AfterDecide
  <2> QED BY <1>f, <2>1, <2>3, MoveFrame
<1>1. ASSUME NEW r \in Pollers, NEW e \in Entity,
             Check(r, e, End(r)) \/ Check(r, e, CheckOrderNext(r))
      PROVE  DecisionInv'
  <2>0. r \in Thread
    BY DEF Thread
  <2>1. CASE Exists(e)
    BY <1>1, <1>d, <2>0, <2>1 DEF Check
  <2>2. CASE ~Exists(e)
    <3> DEFINE n == [step |-> "put_new", entity |-> e, obj |-> Len(heap) + 1, approval |-> "pending"]
    <3>1. op' = [op EXCEPT ![r] = n] /\ heap' = Append(heap, Proposed) /\ UNCHANGED <<shelf, file>>
      BY <1>1, <2>2 DEF Check
    <3>2. op'[r] = n /\ \A q \in Thread \ {r} : op'[q] = op[q]
      BY <1>a, <2>0, <3>1
    <3>3. Fresh(r)'
      BY <2>2, <3>1, <3>2 DEF Fresh, Exists
    <3>4. \A i \in 1 .. Len(heap) : heap'[i] = heap[i]
      BY <3>1 DEF TypeOK, StoreTypeOK
    <3> QED BY <1>c, <2>0, <3>1, <3>2, <3>3, <3>4, MoveFrame
  <2> QED BY <2>1, <2>2
<1>2. ASSUME NEW r \in Pollers, PutNew(r) PROVE DecisionInv'
  <2>1. r \in Thread /\ op[r].step \in Holding
    BY <1>2 DEF Thread, PutNew, Holding, Step
  <2>2. /\ op[r].entity \in Entity /\ op[r].obj # 0
        /\ shelf' = [shelf EXCEPT ![op[r].entity] = op[r].obj]
        /\ file' = [file EXCEPT ![op[r].entity] = heap[op[r].obj]] /\ heap' = heap
    BY <1>2, <2>1, ItemType DEF PutNew, Put
  <2>3. /\ op'[r].step \in {"dump", "audit_new"} /\ \A q \in Thread \ {r} : op'[q] = op[q]
    BY <1>2, <1>a, <2>1, GotoMeans DEF PutNew, Step
  <2>4. \A q \in Thread \ {r} : op[q].step # "put_new"
    BY <1>2 DEF OnePoller, DecisionInv, Fresh
  <2>5. shelf \in [Entity -> Nat] /\ file \in [Entity -> Object \cup {NoObject}]
    BY DEF TypeOK, StoreTypeOK
  <2>6. \A e \in Entity : shelf[e] # 0 => shelf'[e] # 0
    BY <2>2, <2>5
  <2>7. FileFollows'
    BY <2>2, <2>5 DEF DecisionInv, FileFollows
  <2>8. Fresh(r)' /\ r \notin Operators
    BY <1>c, <1>2, <2>1, <2>3 DEF Fresh
  <2> QED BY <2>1, <2>2, <2>3, <2>4, <2>6, <2>7, <2>8, InvFrame
<1>3. ASSUME NEW r \in Pollers, DumpCard(r) PROVE DecisionInv'
  <2>1. r \in Thread /\ op[r] \in Request
    BY <1>a DEF Thread
  <2>2. op'[r].step = "save" /\ \A q \in Thread \ {r} : op'[q] = op[q]
    BY <1>a, <1>3, <2>1 DEF DumpCard, Request
  <2> QED BY <1>c, <1>3, <2>1, <2>2, MoveFrame DEF DumpCard, Fresh
<1>4. ASSUME NEW r \in Pollers, SaveCard(r) PROVE DecisionInv'
  BY <1>4, <1>e DEF SaveCard, Step
<1>5. ASSUME NEW r \in Pollers, AuditCreated(r) PROVE DecisionInv'
  BY <1>5, <1>d DEF AuditCreated, Thread
<1>6. ASSUME NEW r \in Operators, NEW e \in Entity, NEW d \in Decision, Fetch(r, e, d)
      PROVE  DecisionInv'
  <2> DEFINE n == [step |-> "decide", entity |-> e, obj |-> shelf[e], approval |-> d]
  <2>1. r \in Thread /\ op'[r] = n /\ \A q \in Thread \ {r} : op'[q] = op[q]
    BY <1>a, <1>6 DEF Fetch, Thread
  <2>2. Fresh(r)' /\ Settled(r)'
    BY <1>6, <2>1 DEF Fetch, Fresh, Settled, AfterDecide
  <2> QED BY <1>6, <2>1, <2>2, MoveFrame DEF Fetch
<1>7. ASSUME NEW r \in Operators, Decide(r) PROVE DecisionInv'
  <2>1. r \in Thread /\ op[r].step \in Holding
    BY <1>7 DEF Thread, Decide, Holding, Step
  <2>2. op[r].obj \in 1 .. Len(heap) /\ heap[op[r].obj] \in Object /\ heap \in Seq(Object)
    BY <2>1, ItemType DEF TypeOK, StoreTypeOK
  <2>3. Settled(r) /\ op[r].approval \in Decision
    BY <1>7 DEF DecisionInv, Settled, Decide
  <2>4. heap' = [heap EXCEPT ![op[r].obj] = [heap[op[r].obj] EXCEPT !.approval = op[r].approval]]
    BY <1>7 DEF Decide
  <2>5. [heap[op[r].obj] EXCEPT !.approval = op[r].approval].approval = op[r].approval
    BY <2>2 DEF Object
  <2>6. heap'[op[r].obj].approval = op[r].approval
        /\ \A i \in 1 .. Len(heap) : i # op[r].obj => heap'[i] = heap[i]
    BY <2>2, <2>4, <2>5
  <2>7. /\ op'[r].step \in AfterDecide /\ op'[r].obj = op[r].obj
        /\ op'[r].entity = op[r].entity /\ \A q \in Thread \ {r} : op'[q] = op[q]
    BY <1>7, <1>a, <2>1, GotoMeans DEF Decide, AfterDecide, Step
  <2>8. UNCHANGED <<shelf, file>> /\ op[r].step = "decide"
    BY <1>7 DEF Decide
  <2>9. Fresh(r)' /\ Settled(r)'
    BY <2>3, <2>6, <2>7, <2>8 DEF Fresh, Settled, AfterDecide
  <2> QED BY <2>1, <2>3, <2>6, <2>7, <2>8, <2>9, MoveFrame
<1>8. ASSUME NEW r \in Operators, PutDecided(r) PROVE DecisionInv'
  <2>1. r \in Thread /\ op[r].step \in Holding
    BY <1>8 DEF Thread, PutDecided, Holding, Step
  <2>2. /\ op[r].entity \in Entity /\ op[r].obj # 0
        /\ shelf' = [shelf EXCEPT ![op[r].entity] = op[r].obj]
        /\ file' = [file EXCEPT ![op[r].entity] = heap[op[r].obj]] /\ heap' = heap
    BY <1>8, <2>1, ItemType DEF PutDecided, Put
  <2>3. Settled(r) /\ op[r].step = "put"
    BY <1>8 DEF DecisionInv, PutDecided
  <2>4. shelf \in [Entity -> Nat] /\ file \in [Entity -> Object \cup {NoObject}]
    BY DEF TypeOK, StoreTypeOK
  <2>5. \A e \in Entity : shelf[e] # 0 => shelf'[e] # 0
    BY <2>2, <2>4
  <2>6. FileFollows'
    BY <2>2, <2>4 DEF DecisionInv, FileFollows
  <2>7. \A q \in Thread \ {r} :
            op[q].step = "put_new" => shelf'[op[q].entity] = shelf[op[q].entity]
    <3> SUFFICES ASSUME NEW q \in Thread, op[q].step = "put_new"
                 PROVE  shelf'[op[q].entity] = shelf[op[q].entity]
      OBVIOUS
    <3>1. shelf[op[q].entity] = 0 /\ op[q].entity \in Entity
      BY <1>a DEF DecisionInv, Fresh, Request
    <3>2. op[q].entity # op[r].entity
      BY <2>3, <3>1 DEF Settled
    <3> QED BY <2>2, <2>4, <3>1, <3>2
  <2>8. CASE Goto(r, "set_status")
    <3>1. /\ op'[r].step = "set_status" /\ op'[r].obj = op[r].obj
          /\ op'[r].entity = op[r].entity /\ \A q \in Thread \ {r} : op'[q] = op[q]
      BY <1>a, <2>1, <2>8, GotoMeans DEF Step
    <3>2. Fresh(r)' /\ Settled(r)'
      BY <2>2, <2>3, <2>5, <3>1 DEF Fresh, Settled, AfterDecide
    <3> QED BY <2>1, <2>2, <2>5, <2>6, <2>7, <3>1, <3>2, InvFrame
  <2>9. CASE End(r)
    <3>1. op'[r].step = "idle" /\ \A q \in Thread \ {r} : op'[q] = op[q]
      BY <1>a, <1>b, <2>1, <2>9 DEF End
    <3>2. Fresh(r)' /\ Settled(r)'
      BY <3>1 DEF Fresh, Settled, AfterDecide
    <3> QED BY <2>1, <2>2, <2>5, <2>6, <2>7, <3>1, <3>2, InvFrame
  <2> QED BY <1>8, <2>8, <2>9 DEF PutDecided
<1>9. ASSUME NEW r \in Operators, SetStatus(r) PROVE DecisionInv'
  BY <1>9, <1>f DEF SetStatus, AfterDecide
<1>10. ASSUME NEW r \in Operators, AuditDecision(r) PROVE DecisionInv'
  <2>1. /\ r \in Thread /\ op[r].step \in AfterDecide /\ UNCHANGED <<heap, shelf, file>>
        /\ End(r) \/ Goto(r, "bump") \/ Goto(r, "put")
    BY <1>10 DEF AuditDecision, AfterDecide, Thread
  <2>2. "bump" \in AfterDecide /\ "put" \in AfterDecide
    BY DEF AfterDecide
  <2>3. CASE End(r)
    BY <1>d, <2>1, <2>3
  <2>4. CASE Goto(r, "bump") \/ Goto(r, "put")
    BY <1>f, <2>1, <2>2, <2>4
  <2> QED BY <2>1, <2>3, <2>4
<1>11. ASSUME NEW r \in Operators, BumpSeq(r) PROVE DecisionInv'
  <2>1. /\ r \in Thread /\ op[r].step \in AfterDecide /\ UNCHANGED <<heap, shelf, file>>
        /\ End(r) \/ Goto(r, "issue")
    BY <1>11 DEF BumpSeq, AfterDecide, Thread
  <2>2. "issue" \in AfterDecide
    BY DEF AfterDecide
  <2>3. CASE End(r)
    BY <1>d, <2>1, <2>3
  <2>4. CASE Goto(r, "issue")
    BY <1>f, <2>1, <2>2, <2>4
  <2> QED BY <2>1, <2>3, <2>4
<1>12. ASSUME NEW r \in Operators, IssueTicket(r) PROVE DecisionInv'
  <2> DEFINE n == [op[r] EXCEPT !.step = "audit_ticket", !.obj = Len(heap) + 1]
             x == [heap[op[r].obj] EXCEPT !.ticket = seq]
  <2>1. /\ r \in Thread /\ op[r] \in Request /\ op[r].step = "issue" /\ op' = [op EXCEPT ![r] = n]
        /\ heap' = Append(heap, x) /\ UNCHANGED <<shelf, file>>
    BY <1>12, <1>a DEF IssueTicket, Thread
  <2>2. n.step = "audit_ticket" /\ n.obj = Len(heap) + 1 /\ n.entity = op[r].entity
    BY <2>1 DEF Request
  <2>3. op'[r] = n /\ \A q \in Thread \ {r} : op'[q] = op[q]
    BY <1>a, <2>1
  <2>4. heap[op[r].obj] \in Object
    BY <2>1, ItemType DEF Holding, Step
  <2>5. x.approval = heap[op[r].obj].approval
    BY <2>4 DEF Object
  <2>6. Settled(r)
    BY DEF DecisionInv
  <2>7. x.approval \in Decision
    BY <2>1, <2>5, <2>6 DEF Settled, AfterDecide
  <2> HIDE DEF n, x
  <2>8. heap'[Len(heap) + 1] = x /\ \A i \in 1 .. Len(heap) : heap'[i] = heap[i]
    BY <2>1 DEF TypeOK, StoreTypeOK
  <2>9. Fresh(r)' /\ Settled(r)'
    BY <2>1, <2>2, <2>3, <2>6, <2>7, <2>8 DEF Fresh, Settled, AfterDecide
  <2> QED BY <2>1, <2>3, <2>8, <2>9, MoveFrame
<1>13. ASSUME NEW r \in Operators, AuditTicket(r) PROVE DecisionInv'
  BY <1>13, <1>f DEF AuditTicket, AfterDecide
<1>14. ASSUME Crash PROVE DecisionInv'
  <2>1. \A r \in Thread : op'[r].step = "idle"
    BY <1>14, <1>b DEF Crash
  <2>2. FileFollows'
    BY <1>14 DEF Crash, Load, FileFollows
  <2> QED BY <2>1, <2>2 DEF DecisionInv, Fresh, Settled, AfterDecide, Thread
<1> QED
  BY <1>1, <1>2, <1>3, <1>4, <1>5, <1>6, <1>7, <1>8, <1>9, <1>10, <1>11, <1>12, <1>13,
     <1>14 DEF Next, Poll, DecisionStep, CheckCard, CheckOrder, Entity

(* Only a put changes a file, and no put takes a decision back.            *)
LEMMA FileStep ==
    ASSUME TypeOK, DecisionInv, Next, NEW e \in Entity, file[e].approval \in Decision
    PROVE  file'[e].approval \in Decision
<1>1. file \in [Entity -> Object \cup {NoObject}]
  BY DEF TypeOK, StoreTypeOK
<1>2. ASSUME NEW r \in Pollers, PutNew(r) PROVE file'[e].approval \in Decision
  <2>1. r \in Thread
    BY DEF Thread
  <2>2. shelf[op[r].entity] = 0
    BY <1>2, <2>1 DEF DecisionInv, Fresh, PutNew
  <2>3. shelf[e] # 0
    BY DEF DecisionInv, FileFollows, NoObject, Decision
  <2>4. file' = [file EXCEPT ![op[r].entity] = heap[op[r].obj]]
    BY <1>2 DEF PutNew, Put
  <2> QED BY <1>1, <2>2, <2>3, <2>4
<1>3. ASSUME NEW r \in Operators, PutDecided(r) PROVE file'[e].approval \in Decision
  <2>1. heap[op[r].obj].approval \in Decision
    BY <1>3 DEF DecisionInv, Settled, PutDecided, AfterDecide
  <2>2. file' = [file EXCEPT ![op[r].entity] = heap[op[r].obj]]
    BY <1>3 DEF PutDecided, Put
  <2> QED BY <1>1, <2>1, <2>2
<1>4. CASE UNCHANGED file
  BY <1>4
<1> QED
  BY <1>2, <1>3, <1>4 DEF Next, Poll, DecisionStep, CheckCard, CheckOrder, Check, DumpCard,
     SaveCard, AuditCreated, Fetch, Decide, SetStatus, AuditDecision, BumpSeq, IssueTicket,
     AuditTicket, Crash, Load

(* With a single polling thread no decision that has reached a file is     *)
(* taken back, by no interleaving with the operators and by no restart.    *)
THEOREM DecisionsStick ==
    ASSUME OnePoller
    PROVE  Spec => DecisionSticks
<1>1. Init => DecisionInv
  BY DEF Init, StoreInit, DecisionInv, Fresh, Settled, FileFollows, Idle, AfterDecide, Thread
<1>2. TypeOK /\ DecisionInv /\ [Next]_vars => DecisionInv'
  <2> SUFFICES ASSUME TypeOK, DecisionInv, [Next]_vars PROVE DecisionInv'
    OBVIOUS
  <2>1. CASE Next
    BY <2>1, DecisionStepInv
  <2>2. CASE UNCHANGED vars
    <3>1. op' = op /\ shelf' = shelf /\ file' = file /\ heap' = heap
      BY <2>2 DEF vars
    <3> QED BY <3>1 DEF DecisionInv, Fresh, Settled, FileFollows
  <2> QED BY <2>1, <2>2
<1>3. TypeOK /\ DecisionInv /\ [Next]_vars =>
        [\A e \in Entity : file[e].approval \in Decision => file'[e].approval \in Decision]_vars
  BY FileStep
<1> QED BY <1>1, <1>2, <1>3, TypeCorrect, PTL DEF Spec, DecisionSticks

-----------------------------------------------------------------------------
(* What stands after the requests: it is in the file and in the trail.     *)

(* A store or a request has an object; no object is of both kinds of item. *)
Has(e, x) == x # 0 /\ (shelf[e] = x \/ \E q \in Thread : op[q].entity = e /\ op[q].obj = x)
Separate == \A x \in Nat : ~ (Has("card", x) /\ Has("order", x))

(* Operators work on items that the store has.                             *)
InStore == \A q \in Operators : op[q].step # "idle" => shelf[op[q].entity] # 0

(* A request that will put its item for certain: an order whose approval   *)
(* another request has overruled may still be refused its ticket.          *)
WillPut(q, e) ==
    /\ op[q].entity = e
    /\ \/ op[q].step \in {"put", "issue", "audit_ticket"}
       \/ /\ e = "order" /\ op[q].step \in {"audit", "bump"}
          /\ heap[op[q].obj].approval = op[q].approval
          /\ op[q].step = "bump" => op[q].approval = "approved"

Restored ==
    \A e \in Entity : Served(e) = file[e] \/ \E q \in Operators : WillPut(q, e)

(* Without a crash, a decision that an object shows is audited or will be. *)
WillAudit(q, e, d) ==
    /\ op[q].entity = e /\ op[q].approval = d
    /\ op[q].step = "audit" \/ (e = "card" /\ op[q].step \in {"put", "set_status"})

Accounted ==
    \A e \in Entity, d \in Decision, x \in Nat :
        Has(e, x) /\ heap[x].approval = d =>
            audited[<<e, d>>] > 0 \/ \E q \in Operators : WillAudit(q, e, d)

Announcing(q, e) == op[q].entity = e /\ op[q].step \in {"dump", "save", "audit_new"}

Announced ==
    \A e \in Entity : shelf[e] # 0 => e \in created \/ \E q \in Pollers : Announcing(q, e)

StandInv ==
    /\ Separate /\ InStore /\ Restored
    /\ crashes = 0 => Accounted /\ Announced

LEMMA HasBound ==
    ASSUME TypeOK, NEW e \in Entity, NEW x \in Nat, Has(e, x)
    PROVE  x \in 1 .. Len(heap)
<1>1. Len(heap) \in Nat /\ shelf[e] \in 0 .. Len(heap)
  BY DEF TypeOK, StoreTypeOK
<1>2. \A q \in Thread : op[q].obj \in 0 .. Len(heap)
  BY DEF TypeOK, RequestsOK, Holds
<1> QED
  BY <1>1, <1>2 DEF Has

(* One request moves: it keeps its object, drops it, takes that of the     *)
(* store or a new one, and may put it.                                     *)
Moves(r) ==
    /\ \A q \in Thread \ {r} : op'[q] = op[q]
    /\ \A e \in Entity : shelf'[e] = shelf[e] \/ (e = op[r].entity /\ shelf'[e] = op[r].obj)
    /\ \/ op'[r].obj = 0
       \/ op'[r].obj = Len(heap) + 1
       \/ op'[r].obj = op[r].obj /\ op'[r].entity = op[r].entity
       \/ op'[r].obj = shelf[op'[r].entity]

LEMMA HasMove ==
    ASSUME NEW r \in Thread, Moves(r), NEW e \in Entity, NEW x \in Nat, Has(e, x)'
    PROVE  Has(e, x) \/ (x = Len(heap) + 1 /\ op'[r].entity = e /\ op'[r].obj = x)
<1>1. CASE shelf'[e] = x
  BY <1>1 DEF Has, Moves
<1>2. CASE \E q \in Thread \ {r} : op'[q].entity = e /\ op'[q].obj = x
  BY <1>2 DEF Has, Moves
<1>3. CASE op'[r].entity = e /\ op'[r].obj = x
  BY <1>3 DEF Has, Moves
<1> QED
  BY <1>1, <1>2, <1>3 DEF Has

LEMMA SeparateMove ==
    ASSUME TypeOK, Separate, NEW r \in Thread, Moves(r)
    PROVE  Separate'
<1> SUFFICES ASSUME NEW x \in Nat, Has("card", x)', Has("order", x)' PROVE FALSE
  BY DEF Separate
<1>1. "card" \in Entity /\ "order" \in Entity /\ Len(heap) \in Nat
  BY DEF Entity, TypeOK, StoreTypeOK
<1>2. Has("card", x) \/ (x = Len(heap) + 1 /\ op'[r].entity = "card")
  BY <1>1, HasMove
<1>3. Has("order", x) \/ (x = Len(heap) + 1 /\ op'[r].entity = "order")
  BY <1>1, HasMove
<1>4. Has("card", x) => x # Len(heap) + 1
  BY <1>1, HasBound
<1>5. Has("order", x) => x # Len(heap) + 1
  BY <1>1, HasBound
<1> QED
  BY <1>2, <1>3, <1>4, <1>5 DEF Separate

(* A request moves; the objects that were there stay as they are.          *)
LEMMA StandFrame ==
    ASSUME TypeOK, StandInv, NEW r \in Thread, Moves(r), crashes' = crashes,
           \A i \in 1 .. Len(heap) : heap'[i] = heap[i],
           op'[r].obj = Len(heap) + 1 /\ heap'[Len(heap) + 1].approval \in Decision =>
               \E y \in Nat : Has(op'[r].entity, y) /\ heap[y].approval = heap'[Len(heap) + 1].approval,
           \/ /\ UNCHANGED <<shelf, file>>
              /\ \A e \in Entity : r \in Operators /\ WillPut(r, e) => WillPut(r, e)'
           \/ op[r].step \in Holding /\ Put(op[r].entity, op[r].obj),
           r \in Operators /\ op'[r].step # "idle" => shelf'[op'[r].entity] # 0,
           \A e \in Entity, d \in Decision :
               r \in Operators /\ WillAudit(r, e, d) => WillAudit(r, e, d)' \/ audited'[<<e, d>>] > 0,
           \A e \in Entity, d \in Decision : audited[<<e, d>>] > 0 => audited'[<<e, d>>] > 0,
           created \subseteq created',
           \A e \in Entity : r \in Pollers /\ Announcing(r, e) => Announcing(r, e)' \/ e \in created',
           \A e \in Entity : shelf[e] = 0 /\ shelf'[e] # 0 => r \in Pollers /\ Announcing(r, e)'
    PROVE  StandInv'
<1>0. /\ \A q \in Thread \ {r} : op'[q] = op[q]
      /\ op \in [Thread -> Request] /\ Len(heap) \in Nat
      /\ shelf \in [Entity -> 0 .. Len(heap)] /\ file \in [Entity -> Object \cup {NoObject}]
      /\ Operators \subseteq Thread /\ Pollers \subseteq Thread
  BY DEF Moves, TypeOK, StoreTypeOK, RequestsOK, Thread
<1>1. Separate'
  BY SeparateMove DEF StandInv
<1>2. InStore'
  <2>1. ASSUME NEW q \in Operators, q # r, op'[q].step # "idle" PROVE shelf'[op'[q].entity] # 0
    <3>1. op'[q] = op[q] /\ shelf[op[q].entity] # 0 /\ op[q].entity \in Entity
      BY <1>0, <2>1 DEF StandInv, InStore, Request
    <3>2. CASE UNCHANGED shelf
      BY <3>1, <3>2
    <3>3. CASE op[r].step \in Holding /\ Put(op[r].entity, op[r].obj)
      <4>1. op[r].obj # 0
        BY <3>3, ItemType
      <4> QED BY <1>0, <3>1, <3>3, <4>1 DEF Put
    <3> QED BY <3>2, <3>3
  <2> QED BY <2>1 DEF InStore
<1>3. Restored'
  <2> SUFFICES ASSUME NEW e \in Entity
               PROVE  Served(e)' = file'[e] \/ \E q \in Operators : WillPut(q, e)'
    BY DEF Restored
  <2>1. ASSUME NEW q \in Operators, q # r, WillPut(q, e) PROVE WillPut(q, e)'
    <3>1. op'[q] = op[q] /\ q \in Thread
      BY <1>0, <2>1
    <3>2. op[q].step \in Holding
      BY <2>1 DEF WillPut, Holding, Step
    <3>3. op[q].obj \in 1 .. Len(heap)
      BY <3>1, <3>2, ItemType
    <3> QED BY <2>1, <3>1, <3>3 DEF WillPut
  <2>2. shelf'[e] = shelf[e] /\ shelf[e] # 0 => heap'[shelf[e]] = heap[shelf[e]]
    BY <1>0
  <2>3. CASE /\ UNCHANGED <<shelf, file>>
            /\ \A c \in Entity : r \in Operators /\ WillPut(r, c) => WillPut(r, c)'
    <3>1. Served(e)' = Served(e) /\ file'[e] = file[e]
      BY <2>2, <2>3 DEF Served
    <3> QED BY <2>1, <2>3, <3>1 DEF StandInv, Restored
  <2>4. CASE op[r].step \in Holding /\ Put(op[r].entity, op[r].obj) /\ e = op[r].entity
    <3>1. op[r].obj \in 1 .. Len(heap) /\ shelf'[e] = op[r].obj /\ file'[e] = heap[op[r].obj]
      BY <1>0, <2>4, ItemType DEF Put
    <3> QED BY <1>0, <3>1 DEF Served
  <2>5. CASE op[r].step \in Holding /\ Put(op[r].entity, op[r].obj) /\ e # op[r].entity
    <3>1. shelf'[e] = shelf[e] /\ file'[e] = file[e] /\ heap' = heap
      BY <1>0, <2>5 DEF Put
    <3>2. Served(e)' = Served(e)
      BY <3>1 DEF Served
    <3>3. ~ WillPut(r, e)
      BY <2>5 DEF WillPut
    <3> QED BY <2>1, <3>1, <3>2, <3>3 DEF StandInv, Restored
  <2> QED BY <2>3, <2>4, <2>5
<1>4. ASSUME crashes = 0 PROVE Accounted'
  <2> SUFFICES ASSUME NEW e \in Entity, NEW d \in Decision, NEW x \in Nat, Has(e, x)', heap'[x].approval = d
               PROVE  audited'[<<e, d>>] > 0 \/ \E q \in Operators : WillAudit(q, e, d)'
    BY DEF Accounted
  <2>1. \E y \in Nat : Has(e, y) /\ heap[y].approval = d
    <3>1. CASE Has(e, x)
      BY <3>1, HasBound
    <3>2. CASE x = Len(heap) + 1 /\ op'[r].entity = e /\ op'[r].obj = x
      BY <3>2
    <3> QED BY <3>1, <3>2, HasMove
  <2>2. audited[<<e, d>>] > 0 \/ \E q \in Operators : WillAudit(q, e, d)
    BY <1>4, <2>1 DEF StandInv, Accounted
  <2>3. ASSUME NEW q \in Operators, q # r, WillAudit(q, e, d) PROVE WillAudit(q, e, d)'
    BY <1>0, <2>3 DEF WillAudit
  <2> QED BY <2>2, <2>3
<1>5. ASSUME crashes = 0 PROVE Announced'
  <2> SUFFICES ASSUME NEW e \in Entity, shelf'[e] # 0
               PROVE  e \in created' \/ \E q \in Pollers : Announcing(q, e)'
    BY DEF Announced
  <2>1. CASE shelf[e] = 0
    BY <2>1
  <2>2. CASE shelf[e] # 0
    <3>1. e \in created \/ \E q \in Pollers : Announcing(q, e)
      BY <1>5, <2>2 DEF StandInv, Announced
    <3>2. ASSUME NEW q \in Pollers, q # r, Announcing(q, e) PROVE Announcing(q, e)'
      BY <1>0, <3>2 DEF Announcing
    <3> QED BY <3>1, <3>2
  <2> QED BY <2>1, <2>2
<1> QED
  BY <1>1, <1>2, <1>3, <1>4, <1>5 DEF StandInv

(* A request goes on, or ends, and puts nothing.                           *)
LEMMA StandMove ==
    ASSUME TypeOK, StandInv, NEW r \in Thread,
           \A q \in Thread \ {r} : op'[q] = op[q],
           \/ op'[r].obj = 0
           \/ op'[r].obj = op[r].obj /\ op'[r].entity = op[r].entity /\ op[r].step \in Holding
           \/ op'[r].obj = shelf[op'[r].entity] /\ shelf[op'[r].entity] # 0 /\ op'[r].entity \in Entity,
           op'[r].obj = 0 => op'[r].step \in {"idle", "check_order"},
           r \in Operators => op'[r].step # "check_order",
           UNCHANGED <<heap, shelf, file, crashes>>,
           \A e \in Entity : r \in Operators /\ WillPut(r, e) => WillPut(r, e)',
           \A e \in Entity, d \in Decision :
               r \in Operators /\ WillAudit(r, e, d) => WillAudit(r, e, d)' \/ audited'[<<e, d>>] > 0,
           \A e \in Entity, d \in Decision : audited[<<e, d>>] > 0 => audited'[<<e, d>>] > 0,
           created \subseteq created',
           \A e \in Entity : r \in Pollers /\ Announcing(r, e) => Announcing(r, e)' \/ e \in created'
    PROVE  StandInv'
<1>1. Moves(r)
  BY DEF Moves
<1>2. /\ Len(heap) \in Nat
      /\ \A e \in Entity : shelf[e] \in 0 .. Len(heap)
      /\ op[r].step \in Holding => op[r].obj \in 1 .. Len(heap)
  BY ItemType DEF TypeOK, StoreTypeOK
<1>3. op'[r].obj # Len(heap) + 1
  BY <1>2
<1>4. r \in Operators /\ op'[r].step # "idle" => shelf[op'[r].entity] # 0
  BY <1>2 DEF StandInv, InStore, Holding, Step
<1> QED
  BY <1>1, <1>3, <1>4, StandFrame

LEMMA DecideStand ==
    ASSUME TypeOK, StandInv, NEW r \in Operators, Decide(r)
    PROVE  StandInv'
<1>0. /\ r \in Thread /\ op \in [Thread -> Request] /\ Operators \subseteq Thread
      /\ op[r].step = "decide" /\ op[r].step \in Holding
  BY DEF Decide, TypeOK, RequestsOK, Thread, Holding, Step
<1>1. /\ op[r].obj \in 1 .. Len(heap) /\ heap[op[r].obj] \in Object /\ heap \in Seq(Object)
      /\ op[r].entity \in Entity /\ Len(heap) \in Nat
  BY <1>0, ItemType DEF TypeOK, StoreTypeOK
<1>2. heap' = [heap EXCEPT ![op[r].obj] = [heap[op[r].obj] EXCEPT !.approval = op[r].approval]]
  BY DEF Decide
<1>3. [heap[op[r].obj] EXCEPT !.approval = op[r].approval].approval = op[r].approval
  BY <1>1 DEF Object
<1>4. /\ heap'[op[r].obj].approval = op[r].approval
      /\ \A i \in 1 .. Len(heap) : i # op[r].obj => heap'[i] = heap[i]
  BY <1>1, <1>2, <1>3
<1>5. UNCHANGED <<shelf, file, audited, created, crashes>>
  BY DEF Decide
<1>6. /\ op'[r].step = (IF op[r].entity = "card" THEN "put" ELSE "audit")
      /\ op'[r].obj = op[r].obj /\ op'[r].entity = op[r].entity /\ op'[r].approval = op[r].approval
      /\ \A q \in Thread \ {r} : op'[q] = op[q]
  BY <1>0, GotoMeans DEF Decide, Step
<1>7. Separate'
  <2>1. Moves(r)
    BY <1>5, <1>6 DEF Moves
  <2> QED BY <1>0, <2>1, SeparateMove DEF StandInv
<1>8. InStore'
  BY <1>0, <1>5, <1>6 DEF StandInv, InStore
<1>9. ASSUME NEW e \in Entity, NEW x \in Nat, Has(e, x), e # op[r].entity PROVE x # op[r].obj
  <2>1. Has(op[r].entity, op[r].obj)
    BY <1>0, <1>1 DEF Has
  <2>2. ~ (Has("card", x) /\ Has("order", x))
    BY <1>9 DEF StandInv, Separate
  <2> QED BY <1>1, <1>9, <2>1, <2>2 DEF Entity
<1>10. Restored'
  <2> SUFFICES ASSUME NEW e \in Entity
               PROVE  Served(e)' = file'[e] \/ \E q \in Operators : WillPut(q, e)'
    BY DEF Restored
  <2>1. CASE e = op[r].entity
    <3>1. WillPut(r, e)'
      BY <1>1, <1>4, <1>6, <2>1 DEF WillPut, Entity
    <3> QED BY <3>1
  <2>2. CASE e # op[r].entity
    <3>1. Served(e)' = Served(e)
      <4>1. CASE shelf[e] = 0
        BY <1>5, <4>1 DEF Served
      <4>2. CASE shelf[e] # 0
        <5>1. shelf[e] \in 1 .. Len(heap) /\ Has(e, shelf[e]) /\ shelf[e] \in Nat
          BY <1>1, <4>2 DEF Has, TypeOK, StoreTypeOK
        <5>2. heap'[shelf[e]] = heap[shelf[e]]
          BY <1>4, <1>9, <2>2, <5>1
        <5> QED BY <1>5, <4>2, <5>2 DEF Served
      <4> QED BY <4>1, <4>2
    <3>2. ASSUME NEW q \in Operators, WillPut(q, e) PROVE WillPut(q, e)'
      <4>1. q # r /\ q \in Thread /\ op'[q] = op[q] /\ op[q].entity = e
        BY <1>0, <1>6, <2>2, <3>2 DEF WillPut
      <4>2. op[q].obj \in 1 .. Len(heap)
        BY <3>2, <4>1, ItemType DEF WillPut, Holding, Step
      <4>3. Has(e, op[q].obj) /\ op[q].obj \in Nat
        BY <1>1, <4>1, <4>2 DEF Has
      <4>4. heap'[op[q].obj] = heap[op[q].obj]
        BY <1>4, <1>9, <2>2, <4>2, <4>3
      <4> QED BY <3>2, <4>1, <4>4 DEF WillPut
    <3> QED BY <1>5, <3>1, <3>2 DEF StandInv, Restored
  <2> QED BY <2>1, <2>2
<1>11. ASSUME crashes = 0 PROVE Accounted'
  <2> SUFFICES ASSUME NEW e \in Entity, NEW d \in Decision, NEW x \in Nat, Has(e, x)', heap'[x].approval = d
               PROVE  audited'[<<e, d>>] > 0 \/ \E q \in Operators : WillAudit(q, e, d)'
    BY DEF Accounted
  <2>1. Has(e, x)
    <3>1. Moves(r)
      BY <1>5, <1>6 DEF Moves
    <3>2. op'[r].obj # Len(heap) + 1
      BY <1>1, <1>6
    <3> QED BY <1>0, <3>1, <3>2, HasMove
  <2>2. CASE x = op[r].obj
    <3>1. e = op[r].entity
      BY <1>9, <2>1, <2>2
    <3>2. d = op[r].approval
      BY <1>4, <2>2
    <3>3. WillAudit(r, e, d)'
      BY <1>1, <1>6, <3>1, <3>2 DEF WillAudit, Entity
    <3> QED BY <3>3
  <2>3. CASE x # op[r].obj
    <3>1. heap[x].approval = d
      BY <1>4, <2>1, <2>3, HasBound
    <3>2. audited[<<e, d>>] > 0 \/ \E q \in Operators : WillAudit(q, e, d)
      BY <1>11, <2>1, <3>1 DEF StandInv, Accounted
    <3>3. ASSUME NEW q \in Operators, WillAudit(q, e, d) PROVE WillAudit(q, e, d)'
      BY <1>0, <1>6, <3>3 DEF WillAudit
    <3> QED BY <1>5, <3>2, <3>3
  <2> QED BY <2>2, <2>3
<1>12. ASSUME crashes = 0 PROVE Announced'
  <2>1. \A q \in Pollers : q \in Thread /\ q # r
    BY WorkOrdersAssumption DEF Thread
  <2> QED BY <1>5, <1>6, <1>12, <2>1 DEF StandInv, Announced, Announcing
<1> QED
  BY <1>5, <1>7, <1>8, <1>10, <1>11, <1>12 DEF StandInv

LEMMA CrashStand ==
    ASSUME TypeOK, Crash
    PROVE  StandInv'
<1>1. /\ \A q \in Thread : op'[q].step = "idle" /\ op'[q].obj = 0
      /\ crashes' # 0
      /\ Operators \subseteq Thread
  BY DEF Crash, Idle, TypeOK, Thread
<1>2. /\ file' = file
      /\ shelf' = [e \in Entity |-> IF file[e] = NoObject THEN 0 ELSE IF e = "card" THEN 1 ELSE 2]
  BY DEF Crash, Load
<1>3. Separate'
  BY <1>1, <1>2 DEF Separate, Has, Entity
<1>4. InStore'
  BY <1>1 DEF InStore
<1>5. Restored'
  <2> SUFFICES ASSUME NEW e \in Entity PROVE Served(e)' = file'[e]
    BY DEF Restored
  <2>1. CASE file[e] = NoObject
    BY <1>2, <2>1 DEF Served
  <2>2. CASE file[e] # NoObject
    <3> DEFINE a == IF file["card"] = NoObject THEN Proposed ELSE file["card"]
               b == IF file["order"] = NoObject THEN Proposed ELSE file["order"]
    <3>1. heap' = <<a, b>>
      BY DEF Crash, Load
    <3>2. e = "card" => file[e] = a
      BY <2>2
    <3>3. e = "order" => file[e] = b
      BY <2>2
    <3> HIDE DEF a, b
    <3>4. heap'[1] = a /\ heap'[2] = b
      BY <3>1
    <3>5. shelf'[e] = (IF e = "card" THEN 1 ELSE 2) /\ e \in {"card", "order"}
      BY <1>2, <2>2 DEF Entity
    <3> QED BY <1>2, <3>2, <3>3, <3>4, <3>5 DEF Served
  <2> QED BY <2>1, <2>2
<1> QED
  BY <1>1, <1>3, <1>4, <1>5 DEF StandInv

LEMMA StandStep == TypeOK /\ StandInv /\ [Next]_vars => StandInv'
<1> SUFFICES ASSUME TypeOK, StandInv, [Next]_vars PROVE StandInv'
  OBVIOUS
<1>a. /\ op \in [Thread -> Request] /\ heap \in Seq(Object) /\ Len(heap) \in Nat
      /\ shelf \in [Entity -> 0 .. Len(heap)] /\ file \in [Entity -> Object \cup {NoObject}]
      /\ audited \in [Entity \X Decision -> Nat]
      /\ \A q \in Operators : q \in Thread /\ q \notin Pollers
      /\ \A q \in Pollers : q \in Thread /\ q \notin Operators
  BY WorkOrdersAssumption DEF TypeOK, StoreTypeOK, RequestsOK, Thread
<1>b. /\ Idle.step = "idle" /\ Idle.obj = 0 /\ Idle \in Request
      /\ [Idle EXCEPT !.step = "check_order"].step = "check_order"
      /\ [Idle EXCEPT !.step = "check_order"].obj = 0
      /\ [Idle EXCEPT !.step = "check_order"] \in Request
  BY DEF Idle, Request, Step, Entity
<1>c. ASSUME NEW r \in Thread, End(r) \/ CheckOrderNext(r)
      PROVE  /\ op'[r].obj = 0 /\ op'[r].step \in {"idle", "check_order"}
             /\ End(r) => op'[r].step = "idle"
             /\ \A q \in Thread \ {r} : op'[q] = op[q]
  BY <1>a, <1>b, <1>c DEF End, CheckOrderNext
<1>1. ASSUME NEW r \in Pollers, NEW e \in Entity,
             Check(r, e, End(r)) \/ Check(r, e, CheckOrderNext(r)), op[r].step \in {"idle", "check_order"}
      PROVE  StandInv'
  <2>0. r \in Thread /\ r \notin Operators /\ ~ Announcing(r, "card") /\ ~ Announcing(r, "order")
        /\ UNCHANGED <<shelf, file, crashes, audited, created>>
    BY <1>1, <1>a DEF Announcing, Check
  <2>1. CASE Exists(e)
    <3>1. End(r) \/ CheckOrderNext(r)
      BY <1>1, <2>1 DEF Check
    <3>2. heap' = heap
      BY <1>1, <2>1 DEF Check
    <3> QED BY <1>c, <2>0, <3>1, <3>2, StandMove DEF Entity
  <2>2. CASE ~Exists(e)
    <3> DEFINE n == [step |-> "put_new", entity |-> e, obj |-> Len(heap) + 1, approval |-> "pending"]
    <3>1. op' = [op EXCEPT ![r] = n] /\ heap' = Append(heap, Proposed)
      BY <1>1, <2>2 DEF Check
    <3>2. n.obj = Len(heap) + 1
      OBVIOUS
    <3> HIDE DEF n
    <3>3. op'[r] = n /\ \A q \in Thread \ {r} : op'[q] = op[q]
      BY <1>a, <2>0, <3>1
    <3>4. Moves(r)
      BY <2>0, <3>2, <3>3 DEF Moves
    <3>5. heap'[Len(heap) + 1] = Proposed /\ \A i \in 1 .. Len(heap) : heap'[i] = heap[i]
      BY <1>a, <3>1
    <3>6. Proposed.approval \notin Decision
      BY DEF Proposed, Decision
    <3> QED BY <2>0, <3>4, <3>5, <3>6, StandFrame DEF Entity
  <2> QED BY <2>1, <2>2
<1>2. ASSUME NEW r \in Pollers, PutNew(r) PROVE StandInv'
  <2>1. r \in Thread /\ r \notin Operators /\ op[r].step \in Holding
        /\ op[r].entity \in Entity /\ op[r].obj \in 1 .. Len(heap)
    BY <1>2, <1>a, ItemType DEF PutNew, Holding, Step
  <2>2. /\ op'[r].step = (IF op[r].entity = "card" THEN "dump" ELSE "audit_new")
        /\ op'[r].obj = op[r].obj /\ op'[r].entity = op[r].entity
        /\ \A q \in Thread \ {r} : op'[q] = op[q]
    BY <1>2, <1>a, <2>1, GotoMeans DEF PutNew, Step
  <2>3. /\ Put(op[r].entity, op[r].obj) /\ heap' = heap /\ UNCHANGED <<crashes, audited, created>>
        /\ shelf' = [shelf EXCEPT ![op[r].entity] = op[r].obj]
    BY <1>2 DEF PutNew, Put
  <2>4. Moves(r)
    BY <1>a, <2>1, <2>2, <2>3 DEF Moves
  <2>5. \A e \in Entity : shelf[e] = 0 /\ shelf'[e] # 0 => Announcing(r, e)'
    BY <1>a, <2>1, <2>2, <2>3 DEF Announcing
  <2>6. \A e \in Entity : ~ Announcing(r, e)
    BY <1>2 DEF PutNew, Announcing
  <2>7. op'[r].obj # Len(heap) + 1
    BY <1>a, <2>1, <2>2
  <2> QED BY <2>1, <2>3, <2>4, <2>5, <2>6, <2>7, StandFrame
<1>3. ASSUME NEW r \in Pollers, DumpCard(r) PROVE StandInv'
  <2>1. r \in Thread /\ r \notin Operators /\ op[r] \in Request /\ op[r].step \in Holding
    BY <1>3, <1>a DEF DumpCard, Holding, Step
  <2> DEFINE n == [op[r] EXCEPT !.step = "save", !.approval = heap[op[r].obj].approval]
  <2>2. n.step = "save" /\ n.obj = op[r].obj /\ n.entity = op[r].entity
    BY <2>1 DEF Request
  <2>3. op' = [op EXCEPT ![r] = n]
    BY <1>3 DEF DumpCard
  <2> HIDE DEF n
  <2>4. op'[r] = n /\ \A q \in Thread \ {r} : op'[q] = op[q]
    BY <1>a, <2>1, <2>3
  <2>5. op[r].obj # 0
    BY <2>1, ItemType
  <2>6. UNCHANGED <<heap, shelf, file, crashes, audited, created>>
    BY <1>3 DEF DumpCard
  <2>7. \A e \in Entity : Announcing(r, e) => Announcing(r, e)'
    BY <2>2, <2>4 DEF Announcing
  <2> QED BY <2>1, <2>2, <2>4, <2>5, <2>6, <2>7, StandMove
<1>g. ASSUME NEW r \in Thread, NEW s \in Step, Goto(r, s), op[r].step \in Holding
      PROVE  /\ op'[r].step = s /\ op'[r].obj = op[r].obj /\ op'[r].obj # 0
             /\ op'[r].entity = op[r].entity /\ op'[r].approval = op[r].approval
             /\ \A q \in Thread \ {r} : op'[q] = op[q]
  BY <1>a, <1>g, GotoMeans, ItemType
<1>4. ASSUME NEW r \in Pollers, SaveCard(r) PROVE StandInv'
  <2>1. r \in Thread /\ r \notin Operators /\ op[r].step \in Holding /\ Goto(r, "audit_new")
        /\ UNCHANGED <<heap, shelf, file, crashes, audited, created>>
    BY <1>4, <1>a DEF SaveCard, Holding, Step
  <2>2. "audit_new" \in Step
    BY DEF Step
  <2>3. /\ op'[r].step = "audit_new" /\ op'[r].obj = op[r].obj /\ op'[r].obj # 0
        /\ op'[r].entity = op[r].entity
        /\ \A q \in Thread \ {r} : op'[q] = op[q]
    BY <1>g, <2>1, <2>2
  <2>4. \A e \in Entity : Announcing(r, e) => Announcing(r, e)'
    BY <2>3 DEF Announcing
  <2> QED BY <2>1, <2>3, <2>4, StandMove
<1>5. ASSUME NEW r \in Pollers, AuditCreated(r) PROVE StandInv'
  <2>1. /\ r \in Thread /\ r \notin Operators /\ created' = created \cup {op[r].entity}
        /\ End(r) \/ CheckOrderNext(r)
        /\ UNCHANGED <<heap, shelf, file, crashes, audited>>
    BY <1>5, <1>a DEF AuditCreated
  <2>2. \A e \in Entity : Announcing(r, e) => e \in created'
    BY <2>1 DEF Announcing
  <2> QED BY <1>c, <2>1, <2>2, StandMove
<1>6. ASSUME NEW r \in Operators, NEW e \in Entity, NEW d \in Decision, Fetch(r, e, d) PROVE StandInv'
  <2> DEFINE n == [step |-> "decide", entity |-> e, obj |-> shelf[e], approval |-> d]
  <2>1. op' = [op EXCEPT ![r] = n] /\ n.obj = shelf[e] /\ n.entity = e /\ n.step = "decide"
    BY <1>6 DEF Fetch
  <2> HIDE DEF n
  <2>2. r \in Thread /\ r \notin Pollers /\ op'[r] = n /\ \A q \in Thread \ {r} : op'[q] = op[q]
    BY <1>a, <2>1
  <2>3. shelf[e] # 0 /\ UNCHANGED <<heap, shelf, file, crashes, audited, created>> /\ op[r].step = "idle"
    BY <1>6 DEF Fetch
  <2>4. \A c \in Entity, b \in Decision : ~ WillPut(r, c) /\ ~ WillAudit(r, c, b)
    BY <2>3 DEF WillPut, WillAudit
  <2> QED BY <2>1, <2>2, <2>3, <2>4, StandMove DEF Decision
<1>8. ASSUME NEW r \in Operators, PutDecided(r) PROVE StandInv'
  <2>1. r \in Thread /\ r \notin Pollers /\ op[r].step = "put" /\ op[r].step \in Holding
        /\ op[r].entity \in Entity /\ op[r].obj \in 1 .. Len(heap)
    BY <1>8, <1>a, ItemType DEF PutDecided, Holding, Step
  <2>2. /\ \A q \in Thread \ {r} : op'[q] = op[q]
        /\ \/ /\ op[r].entity = "card" /\ op'[r].step = "set_status" /\ op'[r].obj = op[r].obj
              /\ op'[r].entity = op[r].entity /\ op'[r].approval = op[r].approval
           \/ op[r].entity # "card" /\ op'[r].step = "idle" /\ op'[r].obj = 0
    <3>1. CASE op[r].entity = "card"
      <4>1. Goto(r, "set_status") /\ "set_status" \in Step
        BY <1>8, <3>1 DEF PutDecided, Step
      <4> QED BY <1>g, <2>1, <3>1, <4>1
    <3>2. CASE op[r].entity # "card"
      <4>1. End(r)
        BY <1>8, <3>2 DEF PutDecided
      <4> QED BY <1>c, <2>1, <3>2, <4>1
    <3> QED BY <3>1, <3>2
  <2>3. /\ Put(op[r].entity, op[r].obj) /\ heap' = heap /\ UNCHANGED <<crashes, audited, created>>
        /\ shelf' = [shelf EXCEPT ![op[r].entity] = op[r].obj]
    BY <1>8 DEF PutDecided, Put
  <2>4. Moves(r)
    BY <1>a, <2>1, <2>2, <2>3 DEF Moves
  <2>5. \A e \in Entity : shelf[e] = 0 => shelf'[e] = 0
    BY <1>a, <2>1, <2>3 DEF StandInv, InStore
  <2>6. \A e \in Entity, d \in Decision : WillAudit(r, e, d) => WillAudit(r, e, d)'
    BY <2>1, <2>2 DEF WillAudit
  <2>7. op'[r].obj # Len(heap) + 1
    BY <1>a, <2>1, <2>2
  <2>8. op'[r].step # "idle" => shelf'[op'[r].entity] # 0
    BY <1>a, <2>1, <2>2, <2>3
  <2> QED BY <2>1, <2>2, <2>3, <2>4, <2>5, <2>6, <2>7, <2>8, StandFrame
<1>9. ASSUME NEW r \in Operators, SetStatus(r) PROVE StandInv'
  <2>1. r \in Thread /\ r \notin Pollers /\ op[r].step = "set_status" /\ op[r].step \in Holding
        /\ Goto(r, "audit") /\ "audit" \in Step
        /\ UNCHANGED <<heap, shelf, file, crashes, audited, created>>
    BY <1>9, <1>a DEF SetStatus, Holding, Step
  <2>2. /\ op'[r].step = "audit" /\ op'[r].obj = op[r].obj /\ op'[r].obj # 0
        /\ op'[r].entity = op[r].entity /\ op'[r].approval = op[r].approval
        /\ \A q \in Thread \ {r} : op'[q] = op[q]
    BY <1>g, <2>1
  <2>3. \A e \in Entity, d \in Decision : WillAudit(r, e, d) => WillAudit(r, e, d)'
    BY <2>1, <2>2 DEF WillAudit
  <2>4. \A e \in Entity : ~ WillPut(r, e)
    BY <2>1 DEF WillPut
  <2> QED BY <2>1, <2>2, <2>3, <2>4, StandMove
<1>10. ASSUME NEW r \in Operators, AuditDecision(r) PROVE StandInv'
  <2>1. r \in Thread /\ r \notin Pollers /\ op[r].step = "audit" /\ op[r].step \in Holding
        /\ op[r].entity \in Entity
        /\ UNCHANGED <<heap, shelf, file, crashes, created>>
    BY <1>10, <1>a, ItemType DEF AuditDecision, Holding, Step
  <2>2. /\ \A q \in Thread \ {r} : op'[q] = op[q]
        /\ \/ op[r].entity = "card" /\ op'[r].step = "idle" /\ op'[r].obj = 0
           \/ /\ op'[r].step = "put" \/ (op'[r].step = "bump" /\ op[r].approval = "approved")
              /\ op'[r].obj = op[r].obj /\ op'[r].obj # 0
              /\ op'[r].entity = op[r].entity /\ op'[r].approval = op[r].approval
    <3>1. CASE op[r].entity = "card"
      <4>1. End(r)
        BY <1>10, <3>1 DEF AuditDecision
      <4> QED BY <1>c, <2>1, <3>1, <4>1
    <3>2. CASE op[r].entity # "card" /\ WantsTicket(op[r].approval)
      <4>1. Goto(r, "bump") /\ "bump" \in Step /\ op[r].approval = "approved"
        BY <1>10, <3>2 DEF AuditDecision, Step, WantsTicket
      <4> QED BY <1>g, <2>1, <4>1
    <3>3. CASE op[r].entity # "card" /\ ~ WantsTicket(op[r].approval)
      <4>1. Goto(r, "put") /\ "put" \in Step
        BY <1>10, <3>3 DEF AuditDecision, Step
      <4> QED BY <1>g, <2>1, <4>1
    <3> QED BY <3>1, <3>2, <3>3
  <2>3. \A e \in Entity : WillPut(r, e) => WillPut(r, e)'
    BY <2>1, <2>2 DEF WillPut
  <2> DEFINE c == <<op[r].entity, op[r].approval>>
  <2>4. audited' = [audited EXCEPT ![c] = audited[c] + 1]
    BY <1>10 DEF AuditDecision, CountDecision
  <2>5. \A e \in Entity, d \in Decision :
          /\ <<e, d>> = c => audited'[<<e, d>>] > 0
          /\ audited[<<e, d>>] > 0 => audited'[<<e, d>>] > 0
    <3> SUFFICES ASSUME NEW e \in Entity, NEW d \in Decision
                 PROVE  /\ <<e, d>> = c => audited'[<<e, d>>] > 0
                        /\ audited[<<e, d>>] > 0 => audited'[<<e, d>>] > 0
      OBVIOUS
    <3>1. <<e, d>> \in Entity \X Decision /\ audited[<<e, d>>] \in Nat
      BY <1>a
    <3> HIDE DEF c
    <3>2. audited'[<<e, d>>] = IF <<e, d>> = c THEN audited[c] + 1 ELSE audited[<<e, d>>]
      BY <1>a, <2>4, <3>1
    <3> QED BY <3>1, <3>2
  <2>6. \A e \in Entity, d \in Decision : WillAudit(r, e, d) => audited'[<<e, d>>] > 0
    BY <2>5 DEF WillAudit
  <2> QED BY <2>1, <2>2, <2>3, <2>5, <2>6, StandMove
<1>11. ASSUME NEW r \in Operators, BumpSeq(r) PROVE StandInv'
  <2>1. r \in Thread /\ r \notin Pollers /\ op[r].step = "bump" /\ op[r].step \in Holding
        /\ UNCHANGED <<heap, shelf, file, crashes, audited, created>>
    BY <1>11, <1>a DEF BumpSeq, Holding, Step
  <2>2. \A e \in Entity, d \in Decision : ~ WillAudit(r, e, d)
    BY <2>1 DEF WillAudit
  <2>3. CASE heap[op[r].obj].approval = "approved"
    <3>1. Goto(r, "issue") /\ "issue" \in Step
      BY <1>11, <2>3 DEF BumpSeq, Step
    <3>2. /\ op'[r].step = "issue" /\ op'[r].obj = op[r].obj /\ op'[r].obj # 0
          /\ op'[r].entity = op[r].entity /\ \A q \in Thread \ {r} : op'[q] = op[q]
      BY <1>g, <2>1, <3>1
    <3>3. \A e \in Entity : WillPut(r, e) => WillPut(r, e)'
      BY <3>2 DEF WillPut
    <3> QED BY <2>1, <2>2, <3>2, <3>3, StandMove
  <2>4. CASE heap[op[r].obj].approval # "approved"
    <3>1. End(r)
      BY <1>11, <2>4 DEF BumpSeq
    <3>2. op'[r].step = "idle" /\ op'[r].obj = 0 /\ \A q \in Thread \ {r} : op'[q] = op[q]
      BY <1>c, <2>1, <3>1
    <3>3. \A e \in Entity : ~ WillPut(r, e)
      BY <2>1, <2>4 DEF WillPut
    <3> QED BY <2>1, <2>2, <3>2, <3>3, StandMove
  <2> QED BY <2>3, <2>4
<1>12. ASSUME NEW r \in Operators, IssueTicket(r) PROVE StandInv'
  <2> DEFINE n == [op[r] EXCEPT !.step = "audit_ticket", !.obj = Len(heap) + 1]
             x == [heap[op[r].obj] EXCEPT !.ticket = seq]
  <2>1. /\ r \in Thread /\ r \notin Pollers /\ op[r] \in Request /\ op[r].step = "issue"
        /\ op[r].step \in Holding
    BY <1>12, <1>a DEF IssueTicket, Holding, Step
  <2>2. op[r].obj \in 1 .. Len(heap) /\ heap[op[r].obj] \in Object /\ op[r].entity \in Entity
    BY <2>1, ItemType
  <2>3. n.step = "audit_ticket" /\ n.obj = Len(heap) + 1 /\ n.entity = op[r].entity
    BY <2>1 DEF Request
  <2>4. x.approval = heap[op[r].obj].approval
    BY <2>2 DEF Object
  <2>5. op' = [op EXCEPT ![r] = n] /\ heap' = Append(heap, x)
        /\ UNCHANGED <<shelf, file, crashes, audited, created>>
    BY <1>12 DEF IssueTicket
  <2> HIDE DEF n, x
  <2>6. op'[r] = n /\ \A q \in Thread \ {r} : op'[q] = op[q]
    BY <1>a, <2>1, <2>5
  <2>7. heap'[Len(heap) + 1] = x /\ \A i \in 1 .. Len(heap) : heap'[i] = heap[i]
    BY <1>a, <2>5
  <2>8. Moves(r)
    BY <2>3, <2>5, <2>6 DEF Moves
  <2>9. Has(op[r].entity, op[r].obj) /\ op[r].obj \in Nat
    BY <1>a, <2>1, <2>2 DEF Has
  <2>10. \A e \in Entity, d \in Decision : ~ WillAudit(r, e, d)
    BY <2>1 DEF WillAudit
  <2>11. \A e \in Entity : WillPut(r, e) => WillPut(r, e)'
    BY <2>3, <2>6 DEF WillPut
  <2>12. shelf'[op'[r].entity] # 0
    BY <2>1, <2>3, <2>5, <2>6 DEF StandInv, InStore
  <2> QED BY <2>1, <2>3, <2>4, <2>5, <2>6, <2>7, <2>8, <2>9, <2>10, <2>11, <2>12, StandFrame
<1>13. ASSUME NEW r \in Operators, AuditTicket(r) PROVE StandInv'
  <2>1. r \in Thread /\ r \notin Pollers /\ op[r].step = "audit_ticket" /\ op[r].step \in Holding
        /\ Goto(r, "put") /\ "put" \in Step
        /\ UNCHANGED <<heap, shelf, file, crashes, audited, created>>
    BY <1>13, <1>a DEF AuditTicket, Holding, Step
  <2>2. /\ op'[r].step = "put" /\ op'[r].obj = op[r].obj /\ op'[r].obj # 0
        /\ op'[r].entity = op[r].entity /\ \A q \in Thread \ {r} : op'[q] = op[q]
    BY <1>g, <2>1
  <2>3. \A e \in Entity, d \in Decision : ~ WillAudit(r, e, d)
    BY <2>1 DEF WillAudit
  <2>4. \A e \in Entity : WillPut(r, e) => WillPut(r, e)'
    BY <2>2 DEF WillPut
  <2> QED BY <2>1, <2>2, <2>3, <2>4, StandMove
<1>14. CASE UNCHANGED vars
  BY <1>14 DEF vars, StandInv, Separate, InStore, Restored, Accounted, Announced, Has, WillPut,
     WillAudit, Announcing, Served
<1> QED
  BY <1>1, <1>2, <1>3, <1>4, <1>5, <1>6, <1>8, <1>9, <1>10, <1>11, <1>12, <1>13, <1>14,
     DecideStand, CrashStand
     DEF Next, Poll, DecisionStep, CheckCard, CheckOrder, Entity

LEMMA InitStand == Init => StandInv
<1> SUFFICES ASSUME Init PROVE StandInv
  OBVIOUS
<1>1. /\ \A e \in Entity : shelf[e] = 0 /\ file[e] = NoObject
      /\ \A q \in Thread : op[q].step = "idle" /\ op[q].obj = 0
      /\ Operators \subseteq Thread
  BY DEF Init, StoreInit, Idle, Thread
<1>2. Separate /\ Accounted
  BY <1>1 DEF Separate, Accounted, Has, Entity
<1>3. InStore /\ Restored /\ Announced
  BY <1>1 DEF InStore, Restored, Served, Announced
<1> QED
  BY <1>2, <1>3 DEF StandInv

(* After the requests, a restart changes nothing that is served: who has   *)
(* changed a live object puts it afterwards, or another one does.          *)
THEOREM RestartHarmless == Spec => []RestartRestores
<1>1. StandInv => RestartRestores
  BY DEF StandInv, Restored, RestartRestores, Quiet, WillPut, Thread
<1> QED
  BY <1>1, InitStand, StandStep, TypeCorrect, PTL DEF Spec

(* Without a crash, the decision that stands after the requests, and the   *)
(* creation of its item, are in the audit trail.                           *)
THEOREM DecisionsInTrail == Spec => []DecisionsAudited
<1>1. TypeOK /\ StandInv => DecisionsAudited
  <2> SUFFICES ASSUME TypeOK, StandInv, Quiet, crashes = 0,
                      NEW e \in Entity, Served(e).approval \in Decision
               PROVE  e \in created /\ audited[<<e, Served(e).approval>>] > 0
    BY DEF DecisionsAudited
  <2>1. shelf[e] # 0 /\ Served(e) = heap[shelf[e]] /\ shelf[e] \in Nat
    BY DEF Served, NoObject, Decision, TypeOK, StoreTypeOK
  <2>2. Has(e, shelf[e])
    BY <2>1 DEF Has
  <2>3. \A q \in Thread : op[q].step = "idle"
    BY DEF Quiet
  <2>4. e \in created
    BY <2>1, <2>3 DEF StandInv, Announced, Announcing, Thread
  <2>5. audited[<<e, Served(e).approval>>] > 0
    BY <2>1, <2>2, <2>3 DEF StandInv, Accounted, WillAudit, Thread
  <2> QED BY <2>4, <2>5
<1> QED
  BY <1>1, InitStand, StandStep, TypeCorrect, PTL DEF Spec
=============================================================================
