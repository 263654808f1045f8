----------------------------- MODULE WorkOrders -----------------------------
(***************************************************************************)
(* Recommendation cards, work orders and CMMS tickets (main.py, writeback  *)
(* .py, store.py of watertwin-api): polls derive a card and a work order   *)
(* from the same asset, operators decide on them, and an approved order    *)
(* becomes a ticket of the maintenance system.                             *)
(*                                                                         *)
(* One API process with a working database.  Requests run in threads, one  *)
(* step per call that takes a lock or is visible to the others.  Scopes,   *)
(* roles, events to the bus and POST /reset are left out.                  *)
(***************************************************************************)
EXTENDS FileStore, FiniteSets

CONSTANTS
    Pollers,        \* threads that serve GET /maintenance/work-orders
    Operators,      \* threads that serve the two decision endpoints
    WriteBack,      \* CMMS_WRITE_BACK_ENABLED
    MaxDecisions,   \* bound: decisions requested
    MaxCrashes      \* bound: ends of the process

ASSUME WorkOrdersAssumption ==
    /\ Pollers \cap Operators = {} /\ IsFiniteSet(Operators)
    /\ WriteBack \in BOOLEAN /\ MaxDecisions \in Nat /\ MaxCrashes \in Nat

VARIABLES
    op,         \* the step each request is at, with its local variables
    record,     \* database: the status of the card's record
    seq,        \* _ticket_seq of the CMMS adapter, counted from 0
    issued,     \* history: how many tickets were created
    audited,    \* history: audit events, how often each decision on each item
    created,    \* history: items whose creation was audited
    decisions, crashes

vars == <<heap, shelf, file, op, record, seq, issued, audited, created, decisions, crashes>>

Step == {"idle", "put_new", "dump", "save", "audit_new", "check_order",
         "decide", "put", "set_status", "audit", "bump", "issue", "audit_ticket"}

Request == [step : Step, entity : Entity, obj : Nat, approval : Decision \cup {"pending"}]

Idle == [step |-> "idle", entity |-> "card", obj |-> 0, approval |-> "pending"]

Thread == Pollers \cup Operators

(* A request holds an item exactly while it works on one.                  *)
Holds(q, n) ==
    /\ q.obj \in 0 .. n
    /\ q.obj = 0 <=> q.step \in {"idle", "check_order"}

RequestsOK ==
    /\ op \in [Thread -> Request]
    /\ \A r \in Thread : Holds(op[r], Len(heap))

TypeOK ==
    /\ StoreTypeOK
    /\ RequestsOK
    /\ record \in Decision \cup {"none", "pending"}
    /\ seq \in Nat
    /\ issued \in Nat
    /\ audited \in [Entity \X Decision -> Nat]
    /\ created \subseteq Entity
    /\ decisions \in 0 .. MaxDecisions /\ crashes \in 0 .. MaxCrashes

Init ==
    /\ StoreInit
    /\ op = [r \in Thread |-> Idle]
    /\ record = "none" /\ seq = 0 /\ issued = 0
    /\ audited = [c \in Entity \X Decision |-> 0]
    /\ created = {}
    /\ decisions = 0 /\ crashes = 0

Goto(r, step) == op' = [op EXCEPT ![r].step = step]

(* Seeded fault: the thread keeps the item of its last request.            *)
KeepItem(r) == Goto(r, "idle")

End(r) == op' = [op EXCEPT ![r] = Idle]

-----------------------------------------------------------------------------
(* Seeded fault: every poll derives the item again.                        *)
NeverExists(e) == FALSE

Exists(e) == shelf[e] # 0

(* The item of a poll: nothing to do when the store has it.                *)
Check(r, e, next) ==
    /\ IF Exists(e)
         THEN next /\ UNCHANGED heap
         ELSE /\ heap' = Append(heap, Proposed)
              /\ op' = [op EXCEPT ![r] = [step |-> "put_new", entity |-> e,
                                          obj |-> Len(heap) + 1, approval |-> "pending"]]
    /\ UNCHANGED <<shelf, file, record, seq, issued, audited, created, decisions, crashes>>

CheckOrderNext(r) == op' = [op EXCEPT ![r] = [Idle EXCEPT !.step = "check_order"]]

CheckCard(r) == op[r].step = "idle" /\ Check(r, "card", CheckOrderNext(r))

CheckOrder(r) == op[r].step = "check_order" /\ Check(r, "order", End(r))

PutNew(r) ==
    /\ op[r].step = "put_new"
    /\ Put(op[r].entity, op[r].obj)
    /\ Goto(r, IF op[r].entity = "card" THEN "dump" ELSE "audit_new")
    /\ UNCHANGED <<record, seq, issued, audited, created, decisions, crashes>>

(* The record to save is made from the live card.                          *)
DumpCard(r) ==
    /\ op[r].step = "dump"
    /\ op' = [op EXCEPT ![r] = [@ EXCEPT !.step = "save", !.approval = heap[op[r].obj].approval]]
    /\ UNCHANGED <<heap, shelf, file, record, seq, issued, audited, created, decisions, crashes>>

(* save_recommendation: an upsert.                                         *)
SaveCard(r) ==
    /\ op[r].step = "save"
    /\ record' = op[r].approval
    /\ Goto(r, "audit_new")
    /\ UNCHANGED <<heap, shelf, file, seq, issued, audited, created, decisions, crashes>>

AuditCreated(r) ==
    /\ op[r].step = "audit_new"
    /\ created' = created \cup {op[r].entity}
    /\ IF op[r].entity = "card" THEN CheckOrderNext(r) ELSE End(r)
    /\ UNCHANGED <<heap, shelf, file, record, seq, issued, audited, decisions, crashes>>

Poll(r) ==
    \/ CheckCard(r) \/ PutNew(r) \/ DumpCard(r) \/ SaveCard(r)
    \/ AuditCreated(r) \/ CheckOrder(r)

-----------------------------------------------------------------------------
(* A decision request gets the live object; an unknown item is a 404.      *)
Fetch(r, e, d) ==
    /\ op[r].step = "idle"
    /\ shelf[e] # 0
    /\ decisions < MaxDecisions
    /\ decisions' = decisions + 1
    /\ op' = [op EXCEPT ![r] = [step |-> "decide", entity |-> e,
                                obj |-> shelf[e], approval |-> d]]
    /\ UNCHANGED <<heap, shelf, file, record, seq, issued, audited, created, crashes>>

(* A card is put first and audited last, a work order the other way round. *)
Decide(r) ==
    /\ op[r].step = "decide"
    /\ heap' = [heap EXCEPT ![op[r].obj].approval = op[r].approval]
    /\ Goto(r, IF op[r].entity = "card" THEN "put" ELSE "audit")
    /\ UNCHANGED <<shelf, file, record, seq, issued, audited, created, decisions, crashes>>

PutDecided(r) ==
    /\ op[r].step = "put"
    /\ Put(op[r].entity, op[r].obj)
    /\ IF op[r].entity = "card" THEN Goto(r, "set_status") ELSE End(r)
    /\ UNCHANGED <<record, seq, issued, audited, created, decisions, crashes>>

(* set_status: an UPDATE, which a missing row makes a no-op.               *)
SetStatus(r) ==
    /\ op[r].step = "set_status"
    /\ record' = IF record = "none" THEN record ELSE op[r].approval
    /\ Goto(r, "audit")
    /\ UNCHANGED <<heap, shelf, file, seq, issued, audited, created, decisions, crashes>>

(* Seeded fault: only approvals are audited.                               *)
CountApproval(e, d) ==
    audited' = IF d = "approved" THEN [audited EXCEPT ![<<e, d>>] = @ + 1] ELSE audited

CountDecision(e, d) == audited' = [audited EXCEPT ![<<e, d>>] = @ + 1]

(* Seeded fault: every decision goes on to the adapter.                    *)
AnyDecision(d) == WriteBack

WantsTicket(d) == WriteBack /\ d = "approved"

AuditDecision(r) ==
    /\ op[r].step = "audit"
    /\ CountDecision(op[r].entity, op[r].approval)
    /\ IF op[r].entity = "card" THEN End(r)
       ELSE Goto(r, IF WantsTicket(op[r].approval) THEN "bump" ELSE "put")
    /\ UNCHANGED <<heap, shelf, file, record, seq, issued, created, decisions, crashes>>

-----------------------------------------------------------------------------
(* create_work_order up to the increment.  An order that another request   *)
(* has turned down meanwhile is refused: 409, with nothing put.            *)
BumpSeq(r) ==
    /\ op[r].step = "bump"
    /\ IF heap[op[r].obj].approval = "approved"
         THEN seq' = seq + 1 /\ Goto(r, "issue")
         ELSE End(r) /\ UNCHANGED seq
    /\ UNCHANGED <<heap, shelf, file, record, issued, audited, created, decisions, crashes>>

(* The ticket is a copy of the order, under the number read last.          *)
IssueTicket(r) ==
    /\ op[r].step = "issue"
    /\ heap' = Append(heap, [heap[op[r].obj] EXCEPT !.ticket = seq])
    /\ issued' = issued + 1
    /\ op' = [op EXCEPT ![r] = [@ EXCEPT !.step = "audit_ticket", !.obj = Len(heap) + 1]]
    /\ UNCHANGED <<shelf, file, record, seq, audited, created, decisions, crashes>>

AuditTicket(r) ==
    /\ op[r].step = "audit_ticket"
    /\ Goto(r, "put")
    /\ UNCHANGED <<heap, shelf, file, record, seq, issued, audited, created, decisions, crashes>>

DecisionStep(r) ==
    \/ Decide(r) \/ PutDecided(r) \/ SetStatus(r) \/ AuditDecision(r)
    \/ BumpSeq(r) \/ IssueTicket(r) \/ AuditTicket(r)

-----------------------------------------------------------------------------
(* The process ends and starts again: stores load their files, the adapter *)
(* counts its tickets from the start, requests are gone.                   *)
Crash ==
    /\ crashes < MaxCrashes
    /\ crashes' = crashes + 1
    /\ Load
    /\ seq' = 0
    /\ op' = [r \in Thread |-> Idle]
    /\ UNCHANGED <<record, issued, audited, created, decisions>>

Next ==
    \/ \E r \in Pollers : Poll(r)
    \/ \E r \in Operators :
         (\E e \in Entity, d \in Decision : Fetch(r, e, d)) \/ DecisionStep(r)
    \/ Crash

Spec == Init /\ [][Next]_vars

-----------------------------------------------------------------------------
Quiet == \A r \in Thread : op[r].step = "idle"

(* Polling never resets a decision: once a file says that an item was      *)
(* decided, no later put and no restart makes it pending again, although   *)
(* every poll derives the same item as a pending one.                      *)
DecisionSticks ==
    [][\A e \in Entity :
         file[e].approval \in Decision => file'[e].approval \in Decision]_vars

(* Between requests, a restart changes nothing that is served: a decision  *)
(* made on the live object is always followed by a put of that object,     *)
(* whatever the other requests put in between.                             *)
RestartRestores ==
    Quiet => \A e \in Entity : Served(e) = file[e]

(* Without a crash, the decision that stands after the requests ended is   *)
(* in the audit trail, and so is the creation of the item.                 *)
DecisionsAudited ==
    Quiet /\ crashes = 0 =>
        \A e \in Entity :
            Served(e).approval \in Decision =>
                e \in created /\ audited[<<e, Served(e).approval>>] > 0

(* No ticket without an audited approval of its own, through crashes and   *)
(* whatever two operators decide about the same order at once.             *)
TicketsBacked == issued <= audited[<<"order", "approved">>]
=============================================================================
