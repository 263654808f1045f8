----------------------- MODULE ConfigLifecycle_proofs -----------------------
(***************************************************************************)
(* Proofs about ConfigLifecycle, for every number of requests, payloads    *)
(* and versions.                                                           *)
(***************************************************************************)
EXTENDS ConfigLifecycle, SequenceTheorems, TLAPS

-----------------------------------------------------------------------------
(* The shape of a step is told by where its request is.                    *)
LEMMA StepShape ==
    ASSUME NEW s \in Step
    PROVE  /\ s.pc = "save" => s \in Save
           /\ s.pc = "write" => s \in Edit
           /\ s.pc \in {"submit", "approve", "list"} => s \in Move
           /\ s.pc = "replace" => s \in Replace
           /\ s.pc = "audit" => s \in Audit
           /\ s.pc = "idle" => s = Idle
  BY DEF Step, Idle, Save, Edit, Move, Replace, Audit

LEMMA NextShape ==
    ASSUME NEW s \in Audit
    PROVE  s.next \in {Idle} \cup Move \cup Replace /\ s.status \in Status /\ s.about \in Nat
  BY DEF Audit

(* An operation that became another keeps the frame of all requests.       *)
LEMMA BecomeType ==
    ASSUME TypeOK, NEW r \in Request, NEW next \in Step, Become(r, next)
    PROVE  /\ op' \in [Request -> Step]
           /\ op'[r] = next
           /\ \A q \in Request : q # r => op'[q] = op[q]
  BY DEF TypeOK, Become

LEMMA ThenAuditType ==
    ASSUME TypeOK, NEW r \in Request, NEW about \in Nat, NEW status \in Status,
           NEW next \in {Idle} \cup Move \cup Replace, ThenAudit(r, about, status, next)
    PROVE  /\ op' \in [Request -> Step]
           /\ op'[r] = [pc |-> "audit", status |-> status, about |-> about, next |-> next]
           /\ op'[r] \in Audit
           /\ \A q \in Request : q # r => op'[q] = op[q]
<1> DEFINE step == [pc |-> "audit", status |-> status, about |-> about, next |-> next]
<1>1. step \in Audit
  BY DEF Audit
<1>2. step \in Step
  BY <1>1 DEF Step
<1> QED
  BY <1>1, <1>2, BecomeType DEF ThenAudit

(* Changing one field of a row keeps the rows, their numbers and places.   *)
LEMMA SetStatusFrame ==
    ASSUME versions \in Seq(Version), NEW i, NEW status \in Status, SetStatus(i, status)
    PROVE  /\ versions' \in Seq(Version)
           /\ DOMAIN versions' = DOMAIN versions
           /\ \A j \in DOMAIN versions : j # i => versions'[j] = versions[j]
           /\ \A j \in DOMAIN versions : /\ versions'[j].number = versions[j].number
                                         /\ versions'[j].content = versions[j].content
           /\ i \in DOMAIN versions => versions'[i].status = status
<1>1. \A j \in DOMAIN versions : versions[j] \in Version
  OBVIOUS
<1>2. ASSUME NEW v \in Version
      PROVE  /\ [v EXCEPT !.status = status] \in Version
             /\ [v EXCEPT !.status = status].status = status
             /\ [v EXCEPT !.status = status].number = v.number
             /\ [v EXCEPT !.status = status].content = v.content
  BY DEF Version
<1>3. versions' = [versions EXCEPT ![i] = [versions[i] EXCEPT !.status = status]]
  BY DEF SetStatus
<1>4. versions' \in Seq(Version)
  <2>1. CASE i \in DOMAIN versions
    <3>1. [versions[i] EXCEPT !.status = status] \in Version
      BY <1>1, <1>2, <2>1
    <3> QED BY <1>3, <2>1, <3>1, ExceptSeq
  <2>2. CASE i \notin DOMAIN versions
    <3>1. versions' = versions
      BY <1>3, <2>2
    <3> QED BY <3>1
  <2> QED BY <2>1, <2>2
<1> QED
  BY <1>1, <1>2, <1>3, <1>4

LEMMA WriteFrame ==
    ASSUME versions \in Seq(Version), NEW i, NEW content \in Payload,
           versions' = [versions EXCEPT ![i] = [@ EXCEPT !.content = content]]
    PROVE  /\ versions' \in Seq(Version)
           /\ DOMAIN versions' = DOMAIN versions
           /\ \A j \in DOMAIN versions : /\ versions'[j].number = versions[j].number
                                         /\ versions'[j].status = versions[j].status
           /\ \A j \in DOMAIN versions : j # i => versions'[j] = versions[j]
<1>1. \A j \in DOMAIN versions : versions[j] \in Version
  OBVIOUS
<1>2. ASSUME NEW v \in Version
      PROVE  /\ [v EXCEPT !.content = content] \in Version
             /\ [v EXCEPT !.content = content].status = v.status
             /\ [v EXCEPT !.content = content].number = v.number
  BY DEF Version
<1>4. versions' \in Seq(Version)
  <2>1. CASE i \in DOMAIN versions
    <3>1. [versions[i] EXCEPT !.content = content] \in Version
      BY <1>1, <1>2, <2>1
    <3> QED BY <2>1, <3>1, ExceptSeq
  <2>2. CASE i \notin DOMAIN versions
    <3>1. versions' = versions
      BY <2>2
    <3> QED BY <3>1
  <2> QED BY <2>1, <2>2
<1> QED
  BY <1>1, <1>2, <1>4

(* The row an insert adds is the last one.                                 *)
LEMMA SaveFrame ==
    ASSUME TypeOK, NEW r \in Request, SaveVersion(r)
    PROVE  /\ versions' \in Seq(Version)
           /\ DOMAIN versions' = DOMAIN versions \cup {Len(versions) + 1}
           /\ Len(versions) + 1 \notin DOMAIN versions
           /\ \A j \in DOMAIN versions : versions'[j] = versions[j]
           /\ versions'[Len(versions) + 1].number = op[r].number
           /\ versions'[Len(versions) + 1].status = "draft"
<1> DEFINE row == [number |-> op[r].number, status |-> "draft", content |-> op[r].content]
<1>1. row \in Version
  BY StepShape DEF TypeOK, SaveVersion, Save, Version, Status
<1>2. versions' = Append(versions, row) /\ versions \in Seq(Version)
  BY DEF SaveVersion, TypeOK
<1>4. row.number = op[r].number /\ row.status = "draft"
  OBVIOUS
<1> HIDE DEF row
<1>3. /\ versions' \in Seq(Version)
      /\ DOMAIN versions' = DOMAIN versions \cup {Len(versions) + 1}
      /\ Len(versions) + 1 \notin DOMAIN versions
      /\ \A j \in DOMAIN versions : versions'[j] = versions[j]
      /\ versions'[Len(versions) + 1] = row
  BY <1>1, <1>2, LenProperties
<1> QED
  BY <1>3, <1>4

-----------------------------------------------------------------------------
LEMMA InitTypeOK == Init => TypeOK
  BY DEF Init, TypeOK, Step

LEMMA TypeStep == TypeOK /\ [Next]_vars => TypeOK'
<1> SUFFICES ASSUME TypeOK, [Next]_vars PROVE TypeOK'
  OBVIOUS
<1> USE DEF TypeOK
<1>1. CASE UNCHANGED vars
  BY <1>1 DEF vars
<1>2. CASE Crash
  <2>1. op' \in [Request -> Step]
    BY <1>2 DEF Crash, Step
  <2>2. versions' \in Seq(Version) /\ trail' \subseteq Status \X Nat
    <3>1. (versions' = versions /\ trail' = trail) \/ (versions' = <<>> /\ trail' = {})
      BY <1>2, Zenon DEF Crash
    <3> QED BY <3>1, EmptySeq
  <2> QED BY <2>1, <2>2
<1>3. ASSUME NEW r \in Request, Begin(r) PROVE TypeOK'
  <2>1. versions' = versions /\ trail' = trail
    BY <1>3 DEF Begin, BeginCreate, BeginUpdate, BeginPublish, BeginApprove
  <2>2. \E next \in Step : Become(r, next)
    <3>1. ASSUME NEW p \in Payload, BeginCreate(r, p) PROVE \E next \in Step : Become(r, next)
      <4>1. PICK n \in 1 .. MaxVersions + 1 : Become(r, [pc |-> "save", number |-> n, content |-> p])
        BY <3>1 DEF BeginCreate
      <4>2. [pc |-> "save", number |-> n, content |-> p] \in Step
        BY ConfigAssumption DEF Step, Save
      <4> QED BY <4>1, <4>2
    <3>2. ASSUME NEW p \in Payload, BeginUpdate(r, p) PROVE \E next \in Step : Become(r, next)
      <4>1. PICK i \in DOMAIN versions : Become(r, [pc |-> "write", id |-> i, content |-> p])
        BY <3>2 DEF BeginUpdate
      <4>2. [pc |-> "write", id |-> i, content |-> p] \in Step
        BY DEF Step, Edit
      <4> QED BY <4>1, <4>2
    <3>3. ASSUME BeginPublish(r) PROVE \E next \in Step : Become(r, next)
      <4>1. PICK i \in DOMAIN versions : Become(r, [pc |-> "submit", id |-> i])
        BY <3>3 DEF BeginPublish
      <4>2. [pc |-> "submit", id |-> i] \in Step
        BY DEF Step, Move
      <4> QED BY <4>1, <4>2
    <3>4. ASSUME BeginApprove(r) PROVE \E next \in Step : Become(r, next)
      <4>1. PICK i \in DOMAIN versions : Become(r, [pc |-> "approve", id |-> i])
        BY <3>4 DEF BeginApprove
      <4>2. [pc |-> "approve", id |-> i] \in Step
        BY DEF Step, Move
      <4> QED BY <4>1, <4>2
    <3> QED BY <1>3, <3>1, <3>2, <3>3, <3>4 DEF Begin
  <2> QED BY <2>1, <2>2, BecomeType
<1>4. ASSUME NEW r \in Request, SaveVersion(r) PROVE TypeOK'
  <2>1. versions' \in Seq(Version) /\ trail' = trail
    BY <1>4, SaveFrame DEF SaveVersion
  <2>2. ThenAudit(r, Len(versions) + 1, "draft", Idle) /\ Len(versions) + 1 \in Nat
    BY <1>4 DEF SaveVersion
  <2> QED BY <2>1, <2>2, ThenAuditType DEF Status
<1>5. ASSUME NEW r \in Request, SaveStray(r) PROVE TypeOK'
  BY <1>5, ThenAuditType DEF SaveStray, Status
<1>6. ASSUME NEW r \in Request, WritePayload(r) PROVE TypeOK'
  <2>1. op[r] \in Edit
    BY <1>6, StepShape DEF WritePayload
  <2>2. op[r].id \in Nat /\ op[r].content \in Payload
    BY <2>1 DEF Edit
  <2>3. versions' \in Seq(Version)
    BY <1>6, <2>2, WriteFrame DEF WritePayload
  <2> QED BY <1>6, <2>2, <2>3, ThenAuditType DEF WritePayload, Status
<1>7. ASSUME NEW r \in Request, Submit(r) PROVE TypeOK'
  <2>1. op[r] \in Move /\ op[r].id \in Nat
    BY <1>7, StepShape DEF Submit, Move
  <2>2. SetStatus(op[r].id, "submitted") /\ ThenAudit(r, op[r].id, "submitted", Idle) /\ trail' = trail
    BY <1>7 DEF Submit
  <2> QED BY <2>1, <2>2, SetStatusFrame, ThenAuditType DEF Status
<1>8. ASSUME NEW r \in Request, MarkApproved(r) PROVE TypeOK'
  <2>1. op[r] \in Move /\ op[r].id \in Nat
    BY <1>8, StepShape DEF MarkApproved, Move
  <2>2. [pc |-> "list", id |-> op[r].id] \in Move
    BY <2>1 DEF Move
  <2>3. /\ SetStatus(op[r].id, "approved") /\ trail' = trail
        /\ ThenAudit(r, op[r].id, "approved", [pc |-> "list", id |-> op[r].id])
    BY <1>8 DEF MarkApproved
  <2> QED BY <2>1, <2>2, <2>3, SetStatusFrame, ThenAuditType DEF Status
<1>9. ASSUME NEW r \in Request, ListActive(r) PROVE TypeOK'
  <2>1. op[r] \in Move /\ op[r].id \in Nat
    BY <1>9, StepShape DEF ListActive, Move
  <2>2. [pc |-> "replace", id |-> op[r].id, rest |-> OtherActive(op[r].id)] \in Step
    BY <2>1 DEF Step, Replace, OtherActive
  <2> QED BY <1>9, <2>2, BecomeType DEF ListActive
<1>10. ASSUME NEW r \in Request, Supersede(r) PROVE TypeOK'
  <2>1. op[r] \in Replace
    BY <1>10, StepShape DEF Supersede
  <2>2. PICK j \in op[r].rest : SetStatus(j, "superseded") /\ AuditReplaced(r, j)
    BY <1>10 DEF Supersede
  <2>3. j \in Nat /\ [pc |-> "replace", id |-> op[r].id, rest |-> op[r].rest \ {j}] \in Replace
    BY <2>1 DEF Replace
  <2>4. trail' = trail
    BY <1>10 DEF Supersede
  <2> QED BY <2>2, <2>3, <2>4, SetStatusFrame, ThenAuditType DEF AuditReplaced, Status
<1>11. ASSUME NEW r \in Request, Activate(r) PROVE TypeOK'
  <2>1. op[r] \in Replace /\ op[r].id \in Nat
    BY <1>11, StepShape DEF Activate, Replace
  <2>2. SetStatus(op[r].id, "active") /\ ThenAudit(r, op[r].id, "active", Idle) /\ trail' = trail
    BY <1>11 DEF Activate
  <2> QED BY <2>1, <2>2, SetStatusFrame, ThenAuditType DEF Status
<1>12. ASSUME NEW r \in Request, AppendAudit(r) PROVE TypeOK'
  <2>1. op[r] \in Audit
    BY <1>12, StepShape DEF AppendAudit
  <2>2. op[r].next \in Step /\ <<op[r].status, op[r].about>> \in Status \X Nat
    BY <2>1, NextShape DEF Step
  <2> QED BY <1>12, <2>2, BecomeType DEF AppendAudit
<1> QED
  BY <1>1, <1>2, <1>3, <1>4, <1>5, <1>6, <1>7, <1>8, <1>9, <1>10, <1>11, <1>12
     DEF Next, Proceed, Refused, vars

(* Every variable keeps its type, whatever interleaves and whenever the    *)
(* process dies.                                                           *)
THEOREM TypeCorrect == Spec => []TypeOK
  BY InitTypeOK, TypeStep, PTL DEF Spec

-----------------------------------------------------------------------------
(* What a step may do to the rows: nothing, add one, edit a payload, set a *)
(* status, or lose them with the process.                                  *)
LEMMA RowsKeepNumbers ==
    ASSUME TypeOK, Next
    PROVE  \/ versions' = <<>>
           \/ \E r \in Request : SaveVersion(r)
           \/ /\ DOMAIN versions' = DOMAIN versions
              /\ \A i \in DOMAIN versions : versions'[i].number = versions[i].number
<1>1. versions \in Seq(Version)
  BY DEF TypeOK
<1>2. ASSUME NEW i, NEW status \in Status, SetStatus(i, status)
      PROVE  /\ DOMAIN versions' = DOMAIN versions
             /\ \A j \in DOMAIN versions : versions'[j].number = versions[j].number
  BY <1>1, <1>2, SetStatusFrame
<1>3. ASSUME NEW r \in Request, WritePayload(r)
      PROVE  /\ DOMAIN versions' = DOMAIN versions
             /\ \A j \in DOMAIN versions : versions'[j].number = versions[j].number
  <2>1. op[r].content \in Payload
    BY <1>3, StepShape DEF TypeOK, WritePayload, Edit
  <2> QED BY <1>1, <1>3, <2>1, WriteFrame DEF WritePayload
<1>4. ASSUME NEW r \in Request,
             Submit(r) \/ MarkApproved(r) \/ Supersede(r) \/ Activate(r)
      PROVE  /\ DOMAIN versions' = DOMAIN versions
             /\ \A j \in DOMAIN versions : versions'[j].number = versions[j].number
  <2>1. CASE Submit(r)
    BY <1>2, <2>1 DEF Submit, Status
  <2>2. CASE MarkApproved(r)
    BY <1>2, <2>2 DEF MarkApproved, Status
  <2>3. CASE Supersede(r)
    BY <1>2, <2>3 DEF Supersede, Status
  <2>4. CASE Activate(r)
    BY <1>2, <2>4 DEF Activate, Status
  <2> QED BY <1>4, <2>1, <2>2, <2>3, <2>4
<1>5. ASSUME NEW r \in Request,
             SaveStray(r) \/ ListActive(r) \/ AppendAudit(r) \/ Begin(r) \/ Refused(r)
      PROVE  versions' = versions
  BY <1>5 DEF SaveStray, ListActive, AppendAudit, Begin, Refused, vars,
     BeginCreate, BeginUpdate, BeginPublish, BeginApprove
<1>6. ASSUME Crash PROVE versions' = <<>> \/ versions' = versions
  BY <1>6 DEF Crash
<1> QED
  BY <1>2, <1>3, <1>4, <1>5, <1>6 DEF Next, Proceed

(* With rows in the database, its key keeps the numbers of a configuration *)
(* apart, however many requests insert at once.                            *)
THEOREM NumbersKeptApart ==
    ASSUME Durable
    PROVE  Spec => []NumbersDistinct
<1>1. Init => NumbersDistinct
  BY DEF Init, NumbersDistinct
<1>2. TypeOK /\ NumbersDistinct /\ [Next]_vars => NumbersDistinct'
  <2> SUFFICES ASSUME TypeOK, NumbersDistinct, [Next]_vars PROVE NumbersDistinct'
    OBVIOUS
  <2>1. CASE UNCHANGED vars
    BY <2>1 DEF vars, NumbersDistinct
  <2>2. CASE versions' = <<>>
    BY <2>2 DEF NumbersDistinct
  <2>3. ASSUME NEW r \in Request, SaveVersion(r) PROVE NumbersDistinct'
    <3>1. /\ DOMAIN versions' = DOMAIN versions \cup {Len(versions) + 1}
          /\ Len(versions) + 1 \notin DOMAIN versions
          /\ \A j \in DOMAIN versions : versions'[j] = versions[j]
          /\ versions'[Len(versions) + 1].number = op[r].number
      BY <2>3, SaveFrame
    <3>2. \A i \in DOMAIN versions : versions[i].number # op[r].number
      BY <2>3 DEF SaveVersion, NumberFree
    <3> QED BY <3>1, <3>2 DEF NumbersDistinct
  <2>4. CASE /\ DOMAIN versions' = DOMAIN versions
             /\ \A i \in DOMAIN versions : versions'[i].number = versions[i].number
    BY <2>4 DEF NumbersDistinct
  <2> QED BY <2>1, <2>2, <2>3, <2>4, RowsKeepNumbers
<1> QED
  BY <1>1, <1>2, TypeCorrect, PTL DEF Spec

-----------------------------------------------------------------------------
(* A status that is not in the trail yet is about to be announced by some  *)
(* request: TransitionsAudited alone is not inductive.                     *)
Announces(r, i, status) ==
    op[r].pc = "audit" /\ op[r].about = i /\ op[r].status = status

AuditInv ==
    \A i \in DOMAIN versions :
        \/ <<versions[i].status, i>> \in trail
        \/ \E r \in Request : Announces(r, i, versions[i].status)

(* A write by a request that has nothing to announce, followed by its own  *)
(* announcement, leaves no status unannounced.                             *)
LEMMA WriteAnnounced ==
    ASSUME TypeOK, AuditInv, NEW r \in Request, op[r].pc # "audit",
           NEW i \in Nat, NEW status \in Status, NEW next \in {Idle} \cup Move \cup Replace,
           SetStatus(i, status), ThenAudit(r, i, status, next), UNCHANGED trail
    PROVE  AuditInv'
<1>1. /\ DOMAIN versions' = DOMAIN versions
      /\ \A j \in DOMAIN versions : j # i => versions'[j] = versions[j]
      /\ i \in DOMAIN versions => versions'[i].status = status
  BY SetStatusFrame DEF TypeOK
<1>2. /\ op'[r] = [pc |-> "audit", status |-> status, about |-> i, next |-> next]
      /\ \A q \in Request : q # r => op'[q] = op[q]
  BY ThenAuditType
<1>3. op'[r].pc = "audit" /\ op'[r].about = i /\ op'[r].status = status
  BY <1>2
<1>4. ASSUME NEW j \in DOMAIN versions, NEW q \in Request, Announces(q, j, versions[j].status)
      PROVE  op'[q].pc = "audit" /\ op'[q].about = j /\ op'[q].status = versions[j].status
  <2>1. q # r /\ op'[q] = op[q]
    BY <1>2, <1>4 DEF Announces
  <2> QED BY <1>4, <2>1 DEF Announces
<1>5. ASSUME NEW j \in DOMAIN versions'
      PROVE  <<versions'[j].status, j>> \in trail'
             \/ \E q \in Request : /\ op'[q].pc = "audit" /\ op'[q].about = j
                                  /\ op'[q].status = versions'[j].status
  <2>1. CASE j = i
    BY <1>1, <1>3, <2>1
  <2>2. CASE j # i
    BY <1>1, <1>4, <2>2 DEF AuditInv
  <2> QED BY <2>1, <2>2
<1> QED
  BY <1>5 DEF AuditInv, Announces

(* A step of a request that has nothing to announce and that changes no    *)
(* status leaves every announcement where it is.                           *)
LEMMA QuietStep ==
    ASSUME AuditInv, NEW r \in Request, op[r].pc # "audit",
           \A q \in Request : q # r => op'[q] = op[q], UNCHANGED trail,
           DOMAIN versions' = DOMAIN versions,
           \A j \in DOMAIN versions : versions'[j].status = versions[j].status
    PROVE  AuditInv'
<1>1. ASSUME NEW j \in DOMAIN versions, NEW q \in Request, Announces(q, j, versions[j].status)
      PROVE  op'[q].pc = "audit" /\ op'[q].about = j /\ op'[q].status = versions'[j].status
  <2>1. q # r /\ op'[q] = op[q]
    BY <1>1 DEF Announces
  <2> QED BY <1>1, <2>1 DEF Announces
<1> QED
  BY <1>1 DEF AuditInv, Announces

LEMMA AuditStep ==
    ASSUME ~MayCrash, TypeOK, AuditInv, Next
    PROVE  AuditInv'
<1>1. ~Crash
  BY DEF Crash
<1>2. ASSUME NEW r \in Request, Refused(r) PROVE AuditInv'
  BY <1>2 DEF Refused, vars, AuditInv, Announces
<1>3. ASSUME NEW r \in Request, Begin(r) \/ ListActive(r) PROVE AuditInv'
  <2>1. op[r].pc # "audit" /\ UNCHANGED trail /\ versions' = versions
    BY <1>3 DEF Begin, BeginCreate, BeginUpdate, BeginPublish, BeginApprove, ListActive, Idle
  <2>2. \E next : op' = [op EXCEPT ![r] = next]
    BY <1>3 DEF Begin, BeginCreate, BeginUpdate, BeginPublish, BeginApprove, ListActive, Become
  <2>3. \A q \in Request : q # r => op'[q] = op[q]
    BY <2>2 DEF TypeOK
  <2> QED BY <2>1, <2>3, QuietStep
<1>4. ASSUME NEW r \in Request, SaveVersion(r) PROVE AuditInv'
  <2> DEFINE new == Len(versions) + 1
  <2>1. /\ DOMAIN versions' = DOMAIN versions \cup {new}
        /\ \A j \in DOMAIN versions : versions'[j] = versions[j]
        /\ versions'[new].status = "draft"
    BY <1>4, SaveFrame
  <2>2. ThenAudit(r, new, "draft", Idle) /\ new \in Nat /\ op[r].pc # "audit" /\ trail' = trail
    BY <1>4 DEF SaveVersion, TypeOK
  <2> HIDE DEF new
  <2>3. /\ op'[r] = [pc |-> "audit", status |-> "draft", about |-> new, next |-> Idle]
        /\ \A q \in Request : q # r => op'[q] = op[q]
    BY <2>2, ThenAuditType DEF Status
  <2>4. op'[r].pc = "audit" /\ op'[r].about = new /\ op'[r].status = versions'[new].status
    BY <2>1, <2>3
  <2>5. ASSUME NEW j \in DOMAIN versions, NEW q \in Request, Announces(q, j, versions[j].status)
        PROVE  op'[q].pc = "audit" /\ op'[q].about = j /\ op'[q].status = versions'[j].status
    <3>1. q # r /\ op'[q] = op[q]
      BY <2>2, <2>3, <2>5 DEF Announces
    <3> QED BY <2>1, <2>5, <3>1 DEF Announces
  <2> QED BY <2>1, <2>2, <2>4, <2>5 DEF AuditInv, Announces
<1>5. ASSUME NEW r \in Request, SaveStray(r) PROVE AuditInv'
  <2>1. op[r].pc # "audit" /\ UNCHANGED trail /\ versions' = versions
    BY <1>5 DEF SaveStray
  <2>2. \A q \in Request : q # r => op'[q] = op[q]
    BY <1>5, ThenAuditType DEF SaveStray, Status
  <2> QED BY <2>1, <2>2, QuietStep
<1>6. ASSUME NEW r \in Request, WritePayload(r) PROVE AuditInv'
  <2>1. op[r].id \in Nat /\ op[r].content \in Payload /\ op[r].pc # "audit"
    BY <1>6, StepShape DEF TypeOK, WritePayload, Edit
  <2>2. /\ DOMAIN versions' = DOMAIN versions
        /\ \A j \in DOMAIN versions : versions'[j].status = versions[j].status
    BY <1>6, <2>1, WriteFrame DEF TypeOK, WritePayload
  <2>3. \A q \in Request : q # r => op'[q] = op[q]
    BY <1>6, <2>1, ThenAuditType DEF WritePayload, Status
  <2> QED BY <1>6, <2>1, <2>2, <2>3, QuietStep DEF WritePayload
<1>7. ASSUME NEW r \in Request, Submit(r) PROVE AuditInv'
  <2>1. op[r].id \in Nat /\ op[r].pc # "audit" /\ trail' = trail
    BY <1>7, StepShape DEF TypeOK, Submit, Move
  <2> QED BY <1>7, <2>1, WriteAnnounced DEF Submit, Status
<1>8. ASSUME NEW r \in Request, MarkApproved(r) PROVE AuditInv'
  <2>1. op[r].id \in Nat /\ op[r].pc # "audit" /\ trail' = trail
    BY <1>8, StepShape DEF TypeOK, MarkApproved, Move
  <2>2. [pc |-> "list", id |-> op[r].id] \in Move
    BY <2>1 DEF Move
  <2> QED BY <1>8, <2>1, <2>2, WriteAnnounced DEF MarkApproved, Status
<1>9. ASSUME NEW r \in Request, Supersede(r) PROVE AuditInv'
  <2>1. op[r] \in Replace /\ op[r].pc # "audit" /\ trail' = trail
    BY <1>9, StepShape DEF TypeOK, Supersede
  <2>2. PICK j \in op[r].rest : SetStatus(j, "superseded") /\ AuditReplaced(r, j)
    BY <1>9 DEF Supersede
  <2>3. j \in Nat /\ [pc |-> "replace", id |-> op[r].id, rest |-> op[r].rest \ {j}] \in Replace
    BY <2>1 DEF Replace
  <2> QED BY <2>1, <2>2, <2>3, WriteAnnounced DEF AuditReplaced, Status
<1>10. ASSUME NEW r \in Request, Activate(r) PROVE AuditInv'
  <2>1. op[r].id \in Nat /\ op[r].pc # "audit" /\ trail' = trail
    BY <1>10, StepShape DEF TypeOK, Activate, Replace
  <2> QED BY <1>10, <2>1, WriteAnnounced DEF Activate, Status
<1>11. ASSUME NEW r \in Request, AppendAudit(r) PROVE AuditInv'
  <2>1. versions' = versions /\ trail' = trail \cup {<<op[r].status, op[r].about>>}
    BY <1>11 DEF AppendAudit
  <2>2. \A q \in Request : q # r => op'[q] = op[q]
    BY <1>11 DEF AppendAudit, Become, TypeOK
  <2>3. ASSUME NEW j \in DOMAIN versions, NEW q \in Request, Announces(q, j, versions[j].status)
        PROVE  \/ <<versions[j].status, j>> \in trail'
               \/ op'[q].pc = "audit" /\ op'[q].about = j /\ op'[q].status = versions[j].status
    <3>1. CASE q = r
      BY <2>1, <2>3, <3>1 DEF Announces
    <3>2. CASE q # r
      BY <2>2, <2>3, <3>2 DEF Announces
    <3> QED BY <3>1, <3>2
  <2> QED BY <2>1, <2>3 DEF AuditInv, Announces
<1> QED
  BY <1>1, <1>2, <1>3, <1>4, <1>5, <1>6, <1>7, <1>8, <1>9, <1>10, <1>11 DEF Next, Proceed

(* Unless the process dies, every status that a version has when no        *)
(* request is in progress was announced in the trail, whatever             *)
(* interleaved.                                                            *)
THEOREM EveryTransitionAudited ==
    ASSUME ~MayCrash
    PROVE  Spec => []TransitionsAudited
<1>1. Init => AuditInv
  BY DEF Init, AuditInv
<1>2. TypeOK /\ AuditInv /\ [Next]_vars => AuditInv'
  <2>1. ASSUME AuditInv, UNCHANGED vars PROVE AuditInv'
    BY <2>1 DEF vars, AuditInv, Announces
  <2> QED BY <2>1, AuditStep
<1>3. AuditInv => TransitionsAudited
  BY DEF AuditInv, TransitionsAudited, Announces, Idle
<1> QED
  BY <1>1, <1>2, <1>3, TypeCorrect, PTL DEF Spec

-----------------------------------------------------------------------------
(* One request at a time.  What the request read is still so when it       *)
(* writes, which the two invariants alone do not say; the process may die  *)
(* between any two writes.                                                 *)
Ready(s) ==
    /\ s.pc = "save" => NobodyInFlight
    /\ s.pc \in {"write", "submit"} => At(s.id, {"draft"})
    /\ s.pc = "approve" => At(s.id, {"submitted"})
    /\ s.pc = "list" => At(s.id, {"approved"})
    /\ s.pc = "replace" => At(s.id, {"approved"}) /\ s.rest = OtherActive(s.id)

SerialInv(r) ==
    /\ OneActive
    /\ OneInFlight
    /\ Ready(op[r])
    /\ op[r].pc = "audit" => Ready(op[r].next)

(* A move forward between two statuses of the same kind, in flight or not, *)
(* or out of flight, keeps what there is at most one of.                   *)
LEMMA MoveKeepsOne ==
    ASSUME TypeOK, OneActive, OneInFlight, NEW i \in DOMAIN versions, NEW status \in Status,
           SetStatus(i, status),
           status \in InFlight => versions[i].status \in InFlight,
           status = "active" => OtherActive(i) = {}
    PROVE  OneActive' /\ OneInFlight'
<1>1. /\ DOMAIN versions' = DOMAIN versions
      /\ \A j \in DOMAIN versions : j # i => versions'[j] = versions[j]
      /\ versions'[i].status = status
  BY SetStatusFrame DEF TypeOK
<1>2. ASSUME NEW j \in DOMAIN versions, j # i, At(j, {"active"})', At(i, {"active"})' PROVE FALSE
  <2>1. status = "active" /\ versions[j].status = "active"
    BY <1>1, <1>2 DEF At
  <2> QED BY <1>2, <2>1 DEF OtherActive
<1>3. ASSUME NEW j \in DOMAIN versions, j # i, At(j, InFlight)', At(i, InFlight)' PROVE FALSE
  <2>1. versions[i].status \in InFlight /\ versions[j].status \in InFlight
    BY <1>1, <1>3 DEF At
  <2> QED BY <1>3, <2>1 DEF OneInFlight, At
<1>4. ASSUME NEW j \in DOMAIN versions, NEW k \in DOMAIN versions, j # i, k # i
      PROVE  /\ At(j, {"active"})' /\ At(k, {"active"})' => j = k
             /\ At(j, InFlight)' /\ At(k, InFlight)' => j = k
  BY <1>1, <1>4 DEF OneActive, OneInFlight, At
<1> QED
  BY <1>1, <1>2, <1>3, <1>4 DEF OneActive, OneInFlight

(* The audit event that follows a write does not look at what comes next.  *)
LEMMA SerialAudit ==
    ASSUME TypeOK, NEW r \in Request, NEW about \in Nat, NEW status \in Status,
           NEW next \in {Idle} \cup Move \cup Replace, ThenAudit(r, about, status, next),
           OneActive', OneInFlight', Ready(next)'
    PROVE  SerialInv(r)'
<1>1. op'[r] = [pc |-> "audit", status |-> status, about |-> about, next |-> next]
  BY ThenAuditType
<1>2. op'[r].pc = "audit" /\ op'[r].next = next
  BY <1>1
<1> QED
  BY <1>2 DEF SerialInv, Ready

LEMMA IdleReady == Ready(Idle)'
  BY DEF Ready, Idle

(* A request that has just read what its checks asked for.                 *)
LEMMA SerialBegin ==
    ASSUME TypeOK, NEW r \in Request, SerialInv(r), Begin(r)
    PROVE  SerialInv(r)'
<1>1. versions' = versions
  BY DEF Begin, BeginCreate, BeginUpdate, BeginPublish, BeginApprove
<1>2. ASSUME NEW p \in Payload, BeginCreate(r, p) PROVE SerialInv(r)'
  <2>1. PICK n \in 1 .. MaxVersions + 1 : op' = [op EXCEPT ![r] = [pc |-> "save", number |-> n, content |-> p]]
    BY <1>2 DEF BeginCreate, Become
  <2>2. op'[r].pc = "save"
    BY <2>1 DEF TypeOK
  <2> QED BY <1>1, <1>2, <2>2 DEF SerialInv, Ready, BeginCreate, NobodyInFlight,
             OneActive, OneInFlight, At
<1>3. ASSUME NEW p \in Payload, BeginUpdate(r, p) PROVE SerialInv(r)'
  <2>1. PICK i \in DOMAIN versions : /\ versions[i].status = "draft"
                                    /\ op' = [op EXCEPT ![r] = [pc |-> "write", id |-> i, content |-> p]]
    BY <1>3 DEF BeginUpdate, Editable, Become
  <2>2. op'[r].pc = "write" /\ op'[r].id = i
    BY <2>1 DEF TypeOK
  <2> QED BY <1>1, <2>1, <2>2 DEF SerialInv, Ready, OneActive, OneInFlight, At
<1>4. ASSUME BeginPublish(r) PROVE SerialInv(r)'
  <2>1. PICK i \in DOMAIN versions : /\ versions[i].status = "draft"
                                    /\ op' = [op EXCEPT ![r] = [pc |-> "submit", id |-> i]]
    BY <1>4 DEF BeginPublish, Become
  <2>2. op'[r].pc = "submit" /\ op'[r].id = i
    BY <2>1 DEF TypeOK
  <2> QED BY <1>1, <2>1, <2>2 DEF SerialInv, Ready, OneActive, OneInFlight, At
<1>5. ASSUME BeginApprove(r) PROVE SerialInv(r)'
  <2>1. PICK i \in DOMAIN versions : /\ versions[i].status = "submitted"
                                    /\ op' = [op EXCEPT ![r] = [pc |-> "approve", id |-> i]]
    BY <1>5 DEF BeginApprove, MayApprove, Become
  <2>2. op'[r].pc = "approve" /\ op'[r].id = i
    BY <2>1 DEF TypeOK
  <2> QED BY <1>1, <2>1, <2>2 DEF SerialInv, Ready, OneActive, OneInFlight, At
<1> QED
  BY <1>2, <1>3, <1>4, <1>5 DEF Begin

LEMMA SerialProceed ==
    ASSUME TypeOK, NEW r \in Request, SerialInv(r), Proceed(r)
    PROVE  SerialInv(r)'
<1>1. OneActive /\ OneInFlight /\ Ready(op[r])
  BY DEF SerialInv
<1>2. CASE SaveVersion(r)
  <2>1. /\ DOMAIN versions' = DOMAIN versions \cup {Len(versions) + 1}
        /\ \A j \in DOMAIN versions : versions'[j] = versions[j]
        /\ versions'[Len(versions) + 1].status = "draft"
    BY <1>2, SaveFrame
  <2>2. \A i \in DOMAIN versions : versions[i].status \notin InFlight
    BY <1>1, <1>2 DEF Ready, SaveVersion, NobodyInFlight
  <2>3. OneActive' /\ OneInFlight'
    BY <1>1, <2>1, <2>2 DEF OneActive, OneInFlight, At
  <2>4. ThenAudit(r, Len(versions) + 1, "draft", Idle) /\ Len(versions) + 1 \in Nat
    BY <1>2 DEF SaveVersion, TypeOK
  <2> QED BY <2>3, <2>4, SerialAudit, IdleReady DEF Status
<1>3. CASE SaveStray(r)
  <2>1. OneActive' /\ OneInFlight' /\ ThenAudit(r, 0, "draft", Idle)
    BY <1>1, <1>3 DEF SaveStray, OneActive, OneInFlight, At
  <2> QED BY <2>1, SerialAudit, IdleReady DEF Status
<1>4. CASE WritePayload(r)
  <2>1. op[r].id \in Nat /\ op[r].content \in Payload
    BY <1>4, StepShape DEF TypeOK, WritePayload, Edit
  <2>2. /\ DOMAIN versions' = DOMAIN versions
        /\ \A j \in DOMAIN versions : versions'[j].status = versions[j].status
    BY <1>4, <2>1, WriteFrame DEF TypeOK, WritePayload
  <2>3. OneActive' /\ OneInFlight'
    BY <1>1, <2>2 DEF OneActive, OneInFlight, At
  <2> QED BY <1>4, <2>1, <2>3, SerialAudit, IdleReady DEF WritePayload, Status
<1>5. CASE Submit(r)
  <2>1. /\ op[r].id \in DOMAIN versions /\ op[r].id \in Nat
        /\ versions[op[r].id].status = "draft"
        /\ SetStatus(op[r].id, "submitted")
    BY <1>1, <1>5 DEF Ready, At, Submit, TypeOK
  <2>2. OneActive' /\ OneInFlight'
    BY <1>1, <2>1, MoveKeepsOne DEF Status, InFlight
  <2> QED BY <1>5, <2>1, <2>2, SerialAudit, IdleReady DEF Submit, Status
<1>6. CASE MarkApproved(r)
  <2>0. op[r].id \in DOMAIN versions /\ versions[op[r].id].status = "submitted"
    BY <1>1, <1>6 DEF Ready, At, MarkApproved
  <2>1. PICK i \in DOMAIN versions : op[r].id = i
    BY <2>0
  <2> DEFINE next == [pc |-> "list", id |-> i]
  <2>2. versions[i].status = "submitted" /\ SetStatus(i, "approved") /\ ThenAudit(r, i, "approved", next)
    BY <1>6, <2>0, <2>1 DEF MarkApproved
  <2>3. OneActive' /\ OneInFlight'
    BY <1>1, <2>2, MoveKeepsOne DEF Status, InFlight
  <2>4. i \in Nat /\ next \in Move /\ next.pc = "list" /\ next.id = i
    BY DEF Move, TypeOK
  <2>5. i \in DOMAIN versions' /\ versions'[i].status = "approved"
    BY <2>2, SetStatusFrame DEF TypeOK, Status
  <2> HIDE DEF next
  <2>6. Ready(next)'
    BY <2>4, <2>5 DEF Ready, At
  <2> QED BY <2>2, <2>3, <2>4, <2>6, SerialAudit DEF Status
<1>7. CASE ListActive(r)
  <2>1. /\ op' = [op EXCEPT ![r] = [pc |-> "replace", id |-> op[r].id, rest |-> OtherActive(op[r].id)]]
        /\ versions' = versions
        /\ At(op[r].id, {"approved"})
    BY <1>1, <1>7 DEF ListActive, Become, Ready
  <2>2. op'[r].pc = "replace" /\ op'[r].id = op[r].id /\ op'[r].rest = OtherActive(op[r].id)
    BY <2>1 DEF TypeOK
  <2> QED BY <1>1, <2>1, <2>2 DEF SerialInv, Ready, OneActive, OneInFlight, At, OtherActive
<1>8. CASE Supersede(r)
  <2>1. /\ op[r].pc = "replace" /\ op[r] \in Replace
        /\ op[r].id \in DOMAIN versions /\ versions[op[r].id].status = "approved"
        /\ op[r].rest = OtherActive(op[r].id)
    BY <1>1, <1>8, StepShape DEF Ready, At, Supersede, TypeOK
  <2>2. PICK i \in DOMAIN versions : op[r].id = i
    BY <2>1
  <2>3. PICK rest \in SUBSET DOMAIN versions : op[r].rest = rest
    BY <2>1 DEF OtherActive
  <2>4. PICK j \in rest : SetStatus(j, "superseded") /\ AuditReplaced(r, j)
    BY <1>8, <2>3 DEF Supersede
  <2> DEFINE next == [pc |-> "replace", id |-> i, rest |-> rest \ {j}]
  <2>5. ThenAudit(r, j, "superseded", next)
    BY <2>2, <2>3, <2>4 DEF AuditReplaced
  <2>6. j \in DOMAIN versions /\ j # i /\ versions[j].status = "active" /\ rest = OtherActive(i)
    BY <2>1, <2>2, <2>3 DEF OtherActive
  <2>7. OneActive' /\ OneInFlight'
    BY <1>1, <2>4, <2>6, MoveKeepsOne DEF Status, InFlight
  <2>8. /\ DOMAIN versions' = DOMAIN versions
        /\ \A k \in DOMAIN versions : k # j => versions'[k] = versions[k]
        /\ versions'[j].status = "superseded"
    BY <2>4, <2>6, SetStatusFrame DEF TypeOK, Status
  <2>9. OtherActive(i)' = rest \ {j}
    BY <2>6, <2>8 DEF OtherActive
  <2>10. /\ next \in Replace /\ next.pc = "replace" /\ next.id = i
         /\ next.rest = rest \ {j} /\ j \in Nat
    <3>1. DOMAIN versions \subseteq Nat
      BY DEF TypeOK
    <3> QED BY <2>6, <3>1 DEF Replace
  <2>11. i \in DOMAIN versions' /\ versions'[i].status = "approved"
    BY <2>1, <2>2, <2>6, <2>8
  <2> HIDE DEF next
  <2>12. Ready(next)'
    BY <2>9, <2>10, <2>11 DEF Ready, At
  <2> QED BY <2>5, <2>7, <2>10, <2>12, SerialAudit DEF Status
<1>9. CASE Activate(r)
  <2>1. /\ op[r].id \in DOMAIN versions /\ op[r].id \in Nat
        /\ OtherActive(op[r].id) = {}
        /\ SetStatus(op[r].id, "active")
    BY <1>1, <1>9 DEF Ready, At, Activate, TypeOK
  <2>2. OneActive' /\ OneInFlight'
    BY <1>1, <2>1, MoveKeepsOne DEF Status, InFlight
  <2> QED BY <1>9, <2>1, <2>2, SerialAudit, IdleReady DEF Activate, Status
<1>10. CASE AppendAudit(r)
  <2>1. op[r] \in Audit /\ op'[r] = op[r].next /\ versions' = versions /\ op[r].pc = "audit"
    BY <1>10, StepShape DEF AppendAudit, Become, TypeOK
  <2>2. Ready(op[r].next)
    BY <2>1 DEF SerialInv
  <2>3. op[r].next.pc # "audit"
    BY <2>1, NextShape DEF Idle, Move, Replace
  <2>4. PICK next : next = op[r].next
    OBVIOUS
  <2>5. Ready(next)'
    BY <2>1, <2>2, <2>4 DEF Ready, At, OtherActive, NobodyInFlight
  <2> QED BY <1>1, <2>1, <2>3, <2>4, <2>5 DEF SerialInv, OneActive, OneInFlight, At
<1> QED
  BY <1>2, <1>3, <1>4, <1>5, <1>6, <1>7, <1>8, <1>9, <1>10 DEF Proceed

LEMMA SerialHolds ==
    ASSUME NEW r, Request = {r}
    PROVE  Spec => []SerialInv(r)
<1>1. Init => SerialInv(r)
  BY DEF Init, SerialInv, OneActive, OneInFlight, Ready, At, Idle
<1>2. TypeOK /\ SerialInv(r) /\ [Next]_vars => SerialInv(r)'
  <2> SUFFICES ASSUME TypeOK, SerialInv(r), [Next]_vars PROVE SerialInv(r)'
    OBVIOUS
  <2>1. CASE UNCHANGED vars
    BY <2>1 DEF vars, SerialInv, OneActive, OneInFlight, Ready, At, OtherActive, NobodyInFlight
  <2>2. CASE Crash
    <3>1. versions' = versions \/ versions' = <<>>
      BY <2>2, Zenon DEF Crash
    <3>2. OneActive' /\ OneInFlight'
      BY <3>1 DEF SerialInv, OneActive, OneInFlight, At
    <3>3. op'[r].pc = "idle"
      BY <2>2 DEF Crash, Idle
    <3> QED BY <3>2, <3>3 DEF SerialInv, Ready
  <2>3. CASE Begin(r)
    BY <2>3, SerialBegin
  <2>4. CASE Proceed(r)
    BY <2>4, SerialProceed
  <2> QED BY <2>1, <2>2, <2>3, <2>4 DEF Next, Refused
<1> QED
  BY <1>1, <1>2, TypeCorrect, PTL DEF Spec

(* One request at a time, wherever the process dies: at most one version   *)
(* of a configuration is active.                                           *)
THEOREM NeverTwoActive ==
    ASSUME NEW r, Request = {r}
    PROVE  Spec => []OneActive
<1>1. SerialInv(r) => OneActive
  BY DEF SerialInv
<1> QED
  BY <1>1, SerialHolds, PTL

(* One request at a time: at most one version is on its way.               *)
THEOREM NeverTwoInFlight ==
    ASSUME NEW r, Request = {r}
    PROVE  Spec => []OneInFlight
<1>1. SerialInv(r) => OneInFlight
  BY DEF SerialInv
<1> QED
  BY <1>1, SerialHolds, PTL

-----------------------------------------------------------------------------
(* What one request does to a row that stays: its payload changes while it *)
(* is a draft, its status moves forward.                                   *)
LEMMA RankValues ==
    /\ Rank("draft") = 1 /\ Rank("submitted") = 2 /\ Rank("approved") = 3
    /\ Rank("active") = 4 /\ Rank("superseded") = 5
    /\ \A s \in Status : Rank(s) \in 1 .. 5
  BY DEF Rank, Status

LEMMA RowStatus == TypeOK => \A i \in DOMAIN versions : versions[i].status \in Status
<1> SUFFICES ASSUME TypeOK, NEW i \in DOMAIN versions PROVE versions[i].status \in Status
  OBVIOUS
<1>1. versions[i] \in Version
  BY DEF TypeOK
<1> QED
  BY <1>1 DEF Version

LEMMA SameRows ==
    ASSUME TypeOK,
           \A i \in DOMAIN versions \cap DOMAIN versions' : versions'[i] = versions[i]
    PROVE  PayloadFrozen /\ StatusForward
<1>1. \A i \in DOMAIN versions : versions[i].status \in Status
  BY RowStatus
<1> QED
  BY <1>1, RankValues DEF PayloadFrozen, StatusForward

LEMMA RowForward ==
    ASSUME TypeOK, NEW i \in DOMAIN versions, NEW status \in Status, SetStatus(i, status),
           Rank(versions[i].status) <= Rank(status)
    PROVE  PayloadFrozen /\ StatusForward
<1>1. /\ DOMAIN versions' = DOMAIN versions
      /\ \A j \in DOMAIN versions : j # i => versions'[j] = versions[j]
      /\ \A j \in DOMAIN versions : versions'[j].content = versions[j].content
      /\ versions'[i].status = status
  BY SetStatusFrame DEF TypeOK
<1>2. \A j \in DOMAIN versions : versions[j].status \in Status
  BY RowStatus
<1> QED
  BY <1>1, <1>2, RankValues DEF PayloadFrozen, StatusForward

LEMMA SerialRows ==
    ASSUME NEW r, Request = {r}, TypeOK, SerialInv(r), [Next]_vars
    PROVE  PayloadFrozen /\ StatusForward
<1>1. Ready(op[r])
  BY DEF SerialInv
<1>2. CASE UNCHANGED vars
  BY <1>2, SameRows DEF vars
<1>3. CASE Crash
  <2>1. versions' = versions \/ versions' = <<>>
    BY <1>3, Zenon DEF Crash
  <2>2. \A i \in DOMAIN versions \cap DOMAIN versions' : versions'[i] = versions[i]
    BY <2>1
  <2> QED BY <2>2, SameRows
<1>4. CASE Begin(r) \/ SaveStray(r) \/ ListActive(r) \/ AppendAudit(r)
  <2>1. versions' = versions
    BY <1>4 DEF SaveStray, ListActive, AppendAudit, Begin,
       BeginCreate, BeginUpdate, BeginPublish, BeginApprove
  <2> QED BY <2>1, SameRows
<1>5. CASE SaveVersion(r)
  <2>1. \A i \in DOMAIN versions : versions'[i] = versions[i]
    BY <1>5, SaveFrame
  <2> QED BY <2>1, SameRows
<1>6. CASE WritePayload(r)
  <2>1. op[r].id \in DOMAIN versions /\ versions[op[r].id].status = "draft"
    BY <1>1, <1>6 DEF Ready, At, WritePayload
  <2>2. op[r].content \in Payload
    BY <1>6, StepShape DEF TypeOK, WritePayload, Edit
  <2>3. /\ DOMAIN versions' = DOMAIN versions
        /\ \A j \in DOMAIN versions : versions'[j].status = versions[j].status
        /\ \A j \in DOMAIN versions : j # op[r].id => versions'[j] = versions[j]
    BY <1>6, <2>2, WriteFrame DEF TypeOK, WritePayload
  <2>4. \A j \in DOMAIN versions : versions[j].status \in Status
    BY RowStatus
  <2> QED BY <2>1, <2>3, <2>4, RankValues DEF PayloadFrozen, StatusForward
<1>7. CASE Submit(r)
  <2>1. /\ op[r].id \in DOMAIN versions /\ versions[op[r].id].status = "draft"
        /\ SetStatus(op[r].id, "submitted")
    BY <1>1, <1>7 DEF Ready, At, Submit
  <2> QED BY <2>1, RowForward, RankValues DEF Status
<1>8. CASE MarkApproved(r)
  <2>1. /\ op[r].id \in DOMAIN versions /\ versions[op[r].id].status = "submitted"
        /\ SetStatus(op[r].id, "approved")
    BY <1>1, <1>8 DEF Ready, At, MarkApproved
  <2> QED BY <2>1, RowForward, RankValues DEF Status
<1>9. CASE Supersede(r)
  <2>1. PICK j \in op[r].rest : SetStatus(j, "superseded")
    BY <1>9 DEF Supersede
  <2>2. j \in DOMAIN versions /\ versions[j].status = "active"
    BY <1>1, <1>9, <2>1 DEF Ready, OtherActive, Supersede
  <2> QED BY <2>1, <2>2, RowForward, RankValues DEF Status
<1>10. CASE Activate(r)
  <2>1. /\ op[r].id \in DOMAIN versions /\ versions[op[r].id].status = "approved"
        /\ SetStatus(op[r].id, "active")
    BY <1>1, <1>10 DEF Ready, At, Activate
  <2> QED BY <2>1, RowForward, RankValues DEF Status
<1> QED
  BY <1>2, <1>3, <1>4, <1>5, <1>6, <1>7, <1>8, <1>9, <1>10 DEF Next, Proceed, Refused

(* One request at a time, with a crash between any two writes: a payload   *)
(* changes only while its version is a draft, and no version ever goes     *)
(* back.                                                                   *)
THEOREM NeverBack ==
    ASSUME NEW r, Request = {r}
    PROVE  Spec => OneWay
<1>1. TypeOK /\ SerialInv(r) /\ [Next]_vars => [PayloadFrozen /\ StatusForward]_vars
  BY SerialRows
<1> QED
  BY <1>1, TypeCorrect, SerialHolds, PTL DEF Spec, OneWay

-----------------------------------------------------------------------------
(* One request at a time.  Where the rows stand: only the last may be on   *)
(* its way, only the last of the others is active.  Neither OneInFlight nor*)
(* OneActive says where.                                                   *)
Placed ==
    /\ \A i \in DOMAIN versions : versions[i].status \in InFlight => i = Len(versions)
    /\ \A i \in DOMAIN versions : versions[i].status = "active" => i = Settled

LEMMA SameView ==
    ASSUME Placed, versions' = versions
    PROVE  Placed' /\ UNCHANGED <<OnItsWay, Enacted, Stands>>
  BY DEF Placed, OnItsWay, Enacted, Stands, Settled, Pending, At

(* A row on its way that stays on its way is still the proposal.           *)
LEMMA PendingView ==
    ASSUME TypeOK, Placed, NEW i \in DOMAIN versions, versions[i].status \in InFlight,
           versions' \in Seq(Version), DOMAIN versions' = DOMAIN versions,
           \A j \in DOMAIN versions : j # i => versions'[j] = versions[j],
           versions'[i].status \in InFlight
    PROVE  /\ Placed'
           /\ OnItsWay = [stage |-> versions[i].status, content |-> versions[i].content]
           /\ OnItsWay' = [stage |-> versions'[i].status, content |-> versions'[i].content]
           /\ UNCHANGED <<Enacted, Stands>>
<1>1. /\ versions \in Seq(Version) /\ Len(versions) \in Nat /\ i = Len(versions)
      /\ DOMAIN versions = 1 .. Len(versions) /\ Len(versions') = Len(versions)
  BY LenProperties DEF TypeOK, Placed
<1>2. Pending /\ Pending' /\ Settled = i - 1 /\ Settled' = i - 1
  BY <1>1 DEF Pending, Settled, At
<1>3. \A j \in 1 .. (i - 1) : j \in DOMAIN versions /\ versions'[j] = versions[j]
  BY <1>1
<1>4. Placed'
  BY <1>1, <1>2 DEF Placed, InFlight
<1>5. Enacted' = Enacted
  BY <1>2, <1>3 DEF Enacted
<1>6. Stands' = Stands
  BY <1>1, <1>2 DEF Stands, At
<1> QED
  BY <1>1, <1>2, <1>4, <1>5, <1>6 DEF OnItsWay

LEMMA MoveView ==
    ASSUME TypeOK, Placed, NEW i \in DOMAIN versions, NEW status \in InFlight,
           versions[i].status \in InFlight, SetStatus(i, status)
    PROVE  /\ Placed'
           /\ OnItsWay = [stage |-> versions[i].status, content |-> versions[i].content]
           /\ OnItsWay' = [stage |-> status, content |-> versions[i].content]
           /\ UNCHANGED <<Enacted, Stands>>
<1>1. /\ versions' \in Seq(Version) /\ DOMAIN versions' = DOMAIN versions
      /\ \A j \in DOMAIN versions : j # i => versions'[j] = versions[j]
      /\ versions'[i].status = status /\ versions'[i].content = versions[i].content
  BY SetStatusFrame DEF TypeOK, Status, InFlight
<1> QED
  BY <1>1, PendingView

LEMMA SaveGoverned ==
    ASSUME TypeOK, Placed, NEW r \in Request, SerialInv(r), SaveVersion(r)
    PROVE  Placed' /\ \E p \in Payload : Governed!Propose(p)
<1> DEFINE n == Len(versions)  p == op[r].content
           row == [number |-> op[r].number, status |-> "draft", content |-> p]
<1>1. p \in Payload /\ row \in Version
  BY StepShape DEF TypeOK, SaveVersion, Save, Version, Status
<1>2. versions' = Append(versions, row) /\ versions \in Seq(Version)
  BY DEF SaveVersion, TypeOK
<1>3. /\ n \in Nat /\ DOMAIN versions = 1 .. n /\ Len(versions') = n + 1
      /\ DOMAIN versions' = 1 .. (n + 1)
      /\ \A j \in 1 .. n : versions'[j] = versions[j]
      /\ versions'[n + 1] = row
  BY <1>1, <1>2, LenProperties
<1>4. row.status = "draft" /\ row.content = p /\ "draft" \in InFlight
  BY DEF InFlight
<1>5. \A i \in DOMAIN versions : versions[i].status \notin InFlight
  BY DEF SerialInv, Ready, SaveVersion, NobodyInFlight
<1> HIDE DEF n, row, p
<1> DEFINE len == Len(versions)
<1>6. len = n
  BY DEF n
<1>7. ~Pending /\ Pending' /\ Settled = n /\ Settled' = n
  BY <1>3, <1>4, <1>5, <1>6 DEF Pending, Settled, At
<1>8. Placed'
  <2>1. ASSUME NEW i \in DOMAIN versions', versions'[i].status \in InFlight PROVE i = n + 1
    BY <1>3, <1>5, <2>1
  <2>2. ASSUME NEW i \in DOMAIN versions', versions'[i].status = "active" PROVE i = n
    <3>1. i \in 1 .. n
      BY <1>3, <1>4, <2>2
    <3> QED BY <1>3, <1>7, <2>2, <3>1 DEF Placed
  <2> QED BY <1>3, <1>7, <2>1, <2>2 DEF Placed
<1>9. /\ OnItsWay = [stage |-> "none"]
      /\ OnItsWay' = [stage |-> "draft", content |-> p]
  BY <1>3, <1>4, <1>7 DEF OnItsWay
<1>10. Enacted' = Enacted
  BY <1>3, <1>7 DEF Enacted
<1>11. Stands' = Stands
  BY <1>3, <1>7 DEF Stands, At
<1> QED
  BY <1>1, <1>8, <1>9, <1>10, <1>11
     DEF Governed!Propose, Governed!NoProposal, Governed!Proposal

LEMMA WriteGoverned ==
    ASSUME TypeOK, Placed, NEW r \in Request, SerialInv(r), WritePayload(r)
    PROVE  Placed' /\ \E p \in Payload : Governed!Revise(p)
<1>1. /\ op[r].id \in DOMAIN versions /\ versions[op[r].id].status = "draft"
      /\ op[r].content \in Payload
  BY StepShape DEF SerialInv, Ready, At, WritePayload, TypeOK, Edit
<1>2. PICK i \in DOMAIN versions, p \in Payload : op[r].id = i /\ op[r].content = p
  BY <1>1
<1>3. versions' = [versions EXCEPT ![i] = [@ EXCEPT !.content = p]]
  BY <1>2 DEF WritePayload
<1>4. /\ versions' \in Seq(Version) /\ DOMAIN versions' = DOMAIN versions
      /\ versions'[i].status = versions[i].status
      /\ \A j \in DOMAIN versions : j # i => versions'[j] = versions[j]
  BY <1>3, WriteFrame DEF TypeOK
<1>5. versions'[i].content = p
  <2>1. versions[i] \in Version
    BY DEF TypeOK
  <2>2. [versions[i] EXCEPT !.content = p].content = p
    BY <2>1 DEF Version
  <2> QED BY <1>3, <2>2
<1>6. versions[i].status = "draft" /\ "draft" \in InFlight
  BY <1>1, <1>2 DEF InFlight
<1>7. /\ Placed' /\ UNCHANGED <<Enacted, Stands>>
      /\ OnItsWay = [stage |-> "draft", content |-> versions[i].content]
      /\ OnItsWay' = [stage |-> "draft", content |-> p]
  BY <1>4, <1>5, <1>6, PendingView
<1> QED
  BY <1>7 DEF Governed!Revise, Governed!Proposal

LEMMA MoveGoverned ==
    ASSUME TypeOK, Placed, NEW r \in Request, SerialInv(r), Submit(r) \/ MarkApproved(r)
    PROVE  Placed' /\ (Governed!Seal \/ Governed!Endorse)
<1>1. CASE Submit(r)
  <2>1. op[r].id \in DOMAIN versions /\ versions[op[r].id].status = "draft"
    BY <1>1 DEF SerialInv, Ready, At, Submit
  <2>2. PICK i \in DOMAIN versions : op[r].id = i
    BY <2>1
  <2>3. /\ Placed' /\ UNCHANGED <<Enacted, Stands>>
        /\ OnItsWay = [stage |-> "draft", content |-> versions[i].content]
        /\ OnItsWay' = [stage |-> "submitted", content |-> versions[i].content]
    BY <1>1, <2>1, <2>2, MoveView DEF Submit, InFlight
  <2> QED BY <2>3 DEF Governed!Seal, Governed!Proposal
<1>2. CASE MarkApproved(r)
  <2>1. op[r].id \in DOMAIN versions /\ versions[op[r].id].status = "submitted"
    BY <1>2 DEF SerialInv, Ready, At, MarkApproved
  <2>2. PICK i \in DOMAIN versions : op[r].id = i
    BY <2>1
  <2>3. /\ Placed' /\ UNCHANGED <<Enacted, Stands>>
        /\ OnItsWay = [stage |-> "submitted", content |-> versions[i].content]
        /\ OnItsWay' = [stage |-> "approved", content |-> versions[i].content]
    BY <1>2, <2>1, <2>2, MoveView DEF MarkApproved, InFlight
  <2> QED BY <2>3 DEF Governed!Endorse, Governed!Proposal
<1> QED
  BY <1>1, <1>2

LEMMA SupersedeGoverned ==
    ASSUME TypeOK, Placed, NEW r \in Request, SerialInv(r), Supersede(r)
    PROVE  Placed' /\ Governed!Withdraw
<1> DEFINE n == Len(versions)
<1>1. /\ op[r].id \in DOMAIN versions /\ versions[op[r].id].status = "approved"
      /\ op[r].rest = OtherActive(op[r].id)
  BY DEF SerialInv, Ready, At, Supersede
<1>2. PICK j \in OtherActive(op[r].id) : SetStatus(j, "superseded")
  BY <1>1 DEF Supersede
<1>3. /\ j \in DOMAIN versions /\ versions[j].status = "active"
      /\ versions \in Seq(Version) /\ n \in Nat /\ DOMAIN versions = 1 .. n
      /\ op[r].id = n
  BY <1>1, <1>2, LenProperties DEF OtherActive, TypeOK, Placed, InFlight
<1>4. Pending /\ Settled = n - 1 /\ j = n - 1 /\ versions[n].status = "approved"
  BY <1>1, <1>3 DEF Placed, Pending, Settled, At, InFlight
<1>5. /\ versions' \in Seq(Version) /\ DOMAIN versions' = DOMAIN versions
      /\ \A k \in DOMAIN versions : k # j => versions'[k] = versions[k]
      /\ \A k \in DOMAIN versions : versions'[k].content = versions[k].content
      /\ versions'[j].status = "superseded"
  BY <1>2, <1>3, SetStatusFrame DEF Status
<1>6. Len(versions') = n /\ n \in DOMAIN versions
  BY <1>1, <1>3, <1>5, LenProperties
<1>7. versions'[n] = versions[n]
  BY <1>3, <1>4, <1>5, <1>6
<1>8. Pending' /\ Settled' = n - 1
  BY <1>4, <1>5, <1>6, <1>7 DEF Pending, Settled, At, InFlight
<1>9. Placed'
  BY <1>3, <1>4, <1>5, <1>6, <1>8 DEF Placed, InFlight
<1>10. Enacted' = Enacted
  BY <1>3, <1>4, <1>5, <1>8 DEF Enacted
<1>11. Stands /\ ~Stands'
  BY <1>3, <1>4, <1>5, <1>8 DEF Stands, At
<1>12. OnItsWay.stage = "approved" /\ OnItsWay' = OnItsWay
  BY <1>4, <1>6, <1>7, <1>8 DEF OnItsWay
<1> QED
  BY <1>9, <1>10, <1>11, <1>12 DEF Governed!Withdraw, Stands

LEMMA ActivateGoverned ==
    ASSUME TypeOK, Placed, NEW r \in Request, SerialInv(r), Activate(r)
    PROVE  Placed' /\ Governed!Enact
<1> DEFINE n == Len(versions)
<1>1. /\ op[r].id \in DOMAIN versions /\ versions[op[r].id].status = "approved"
      /\ OtherActive(op[r].id) = {} /\ SetStatus(op[r].id, "active")
  BY DEF SerialInv, Ready, At, Activate
<1>2. /\ versions \in Seq(Version) /\ n \in Nat /\ DOMAIN versions = 1 .. n
      /\ op[r].id = n
  BY <1>1, LenProperties DEF TypeOK, Placed, InFlight
<1>3. /\ n \in DOMAIN versions /\ versions[n].status = "approved"
      /\ \A k \in DOMAIN versions : k # n => versions[k].status # "active"
  BY <1>1, <1>2 DEF OtherActive
<1>4. /\ versions' \in Seq(Version) /\ DOMAIN versions' = DOMAIN versions
      /\ \A k \in DOMAIN versions : k # n => versions'[k] = versions[k]
      /\ \A k \in DOMAIN versions : versions'[k].content = versions[k].content
      /\ versions'[n].status = "active"
  BY <1>1, <1>2, <1>3, SetStatusFrame DEF Status
<1>5. Len(versions') = n
  BY <1>2, <1>4, LenProperties
<1>6. Pending /\ Settled = n - 1
  BY <1>2, <1>3 DEF Pending, Settled, At, InFlight
<1>7. ~Pending' /\ Settled' = n
  BY <1>3, <1>4, <1>5 DEF Pending, Settled, At, InFlight
<1>8. Placed'
  BY <1>3, <1>4, <1>5, <1>7 DEF Placed, InFlight
<1>9. ~Stands /\ Stands'
  BY <1>2, <1>3, <1>4, <1>6, <1>7 DEF Stands, At
<1>10. OnItsWay = [stage |-> "approved", content |-> versions[n].content]
  BY <1>3, <1>6 DEF OnItsWay
<1>11. OnItsWay' = [stage |-> "none"]
  BY <1>7 DEF OnItsWay
<1>12. Enacted' = Append(Enacted, versions[n].content)
  <2> HIDE DEF n
  <2>1. n \in Nat /\ n - 1 \in Nat /\ n - 1 + 1 = n
    BY <1>2, <1>3
  <2>2. Enacted = [i \in 1 .. (n - 1) |-> versions[i].content] /\ Len(Enacted) = n - 1
    BY <1>6, <2>1 DEF Enacted
  <2>3. Enacted' = [i \in 1 .. n |-> versions[i].content]
    BY <1>2, <1>4, <1>7 DEF Enacted
  <2> QED BY <2>1, <2>2, <2>3
<1> QED
  BY <1>8, <1>9, <1>10, <1>11, <1>12 DEF Governed!Enact, Governed!NoProposal, Stands

(* One request at a time, wherever the process dies: every step of the     *)
(* lifecycle is a step of GovernedChange or a stutter, so the payloads put *)
(* in force are on record, in order, each as it was submitted and none     *)
(* before it was approved.                                                 *)
THEOREM LifecycleGoverned ==
    ASSUME NEW r, Request = {r}
    PROVE  Spec => ChangesGoverned
<1> USE DEF Governed!govVars
<1>1. Init => Placed /\ Governed!GovInit
  BY DEF Init, Placed, Governed!GovInit, Governed!NoProposal, OnItsWay, Enacted, Stands,
         Settled, Pending, At
<1>2. ASSUME TypeOK, SerialInv(r), Placed, [Next]_vars
      PROVE  Placed' /\ (Governed!GovNext \/ UNCHANGED <<OnItsWay, Enacted, Stands>>)
  <2>1. CASE UNCHANGED vars
    BY <1>2, <2>1, SameView DEF vars
  <2>2. CASE Crash
    <3>1. CASE versions' = versions
      BY <1>2, <3>1, SameView
    <3>2. CASE versions' # versions
      <4>1. versions' = <<>> /\ MayCrash /\ ~Durable
        BY <2>2, <3>2, Zenon DEF Crash
      <4>2. Placed' /\ Governed!GovInit'
        BY <4>1 DEF Placed, Governed!GovInit, Governed!NoProposal, OnItsWay, Enacted,
                    Stands, Settled, Pending, At
      <4> QED BY <4>1, <4>2 DEF Governed!GovNext, Governed!Forget
    <3> QED BY <3>1, <3>2
  <2>3. CASE Begin(r) \/ SaveStray(r) \/ ListActive(r) \/ AppendAudit(r) \/ Refused(r)
    <3>1. versions' = versions
      BY <2>3 DEF SaveStray, ListActive, AppendAudit, Begin, Refused, vars,
         BeginCreate, BeginUpdate, BeginPublish, BeginApprove
    <3> QED BY <1>2, <3>1, SameView
  <2>4. CASE SaveVersion(r)
    BY <1>2, <2>4, SaveGoverned DEF Governed!GovNext
  <2>5. CASE WritePayload(r)
    BY <1>2, <2>5, WriteGoverned DEF Governed!GovNext
  <2>6. CASE Submit(r) \/ MarkApproved(r)
    BY <1>2, <2>6, MoveGoverned DEF Governed!GovNext
  <2>7. CASE Supersede(r)
    BY <1>2, <2>7, SupersedeGoverned DEF Governed!GovNext
  <2>8. CASE Activate(r)
    BY <1>2, <2>8, ActivateGoverned DEF Governed!GovNext
  <2> QED BY <1>2, <2>1, <2>2, <2>3, <2>4, <2>5, <2>6, <2>7, <2>8 DEF Next, Proceed
<1>3. TypeOK /\ SerialInv(r) /\ Placed /\ [Next]_vars
      => Placed' /\ [Governed!GovNext]_(Governed!govVars)
  BY <1>2
<1> QED
  BY <1>1, <1>3, TypeCorrect, SerialHolds, PTL DEF Spec, ChangesGoverned, Governed!GovSpec
=============================================================================
