-------------------------- MODULE ConfigLifecycle --------------------------
(***************************************************************************)
(* The versioned, approval-gated configuration of watertwin-api            *)
(* (configuration/service.py over the config_version rows of store.py):    *)
(* the versions of one logical configuration and the requests that work on *)
(* them.  The service takes no lock of its own: every call it makes to the *)
(* store is a step, and requests interleave between them.                  *)
(*                                                                         *)
(* Versions are numbered by insertion; that index stands for version_id.   *)
(***************************************************************************)
EXTENDS Naturals, Sequences

CONSTANTS
    Request,    \* bound: requests in progress at once
    Payload,    \* validated payloads
    MaxVersions,\* bound: versions stored
    Durable,    \* rows in the database (TRUE) or in process memory (FALSE)
    MayCrash    \* may the process die?

ASSUME ConfigAssumption ==
    /\ MaxVersions \in Nat
    /\ Durable \in BOOLEAN /\ MayCrash \in BOOLEAN

VARIABLES
    versions,   \* the rows of the configuration, in insertion order
    op,         \* what each request in progress is about to do
    trail       \* audit events: which version was announced with which status

vars == <<versions, op, trail>>

Status == {"draft", "submitted", "approved", "active", "superseded"}
InFlight == {"draft", "submitted", "approved"}
Version == [number : Nat, status : Status, content : Payload]

Idle == [pc |-> "idle"]
Save == [pc : {"save"}, number : Nat, content : Payload]
Edit == [pc : {"write"}, id : Nat, content : Payload]
Move == [pc : {"submit", "approve", "list"}, id : Nat]
Replace == [pc : {"replace"}, id : Nat, rest : SUBSET Nat]
Audit == [pc : {"audit"}, status : Status, about : Nat, next : {Idle} \cup Move \cup Replace]
Step == {Idle} \cup Save \cup Edit \cup Move \cup Replace \cup Audit

TypeOK ==
    /\ versions \in Seq(Version)
    /\ op \in [Request -> Step]
    /\ trail \subseteq Status \X Nat

Init ==
    /\ versions = <<>>
    /\ op = [r \in Request |-> Idle]
    /\ trail = {}

-----------------------------------------------------------------------------
(* _latest: the greatest version number, the newest row among equals.      *)
IsLatest(i) ==
    /\ i \in DOMAIN versions
    /\ \A j \in DOMAIN versions :
        \/ versions[j].number < versions[i].number
        \/ versions[j].number = versions[i].number /\ j <= i

NextNumber(n) ==
    \/ versions = <<>> /\ n = 1
    \/ \E i \in DOMAIN versions : IsLatest(i) /\ n = versions[i].number + 1

(* Seeded fault: only a draft counts as in flight.                         *)
NoDraft == \A i \in DOMAIN versions : versions[i].status # "draft"

NobodyInFlight == \A i \in DOMAIN versions : versions[i].status \notin InFlight

Become(r, next) == op' = [op EXCEPT ![r] = next]

(* Seeded fault: the request ends with its first audit event.              *)
EndAfterAudit(r, about, status, next) ==
    Become(r, [pc |-> "audit", status |-> status, about |-> about, next |-> Idle])

(* Every write is followed by its audit event, then by the next step.      *)
ThenAudit(r, about, status, next) ==
    Become(r, [pc |-> "audit", status |-> status, about |-> about, next |-> next])

(* Seeded fault: a status the lifecycle does not know.                     *)
SetUnknownStatus(i, status) ==
    versions' = [versions EXCEPT ![i] = [@ EXCEPT !.status = "published"]]

SetStatus(i, status) == versions' = [versions EXCEPT ![i] = [@ EXCEPT !.status = status]]

-----------------------------------------------------------------------------
(* create: refused while a version is in flight.                           *)
BeginCreate(r, p) ==
    /\ op[r] = Idle
    /\ Len(versions) < MaxVersions
    /\ NobodyInFlight
    /\ \E n \in 1 .. MaxVersions + 1 :
        NextNumber(n) /\ Become(r, [pc |-> "save", number |-> n, content |-> p])
    /\ UNCHANGED <<versions, trail>>

(* Seeded fault: the table lacks the UNIQUE constraint.                    *)
AlwaysFree(n) == TRUE

(* UNIQUE (entity_type, config_id, version) of the table.                  *)
NumberFree(n) == Durable => \A i \in DOMAIN versions : versions[i].number # n

SaveVersion(r) ==
    /\ op[r].pc = "save"
    /\ Len(versions) < MaxVersions
    /\ NumberFree(op[r].number)
    /\ versions' = Append(versions, [number |-> op[r].number, status |-> "draft",
                                     content |-> op[r].content])
    /\ ThenAudit(r, Len(versions) + 1, "draft", Idle)
    /\ UNCHANGED trail

(* The insert violates the key: the row goes to the process's memory, which*)
(* no read consults while the database works, and the request succeeds.    *)
SaveStray(r) ==
    /\ op[r].pc = "save"
    /\ ~NumberFree(op[r].number)
    /\ ThenAudit(r, 0, "draft", Idle)
    /\ UNCHANGED <<versions, trail>>

-----------------------------------------------------------------------------
(* Seeded fault: a version may be edited until it is active.               *)
NotYetActive(i) == versions[i].status \in InFlight

Editable(i) == versions[i].status = "draft"

(* update: the latest version must be a draft when it is read.             *)
BeginUpdate(r, p) ==
    /\ op[r] = Idle
    /\ \E i \in DOMAIN versions :
        /\ IsLatest(i)
        /\ Editable(i)
        /\ Become(r, [pc |-> "write", id |-> i, content |-> p])
    /\ UNCHANGED <<versions, trail>>

WritePayload(r) ==
    /\ op[r].pc = "write"
    /\ versions' = [versions EXCEPT ![op[r].id] = [@ EXCEPT !.content = op[r].content]]
    /\ ThenAudit(r, op[r].id, "draft", Idle)
    /\ UNCHANGED trail

(* publish: draft to submitted.                                            *)
BeginPublish(r) ==
    /\ op[r] = Idle
    /\ \E i \in DOMAIN versions :
        /\ IsLatest(i)
        /\ versions[i].status = "draft"
        /\ Become(r, [pc |-> "submit", id |-> i])
    /\ UNCHANGED <<versions, trail>>

Submit(r) ==
    /\ op[r].pc = "submit"
    /\ SetStatus(op[r].id, "submitted")
    /\ ThenAudit(r, op[r].id, "submitted", Idle)
    /\ UNCHANGED trail

(* Seeded fault: the status of the version is not looked at.               *)
AnyStatus(i) == TRUE

MayApprove(i) == versions[i].status = "submitted"

(* approve: submitted to approved, supersede whatever else is active, then *)
(* activate; three writes, each followed by its audit event.               *)
BeginApprove(r) ==
    /\ op[r] = Idle
    /\ \E i \in DOMAIN versions :
        /\ IsLatest(i)
        /\ MayApprove(i)
        /\ Become(r, [pc |-> "approve", id |-> i])
    /\ UNCHANGED <<versions, trail>>

MarkApproved(r) ==
    /\ op[r].pc = "approve"
    /\ SetStatus(op[r].id, "approved")
    /\ ThenAudit(r, op[r].id, "approved", [pc |-> "list", id |-> op[r].id])
    /\ UNCHANGED trail

(* Seeded fault: the active version is left as it is.                      *)
NothingActive(i) == {}

OtherActive(i) == {j \in DOMAIN versions : j # i /\ versions[j].status = "active"}

ListActive(r) ==
    /\ op[r].pc = "list"
    /\ Become(r, [pc |-> "replace", id |-> op[r].id, rest |-> OtherActive(op[r].id)])
    /\ UNCHANGED <<versions, trail>>

(* Seeded fault: no audit event for the superseded version.                *)
ReplaceSilently(r, j) ==
    Become(r, [pc |-> "replace", id |-> op[r].id, rest |-> op[r].rest \ {j}])

AuditReplaced(r, j) ==
    ThenAudit(r, j, "superseded", [pc |-> "replace", id |-> op[r].id, rest |-> op[r].rest \ {j}])

(* The rows listed as active are superseded, oldest first.                 *)
Supersede(r) ==
    /\ op[r].pc = "replace"
    /\ \E j \in op[r].rest :
        /\ \A k \in op[r].rest : versions[j].number <= versions[k].number
        /\ SetStatus(j, "superseded")
        /\ AuditReplaced(r, j)
    /\ UNCHANGED trail

Activate(r) ==
    /\ op[r].pc = "replace"
    /\ op[r].rest = {}
    /\ SetStatus(op[r].id, "active")
    /\ ThenAudit(r, op[r].id, "active", Idle)
    /\ UNCHANGED trail

-----------------------------------------------------------------------------
AppendAudit(r) ==
    /\ op[r].pc = "audit"
    /\ trail' = trail \cup {<<op[r].status, op[r].about>>}
    /\ Become(r, op[r].next)
    /\ UNCHANGED versions

(* A request that fails its checks (404, 409 or 422) changes nothing.      *)
Refused(r) == op[r] = Idle /\ UNCHANGED vars

(* The process dies and restarts: requests in progress are gone, and so is *)
(* everything that was only in memory.                                     *)
Crash ==
    /\ MayCrash
    /\ op' = [r \in Request |-> Idle]
    /\ IF Durable THEN UNCHANGED <<versions, trail>> ELSE versions' = <<>> /\ trail' = {}

Proceed(r) ==
    \/ SaveVersion(r) \/ SaveStray(r) \/ WritePayload(r) \/ Submit(r)
    \/ MarkApproved(r) \/ ListActive(r) \/ Supersede(r) \/ Activate(r) \/ AppendAudit(r)

Begin(r) ==
    \/ \E p \in Payload : BeginCreate(r, p) \/ BeginUpdate(r, p)
    \/ BeginPublish(r)
    \/ BeginApprove(r)

Next == Crash \/ \E r \in Request : Begin(r) \/ Proceed(r) \/ Refused(r)

Spec == Init /\ [][Next]_vars

(* A request that was taken on runs to its end, unless the process dies.   *)
FairSpec == Spec /\ \A r \in Request : WF_vars(Proceed(r))

-----------------------------------------------------------------------------
At(i, statuses) == i \in DOMAIN versions /\ versions[i].status \in statuses

(* At most one version is active, however far an approval got before the   *)
(* process died: approving supersedes the previous one (ConfigService).    *)
OneActive == \A i, j \in DOMAIN versions : At(i, {"active"}) /\ At(j, {"active"}) => i = j

(* At most one version is in flight: create refuses a second draft.        *)
OneInFlight == \A i, j \in DOMAIN versions : At(i, InFlight) /\ At(j, InFlight) => i = j

(* No two rows of a configuration carry the same version number.           *)
NumbersDistinct ==
    \A i, j \in DOMAIN versions : versions[i].number = versions[j].number => i = j

(* The payload changes only while its version is a draft                   *)
(* (immutable-on-publish).                                                 *)
PayloadFrozen ==
    \A i \in DOMAIN versions \cap DOMAIN versions' :
        versions'[i].content # versions[i].content => versions[i].status = "draft"

(* A version never goes back: what was superseded is not reactivated, what *)
(* was published is not edited again.                                      *)
Rank(s) == CASE s = "draft" -> 1 [] s = "submitted" -> 2 [] s = "approved" -> 3
             [] s = "active" -> 4 [] s = "superseded" -> 5

StatusForward ==
    \A i \in DOMAIN versions \cap DOMAIN versions' :
        Rank(versions[i].status) <= Rank(versions'[i].status)

(* Whatever a step does to a row, it neither edits what was published nor  *)
(* takes a status back (ConfigService.update, publish and approve).        *)
OneWay == [][PayloadFrozen /\ StatusForward]_vars

(* The last row may be on its way; the others are settled.                 *)
Pending == At(Len(versions), InFlight)
Settled == IF Pending THEN Len(versions) - 1 ELSE Len(versions)

OnItsWay ==
    IF Pending THEN [stage |-> versions[Len(versions)].status,
                     content |-> versions[Len(versions)].content]
    ELSE [stage |-> "none"]
Enacted == [i \in 1 .. Settled |-> versions[i].content]
Stands == At(Settled, {"active"})

Governed == INSTANCE GovernedChange WITH
    Content <- Payload, MayForget <- MayCrash /\ ~Durable,
    proposal <- OnItsWay, enacted <- Enacted, standing <- Stands

(* The rows tell one governed change after the other: the payloads of the  *)
(* settled rows are what was put in force, in order and never altered, and *)
(* a version takes over only as it was submitted and once it is approved.  *)
ChangesGoverned == Governed!GovSpec

(* When no request is in progress, the status of every version has its     *)
(* audit event, whatever interleaved (each transition is audited).         *)
TransitionsAudited ==
    (\A r \in Request : op[r] = Idle) =>
        \A i \in DOMAIN versions : <<versions[i].status, i>> \in trail

(* An approved version becomes active (approved --(auto)--> active).       *)
ApprovedActivates ==
    \A i \in 1 .. MaxVersions : At(i, {"approved"}) ~> At(i, {"active", "superseded"})
=============================================================================
