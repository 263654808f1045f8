-------------------------------- MODULE Api --------------------------------
(***************************************************************************)
(* The endpoints of watertwin-api (app/main.py) over the stores they share:*)
(* recommendation cards, work orders, cached runs, the gateway view,       *)
(* feedback, the usage meter and the audit trail.  A request is one step   *)
(* (WorkOrders, AuditChain and StoreForward open the steps up); POST /reset *)
(* is a step per store, with other requests in between.  Reads that change *)
(* nothing are operators that give the response; a request whose guard     *)
(* fails is answered with an error and changes nothing.                    *)
(*                                                                         *)
(* Ghosts: caller is who made the latest change and on which route,        *)
(* orphans are the cards put between the clearing of the cards and that of *)
(* the trail, logged counts the audit events ever made.                    *)
(***************************************************************************)
EXTENDS Access, Metering, Sequences, SequencesExt

CONSTANTS
    Settings,     \* the environments a process may run with, each with the
                  \* credentials its requests carry and its bounds: audit events (those a reset removed included), runs,
                  \* metered uses (calls, assets, samples), months
    ScopeArgs     \* the <<tenant, facility>> that requests name, None where they name none

VARIABLES env, cards, orphans, orders, runs, latest, feedback, audit, usage, month, resetting, caller,
          logged

stores == <<cards, orphans, orders, runs, latest, feedback, audit>>
vars == <<env, stores, usage, month, resetting, caller, logged>>

Scopes == {ScopeOf(a[1], a[2]) : a \in ScopeArgs}
DefaultScope == ScopeOf(None, None)
Decisions == {"approved", "rejected"}
Bodies == Decisions \cup {"other"}

---------------------------------------------------------------------------
(* Routes: who may call, the feature they need, whether they are scoped,   *)
(* and the codes of their answers.                                         *)

Route(roles, feature, scoped) ==
    [roles |-> roles, feature |-> feature, scoped |-> scoped, codes |-> {200}]
Open == Route({}, None, FALSE)
Scoped(feature) == Route({}, feature, TRUE)
For(roles) == Route(roles, None, FALSE)
Or(r, codes) == [r EXCEPT !.codes = @ \cup codes]

EngineerRoute == For({"engineer"})
\* Seeded fault: the role is not asked for.
AnyoneDecides == Open
OperatorRoute == For({"operator"})
AdminRoute == For({"admin"})
VerifyRoute == For({"auditor"})
SecurityRoute == For({"security"})

\* What the simulator computes (502 when it fails), the filtered features
\* (422), one asset (404), the twin and the nearest assets.
NetworkRoutes == {Or(Open, {502}), Or(Open, {422}), Or(Open, {404}), Open}
WaterQualityRoutes == {Scoped("water_quality")}
EquipmentRoutes == {Or(Scoped("predictive_maintenance"), {404})}
RankingRoute == Scoped("predictive_maintenance")
ModelRoutes == {Or(Open, {404})}
CmmsRoutes == {Open}
ConditionRoutes == {Open, Or(Open, {404})}
ValueRoutes == {Scoped("energy_optimization"), Scoped("resilience")}
ExecutiveRoutes == {Scoped("executive_value")}
AssistantExamples == Route({}, "operations_assistant", FALSE)
TrainingReads == {Open, Or(Open, {404})}
AdminReads == {AdminRoute}
RegistryRoutes == {Open, Or(Open, {404})}
IngestionReads == {Open}
ConfigReads == {Open, Or(Open, {404})}

ReadRoutes ==
    UNION {NetworkRoutes, WaterQualityRoutes, EquipmentRoutes, {RankingRoute}, ModelRoutes,
           CmmsRoutes, ConditionRoutes, ValueRoutes, ExecutiveRoutes, {AssistantExamples},
           TrainingReads, AdminReads, RegistryRoutes, {VerifyRoute}, {SecurityRoute},
           IngestionReads, ConfigReads}

\* Dependencies run in this order: identity, role, feature, scope.
Gate(tok, r, scope) ==
    LET who == IF r.roles = {} THEN CurrentUser(env, tok) ELSE RequireRole(env, tok, r.roles)
    IN IF who.code # 200 THEN who
       ELSE IF r.feature # None /\ RequireFeature(env, r.feature) # 200
            THEN [who EXCEPT !.code = 402]
       ELSE IF r.scoped /\ ~CanAccess(who.user, scope.tenant, scope.facility)
            THEN [who EXCEPT !.code = 403]
       ELSE who

Admitted(tok, r, scope) == Gate(tok, r, scope).code = 200
User(tok, r) == Gate(tok, r, DefaultScope).user

By(g, route) == caller' = [user |-> g.user, route |-> route]
Keep(rest) == UNCHANGED <<env, month, resetting, rest>>

---------------------------------------------------------------------------
(* The audit trail and the card store.                                     *)

Event(kind, actor, subject, status, scope) ==
    [kind |-> kind, actor |-> actor, subject |-> subject,
     status |-> status, tenant |-> scope.tenant, facility |-> scope.facility]
Log(kind, actor, subject, status, scope) ==
    /\ logged < env.bounds.events /\ logged' = logged + 1
    /\ audit' = Append(audit, Event(kind, actor, subject, status, scope))

Card(scope) == [tenant |-> scope.tenant, facility |-> scope.facility, status |-> "pending"]
Row(row) == [tenant |-> row.tenant, facility |-> row.facility]

\* _route_wq_alerts, _route_pdm_recommendations, _route_resilience_... and the
\* assistant's: cards whose identifier is new are put, saved and audited; then
\* the request's own events follow.
Fresh(ids) == ids \ DOMAIN cards
WithCards(ids, scope) ==
    [id \in DOMAIN cards \cup ids |-> IF id \in DOMAIN cards THEN cards[id] ELSE Card(scope)]
\* Seeded fault: new cards are put without their events.
PutQuietly(ids, actor, scope, events) ==
    /\ logged' = logged + Len(events) /\ logged' <= env.bounds.events
    /\ cards' = WithCards(ids, scope)
    /\ orphans' = orphans
    /\ audit' = audit \o events
PutCards(ids, actor, scope, events) ==
    LET new == SetToSeq(Fresh(ids))
        created == [i \in DOMAIN new |-> Event("created", actor, new[i], None, scope)]
    IN /\ logged' = logged + Len(created) + Len(events) /\ logged' <= env.bounds.events
       /\ cards' = WithCards(ids, scope)
       /\ orphans' = IF resetting \in {"orders", "training", "store"} THEN orphans \cup Fresh(ids)
                     ELSE orphans
       /\ audit' = audit \o created \o events

---------------------------------------------------------------------------
(* Reads: the status code and the scopes of the rows.                      *)

Answer(code, rows) == [code |-> code, rows |-> {Row(r) : r \in rows}]

\* A named tenant or facility must be the caller's.
Narrowed(p, tenant, facility) ==
    /\ tenant = None \/ CanAccessTenant(p, tenant)
    /\ facility = None \/ CanAccessFacility(p, facility)

ListRecommendations(tok, tenant, facility) ==
    LET g == Gate(tok, Open, DefaultScope)
        visible == {c \in {cards[id] : id \in DOMAIN cards} :
                        /\ CanSee(g.user, c)
                        /\ tenant = None \/ c.tenant = tenant
                        /\ facility = None \/ c.facility = facility}
    IN IF g.code # 200 THEN Answer(g.code, {})
       ELSE IF ~Narrowed(g.user, tenant, facility) THEN Answer(403, {})
       ELSE Answer(200, visible)

GetRecommendation(tok, id) ==
    LET g == Gate(tok, Open, DefaultScope)
    IN IF g.code # 200 THEN Answer(g.code, {})
       ELSE IF id \notin DOMAIN cards \/ ~CanSee(g.user, cards[id]) THEN Answer(404, {})
       ELSE Answer(200, {cards[id]})

\* The store filters by tenant and facility and keeps the newest; the handler
\* then drops what the caller may not see.
MatchesScope(row, tenant, facility) ==
    /\ tenant = None \/ row.tenant = tenant
    /\ facility = None \/ row.facility \in {None, facility}
RecentAudit(n, tenant, facility) ==
    LET scoped == {i \in DOMAIN audit : MatchesScope(audit[i], tenant, facility)}
    IN {audit[i] : i \in {k \in scoped : Cardinality({j \in scoped : j >= k}) <= n}}
AuditLog(tok, n, tenant, facility) ==
    LET g == Gate(tok, VerifyRoute, DefaultScope)
        events == RecentAudit(n, StoreTenantFilter(g.user, tenant), facility)
    IN IF g.code # 200 THEN Answer(g.code, {})
       ELSE IF ~Narrowed(g.user, tenant, facility) THEN Answer(403, {})
       ELSE Answer(200, {e \in events : CanSee(g.user, e)})

Fleet(tok) ==
    LET g == Gate(tok, Open, DefaultScope)
    IN IF g.code # 200 THEN Answer(g.code, {})
       ELSE Answer(200, {[tenant |-> Catalog[f].tenant, facility |-> f] :
                            f \in FleetOverview(g.user).rows})

CanMeter(n) == usage.calls + usage.ingest + Cardinality(usage.assets) + n <= env.bounds.use

\* The remaining reads show data of other modules.
Read(tok, r, scope) ==
    LET code == Gate(tok, r, scope).code
    IN {Answer(c, {}) : c \in IF code = 200 THEN r.codes ELSE {code}}

\* The equipment endpoints meter the asset they show.
ReadAsset(tok, scope) ==
    /\ \E r \in EquipmentRoutes : Admitted(tok, r, scope)
    /\ CanMeter(1)
    /\ usage' = RecordAsset(usage, month, "asset")
    /\ UNCHANGED <<stores, caller, logged>> /\ Keep(<<>>)

---------------------------------------------------------------------------
(* Requests that put cards.                                                *)

\* The facility and the call are metered before the membership is checked, and
\* whether or not the simulator answers.
RunScenario(tok, scope, wanted) ==
    LET g == Gate(tok, EngineerRoute, scope)
        job == <<"run", Len(runs) + 1>>
        actor == Actor(env, g.user, None)
    IN /\ g.code = 200
       /\ CanMeter(1)
       /\ usage' = RecordApiCall(RecordFacility(usage, month, scope.facility), month)
       /\ \/ UNCHANGED <<stores, caller, logged>>
          \/ /\ CanAccess(g.user, scope.tenant, scope.facility)
             /\ Len(runs) < env.bounds.runs
             /\ PutCards(IF wanted THEN {job} ELSE {}, actor, scope,
                         <<Event("scenario.run", actor, job[1], None, scope)>>)
             /\ runs' = Append(runs, scope)
             /\ By(g, "run")
             /\ UNCHANGED <<orders, latest, feedback>>
       /\ Keep(<<>>)

\* The alert, recommendation and grid-outage endpoints; the response shows the
\* stored cards of the identifiers, whoever put them.
PollRoute(kind) ==
    Scoped([wq |-> "water_quality", pdm |-> "predictive_maintenance", grid |-> "resilience"][kind])
Poll(tok, kind, scope) ==
    LET g == Gate(tok, PollRoute(kind), scope)
    IN /\ g.code = 200
       /\ PutCards({<<kind, 1>>}, Actor(env, g.user, None), scope, <<>>)
       /\ By(g, "poll")
       /\ Keep(<<orders, runs, latest, feedback, usage>>)

MaintenanceWorkOrders(tok) ==
    LET g == Gate(tok, Open, DefaultScope)
        actor == Actor(env, g.user, None)
        new == IF "order" \in DOMAIN orders THEN <<>>
               ELSE <<Event("workorder.created", actor, "order", None, DefaultScope)>>
    IN /\ g.code = 200
       /\ PutCards({<<"pdm", 1>>}, actor, DefaultScope, new)
       /\ orders' = [o \in DOMAIN orders \cup {"order"} |->
                        IF o \in DOMAIN orders THEN orders[o] ELSE "pending"]
       /\ By(g, "orders")
       /\ Keep(<<runs, latest, feedback, usage>>)

\* The question is audited under the name the client gave.
AssistantAsk(tok, requestedBy) ==
    LET g == Gate(tok, AssistantExamples, DefaultScope)
        asker == IF requestedBy = None THEN "operator" ELSE requestedBy
    IN /\ g.code = 200
       /\ PutCards({<<"assistant", 1>>}, "system", DefaultScope,
                   <<Event("assistant.ask", asker, "packet", None, DefaultScope)>>)
       /\ By(g, "ask")
       /\ Keep(<<orders, runs, latest, feedback, usage>>)

---------------------------------------------------------------------------
(* Decisions and feedback.                                                 *)

DecideRecommendation(tok, id, status) ==
    LET g == Gate(tok, OperatorRoute, DefaultScope)
    IN /\ g.code = 200
       /\ status \in Decisions
       /\ id \in DOMAIN cards /\ CanSee(g.user, cards[id])
       /\ cards' = [cards EXCEPT ![id].status = status]
       /\ Log("decision", Actor(env, g.user, "body"), id, status, cards[id])
       /\ By(g, "decide")
       /\ Keep(<<orphans, orders, runs, latest, feedback, usage>>)

DecideWorkOrder(tok, status) ==
    LET g == Gate(tok, OperatorRoute, DefaultScope)
    IN /\ g.code = 200
       /\ status \in Decisions
       /\ "order" \in DOMAIN orders
       /\ orders' = [orders EXCEPT !["order"] = status]
       /\ Log("workorder.decision", Actor(env, g.user, "body"), "order", status, DefaultScope)
       /\ By(g, "order")
       /\ Keep(<<cards, orphans, runs, latest, feedback, usage>>)

ConditionFeedback(tok, decision) ==
    LET g == Gate(tok, OperatorRoute, DefaultScope)
    IN /\ g.code = 200
       /\ decision # "other"
       /\ feedback' = Append(feedback, decision)
       /\ Log("feedback", Actor(env, g.user, "body"), "alert", None, DefaultScope)
       /\ By(g, "feedback")
       /\ Keep(<<cards, orphans, orders, runs, latest, usage>>)

---------------------------------------------------------------------------
(* Telemetry, reports and administration.                                  *)

IngestTelemetry(tok) ==
    LET g == RequireIngest(env, tok)
    IN /\ g.code = 200
       /\ Log("telemetry.ingested", Actor(env, g.user, "edge-gateway"), "batch", None, DefaultScope)
       /\ By(g, "ingest")
       /\ Keep(<<cards, orphans, orders, runs, latest, feedback, usage>>)

GatewayPush(tok) ==
    LET g == Gate(tok, Open, DefaultScope)
    IN /\ g.code = 200
       /\ latest' = latest \cup {"gateway"}
       /\ Log("telemetry.ingested", Actor(env, g.user, "gateway"), "gateway", None, DefaultScope)
       /\ By(g, "push")
       /\ Keep(<<cards, orphans, orders, runs, feedback, usage>>)

NormalizePreview(tok, n) ==
    /\ Admitted(tok, Open, DefaultScope)
    /\ CanMeter(n)
    /\ usage' = RecordIngest(usage, month, n)
    /\ UNCHANGED <<stores, caller, logged>> /\ Keep(<<>>)

\* A report of a cached run, the SIEM export, the update check, the support
\* bundle and the compliance report change nothing but the trail.
SiemRoute == SecurityRoute
UpdateRoute == AdminRoute
BundleRoute == AdminRoute
ComplianceReport == Open
AuditedRead(tok, r, kind) ==
    LET g == Gate(tok, r, DefaultScope)
    IN /\ g.code = 200
       /\ Log(kind, Actor(env, g.user, None), "api", None, DefaultScope)
       /\ By(g, kind)
       /\ Keep(<<cards, orphans, orders, runs, latest, feedback, usage>>)
ScenarioReport(tok, job) == job \in DOMAIN runs /\ AuditedRead(tok, Open, "report")

---------------------------------------------------------------------------
(* POST /reset: a store at a time, while other requests are served.        *)

ResetSteps == <<"runs", "latest", "cards", "orders", "training", "store", "meter", "audit">>
NextStep(s) == LET i == CHOOSE i \in DOMAIN ResetSteps : ResetSteps[i] = s
               IN IF i = Len(ResetSteps) THEN None ELSE ResetSteps[i + 1]

BeginReset(tok) ==
    /\ resetting = None
    /\ Admitted(tok, EngineerRoute, DefaultScope)
    /\ resetting' = ResetSteps[1]
    /\ caller' = [user |-> User(tok, EngineerRoute), route |-> "reset"]
    /\ UNCHANGED <<env, stores, usage, month, logged>>

\* The handler's thread goes on; the step's identity is the one that began.
ResetStep(tok) ==
    LET g == Gate(tok, EngineerRoute, DefaultScope)
        at(s) == resetting = s
    IN /\ resetting # None /\ g.code = 200
       /\ resetting' = NextStep(resetting)
       /\ By(g, "reset")
       /\ runs' = IF at("runs") THEN <<>> ELSE runs
       /\ latest' = IF at("latest") THEN {} ELSE latest
       /\ cards' = IF at("cards") THEN <<>> ELSE cards
       /\ orphans' = IF at("cards") THEN {} ELSE orphans
       /\ orders' = IF at("orders") THEN <<>> ELSE orders
       /\ feedback' = IF at("store") THEN <<>> ELSE feedback
       /\ usage' = IF at("meter") THEN EmptyMeter(month) ELSE usage
       /\ IF at("audit") THEN Log("system.reset", Actor(env, g.user, None), "api", None, DefaultScope)
          ELSE audit' = (IF at("store") THEN <<>> ELSE audit) /\ UNCHANGED logged
       /\ UNCHANGED <<env, month>>

NextMonth == month < env.bounds.months /\ month' = month + 1
             /\ UNCHANGED <<env, stores, usage, resetting, caller, logged>>

---------------------------------------------------------------------------
Init ==
    /\ env \in Settings
    /\ cards = <<>> /\ orphans = {} /\ orders = <<>> /\ runs = <<>>
    /\ latest = {} /\ feedback = <<>> /\ audit = <<>>
    /\ month = 1 /\ usage = EmptyMeter(1)
    /\ resetting = None
    /\ caller = [user |-> SyntheticAdmin, route |-> None] /\ logged = 0

Next ==
    \/ \E tok \in env.tokens :
        \/ \E s \in Scopes : ReadAsset(tok, s)
        \/ \E s \in Scopes, w \in BOOLEAN : RunScenario(tok, s, w)
        \/ \E k \in {"wq", "pdm", "grid"}, s \in Scopes : Poll(tok, k, s)
        \/ MaintenanceWorkOrders(tok)
        \/ \E by \in {None, "name"} : AssistantAsk(tok, by)
        \/ \E id \in DOMAIN cards \cup {<<"wq", 1>>}, s \in Bodies : DecideRecommendation(tok, id, s)
        \/ \E s \in Bodies : DecideWorkOrder(tok, s)
        \/ \E d \in {"confirm", "other"} : ConditionFeedback(tok, d)
        \/ IngestTelemetry(tok)
        \/ GatewayPush(tok)
        \/ \E n \in 0..1 : NormalizePreview(tok, n)
        \/ \E j \in 1..env.bounds.runs : ScenarioReport(tok, j)
        \/ \E r \in {SiemRoute, UpdateRoute, ComplianceReport} : AuditedRead(tok, r, "audited")
        \/ BeginReset(tok)
        \/ ResetStep(tok)
    \/ NextMonth

Spec == Init /\ [][Next]_vars
---------------------------------------------------------------------------
(* Every store and the meter hold values of their types; a store never     *)
(* holds a scope nobody named, and the meter no month that has not begun.  *)
CardIds == ({"run"} \X (1..env.bounds.runs)) \cup ({"wq", "pdm", "grid", "assistant"} \X {1})
TypeOK ==
    /\ env \in Settings
    /\ DOMAIN cards \subseteq CardIds /\ orphans \subseteq CardIds
    /\ \A id \in DOMAIN cards : cards[id].status \in Decisions \cup {"pending"}
                               /\ Row(cards[id]) \in Scopes
    /\ DOMAIN orders \subseteq {"order"} /\ ToSet(runs) \subseteq Scopes
    /\ latest \subseteq {"gateway"} /\ ToSet(feedback) \subseteq {"confirm"}
    /\ \A e \in ToSet(audit) : Row(e) \in Scopes
    /\ logged \in 0..env.bounds.events /\ Len(audit) <= logged
    /\ usage.period \in 1..month /\ month \in 1..env.bounds.months
    /\ \A k \in {"calls", "ingest"} : usage[k] \in 0..env.bounds.use
    /\ resetting \in ToSet(ResetSteps) \cup {None}

(* Tenancy (main.py:213-242, auth.py:287-374, facilities.py:146-172): no   *)
(* row that the card list, a card, the audit trail or the fleet view       *)
(* answers is of a tenant the token does not name (the default tenant when *)
(* it names none; "*" names all), nor, unless its bearer manages           *)
(* facilities, of a facility that the token leaves out while it lists      *)
(* others.                                                                 *)
Named(list, one) == list \cup ({one} \ {None})
TokenCovers(tok, row) ==
    LET c == tok.claims
        tenants == Named(c.tenantList, c.tenant)
        facilities == Named(c.facilityList, c.facility)
    IN /\ \/ {row.tenant, Wildcard} \cap tenants # {}
          \/ tenants = {} /\ row.tenant = DefaultTenant
       /\ \/ facilities = {} \/ {row.facility, Wildcard} \cap facilities # {}
          \/ (c.realmRoles \cup c.clientRoles) \cap FacilityManagers # {}
RowsInScope ==
    ~env.authDisabled =>
        \A tok \in env.tokens, a \in ScopeArgs :
            LET shown == {ListRecommendations(tok, a[1], a[2]), Fleet(tok)}
                         \cup {GetRecommendation(tok, id) : id \in DOMAIN cards}
                         \cup {AuditLog(tok, n, a[1], a[2]) : n \in 1..env.bounds.events}
                         \cup UNION {Read(tok, r, ScopeOf(a[1], a[2])) : r \in ReadRoutes}
            IN \A answer \in shown : \A row \in answer.rows : TokenCovers(tok, row)

(* The trail explains the cards (main.py:593-597, 695-709, 1186-1202,      *)
(* 2341-2350): of a card in the store, the trail has one creation, in the  *)
(* card's tenant and facility and before every decision of it, and its     *)
(* status is that of the latest decision event, or pending.  POST /reset   *)
(* clears the cards before the trail, so a card put in between keeps no    *)
(* event: it is an orphan.                                                 *)
Decides(e, id) == e.kind = "decision" /\ e.subject = id
Creates(e, id) == e.kind = "created" /\ e.subject = id
Explained(id) ==
    /\ \E i \in DOMAIN audit :
           /\ Creates(audit[i], id) /\ Row(audit[i]) = Row(cards[id])
           /\ \A j \in DOMAIN audit : /\ Decides(audit[j], id) => i < j
                                      /\ Creates(audit[j], id) => i = j
    /\ \A i \in DOMAIN audit :
           Decides(audit[i], id) /\ (\A j \in DOMAIN audit : Decides(audit[j], id) => j <= i)
               => cards[id].status = audit[i].status
    /\ (\A i \in DOMAIN audit : ~Decides(audit[i], id)) => cards[id].status = "pending"
TrailExplainsCards == \A id \in DOMAIN cards \ orphans : Explained(id)

(* Who changes what (main.py:201-255, 408-427, 665-709, 2334-2351): a card *)
(* keeps its scope for ever and changes status only by an operator or an   *)
(* admin who may see it; a new card is of a facility of its creator, but   *)
(* for the cards the work-order and assistant endpoints file under the     *)
(* default facility; every event names the identity that was               *)
(* authenticated, but for the assistant's; and nothing recorded or metered *)
(* disappears but by the reset of an engineer or an admin, or as the month *)
(* turns.                                                                  *)
DecidedByOperator(id) ==
    cards'[id].status # cards[id].status =>
        /\ caller'.route = "decide"
        /\ HasAny(caller'.user, {"operator", "admin"})
        /\ CanAccess(caller'.user, cards[id].tenant, cards[id].facility)
CardsKept ==
    \A id \in DOMAIN cards \cap DOMAIN cards' :
        Row(cards'[id]) = Row(cards[id]) /\ DecidedByOperator(id)
CardsPutInScope ==
    \A id \in DOMAIN cards' \ DOMAIN cards :
        \/ CanAccess(caller'.user, cards'[id].tenant, cards'[id].facility)
        \/ caller'.route \in {"orders", "ask"}
EventsNameCaller ==
    \A i \in (Len(audit) + 1)..Len(audit') :
        \/ env.authDisabled
        \/ audit'[i].actor = caller'.user.name
        \/ caller'.route = "ask"
Forgets ==
    \/ DOMAIN cards \ DOMAIN cards' # {} \/ latest \ latest' # {}
    \/ ~IsPrefix(runs, runs') \/ ~IsPrefix(audit, audit') \/ ~IsPrefix(feedback, feedback')
    \/ usage'.calls < usage.calls \/ usage'.ingest < usage.ingest
ChangesAuthorised ==
    [][/\ CardsKept /\ CardsPutInScope /\ EventsNameCaller
       /\ Forgets => \/ /\ caller'.route = "reset"
                         /\ HasAny(caller'.user, {"engineer", "admin"})
                      \/ usage'.period > usage.period]_vars
=============================================================================
