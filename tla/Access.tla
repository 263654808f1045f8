------------------------------- MODULE Access -------------------------------
(***************************************************************************)
(* Who may do what: the identity behind a request (app/auth.py), the       *)
(* tenant's licence (app/licensing.py), the scope of a request             *)
(* (app/main.py) and the fleet a principal sees (app/facilities.py).       *)
(* Pure operators; Api.tla calls them at each request with the settings    *)
(* the process runs with.  A token is an immutable record: whether its     *)
(* signature verifies (the JWT library's verdict) and its claims.          *)
(***************************************************************************)
EXTENDS Integers, FiniteSets, FiniteSetsExt

Wildcard == "*"
None == "none"
DefaultTenant == "s3m-default"
DefaultFacility == "S3M-DESAL-01"

Roles == {"viewer", "operator", "engineer", "admin", "auditor", "security",
          "tenant-admin", "facility-operator"}
FacilityManagers == {"tenant-admin", "admin"}
IngestRoles == {"operator", "engineer", "auditor"}

---------------------------------------------------------------------------
(* Principals.                                                             *)

HasAny(p, required) == p.roles \cap required # {}
CanManageFacilities(p) == HasAny(p, FacilityManagers)
CanAccessTenant(p, t) == Wildcard \in p.tenants \/ t \in p.tenants
CanAccessFacility(p, f) == Wildcard \in p.facilities \/ f \in p.facilities
CanAccess(p, t, f) == CanAccessTenant(p, t) /\ CanAccessFacility(p, f)

SyntheticAdmin ==
    [name |-> "dev-admin", roles |-> Roles, tenantId |-> "TEN-ACME", facilityIds |-> {},
     tenants |-> {Wildcard}, facilities |-> {Wildcard}]
EdgeGateway ==
    [name |-> "edge-gateway", roles |-> {"operator"}, tenantId |-> None, facilityIds |-> {},
     tenants |-> {}, facilities |-> {}]

\* Membership: list and scalar claims are united; a token without a tenant
\* claim is a member of the default tenant, one without a facility claim of
\* every facility of its tenants.
Membership(c) ==
    LET tenants == c.tenantList \cup ({c.tenant} \ {None})
        facilities == c.facilityList \cup ({c.facility} \ {None})
    IN [tenants |-> IF tenants = {} THEN {DefaultTenant} ELSE tenants,
        facilities |-> IF facilities = {} THEN {Wildcard} ELSE facilities]

\* The fleet views use the scalar tenant and the listed facilities only.
PrincipalOf(c) ==
    [name |-> c.user, roles |-> c.realmRoles \cup c.clientRoles, tenantId |-> c.tenant,
     facilityIds |-> c.facilityList, tenants |-> Membership(c).tenants,
     facilities |-> Membership(c).facilities]

\* An outcome of a dependency: a status code, and the principal when it is 200.
Refuse(code) == [code |-> code, user |-> SyntheticAdmin]
Admit(p) == [code |-> 200, user |-> p]

\* get_current_user, with _decode and _resolve_key.
CurrentUser(env, token) ==
    IF env.authDisabled THEN Admit(SyntheticAdmin)
    ELSE IF token.kind = "missing" THEN Refuse(401)
    ELSE IF env.key = "unset" THEN Refuse(500)
    ELSE IF token.kind = "invalid" THEN Refuse(401)
    ELSE Admit(PrincipalOf(token.claims))

RequireRole(env, token, required) ==
    LET who == CurrentUser(env, token)
    IN IF who.code = 200 /\ ~HasAny(who.user, required \cup {"admin"}) THEN Refuse(403) ELSE who

\* The shared ingest token, when one is provisioned, replaces identities.
RequireIngest(env, token) ==
    IF env.ingestToken
    THEN IF token.ingest = "match" THEN Admit(EdgeGateway) ELSE Refuse(401)
    ELSE RequireRole(env, token, IngestRoles)

---------------------------------------------------------------------------
(* Scopes of a request and of a row.                                       *)

\* facility_scope: the requested scope, or the defaults.
ScopeOf(tenant, facility) ==
    [tenant |-> IF tenant = None THEN DefaultTenant ELSE tenant,
     facility |-> IF facility = None THEN DefaultFacility ELSE facility]

Actor(env, p, fallback) == IF env.authDisabled /\ fallback # None THEN fallback ELSE p.name

\* Seeded fault: the facility of the row is forgotten.
SeesTenant(p, row) == CanAccessTenant(p, IF row.tenant = None THEN DefaultTenant ELSE row.tenant)
\* A row without a facility is visible to every member of its tenant.
CanSee(p, row) ==
    /\ CanAccessTenant(p, IF row.tenant = None THEN DefaultTenant ELSE row.tenant)
    /\ row.facility # None => CanAccessFacility(p, row.facility)

\* The tenant pushed down into the store, None for an unrestricted read.
StoreTenantFilter(p, tenant) ==
    IF tenant # None THEN tenant
    ELSE IF Wildcard \notin p.tenants /\ Cardinality(p.tenants) = 1
         THEN CHOOSE t \in p.tenants : TRUE
         ELSE None

---------------------------------------------------------------------------
(* Licensing.                                                              *)

AllFeatures == {"simulation_center", "water_quality", "predictive_maintenance",
                "energy_optimization", "resilience", "executive_value", "operations_assistant",
                "usage_metering", "support_bundle", "signed_updates"}
Unlimited == -1
Limits(facilities, assets, ingest) ==
    [facilities |-> facilities, assets |-> assets, ingest |-> ingest]
UnlimitedLimits == Limits(Unlimited, Unlimited, Unlimited)

Plans ==
    [enterprise |-> [features |-> AllFeatures, limits |-> UnlimitedLimits],
     professional |-> [features |-> AllFeatures \ {"signed_updates"},
                       limits |-> Limits(5, 250, 5000000)],
     standard |-> [features |-> {"simulation_center", "water_quality", "predictive_maintenance",
                                 "usage_metering", "support_bundle"},
                   limits |-> Limits(1, 50, 500000)],
     starter |-> [features |-> {"water_quality", "support_bundle"},
                  limits |-> Limits(1, 10, 50000)]]
PlanOr(name) == IF name \in DOMAIN Plans THEN Plans[name] ELSE Plans["enterprise"]

\* A licence document wins over the plan's name; one that does not parse
\* falls back to it, and every unknown name falls back to enterprise.
Entitlements(env) ==
    LET doc == env.license
    IN IF doc.kind = "document"
       THEN [features |-> IF doc.listed THEN doc.features \cap AllFeatures
                          ELSE PlanOr(doc.plan).features,
             limits |-> [k \in DOMAIN UnlimitedLimits |->
                            IF k \in DOMAIN doc.limits THEN doc.limits[k] ELSE Unlimited]]
       ELSE PlanOr(env.plan)

RequireFeature(env, feature) == IF feature \in Entitlements(env).features THEN 200 ELSE 402

\* limits_status and the rows of billing_export.
WithinLimit(used, limit) == limit = Unlimited \/ used <= limit
LimitsStatus(env, used) ==
    LET limits == Entitlements(env).limits
    IN [k \in DOMAIN limits |-> WithinLimit(used[k], limits[k])]

---------------------------------------------------------------------------
(* The fleet.  Scores and energies are in tenths.                          *)

Facility(tenant, online) == [tenant |-> tenant, online |-> online]
Catalog ==
    [FacAlpha |-> Facility("TEN-ACME", TRUE), FacBeta |-> Facility("TEN-ACME", FALSE),
     FacGamma |-> Facility("TEN-ACME", TRUE), FacOmega |-> Facility("TEN-GLOBEX", TRUE)]
Metrics(score, band, power, alarms, production) ==
    [score |-> score, band |-> band, power |-> power, alarms |-> alarms,
     production |-> production]
Rollup ==
    [FacAlpha |-> Metrics(795, "Monitor", 15200, 1, 119520),
     FacBeta |-> Metrics(620, "Degraded", 9800, 3, 80000),
     FacGamma |-> Metrics(910, "Healthy", 17500, 0, 140000),
     FacOmega |-> Metrics(550, "Degraded", 21000, 5, 200000)]

BandSeverity == [Critical |-> 4, HighRisk |-> 3, Degraded |-> 2, Monitor |-> 1, Healthy |-> 0]

IsVisible(p, f) ==
    /\ p.tenantId # None
    /\ Catalog[f].tenant = p.tenantId
    /\ CanManageFacilities(p) \/ f \in p.facilityIds
ScopedCatalog(p) == {f \in DOMAIN Catalog : IsVisible(p, f)}

WorstBand(fs) ==
    CHOOSE b \in DOMAIN BandSeverity :
        BandSeverity[b] = Max({BandSeverity[Rollup[f].band] : f \in fs} \cup {0})

Totals(fs) ==
    LET Total(F(_)) == FoldSet(LAMBDA f, sum : sum + F(f), 0, fs)
        count == Cardinality(fs)
    IN [count |-> count,
        online |-> Cardinality({f \in fs : Catalog[f].online}),
        avgHealth |-> IF count = 0 THEN 0 ELSE Total(LAMBDA f : Rollup[f].score) \div count,
        worstBand |-> WorstBand(fs),
        power |-> Total(LAMBDA f : Rollup[f].power),
        production |-> Total(LAMBDA f : Rollup[f].production),
        alarms |-> Total(LAMBDA f : Rollup[f].alarms)]

FleetOverview(p) == [rows |-> ScopedCatalog(p), totals |-> Totals(ScopedCatalog(p))]
=============================================================================
