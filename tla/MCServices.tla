------------------------------ MODULE MCServices ------------------------------
(* Services on small instances.                                            *)
EXTENDS Services
CONSTANTS c1, c2, e1, e2, h1, h2, r1, r2

Who == INSTANCE Access

(* Api: the environments, and who sends requests in each.                  *)
Claims(user, realm, client, tenants, tenant, facilities) ==
    [user |-> user, realmRoles |-> realm, clientRoles |-> client, tenantList |-> tenants, tenant |-> tenant,
     facilityList |-> facilities, facility |-> Who!None]
Good(c) == [kind |-> "good", ingest |-> "other", claims |-> c]
Nobody == [kind |-> "missing", ingest |-> "match", claims |-> Claims("nobody", {}, {}, {}, Who!None, {})]
Operator == Good(Claims("op", {"operator"}, {}, {}, "TEN-ACME", {"FacAlpha"}))
Visitor == Good(Claims("vis", {}, {}, {}, "TEN-ACME", {"FacBeta"}))
Engineer == Good(Claims("eng", {}, {"engineer", "security", "auditor"}, {}, Who!None, {}))
Root == Good(Claims("root", {"admin", "tenant-admin"}, {}, {Who!DefaultTenant}, "TEN-ACME", {}))
NoLicense == [kind |-> "none", listed |-> FALSE, features |-> {}, plan |-> Who!None, limits |-> <<>>]
Env(plan, tokens, bounds) ==
    [authDisabled |-> FALSE, key |-> "set", ingestToken |-> FALSE, plan |-> plan,
     license |-> NoLicense, tokens |-> tokens, bounds |-> bounds]
Bounds(e, r, u, m) == [events |-> e, runs |-> r, use |-> u, months |-> m]
MCSettings ==
    {Env("enterprise", {Operator, Engineer}, Bounds(2, 1, 1, 1)),
     Env("enterprise", {Root}, Bounds(2, 1, 1, 1)),
     Env("enterprise", {Operator, Visitor}, Bounds(3, 0, 1, 1)),
     Env("professional", {Engineer}, Bounds(1, 2, 2, 2)),
     [Env("starter", {Nobody}, Bounds(2, 1, 1, 1)) EXCEPT !.authDisabled = TRUE, !.key = "unset",
                                                          !.ingestToken = TRUE]}
MCScopeArgs == {<<Who!None, Who!None>>, <<"TEN-ACME", "FacAlpha">>}

(* SimJobs and TreatmentJobs: what is submitted.                           *)
MCScenarios == {[scenario |-> "leak", element |-> "J1", setting |-> "none"]}
SolvedPoint(e, r, t) == [energy |-> e, recovery |-> r, tds |-> t]
Asked(kind, variable, points, minRecovery, maxTds) ==
    [kind |-> kind, variable |-> variable, points |-> points, minRecovery |-> minRecovery, maxTds |-> maxTds]
P1 == SolvedPoint(3, 40, 500)
P2 == SolvedPoint(2, 40, 600)
P3 == SolvedPoint(3, 45, 400)
MCProcesses ==
    {Asked("optimize", "none", <<P2, P1, P3>>, 40, 500),
     Asked("optimize", "none", <<P2, P2>>, 40, 500),
     Asked("sensitivity", "feed_tds_mg_l", <<P1, P2>>, 0, 0),
     Asked("sensitivity", "flow", <<P1, P2>>, 0, 0),
     Asked("membrane_degradation", "none", <<P1, P2>>, 0, 0),
     Asked("simulate", "none", <<P1>>, 0, 0)}

(* EventBus and Training.                                                  *)
MCSubjects == {<<"watertwin", "events", "audit", "appended">>, <<"watertwin", "events", "pump", "start">>}
MCCaptures ==
    {[kind |-> "action", credits |-> {"detectLeak", "localise"}],
     [kind |-> "note", credits |-> {"dispatchInspection"}], [kind |-> "command", credits |-> {}]}

(* Signals: a tag map with a scale and one without, one source that cannot *)
(* be built and one whose map does not validate, and reads that leave the  *)
(* range, repeat, are stale, carry text or fail.                           *)
MCTags ==
    [tagA |-> [asset_id |-> "A", metric |-> "dp_bar", unit |-> "mbar", scale |-> 2, offset |-> 100000],
     tagB |-> [asset_id |-> "B", metric |-> "dp_bar", unit |-> "bar"]]
Measured(v) == [is |-> "number", v |-> v]
GoodMap == [provenance |-> "measured", tags |-> MCTags]
BadMap == [provenance |-> "measured", tags |-> [tagA |-> [asset_id |-> "A"]]]
Gateway(source, map, access, query) == [requested |-> source, tagMap |-> map, access |-> access, query |-> query]
MCConfigs ==
    {Gateway("historian", GoodMap, "csv", "none"), Gateway("modbus", GoodMap, "csv", "none"),
     Gateway("historian", GoodMap, "sql", "update"), Gateway("modbus", BadMap, "csv", "none")}
Delivered(tag, value) == [tag |-> tag, customer_tag |-> "none", value |-> value, stale |-> FALSE]
Old(tag, value) == [tag |-> "none", customer_tag |-> tag, value |-> value, stale |-> TRUE]
Register(tag, kind, words) == [tag |-> tag, kind |-> kind, words |-> words, error |-> FALSE]
MCReads ==
    [opcua |-> {},
     historian |->
        {<<Delivered("tagA", Measured(450000)), Delivered("tagB", Measured(570))>>,
         <<Delivered("tagA", Measured(451000)), Delivered("tagB", [is |-> "nan", v |-> 0])>>,
         <<Delivered("none", Measured(1)), Delivered("tagB", Measured(20000)), Delivered("tagB", [is |-> "text", v |-> 0])>>,
         <<Old("tagB", Measured(570)), Delivered("tagB", Measured(580))>>},
     modbus |->
        {<<Register("tagA", "holding", <<450000>>), Register("tagB", "coil", <<1>>)>>,
         <<Register("tagA", "input", <<450000, 7>>), Register("tagB", "coil", <<>>)>>,
         <<Register("tagA", "input", <<>>), Register("tagB", "coil", <<1>>)>>}]
MCRanges == [dp_bar |-> [lo |-> 0, hi |-> 10000]]

(* Twin: one pump between a reservoir and a junction.                      *)
Entered(s, id, a, b, x, y) == [section |-> s, id |-> id, from |-> a, to |-> b, x |-> x, y |-> y]
MCModel ==
    <<Entered("JUNCTIONS", "J1", "", "", 0, 0), Entered("RESERVOIRS", "R1", "", "", 0, 0),
      Entered("PUMPS", "PU-PROD-1", "R1", "J1", 0, 0), Entered("COORDINATES", "J1", "", "", 4, 2),
      Entered("COORDINATES", "R1", "", "", 1, 0), Entered("VERTICES", "PU-PROD-1", "", "", 2, 2)>>

(* RoReference: packages/tests/test_calculations.py, the cross-check cases *)
(* of treatment-sim, and the plant of water_quality.py.                    *)
RoCase(feed, area, pressure, tds, kelvin) ==
    [feed |-> feed, area |-> area, pressure |-> pressure, tds |-> tds, kelvin |-> kelvin,
     drop |-> 1000, b |-> 1500, erd |-> 95]
PlantCases == {RoCase(500, 37000, 60000, 45000, 299)}
MCCases ==
    PlantCases \cup
    {RoCase(100, 1200, 60000, 35000, 298), RoCase(120, 1400, 65000, 38000, 298),
     RoCase(80, 1000, 55000, 32000, 298), RoCase(100, 1000, 20000, 5000, 298)}
=============================================================================
