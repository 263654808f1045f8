------------------------------ MODULE Gatekeeping ------------------------------
(***************************************************************************)
(* What the platform decides from its configuration before it does         *)
(* anything: whether a deployment profile lets it reach toward the OT zone *)
(* (app/deployment.py, app/sources), which regulatory limits are in force  *)
(* and whether the water meets them (app/config_store.py, compliance.py),  *)
(* and whether an update manifest is authentic (app/updates.py).  Pure.    *)
(* Values and limits are in thousandths of their unit.                     *)
(***************************************************************************)
EXTENDS Integers, Sequences, FiniteSets, FiniteSetsExt, SequencesExt

---------------------------------------------------------------------------
(* The deployment profile.  An empty setting is the standard profile, an   *)
(* unknown one the one-way diode.                                          *)
Profiles == {"standard", "one_way_diode"}
GetProfile(config) ==
    CASE config.profile = "" -> "standard"
      [] config.profile \in Profiles -> config.profile
      [] OTHER -> "one_way_diode"

AlwaysInitiated == {"opcua", "modbus"}
HistorianAccess(config) == IF config.historianKind = "" THEN "csv" ELSE config.historianKind
IsPlatformInitiated(kind, config) ==
    \/ kind \in AlwaysInitiated
    \/ kind = "historian" /\ HistorianAccess(config) \in {"rest", "sql"}
SourceAllowed(kind, config) ==
    ~(GetProfile(config) = "one_way_diode" /\ IsPlatformInitiated(kind, config))
RequestedSource(config) == IF config.source = "" THEN "synthetic" ELSE config.source

\* The lifespan hook raises, and the service does not start.
StartupRefused(config) ==
    GetProfile(config) = "one_way_diode" /\ ~SourceAllowed(RequestedSource(config), config)

---------------------------------------------------------------------------
(* The guarded resolver.  "settings" holds the names of the OT settings    *)
(* that are given, "broken" those whose value cannot be used (a tag map    *)
(* that does not load, registers that do not parse) and "probes" tells     *)
(* whether the source answers.                                             *)
Required(kind) ==
    CASE kind = "opcua" -> {"endpoint", "node_ids", "tag_map"}
      [] kind = "modbus" -> {"host", "registers", "tag_map"}
      [] kind = "historian" -> {"tag_map", "access"}
Builds(kind, config) ==
    /\ Required(kind) \subseteq config.settings
    /\ Required(kind) \cap config.broken = {}
Resolution(requested, active) ==
    [requested |-> requested, active |-> active, fallback |-> requested # active]
\* {} when the directional guard raises, {resolution} otherwise.
Resolve(config) ==
    LET requested == RequestedSource(config)
    IN IF requested # "synthetic" /\ ~SourceAllowed(requested, config) THEN {}
       ELSE IF requested \in {"opcua", "modbus", "historian"} /\ Builds(requested, config) /\ config.probes
            THEN {Resolution(requested, requested)}
            ELSE {Resolution(requested, "synthetic")}

---------------------------------------------------------------------------
(* The compliance limits: a function from parameter to [bound, limit,      *)
(* stage, enabled].  An override document is a sequence of items, one of   *)
(* which may not validate: what came before it stays applied.              *)
DefaultLimit(bound, limit) == [bound |-> bound, limit |-> limit, stage |-> "finished", enabled |-> TRUE]
DefaultLimits ==
    [p \in {"turbidity_ntu", "conductivity_us_cm", "free_chlorine_mg_l", "boron_mg_l", "tds_mg_l", "toc_mg_l"} |->
        CASE p = "turbidity_ntu" -> DefaultLimit("max", 300)
          [] p = "conductivity_us_cm" -> DefaultLimit("max", 1600000)
          [] p = "free_chlorine_mg_l" -> DefaultLimit("min", 200)
          [] p = "boron_mg_l" -> DefaultLimit("max", 2400)
          [] p = "tds_mg_l" -> DefaultLimit("max", 600000)
          [] p = "toc_mg_l" -> DefaultLimit("max", 2000)]
SetLimit(limits, item) ==
    [p \in DOMAIN limits \cup {item.parameter} |-> IF p = item.parameter THEN item.value ELSE limits[p]]
ValidItems(items) ==
    LET bad == {i \in DOMAIN items : ~items[i].valid}
    IN IF bad = {} THEN items ELSE SubSeq(items, 1, Min(bad) - 1)
Upserted(limits, items) ==
    LET after[n \in 0..Len(items)] == IF n = 0 THEN limits ELSE SetLimit(after[n - 1], items[n])
    IN after
Upsert(limits, items) == Upserted(limits, ValidItems(items))[Len(ValidItems(items))]
\* The file first, then the inline document, whatever became of the file.
ApplyEnv(limits, file, inline) == Upsert(Upsert(limits, file), inline)
RemoveLimit(limits, parameter) == [p \in DOMAIN limits \ {parameter} |-> limits[p]]

(* "measured" is a function from <<stage, parameter>> to a value.          *)
Within(limit, value) ==
    IF limit.bound = "max" THEN value <= limit.limit ELSE value >= limit.limit
Magnitude(x) == IF x < 0 THEN -x ELSE x
\* In hundredths of a percent, rounded half to even as round() does.
Rounded2(num, den) ==
    LET q == num \div den
        r == 2 * (num % den)
    IN IF r > den \/ (r = den /\ q % 2 = 1) THEN q + 1 ELSE q
ExceedancePct(limit, value) ==
    LET breach == IF limit.bound = "max" THEN value - limit.limit ELSE limit.limit - value
    IN IF limit.limit = 0 \/ breach <= 0 THEN 0
       ELSE Rounded2(breach * 10000, Magnitude(limit.limit))
Screened(limits, measured) ==
    {p \in DOMAIN limits : limits[p].enabled /\ <<limits[p].stage, p>> \in DOMAIN measured}
Check(limit, value) ==
    [within |-> Within(limit, value),
     pct |-> IF Within(limit, value) THEN 0 ELSE ExceedancePct(limit, value)]
Evaluate(limits, measured) ==
    LET checks == [p \in Screened(limits, measured) |-> Check(limits[p], measured[<<limits[p].stage, p>>])]
        exceedances == {p \in DOMAIN checks : ~checks[p].within}
    IN [checks |-> checks, exceedances |-> exceedances, compliant |-> exceedances = {}]

---------------------------------------------------------------------------
(* The update channel.  A configured key is [form, name]: the PEM one is   *)
(* taken before the hex one, even when it cannot be used.  A signature is  *)
(* [hex, by, of]; NoKey stands for a setting that is not given.            *)
NoKey == [usable |-> FALSE, name |-> "none"]
LoadKey(pem, hex) ==
    LET taken == IF pem # NoKey THEN pem ELSE hex
    IN IF taken.usable THEN taken ELSE NoKey
\* The key of the request is taken before the configured one of its form.
VerifyManifest(manifest, signature, requestPem, pem, hex) ==
    LET key == LoadKey(IF requestPem # NoKey THEN requestPem ELSE pem, hex)
        reason == IF key = NoKey THEN "no key"
                  ELSE IF ~signature.hex THEN "not hex"
                  ELSE IF signature.by # key.name \/ signature.of # manifest THEN "no match"
                  ELSE "valid"
    IN [verified |-> reason = "valid", reason |-> reason, key |-> key.name, applied |-> FALSE]

---------------------------------------------------------------------------
(* Bounded inputs.                                                         *)
Sources == {"", "synthetic", "opcua", "modbus", "historian", "scada"}
AllSettings == {"endpoint", "node_ids", "tag_map", "host", "registers", "access"}
SampleConfigs ==
    [profile : {"", "standard", "one_way_diode", "diode"}, historianKind : {"", "csv", "rest", "sql"},
     source : Sources, settings : {AllSettings, AllSettings \ {"tag_map"}, {}},
     broken : {{}, {"registers"}, {"access"}}, probes : BOOLEAN]
SampleItems ==
    [parameter : {"turbidity_ntu", "iron_mg_l"}, valid : BOOLEAN,
     value : {[bound |-> "max", limit |-> l, stage |-> "finished", enabled |-> e] : l \in {0, 10000}, e \in BOOLEAN}]
SampleDocuments(n) == UNION {[1..k -> SampleItems] : k \in 0..n}
SampleLimits ==
    [bound : {"max", "min"}, limit : {-300, 0, 200, 2400}, stage : {"finished", "ro_feed"}, enabled : BOOLEAN]
SampleValues == {-600, -300, 0, 1, 199, 200, 201, 400, 2400, 2401}
Keys == {NoKey} \cup [usable : BOOLEAN, name : {"release", "other"}]
Signatures == [hex : BOOLEAN, by : {"release", "other"}, of : {"m1", "m2"}]

\* Under the diode profile no source in use is one the platform opens a
\* connection for, whatever the settings; the service refuses to start
\* exactly on the configurations whose source the resolver would refuse, and
\* a misspelt profile is as strict as the diode.
OneWay(c) ==
    /\ \A r \in Resolve(c) :
          GetProfile(c) = "one_way_diode" => ~IsPlatformInitiated(r.active, c)
    /\ StartupRefused(c) <=> Resolve(c) = {}
    /\ c.profile \notin Profiles \cup {""} =>
          Resolve(c) = Resolve([c EXCEPT !.profile = "one_way_diode"])

\* An override never drops a default, a document that breaks off leaves what
\* it had set, and the inline document has the last word.
Layered(file, inline) ==
    LET limits == ApplyEnv(DefaultLimits, file, inline)
        said == ValidItems(file) \o ValidItems(inline)
        Names(p) == {i \in DOMAIN said : said[i].parameter = p}
    IN /\ DOMAIN limits = DOMAIN DefaultLimits \cup {said[i].parameter : i \in DOMAIN said}
       /\ \A p \in DOMAIN limits :
             \/ Names(p) = {} /\ limits[p] = DefaultLimits[p]
             \/ \E last \in Names(p) : /\ \A i \in Names(p) : i <= last
                                       /\ limits[p] = said[last].value
       /\ \A p \in DOMAIN limits : p \notin DOMAIN RemoveLimit(limits, p)

\* The water is compliant exactly when no enabled limit that is measured is
\* broken; a broken one shows by how much, unless the limit is zero or the
\* excess is lost in rounding, and a limit that holds shows nothing.
VerdictTrue(l, v) ==
    LET e == Evaluate([p \in {"x"} |-> l], [k \in {<<"finished", "x">>} |-> v])
        broken == (l.bound = "max" /\ v > l.limit) \/ (l.bound = "min" /\ v < l.limit)
    IN /\ e.compliant <=> ~(l.enabled /\ l.stage = "finished" /\ broken)
       /\ \A p \in DOMAIN e.checks :
             /\ e.checks[p].pct > 0 => broken
             /\ broken /\ l.limit # 0 /\ Magnitude(v - l.limit) * 20000 > Magnitude(l.limit)
                   => e.checks[p].pct > 0

\* A manifest passes only with a signature made over it by the key in force,
\* which is the key of the request if it brings one; nothing is applied.
OnlySigned(m, s, requestPem, pem, hex) ==
    LET result == VerifyManifest(m, s, requestPem, pem, hex)
    IN /\ result.verified =>
             /\ s.hex /\ s.of = m /\ s.by = result.key
             /\ requestPem # NoKey => requestPem.usable /\ s.by = requestPem.name
             /\ requestPem = NoKey /\ pem # NoKey => pem.usable /\ s.by = pem.name
       /\ ~result.applied

GatekeepingSound ==
    /\ \A c \in SampleConfigs : OneWay(c)
    /\ \A file \in SampleDocuments(2), inline \in SampleDocuments(1) : Layered(file, inline)
    /\ \A l \in SampleLimits, v \in SampleValues : VerdictTrue(l, v)
    /\ \A requestPem, pem, hex \in Keys, s \in Signatures, m \in {"m1", "m2"} :
          OnlySigned(m, s, requestPem, pem, hex)
=============================================================================
