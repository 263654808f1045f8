--------------------------------- MODULE Twin ----------------------------------
(***************************************************************************)
(* The geospatial network twin: the import of the EPANET model, geometry   *)
(* validation and the leak overlay (packages/network_twin), and its store  *)
(* (watertwin-api network_store.py, network_twin.py), which several API    *)
(* processes fill in the same PostGIS table, statement by statement and    *)
(* without a transaction, each with its memory to fall back on.  Schematic *)
(* coordinates are integers, degrees in units of 1e-7.                     *)
(***************************************************************************)
EXTENDS Integers, Sequences, FiniteSets, FiniteSetsExt, SequencesExt, Functions, TLC

CONSTANTS
    Processes,    \* API processes on one database
    Model,        \* rows of the EPANET file: [section, id, from, to, x, y]
    MaxLoads, MaxBreaks   \* bounds

VARIABLES table, memory, connection, loader, loads, breaks
twinvars == <<table, memory, connection, loader, loads, breaks>>

---------------------------------------------------------------------------
(* epanet_import: the sections the twin reads, a later row of an id          *)
(* replacing an earlier one; schematic positions default to the origin.      *)
NodeSections == {"JUNCTIONS", "RESERVOIRS", "TANKS"}
LinkSections == {"PIPES", "PUMPS", "VALVES"}
TypeOf == [JUNCTIONS |-> "junction", RESERVOIRS |-> "reservoir", TANKS |-> "tank",
           PIPES |-> "pipe", PUMPS |-> "pump", VALVES |-> "valve"]
RowsIn(rows, sections) == SelectSeq(rows, LAMBDA r : r.section \in sections)
Ids(rows, sections) == {r.id : r \in Range(RowsIn(rows, sections))}
RowOf(rows, sections, id) == Last(SelectSeq(RowsIn(rows, sections), LAMBDA r : r.id = id))
PositionOf(rows, id) ==
    IF id \in Ids(rows, {"COORDINATES"})
    THEN LET r == RowOf(rows, {"COORDINATES"}, id) IN <<r.x, r.y>>
    ELSE <<0, 0>>
Vertices(rows, id) ==
    LET own == SelectSeq(RowsIn(rows, {"VERTICES"}), LAMBDA r : r.id = id)
    IN [i \in DOMAIN own |-> <<own[i].x, own[i].y>>]
ToLonLat(xy) == <<550000000 + 20000 * xy[1], 250000000 + 20000 * xy[2]>>
CanonicalAsset(id) == IF id \in {"PU-PROD-1", "PU-PROD-2"} THEN "AST-BOOST-01" ELSE id
ImportNode(rows, id) ==
    [id |-> id, kind |-> "node", type |-> TypeOf[RowOf(rows, NodeSections, id).section],
     asset |-> CanonicalAsset(id), ends |-> <<id>>, geometry |-> <<ToLonLat(PositionOf(rows, id))>>]
ImportLink(rows, id) ==
    LET r == RowOf(rows, LinkSections, id)
        path == <<PositionOf(rows, r.from)>> \o Vertices(rows, id) \o <<PositionOf(rows, r.to)>>
    IN [id |-> id, kind |-> "link", type |-> TypeOf[r.section], asset |-> CanonicalAsset(id),
        ends |-> <<r.from, r.to>>, geometry |-> [i \in DOMAIN path |-> ToLonLat(path[i])]]
ImportNetwork(rows) ==
    {ImportNode(rows, id) : id \in Ids(rows, NodeSections)}
        \cup {ImportLink(rows, id) : id \in Ids(rows, LinkSections)}
Topology == ImportNetwork(Model)
ByAsset(elements, asset) == {e \in elements : asset \in {e.asset, e.id}}

\* Nearest first, by the point of a node and the mean of a link's vertices.
\* Great-circle distance at the anchor: a degree east is 906/1000 of one north.
Mean(geometry, axis) ==
    FoldFunction(LAMBDA p, sum : p[axis] + sum, 0, geometry) \div Len(geometry)
DistanceTo(e, lon, lat) ==
    LET east == (906 * ((Mean(e.geometry, 1) - lon) \div 10000)) \div 1000
        north == (Mean(e.geometry, 2) - lat) \div 10000
    IN east * east + north * north
Nearest(elements, lon, lat, limit) ==
    LET ranked == SetToSortSeq(elements, LAMBDA a, b : DistanceTo(a, lon, lat) < DistanceTo(b, lon, lat))
    IN SubSeq(ranked, 1, Min({Len(ranked), Max({1, limit})}))

\* leak_localization_overlay: zones around the suspected nodes, in the order
\* of their residuals; in millimetres and ten-thousandths.
ZoneRadius(residual) == Min({400000, 40000 + 60 * Max({0, residual})})
Candidates(ranked, elements) ==
    SelectSeq([rank \in DOMAIN ranked |-> [rank |-> rank, node |-> ranked[rank][1], residual |-> ranked[rank][2]]],
              LAMBDA c : \E e \in elements : e.id = c.node /\ e.kind = "node")
LeakOverlay(ranked, suspected, elements) ==
    LET worst == Max({0} \cup {ranked[i][2] : i \in DOMAIN ranked})
        known == Candidates(ranked, elements)
    IN [i \in DOMAIN known |->
           [node |-> known[i].node, rank |-> known[i].rank, radius |-> ZoneRadius(known[i].residual),
            score |-> IF worst > 0 THEN (10000 * known[i].residual) \div worst ELSE 0,
            suspected |-> IF suspected # "none" THEN known[i].node = suspected ELSE known[i].rank = 1]]

---------------------------------------------------------------------------
(* gis_validation: geometry is refused with a reason, never repaired.        *)
Orientation(a, b, c) == (b[1] - a[1]) * (c[2] - a[2]) - (b[2] - a[2]) * (c[1] - a[1])
Between(a, b, p) == Min({a, b}) <= p /\ p <= Max({a, b})
OnSegment(a, b, p) == Between(a[1], b[1], p[1]) /\ Between(a[2], b[2], p[2])
\* Seeded fault: collinear and touching segments are forgotten.
SegmentsCross(p1, p2, p3, p4) ==
    /\ (Orientation(p3, p4, p1) > 0) # (Orientation(p3, p4, p2) > 0)
    /\ (Orientation(p1, p2, p3) > 0) # (Orientation(p1, p2, p4) > 0)
SegmentsIntersect(p1, p2, p3, p4) ==
    LET d1 == Orientation(p3, p4, p1)
        d2 == Orientation(p3, p4, p2)
        d3 == Orientation(p1, p2, p3)
        d4 == Orientation(p1, p2, p4)
    IN \/ (d1 > 0) # (d2 > 0) /\ (d3 > 0) # (d4 > 0)
       \/ d1 = 0 /\ OnSegment(p3, p4, p1)
       \/ d2 = 0 /\ OnSegment(p3, p4, p2)
       \/ d3 = 0 /\ OnSegment(p1, p2, p3)
       \/ d4 = 0 /\ OnSegment(p1, p2, p4)
\* Edges that share a vertex are not compared, the first and the last either.
RingSelfIntersects(ring) ==
    LET n == Len(ring) - 1
    IN n >= 3 /\ \E i \in 1..n, j \in 1..n :
                     /\ j > i + 1 /\ ~(i = 1 /\ j = n)
                     /\ SegmentsIntersect(ring[i], ring[i + 1], ring[j], ring[j + 1])
RingReason(ring) ==
    CASE Len(ring) < 4 -> "too few positions"
      [] \E i \in DOMAIN ring : Len(ring[i]) < 2 -> "malformed position"
      [] ring[1] # ring[Len(ring)] -> "not closed"
      [] RingSelfIntersects(ring) -> "self-intersecting"
      [] OTHER -> "none"
LineReason(line) ==
    CASE Len(line) < 2 -> "too few positions"
      [] \E i \in DOMAIN line : Len(line[i]) < 2 -> "malformed position"
      [] Cardinality(Range(line)) < 2 -> "a single point"
      [] OTHER -> "none"
\* A geometry is a sequence of parts: points, lines, or rings of polygons.
ValidGeometry(type, parts) ==
    CASE type \in {"Point", "MultiPoint"} ->
             parts # <<>> /\ (type = "Point" => Len(parts) = 1) /\ \A i \in DOMAIN parts : Len(parts[i]) >= 2
      [] type \in {"LineString", "MultiLineString"} ->
             parts # <<>> /\ \A i \in DOMAIN parts : LineReason(parts[i]) = "none"
      [] type \in {"Polygon", "MultiPolygon"} ->
             parts # <<>> /\ \A i \in DOMAIN parts : RingReason(parts[i]) = "none"
      [] OTHER -> FALSE

---------------------------------------------------------------------------
(* NetworkStore and NetworkTwin.ensure_loaded: the count under the lock,     *)
(* then, when it was zero, the load under the lock: a TRUNCATE and one       *)
(* INSERT for each element, committed one by one.                            *)
ElementIds == {e.id : e \in Topology}
LoadOrder == SetToSeq(ElementIds)
UseDb(p) == connection[p] = "up"
\* What a read of the process finds: the table while its connection works,
\* and the memory when it does not.
View(p) == IF UseDb(p) THEN table ELSE memory[p]
Idle == <<>>
Counting(p) ==
    /\ loader[p] = Idle /\ loads < MaxLoads /\ View(p) = {}
    /\ loader' = [loader EXCEPT ![p] = <<"truncate">>] /\ loads' = loads + 1
    /\ UNCHANGED <<table, memory, connection, breaks>>
\* The elements go to memory: the database is not used, or a statement failed.
Mirror(p) ==
    /\ memory' = [memory EXCEPT ![p] = ElementIds]
    /\ loader' = [loader EXCEPT ![p] = Idle]
LoadMemory(p) ==
    /\ loader[p] # Idle /\ ~UseDb(p)
    /\ Mirror(p)
    /\ UNCHANGED <<table, connection, loads, breaks>>
Truncate(p) ==
    /\ loader[p] = <<"truncate">> /\ UseDb(p)
    /\ table' = {} /\ loader' = [loader EXCEPT ![p] = <<"insert", 1>>]
    /\ UNCHANGED <<memory, connection, loads, breaks>>
\* A second INSERT of an element violates the primary key.
Insert(p) ==
    /\ Len(loader[p]) = 2 /\ UseDb(p)
    /\ LET i == loader[p][2] IN
         IF LoadOrder[i] \in table THEN Mirror(p) /\ UNCHANGED table
         ELSE /\ table' = table \cup {LoadOrder[i]}
              /\ loader' = [loader EXCEPT ![p] = IF i = Len(LoadOrder) THEN Idle ELSE <<"insert", i + 1>>]
              /\ UNCHANGED memory
    /\ UNCHANGED <<connection, loads, breaks>>
\* The connection breaks; nothing opens it again.
Break(p) ==
    /\ UseDb(p) /\ breaks < MaxBreaks
    /\ connection' = [connection EXCEPT ![p] = "broken"] /\ breaks' = breaks + 1
    /\ UNCHANGED <<table, memory, loader, loads>>
\* The process ends where it is and another starts with no memory.
RestartProcess(p) ==
    /\ breaks < MaxBreaks /\ breaks' = breaks + 1
    /\ connection' \in {[connection EXCEPT ![p] = c] : c \in {"up", "none"}}
    /\ memory' = [memory EXCEPT ![p] = {}] /\ loader' = [loader EXCEPT ![p] = Idle]
    /\ UNCHANGED <<table, loads>>

TwinInit ==
    /\ table = {} /\ memory = [p \in Processes |-> {}]
    /\ connection \in [Processes -> {"up", "none"}]
    /\ loader = [p \in Processes |-> Idle] /\ loads = 0 /\ breaks = 0
TwinNext ==
    \E p \in Processes : \/ Counting(p) \/ LoadMemory(p) \/ Truncate(p) \/ Insert(p)
                         \/ Break(p) \/ RestartProcess(p)
TwinTypeOK ==
    /\ table \subseteq ElementIds /\ memory \in [Processes -> SUBSET ElementIds]
    /\ connection \in [Processes -> {"up", "none", "broken"}]

---------------------------------------------------------------------------
(* Two processes that find the table empty load it into each other: one     *)
(* truncates what the other has inserted, and one fails on the other's      *)
(* rows.  As long as no connection breaks and no process dies in a load,    *)
(* the table is whole once no load is under way, and a process that lost    *)
(* the database has the whole twin in memory once it has loaded             *)
(* (network_store.py:127-165, network_twin.py:46-50).                       *)
Loading == {p \in Processes : loader[p] # Idle}
TwinWhole ==
    /\ Loading = {} /\ breaks = 0 /\ table # {} => table = ElementIds
    /\ \A p \in Processes : memory[p] \in {{}, ElementIds}

(* The import against the network it stands for, the validator against the  *)
(* definition of a crossing, the nearest element and the overlay against    *)
(* theirs.                                                                  *)
Grid == {<<x, y>> : x, y \in 0..2}
\* A common point of two segments of the grid lies at one of their 840ths.
Meet(p1, p2, p3, p4) ==
    \E t \in 0..840 :
        LET at == <<840 * p1[1] + t * (p2[1] - p1[1]), 840 * p1[2] + t * (p2[2] - p1[2])>>
            q3 == <<840 * p3[1], 840 * p3[2]>>
            q4 == <<840 * p4[1], 840 * p4[2]>>
        IN Orientation(q3, q4, at) = 0 /\ OnSegment(q3, q4, at)
TwinSound ==
    /\ \A e \in Topology : e.kind = "link" =>
           /\ Head(e.geometry) = ToLonLat(PositionOf(Model, e.ends[1]))
           /\ Last(e.geometry) = ToLonLat(PositionOf(Model, e.ends[2]))
    /\ \A e \in Topology : e \in ByAsset(Topology, e.asset) /\ e \in ByAsset(Topology, e.id)
    /\ \A p2 \in {<<2, 1>>, <<1, 2>>, <<2, 2>>, <<2, 0>>}, p3, p4 \in Grid :
           p3 # p4 => (SegmentsIntersect(<<0, 0>>, p2, p3, p4) <=> Meet(<<0, 0>>, p2, p3, p4))
    /\ ValidGeometry("Polygon", <<<<<<0, 0>>, <<2, 0>>, <<2, 2>>, <<0, 2>>, <<0, 0>>>>>>)
    /\ ~ValidGeometry("Polygon", <<<<<<0, 0>>, <<2, 2>>, <<2, 0>>, <<0, 2>>, <<0, 0>>>>>>)
    /\ \A e \in Topology : \A f \in Topology :
           DistanceTo(Nearest(Topology, e.geometry[1][1], e.geometry[1][2], 1)[1],
                      e.geometry[1][1], e.geometry[1][2])
             <= DistanceTo(f, e.geometry[1][1], e.geometry[1][2])
=============================================================================
