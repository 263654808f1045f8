------------------------------ MODULE Metering ------------------------------
(***************************************************************************)
(* The usage meter of the billing period (app/metering.py) as operators on *)
(* one record; every call rolls the period first.  Months are numbered.    *)
(***************************************************************************)
EXTENDS Integers, FiniteSets

EmptyMeter(month) == [period |-> month, facilities |-> {}, assets |-> {}, ingest |-> 0, calls |-> 0]

RollPeriodIfNeeded(u, month) == IF month # u.period THEN EmptyMeter(month) ELSE u

RecordFacility(u, month, f) == [RollPeriodIfNeeded(u, month) EXCEPT !.facilities = @ \cup {f}]
RecordAsset(u, month, a) == [RollPeriodIfNeeded(u, month) EXCEPT !.assets = @ \cup {a}]
RecordIngest(u, month, n) ==
    IF n <= 0 THEN u ELSE [RollPeriodIfNeeded(u, month) EXCEPT !.ingest = @ + n]
RecordApiCall(u, month) == [RollPeriodIfNeeded(u, month) EXCEPT !.calls = @ + 1]

\* snapshot: what the usage and billing views report.
Used(u) ==
    [facilities |-> Cardinality(u.facilities), assets |-> Cardinality(u.assets),
     ingest |-> u.ingest]
=============================================================================
