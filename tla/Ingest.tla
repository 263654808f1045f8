------------------------------- MODULE Ingest -------------------------------
(***************************************************************************)
(* Store.ingest_telemetry of watertwin-api (store.py): idempotent ingest   *)
(* of a batch into the database, with the in-memory fallback, in each of   *)
(* the API's processes.                                                    *)
(*                                                                         *)
(* The telemetry rows, the idempotency marker and the audit event of a     *)
(* batch commit in one transaction, so one sequence stands for the three.  *)
(***************************************************************************)
EXTENDS Naturals, Sequences, Functions

CONSTANTS
    Api,        \* the API processes (replicas) behind the ingest URL
    DbFaults    \* may a process lose its database connection?

ASSUME IngestAssumption == DbFaults \in BOOLEAN

VARIABLES
    ledger,     \* database: the batches recorded, in commit order
    mirror,     \* memory of each process: Store._batch_mem
    link,       \* memory of each process: does its connection work?
    apiUp       \* is the process running?

ingestVars == <<ledger, mirror, link, apiUp>>

Recorded == Range(ledger)

IngestTypeOK ==
    /\ ledger \in Seq(Nat)
    /\ mirror \in [Api -> SUBSET Nat]
    /\ link \in [Api -> BOOLEAN]
    /\ apiUp \in [Api -> BOOLEAN]

IngestInit ==
    /\ ledger = <<>>
    /\ mirror = [a \in Api |-> {}]
    /\ link = [a \in Api |-> TRUE]
    /\ apiUp = [a \in Api |-> TRUE]

-----------------------------------------------------------------------------
(* The SELECT of _ingest_telemetry_db finds the batch already recorded.    *)
DbKnows(b) == b \in Recorded

(* Seeded fault: telemetry_batch has no primary key.                       *)
NoKey(b) == FALSE

(* The primary key of telemetry_batch refuses a second row of the batch.   *)
KeyViolated(b) == b \in Recorded

(* The transaction commits.                                                *)
CommitBatch(b) == ledger' = Append(ledger, b)

(* _ingest_telemetry_mem: a batch its own ledger knows is a duplicate, any *)
(* other is recorded in this process only.                                 *)
RecordInMemory(a, b) == mirror' = [mirror EXCEPT ![a] = @ \cup {b}]

-----------------------------------------------------------------------------
(* The connection of a process breaks.  Store never connects again: every  *)
(* later statement raises, until the process restarts.                     *)
BreakLink(a) ==
    /\ DbFaults
    /\ apiUp[a]
    /\ link[a]
    /\ link' = [link EXCEPT ![a] = FALSE]
    /\ UNCHANGED <<ledger, mirror, apiUp>>

(* A process dies, and its memory with it.                                 *)
CrashProcess(a) ==
    /\ apiUp[a]
    /\ apiUp' = [apiUp EXCEPT ![a] = FALSE]
    /\ mirror' = [mirror EXCEPT ![a] = {}]
    /\ link' = [link EXCEPT ![a] = FALSE]
    /\ UNCHANGED ledger

(* Store.__init__ -> _try_connect: one attempt; a process that fails it    *)
(* runs in memory mode.                                                    *)
StartProcess(a) ==
    /\ ~apiUp[a]
    /\ apiUp' = [apiUp EXCEPT ![a] = TRUE]
    /\ \E connected \in {TRUE, ~DbFaults} : link' = [link EXCEPT ![a] = connected]
    /\ UNCHANGED <<ledger, mirror>>
=============================================================================
