----------------------------- MODULE AuditChain -----------------------------
(***************************************************************************)
(* The hash-chained audit trail of watertwin-api (store.py, audit.py): one *)
(* table shared by every process, and in each process a lock, a memory     *)
(* chain to fall back to, and the hook that announces an appended event.   *)
(*                                                                         *)
(* An event is its id, which also stands for its hash: the hash function   *)
(* has no collisions and stored events are not edited.  The lock leaves    *)
(* one call per process between the read of the head and the append.       *)
(***************************************************************************)
EXTENDS Naturals, Sequences, Functions

CONSTANTS
    Api,        \* the API processes (replicas) that share the database
    MaxEvents,  \* bound: events created
    DbFaults    \* may statements fail and connections break?

ASSUME AuditAssumption == MaxEvents \in Nat /\ DbFaults \in BOOLEAN

VARIABLES
    table,      \* database: rows of audit_event in seq order
    trigger,    \* database: the append-only trigger, "on" or "off"
    stage,      \* each process: "down", starting, or "up"
    link,       \* each process: does its connection work? "ok" or "lost"
    mem,        \* each process: _audit_mem
    call,       \* each process: the call that holds Store._lock
    unsent,     \* each process: appended, lock released, hook not called yet
    announced,  \* history: events the hook was called for
    created     \* number of events created so far

vars == <<table, trigger, stage, link, mem, call, unsent, announced, created>>

Genesis == 0

Row == [id : Nat, prev : Nat, status : {"open", "committed", "void"}, tenant : {"null", "set"}]
Entry == [id : Nat, prev : Nat]
Idle == [phase |-> "idle"]
Call == [phase : {"head", "insert", "commit", "emit", "truncate"},
         kind : {"audit", "ingest", "fallback", "reset"}, id : Nat, prev : Nat]

TypeOK ==
    /\ table \in Seq(Row)
    /\ trigger \in {"on", "off"}
    /\ stage \in [Api -> {"down", "backfill", "guard", "up"}]
    /\ link \in [Api -> {"ok", "lost"}]
    /\ mem \in [Api -> Seq(Entry)]
    /\ call \in [Api -> Call \cup {Idle}]
    /\ unsent \in [Api -> SUBSET Nat]
    /\ announced \subseteq Nat
    /\ created \in Nat

Init ==
    /\ table = <<>>
    /\ trigger = "on"
    /\ stage = [a \in Api |-> "up"]
    /\ link = [a \in Api |-> "ok"]
    /\ mem = [a \in Api |-> <<>>]
    /\ call = [a \in Api |-> Idle]
    /\ unsent = [a \in Api |-> {}]
    /\ announced = {}
    /\ created = 0

-----------------------------------------------------------------------------
Committed(t) == {i \in DOMAIN t : t[i].status = "committed"}

(* _db_chain_head: the committed row with the greatest seq.                *)
IsDbHead(t, h) ==
    \/ Committed(t) = {} /\ h = Genesis
    \/ \E i \in Committed(t) : h = t[i].id /\ \A j \in Committed(t) : j <= i

(* _chain_head of a memory chain.                                          *)
MemHead(m) == IF m = <<>> THEN Genesis ELSE m[Len(m)].id

In(a, phase, kinds) == call[a] # Idle /\ call[a].phase = phase /\ call[a].kind \in kinds
Holds(a, phase) == call[a] # Idle /\ call[a].phase = phase

(* A transaction of b has read or written audit_event: statements that     *)
(* need the table for themselves wait for its end.                         *)
TableInUse(b) == In(b, "insert", {"ingest"}) \/ In(b, "commit", {"ingest"})

(* The open row of a call becomes committed or void.                       *)
Settle(id, status) ==
    table' = [i \in DOMAIN table |->
                IF table[i].id = id /\ table[i].status = "open"
                  THEN [table[i] EXCEPT !.status = status] ELSE table[i]]

Step(a, phase) == call' = [call EXCEPT ![a] = [@ EXCEPT !.phase = phase]]
Release(a) == call' = [call EXCEPT ![a] = Idle]

(* Seeded fault: the append never gives the lock back.                     *)
KeepLock(a) == Step(a, "done") /\ UNCHANGED unsent

(* Seeded fault: the lock is released and the hook forgotten.              *)
FinishSilently(a) == Release(a) /\ UNCHANGED unsent

(* After the append the lock is released and the hook follows, except in   *)
(* the fallback of ingest_telemetry, whose caller still holds the lock.    *)
Finish(a) ==
    IF call[a].kind = "fallback"
      THEN Step(a, "emit") /\ UNCHANGED unsent
      ELSE Release(a) /\ unsent' = [unsent EXCEPT ![a] = @ \cup {call[a].id}]

-----------------------------------------------------------------------------
(* audit and ingest_telemetry take the lock.  Without a connection, ingest *)
(* goes straight to its fallback, whose event is audited under the lock;   *)
(* an ingest has a second id at hand for the event of its fallback.        *)
Enter(a, kind) ==
    /\ stage[a] = "up"
    /\ call[a] = Idle
    /\ created' = created + (IF kind = "ingest" THEN 2 ELSE 1)
    /\ created' <= MaxEvents
    /\ call' = [call EXCEPT ![a] =
                  [phase |-> "head", id |-> created + 1, prev |-> Genesis,
                   kind |-> IF kind = "ingest" /\ link[a] = "lost" THEN "fallback" ELSE kind]]
    /\ UNCHANGED <<table, trigger, stage, link, mem, unsent, announced>>

(* Seeded fault: the head is taken from the process's own memory.          *)
OwnHead(a, h) == h = MemHead(mem[a])

(* The prev_hash of a row about to be inserted.                            *)
PrevHash(a, h) == IsDbHead(table, h)

ReadHead(a) ==
    /\ Holds(a, "head")
    /\ link[a] = "ok"
    /\ \E h \in 0 .. created :
        /\ PrevHash(a, h)
        /\ call' = [call EXCEPT ![a] = [phase |-> "insert", kind |-> @.kind,
                                        id |-> @.id, prev |-> h]]
    /\ UNCHANGED <<table, trigger, stage, link, mem, unsent, announced, created>>

NewRow(a, status) ==
    [id |-> call[a].id, prev |-> call[a].prev, status |-> status,
     tenant |-> IF call[a].kind = "ingest" THEN "null" ELSE "set"]

(* audit: the INSERT commits by itself.                                    *)
InsertRow(a) ==
    /\ In(a, "insert", {"audit", "fallback"})
    /\ link[a] = "ok"
    /\ table' = Append(table, NewRow(a, "committed"))
    /\ Finish(a)
    /\ UNCHANGED <<trigger, stage, link, mem, announced, created>>

(* _ingest_telemetry_db: the INSERT takes its seq inside the transaction,  *)
(* the row becomes visible at the commit.  The hook is not called.         *)
InsertInTransaction(a) ==
    /\ In(a, "insert", {"ingest"})
    /\ link[a] = "ok"
    /\ table' = Append(table, NewRow(a, "open"))
    /\ Step(a, "commit")
    /\ UNCHANGED <<trigger, stage, link, mem, unsent, announced, created>>

CommitRow(a) ==
    /\ Holds(a, "commit")
    /\ link[a] = "ok"
    /\ Settle(call[a].id, "committed")
    /\ Release(a)
    /\ UNCHANGED <<trigger, stage, link, mem, unsent, announced, created>>

-----------------------------------------------------------------------------
(* Seeded fault: the event keeps the link computed for the database.       *)
KeepDbLink(a) == [id |-> call[a].id, prev |-> call[a].prev]

(* link_event(event, self._chain_head)                                     *)
MemEntry(a) == [id |-> call[a].id, prev |-> MemHead(mem[a])]

(* A statement of audit fails: the event is chained in memory instead.     *)
AuditInMemory(a) ==
    /\ In(a, "head", {"audit", "fallback"}) \/ In(a, "insert", {"audit", "fallback"})
    /\ link[a] = "lost" \/ DbFaults
    /\ mem' = [mem EXCEPT ![a] = Append(@, MemEntry(a))]
    /\ Finish(a)
    /\ UNCHANGED <<table, trigger, stage, link, announced, created>>

(* The row is committed but the connection breaks before the answer: the   *)
(* event is in the table and is chained in memory as well.                 *)
InsertUnacknowledged(a) ==
    /\ DbFaults
    /\ In(a, "insert", {"audit", "fallback"})
    /\ link[a] = "ok"
    /\ table' = Append(table, NewRow(a, "committed"))
    /\ link' = [link EXCEPT ![a] = "lost"]
    /\ mem' = [mem EXCEPT ![a] = Append(@, MemEntry(a))]
    /\ Finish(a)
    /\ UNCHANGED <<trigger, stage, announced, created>>

(* The ingest transaction fails and rolls back (or commits without an      *)
(* answer): the fallback audits a new event with the lock still held.      *)
IngestFallsBack(a) ==
    /\ call[a] # Idle /\ call[a].kind = "ingest"
    /\ link[a] = "lost" \/ DbFaults
    /\ \E status \in {"void", "committed"} :
        /\ status = "committed" => DbFaults /\ link[a] = "ok" /\ Holds(a, "commit")
        /\ Settle(call[a].id, status)
        /\ link' = [link EXCEPT ![a] = IF status = "committed" THEN "lost" ELSE @]
    /\ call' = [call EXCEPT ![a] = [phase |-> "head", kind |-> "fallback",
                                    id |-> @.id + 1, prev |-> Genesis]]
    /\ UNCHANGED <<trigger, stage, mem, unsent, announced, created>>

-----------------------------------------------------------------------------
(* _emit: after audit released the lock, in whatever order the threads     *)
(* run; or, in the fallback of ingest, with the lock still held.           *)
Announce(a, e) ==
    /\ e \in unsent[a]
    /\ unsent' = [unsent EXCEPT ![a] = @ \ {e}]
    /\ announced' = announced \cup {e}
    /\ UNCHANGED <<table, trigger, stage, link, mem, call, created>>

AnnounceLocked(a) ==
    /\ Holds(a, "emit")
    /\ announced' = announced \cup {call[a].id}
    /\ Release(a)
    /\ UNCHANGED <<table, trigger, stage, link, mem, unsent, created>>

(* reset: the memory is cleared, then the table is truncated.              *)
BeginReset(a) ==
    /\ stage[a] = "up"
    /\ call[a] = Idle
    /\ mem' = [mem EXCEPT ![a] = <<>>]
    /\ call' = [call EXCEPT ![a] = [phase |-> "truncate", kind |-> "reset",
                                    id |-> Genesis, prev |-> Genesis]]
    /\ UNCHANGED <<table, trigger, stage, link, unsent, announced, created>>

Truncate(a) ==
    /\ Holds(a, "truncate")
    /\ link[a] = "ok"
    /\ \A b \in Api : ~TableInUse(b)
    /\ table' = <<>>
    /\ Release(a)
    /\ UNCHANGED <<trigger, stage, link, mem, unsent, announced, created>>

TruncateFails(a) ==
    /\ Holds(a, "truncate")
    /\ link[a] = "lost" \/ DbFaults
    /\ Release(a)
    /\ UNCHANGED <<table, trigger, stage, link, mem, unsent, announced, created>>

-----------------------------------------------------------------------------
(* The connection breaks for good; the server rolls its transaction back.  *)
LinkBreaks(a) ==
    /\ DbFaults
    /\ link[a] = "ok"
    /\ stage[a] = "up"
    /\ link' = [link EXCEPT ![a] = "lost"]
    /\ IF Holds(a, "commit") THEN Settle(call[a].id, "void") ELSE UNCHANGED table
    /\ UNCHANGED <<trigger, stage, mem, call, unsent, announced, created>>

Crash(a) ==
    /\ stage[a] # "down"
    /\ stage' = [stage EXCEPT ![a] = "down"]
    /\ link' = [link EXCEPT ![a] = "lost"]
    /\ mem' = [mem EXCEPT ![a] = <<>>]
    /\ IF Holds(a, "commit") THEN Settle(call[a].id, "void") ELSE UNCHANGED table
    /\ Release(a)
    /\ unsent' = [unsent EXCEPT ![a] = {}]
    /\ UNCHANGED <<trigger, announced, created>>

(* _try_connect, statement by statement: the append-only trigger is        *)
(* dropped for the backfill of rows without a tenant, then installed again.*)
StartMigration(a) ==
    /\ stage[a] = "down"
    /\ \A b \in Api : ~TableInUse(b)
    /\ trigger' = "off"
    /\ stage' = [stage EXCEPT ![a] = "backfill"]
    /\ UNCHANGED <<table, link, mem, call, unsent, announced, created>>

Unscoped(i) == table[i].status = "committed" /\ table[i].tenant = "null"

Backfill(a) ==
    /\ stage[a] = "backfill"
    /\ \/ trigger = "off"
       \/ \A i \in DOMAIN table : ~Unscoped(i)
    /\ table' = [i \in DOMAIN table |-> IF Unscoped(i) THEN [table[i] EXCEPT !.tenant = "set"]
                                                     ELSE table[i]]
    /\ stage' = [stage EXCEPT ![a] = "guard"]
    /\ UNCHANGED <<trigger, link, mem, call, unsent, announced, created>>

(* The trigger, installed by another process in between, rejects the       *)
(* update: the process runs in memory mode.                                *)
BackfillRejected(a) ==
    /\ stage[a] = "backfill"
    /\ trigger = "on"
    /\ \E i \in DOMAIN table : Unscoped(i)
    /\ stage' = [stage EXCEPT ![a] = "up"]
    /\ UNCHANGED <<table, trigger, link, mem, call, unsent, announced, created>>

InstallGuard(a) ==
    /\ stage[a] = "guard"
    /\ \A b \in Api : ~TableInUse(b)
    /\ trigger' = "on"
    /\ stage' = [stage EXCEPT ![a] = "up"]
    /\ link' = [link EXCEPT ![a] = "ok"]
    /\ UNCHANGED <<table, mem, call, unsent, announced, created>>

(* The database is unreachable at some point of _try_connect.              *)
StartInMemory(a) ==
    /\ DbFaults
    /\ stage[a] \in {"down", "backfill", "guard"}
    /\ stage' = [stage EXCEPT ![a] = "up"]
    /\ UNCHANGED <<table, trigger, link, mem, call, unsent, announced, created>>

-----------------------------------------------------------------------------
Proceed(a) ==
    \/ ReadHead(a) \/ InsertRow(a) \/ InsertInTransaction(a) \/ CommitRow(a)
    \/ AuditInMemory(a) \/ IngestFallsBack(a) \/ AnnounceLocked(a)
    \/ Truncate(a) \/ TruncateFails(a)

Start(a) == StartMigration(a) \/ Backfill(a) \/ BackfillRejected(a) \/ InstallGuard(a)

Next ==
    \E a \in Api :
        \/ \E kind \in {"audit", "ingest"} : Enter(a, kind)
        \/ BeginReset(a)
        \/ Proceed(a)
        \/ InsertUnacknowledged(a)
        \/ \E e \in unsent[a] : Announce(a, e)
        \/ LinkBreaks(a)
        \/ Crash(a)
        \/ Start(a)
        \/ StartInMemory(a)

Spec == Init /\ [][Next]_vars

(* The thread that holds the lock runs on, and so does a waiting statement *)
(* once the table is free.                                                 *)
FairSpec == Spec /\ \A a \in Api : WF_vars(Proceed(a))

-----------------------------------------------------------------------------
(* Each committed row points to the committed row before it.               *)
LinkHolds(t, i) ==
    LET Before == {j \in Committed(t) : j < i}
    IN \/ Before = {} /\ t[i].prev = Genesis
       \/ \E j \in Before : t[i].prev = t[j].id /\ \A k \in Before : k <= j

Verifies(t) == \A i \in Committed(t) : LinkHolds(t, i)

(* verify_chain accepts the table: no fault, restart, rollback or reset of *)
(* a lone process breaks the chain it will be judged by.                   *)
TableVerifies == Verifies(table)

(* verify_chain accepts the memory chain of every process, which it falls  *)
(* back to when the table cannot be read, whatever statements failed       *)
(* half way through an append (Store.audit).                               *)
MemoryVerifies ==
    \A a \in Api : \A i \in DOMAIN mem[a] :
        mem[a][i].prev = IF i = 1 THEN Genesis ELSE mem[a][i - 1].id

(* The lock is always released, though truncation and the start of other   *)
(* processes wait for transactions and transactions for the lock.          *)
StoreNeverStuck == \A a \in Api : call[a] # Idle ~> call[a] = Idle

(* The event of an audit call whose row becomes visible is on its way to   *)
(* the hook, from inside or outside the lock (audit_event_sink, events.py).*)
(* The event of an ingest transaction, whose row has no tenant yet, is not.*)
AuditAnnounced ==
    [][ \A i \in Committed(table') \ Committed(table) :
          table'[i].tenant = "set" =>
              \E a \in Api : \/ table'[i].id \in unsent'[a]
                             \/ Holds(a, "emit")' /\ table'[i].id = call'[a].id ]_vars
=============================================================================
