---------------------------- MODULE StoreForward ----------------------------
(***************************************************************************)
(* Store and forward from end to end: the gateway's spool and forwarder    *)
(* threads (services/edge-gateway/app/forwarder.py) post batches over HTTP *)
(* to the API's processes (services/watertwin-api/app/store.py), under     *)
(* crashes of both, lost and late answers, and database faults.            *)
(*                                                                         *)
(* A connection slot is one HTTP exchange.  Its client may time out and    *)
(* leave; the server thread still finishes the request, so an abandoned    *)
(* request can be recorded after its batch was sent again.                 *)
(***************************************************************************)
EXTENDS Spool, Ingest

CONSTANTS
    Conn,       \* bound: HTTP exchanges in progress at once
    Forwarder,  \* threads calling forward_once (the loop, a drain call)
    NoClient    \* the client has given up on the exchange

ASSUME WireAssumption == NoClient \notin Forwarder

VARIABLE
    wire        \* the exchanges in progress

vars == <<counter, files, nextSeq, reserved, gateway, produced,
          ledger, mirror, link, apiUp, wire>>

Phase == {"request", "inserting", "reply"}
Exchange == [phase : Phase, batch : Nat, api : Api, client : Forwarder \cup {NoClient}]
Free == [phase |-> "free"]

Busy(c) == wire[c] # Free
WaitingFor(f) == {c \in Conn : Busy(c) /\ wire[c].client = f}

(* Store._lock of process a is held by the thread between the SELECT and   *)
(* the end of the transaction.                                             *)
LockHeld(a) == \E c \in Conn : Busy(c) /\ wire[c].phase = "inserting" /\ wire[c].api = a

TypeOK ==
    /\ SpoolTypeOK
    /\ IngestTypeOK
    /\ wire \in [Conn -> Exchange \cup {Free}]

Init == SpoolInit /\ IngestInit /\ wire = [c \in Conn |-> Free]

-----------------------------------------------------------------------------
(* forward_once up to the post: the oldest batch goes out to a process     *)
(* that accepts the connection.  A refused connection changes nothing: the *)
(* batch stays and the loop comes back after its backoff.                  *)
SendOldest(f, c, a) ==
    /\ gateway = "up"
    /\ WaitingFor(f) = {}
    /\ ~Busy(c)
    /\ apiUp[a]
    /\ \E s \in files :
        /\ Oldest(s)
        /\ wire' = [wire EXCEPT ![c] =
                        [phase |-> "request", batch |-> s, api |-> a, client |-> f]]
    /\ UNCHANGED <<spoolVars, ingestVars>>

(* The post times out or the connection drops: ForwardResult(ok=False),    *)
(* the batch stays spooled; the server works on, an answer already under   *)
(* way is lost.                                                            *)
GiveUp(f, c) ==
    /\ Busy(c)
    /\ wire[c].client = f
    /\ wire' = [wire EXCEPT ![c] =
                    IF @.phase = "reply" THEN Free ELSE [@ EXCEPT !.client = NoClient]]
    /\ UNCHANGED <<spoolVars, ingestVars>>

(* A 200 arrives: forward_once acknowledges the batch it had peeked.       *)
ReceiveReply(f, c) ==
    /\ Busy(c)
    /\ wire[c].client = f
    /\ wire[c].phase = "reply"
    /\ RemoveBatch(wire[c].batch)
    /\ wire' = [wire EXCEPT ![c] = Free]
    /\ UNCHANGED <<counter, nextSeq, reserved, gateway, produced, ingestVars>>

-----------------------------------------------------------------------------
(* Seeded fault: the thread answers with a status the client cannot read.  *)
AnswerGarbled(c) == wire' = [wire EXCEPT ![c].phase = "garbled"]

(* The server thread is done: its answer travels, if someone waits for it. *)
Answer(c) ==
    wire' = [wire EXCEPT ![c] =
                IF @.client = NoClient THEN Free ELSE [@ EXCEPT !.phase = "reply"]]

(* ingest_telemetry takes the store's lock and looks the batch up: a batch *)
(* the database knows is answered as a duplicate, any other goes on to the *)
(* transaction with the lock held.                                         *)
BeginIngest(c) ==
    /\ Busy(c)
    /\ wire[c].phase = "request"
    /\ ~LockHeld(wire[c].api)
    /\ link[wire[c].api]
    /\ IF DbKnows(wire[c].batch)
         THEN Answer(c)
         ELSE wire' = [wire EXCEPT ![c].phase = "inserting"]
    /\ UNCHANGED <<spoolVars, ingestVars>>

(* Seeded fault: no fallback, the request fails with a server error.       *)
BeginRefused(c) ==
    /\ Busy(c)
    /\ wire[c].phase = "request"
    /\ ~LockHeld(wire[c].api)
    /\ ~link[wire[c].api]
    /\ wire' = [wire EXCEPT ![c] = Free]
    /\ UNCHANGED <<spoolVars, ingestVars>>

(* The SELECT raises on a broken connection: the batch goes to memory.     *)
BeginInMemory(c) ==
    /\ Busy(c)
    /\ wire[c].phase = "request"
    /\ ~LockHeld(wire[c].api)
    /\ ~link[wire[c].api]
    /\ RecordInMemory(wire[c].api, wire[c].batch)
    /\ Answer(c)
    /\ UNCHANGED <<spoolVars, ledger, link, apiUp>>

(* The transaction commits and the handler returns.                        *)
CommitIngest(c) ==
    /\ Busy(c)
    /\ wire[c].phase = "inserting"
    /\ link[wire[c].api]
    /\ ~KeyViolated(wire[c].batch)
    /\ CommitBatch(wire[c].batch)
    /\ Answer(c)
    /\ UNCHANGED <<spoolVars, mirror, link, apiUp>>

(* The transaction raises (another process inserted the key first, or the  *)
(* connection broke) and rolls back: the handler falls back to memory.     *)
RollbackIngest(c) ==
    /\ Busy(c)
    /\ wire[c].phase = "inserting"
    /\ \/ ~link[wire[c].api]
       \/ KeyViolated(wire[c].batch)
    /\ RecordInMemory(wire[c].api, wire[c].batch)
    /\ Answer(c)
    /\ UNCHANGED <<spoolVars, ledger, link, apiUp>>

(* The connection breaks between the commit and its acknowledgement: the   *)
(* batch is in the database and the handler falls back to memory as well.  *)
CommitUnacknowledged(c) ==
    /\ DbFaults
    /\ Busy(c)
    /\ wire[c].phase = "inserting"
    /\ link[wire[c].api]
    /\ ~KeyViolated(wire[c].batch)
    /\ CommitBatch(wire[c].batch)
    /\ RecordInMemory(wire[c].api, wire[c].batch)
    /\ link' = [link EXCEPT ![wire[c].api] = FALSE]
    /\ Answer(c)
    /\ UNCHANGED <<spoolVars, apiUp>>

ServeRequest(c) ==
    BeginIngest(c) \/ BeginInMemory(c) \/ CommitIngest(c) \/ RollbackIngest(c)

-----------------------------------------------------------------------------
(* The gateway dies: its exchanges lose their client.                      *)
GatewayCrash ==
    /\ CrashSpool
    /\ wire' = [c \in Conn |->
                  IF Busy(c) /\ wire[c].phase # "reply"
                    THEN [wire[c] EXCEPT !.client = NoClient]
                    ELSE Free]
    /\ UNCHANGED ingestVars

GatewayRestart == RestartSpool /\ UNCHANGED <<ingestVars, wire>>

(* A process dies: its exchanges end, an open transaction rolls back.      *)
ApiCrash(a) ==
    /\ CrashProcess(a)
    /\ wire' = [c \in Conn |-> IF Busy(c) /\ wire[c].api = a THEN Free ELSE wire[c]]
    /\ UNCHANGED spoolVars

ApiStart(a) == StartProcess(a) /\ UNCHANGED <<spoolVars, wire>>

LinkBreaks(a) == BreakLink(a) /\ UNCHANGED <<spoolVars, wire>>

CounterLoss == LoseCounter /\ UNCHANGED <<ingestVars, wire>>

ProducerStep == Produce /\ UNCHANGED <<ingestVars, wire>>

-----------------------------------------------------------------------------
Fault ==
    \/ GatewayCrash
    \/ CounterLoss
    \/ \E f \in Forwarder, c \in Conn : GiveUp(f, c)
    \/ \E c \in Conn : CommitUnacknowledged(c)
    \/ \E a \in Api : ApiCrash(a) \/ LinkBreaks(a)

Next ==
    \/ ProducerStep
    \/ GatewayRestart
    \/ \E f \in Forwarder, c \in Conn, a \in Api : SendOldest(f, c, a)
    \/ \E f \in Forwarder, c \in Conn : ReceiveReply(f, c)
    \/ \E c \in Conn : ServeRequest(c)
    \/ \E a \in Api : ApiStart(a)
    \/ Fault

Spec == Init /\ [][Next]_vars

(* The forwarder loop always tries again, a server thread always finishes, *)
(* and the container runtime restarts whatever died (restart policy        *)
(* unless-stopped).  The producer owes nothing.                            *)
Fairness ==
    /\ WF_vars(GatewayRestart)
    /\ \A f \in Forwarder :
        /\ WF_vars(\E c \in Conn, a \in Api : SendOldest(f, c, a))
        /\ \A c \in Conn : WF_vars(ReceiveReply(f, c))
    /\ \A c \in Conn : WF_vars(ServeRequest(c))
    /\ \A a \in Api : WF_vars(ApiStart(a))

FairSpec == Spec /\ Fairness

-----------------------------------------------------------------------------
(* What store and forward promises, seen from outside.                     *)
Promise == INSTANCE LosslessReplay WITH
    Batch <- 0 .. MaxSeq - 1, issued <- produced, kept <- files, recorded <- ledger

(* Without database faults and with the counter file intact, every step of *)
(* the gateway, the wire and the API's processes is a step of              *)
(* LosslessReplay or leaves it unchanged: each batch is recorded exactly   *)
(* once, in order, and kept until then, whatever crashes and times out.    *)
KeepsPromise == Promise!AbsSpec

(* A batch that left the spool is recorded in the database: the removal of *)
(* its file in Spool.ack rests on a durable acceptance upstream.           *)
AckedIsDurable == \A s \in produced \ files : s \in Recorded

(* The database records a batch once, and in production order, however     *)
(* often and however late it was delivered (Store.ingest_telemetry).       *)
ReplayInOrderOnce ==
    \A i, j \in DOMAIN ledger : i < j => ledger[i] < ledger[j]

(* The database records each batch at most once even when processes fall   *)
(* back to memory and answers are late.                                    *)
RecordedOnce == IsInjective(ledger)

(* append never gives a new batch the number of an earlier one, or the     *)
(* upstream idempotency would drop it (Spool._recover_next_seq).           *)
IdsNeverReused ==
    [][\A s \in files' \ files : s \notin produced]_vars

(* A reserved number is never that of a batch still waiting in the spool,  *)
(* even after the counter file was lost (Spool._recover_next_seq).         *)
PendingNeverOverwritten == reserved # NoSeq => reserved \notin files

(* Once faults cease, every spooled batch is delivered and acknowledged.   *)
SpoolDrains ==
    <>[][~Fault]_vars => \A s \in 0 .. MaxSeq - 1 : s \in files ~> s \notin files
=============================================================================
