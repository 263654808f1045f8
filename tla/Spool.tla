------------------------------- MODULE Spool -------------------------------
(***************************************************************************)
(* The edge gateway's durable store-and-forward spool                      *)
(* (services/edge-gateway/app/spool.py) and the producer thread that fills *)
(* it (Gateway.produce_once in forwarder.py).                              *)
(*                                                                         *)
(* A batch is the sequence number of its file and of its batch id; its     *)
(* readings are left out.  The disk (files, counter) survives a crash of   *)
(* the gateway process, everything else is lost with it.                   *)
(***************************************************************************)
EXTENDS Naturals

CONSTANTS
    MaxSeq,             \* bound: sequence numbers are reserved below MaxSeq
    CounterMayBeLost,   \* may the .next_seq file vanish while the gateway is down?
    NoSeq               \* the producer holds no reserved number

ASSUME SpoolAssumption ==
    /\ MaxSeq \in Nat
    /\ CounterMayBeLost \in BOOLEAN
    /\ NoSeq \notin Nat

VARIABLES
    counter,    \* disk: content of .next_seq, 0 when the file is missing
    files,      \* disk: sequence numbers of the *.batch.json files
    nextSeq,    \* memory: Spool._next_seq
    reserved,   \* memory: number held by produce_once between next_seq and append
    gateway,    \* is the gateway process running?
    produced    \* history: every number whose batch ever reached the disk

spoolVars == <<counter, files, nextSeq, reserved, gateway, produced>>

SpoolTypeOK ==
    /\ counter \in Nat
    /\ files \subseteq Nat
    /\ nextSeq \in Nat
    /\ reserved \in Nat \cup {NoSeq}
    /\ gateway \in {"up", "down"}
    /\ produced \subseteq Nat

SpoolInit ==
    /\ counter = 0
    /\ files = {}
    /\ nextSeq = 0
    /\ reserved = NoSeq
    /\ gateway = "up"
    /\ produced = {}

-----------------------------------------------------------------------------
(* next_seq: the number is taken from memory and its successor is on disk  *)
(* before the caller sees it.                                              *)
ReserveSeq ==
    /\ gateway = "up"
    /\ reserved = NoSeq
    /\ nextSeq < MaxSeq
    /\ reserved' = nextSeq
    /\ nextSeq' = nextSeq + 1
    /\ counter' = nextSeq + 1
    /\ UNCHANGED <<files, gateway, produced>>

(* _persist_next_seq raises (disk full): the number in memory has already  *)
(* advanced, _producer_loop swallows the error and the number is skipped.  *)
PersistSeqFails ==
    /\ gateway = "up"
    /\ reserved = NoSeq
    /\ nextSeq < MaxSeq
    /\ nextSeq' = nextSeq + 1
    /\ UNCHANGED <<counter, files, reserved, gateway, produced>>

(* append: the batch becomes visible with the os.replace.                  *)
AppendBatch ==
    /\ gateway = "up"
    /\ reserved # NoSeq
    /\ files' = files \cup {reserved}
    /\ produced' = produced \cup {reserved}
    /\ reserved' = NoSeq
    /\ UNCHANGED <<counter, nextSeq, gateway>>

(* append raises before the os.replace: the reserved number stays unused.  *)
AppendFails ==
    /\ gateway = "up"
    /\ reserved # NoSeq
    /\ reserved' = NoSeq
    /\ UNCHANGED <<counter, files, nextSeq, gateway, produced>>

Produce == ReserveSeq \/ PersistSeqFails \/ AppendBatch \/ AppendFails

-----------------------------------------------------------------------------
(* Seeded fault: the directory listing is not sorted.                      *)
AnyPending(s) == s \in files

(* peek: the oldest batch on disk.                                         *)
Oldest(s) == s \in files /\ \A t \in files : s <= t

(* Seeded fault: ack pops the head of the queue, whatever was sent.        *)
PopHead(s) == files' = {t \in files : \E u \in files : u < t}

(* ack: os.remove, a file already gone is no error.                        *)
RemoveBatch(s) == files' = files \ {s}

-----------------------------------------------------------------------------
(* The process dies at any point; nothing but the disk survives.           *)
CrashSpool ==
    /\ gateway = "up"
    /\ gateway' = "down"
    /\ reserved' = NoSeq
    /\ nextSeq' = 0
    /\ UNCHANGED <<counter, files, produced>>

(* The counter file is removed or made unreadable while the gateway is     *)
(* down: _recover_next_seq reads both cases as 0.                          *)
LoseCounter ==
    /\ CounterMayBeLost
    /\ gateway = "down"
    /\ counter' = 0
    /\ UNCHANGED <<files, nextSeq, reserved, gateway, produced>>

(* Seeded faults: only one of the two sources below is consulted.          *)
HighestPendingOnly == {0} \cup {s + 1 : s \in files}
PersistedOnly == {counter}

(* _recover_next_seq: the larger of the persisted counter and one past the *)
(* highest file still on disk.                                             *)
RecoveryCandidates == {counter} \cup {s + 1 : s \in files}

RecoverNextSeq(n) ==
    /\ n \in RecoveryCandidates
    /\ \A m \in RecoveryCandidates : n >= m

RestartSpool ==
    /\ gateway = "down"
    /\ gateway' = "up"
    /\ \E n \in RecoveryCandidates : RecoverNextSeq(n) /\ nextSeq' = n
    /\ UNCHANGED <<counter, files, reserved, produced>>
=============================================================================
