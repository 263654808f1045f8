----------------------------- MODULE EdgeBuffer -----------------------------
(***************************************************************************)
(* The gateway's encrypted store-and-forward queue (buffer.py of the       *)
(* edge-gateway): rows of an SQLite table that survive the process, under  *)
(* a key that may not.  Row ids are AUTOINCREMENT, so an id is the index   *)
(* of its row among all rows ever written, and its age.                    *)
(***************************************************************************)
EXTENDS Naturals, FiniteSets

CONSTANTS
    MaxRows,    \* max_rows: the cap of the buffer, 0 for none
    Limit       \* FORWARD_BATCH_SIZE: rows pushed at once

ASSUME BufferAssumption == MaxRows \in Nat /\ Limit \in Nat \ {0}

VARIABLES
    rows,       \* history: every row written, by id
    outbox,     \* the ids of the rows still in the table
    key,        \* the encryption key: "configured" or "ephemeral"
    boot        \* which start of the process this is

(* A reading that is not a finite number is flagged, and buffered as well. *)
Row == [stamp : Nat, value : {"finite", "nonfinite"}, boot : Nat]

(* A row written under the ephemeral key of an earlier start is lost.      *)
Readable(i) == key = "configured" \/ rows[i].boot = boot

Older(i, S) == {j \in S : j < i}

(* The n oldest rows (ORDER BY id ASC LIMIT n).                            *)
OldestRows(n) == {i \in outbox : Cardinality(Older(i, outbox)) < n}

(* Seeded fault: the newest rows go first.                                 *)
NewestFirst == {i \in outbox : Cardinality({j \in outbox : j > i}) < Limit}

Pending == OldestRows(Limit)

(* Seeded fault: the count is off by one.                                  *)
OneTooMany == {i \in OldestRows(Cardinality(outbox)) :
                 Cardinality(Older(i, outbox)) + MaxRows <= Cardinality(outbox)}

(* Seeded fault: the rows just appended are not counted.                   *)
StaleCount == IF Cardinality(outbox) > MaxRows + 1
                THEN OldestRows(Cardinality(outbox) - MaxRows - 1) ELSE {}

(* _trim_locked: the oldest rows past the cap.                             *)
Overflow == IF MaxRows > 0 /\ Cardinality(outbox) > MaxRows
              THEN OldestRows(Cardinality(outbox) - MaxRows) ELSE {}
=============================================================================
