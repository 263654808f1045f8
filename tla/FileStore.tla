----------------------------- MODULE FileStore ------------------------------
(***************************************************************************)
(* The JSON-file stores of the API (recommendations.py, maintenance.py),   *)
(* each with the one item that a single asset gives rise to: a             *)
(* recommendation card and a work order.  A store hands out the object it  *)
(* holds, not a copy, so a request changes what every other one sees       *)
(* before it puts anything; put writes the file in one atomic replace.     *)
(***************************************************************************)
EXTENDS Naturals, Sequences

VARIABLES
    heap,       \* the objects alive in the process
    shelf,      \* the object each store holds, 0 for none
    file        \* what each store's file holds

Entity == {"card", "order"}

Decision == {"approved", "rejected"}

(* A ticket is the sequence number of the CMMS ticket, 0 for none.         *)
Object == [approval : Decision \cup {"pending"}, ticket : Nat]

NoObject == [approval |-> "none", ticket |-> 0]

Proposed == [approval |-> "pending", ticket |-> 0]

StoreTypeOK ==
    /\ heap \in Seq(Object)
    /\ shelf \in [Entity -> 0 .. Len(heap)]
    /\ file \in [Entity -> Object \cup {NoObject}]

StoreInit ==
    /\ heap = <<>>
    /\ shelf = [e \in Entity |-> 0]
    /\ file = [e \in Entity |-> NoObject]

Served(e) == IF shelf[e] = 0 THEN NoObject ELSE heap[shelf[e]]

(* Seeded fault: the file is written only when the item is new.            *)
PutOnce(e, o) ==
    /\ shelf' = [shelf EXCEPT ![e] = o]
    /\ file' = IF shelf[e] = 0 THEN [file EXCEPT ![e] = heap[o]] ELSE file
    /\ UNCHANGED heap

Put(e, o) ==
    /\ shelf' = [shelf EXCEPT ![e] = o]
    /\ file' = [file EXCEPT ![e] = heap[o]]
    /\ UNCHANGED heap

(* A new process holds what the files hold.                                *)
Load ==
    LET read(e) == IF file[e] = NoObject THEN Proposed ELSE file[e]
    IN /\ heap' = <<read("card"), read("order")>>
       /\ shelf' = [e \in Entity |->
                      IF file[e] = NoObject THEN 0 ELSE IF e = "card" THEN 1 ELSE 2]
       /\ UNCHANGED file
=============================================================================
