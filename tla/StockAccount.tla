---------------------------- MODULE StockAccount ----------------------------
(***************************************************************************)
(* What the Veluntra warehouse promises about one product: an account of   *)
(* its units, in which every event is indivisible.  A unit is given for an *)
(* item only while there is one, and the item is the warehouse's from then *)
(* on; only what is the warehouse's comes back to it, when the order       *)
(* closes.  Module WarehouseFulfillment, with its several stock rows and   *)
(* the reads and writes of its handlers apart, implements this one however *)
(* the handlers overlap.                                                   *)
(***************************************************************************)
EXTENDS Integers

CONSTANT Items   \* the order items of the product

VARIABLES
    shelf,    \* the units there are
    given,    \* units given for each item
    back,     \* units that came back for it
    source,   \* who fulfils it
    order     \* the status of its order

vars == <<shelf, given, back, source, order>>

Init ==
    /\ shelf = 0
    /\ given = [i \in Items |-> 0]
    /\ back = [i \in Items |-> 0]
    /\ source = [i \in Items |-> "seller_stock"]
    /\ order = [i \in Items |-> "open"]

\* Admins put in, or take out, a unit at a time.
Correct(delta) ==
    /\ shelf + delta >= 0
    /\ shelf' = shelf + delta
    /\ UNCHANGED <<given, back, source, order>>

Give(i) ==
    /\ shelf >= 1
    /\ shelf' = shelf - 1
    /\ given' = [given EXCEPT ![i] = @ + 1]
    /\ source' = [source EXCEPT ![i] = "veluntra_warehouse"]
    /\ UNCHANGED <<back, order>>

Send(i) ==
    /\ order[i] = "open"
    /\ order' = [order EXCEPT ![i] = "sent"]
    /\ UNCHANGED <<shelf, given, back, source>>

\* The order closes; of an item the warehouse gave for, the unit comes back.
CloseWithReturn(i) ==
    /\ source[i] = "veluntra_warehouse" /\ given[i] >= 1
    /\ order' = [order EXCEPT ![i] = "closed"]
    /\ shelf' = shelf + 1
    /\ back' = [back EXCEPT ![i] = @ + 1]
    /\ UNCHANGED <<given, source>>

\* A unit given behind the back of a request that closes the order stays out.
Close(i) ==
    /\ order' = [order EXCEPT ![i] = "closed"]
    /\ UNCHANGED <<shelf, given, back, source>>

Next ==
    \/ \E delta \in {-1, 1} : Correct(delta)
    \/ \E i \in Items : Give(i) \/ Send(i) \/ CloseWithReturn(i) \/ Close(i)

Spec == Init /\ [][Next]_vars
=============================================================================
