------------------------------ MODULE OrderBook ------------------------------
(***************************************************************************)
(* What the shop promises about an order after its checkout: each change   *)
(* of it is one indivisible event, decided on the order as it is.  Closing *)
(* an order puts its units back where they came from, cancelling one that  *)
(* is paid refunds it, delivering it rewards the customer, and it is       *)
(* marked paid only after the customer has been charged.  Module           *)
(* OrderLifecycle, with the reads and writes of updateStatus and markPaid  *)
(* apart, implements this one for as long as they do not overlap.          *)
(***************************************************************************)
EXTENDS Integers

CONSTANTS
    Orders,   \* the orders the checkout was split into, one per store
    Keep      \* a field a change leaves alone

VARIABLES
    status,    \* Order.status
    payment,   \* Order.paymentStatus
    source,    \* the stock pool the order's units come from
    restored,  \* times they went back to each pool
    rewarded,  \* times the customer was rewarded
    charged    \* whether the customer has paid, or need not

vars == <<status, payment, source, restored, rewarded, charged>>

Restocks == {"cancelled", "returned", "exchanged"}

Statuses == Restocks \cup {"pending", "processing", "shipped", "delivered",
                           "return_requested", "exchange_requested"}

Payments == {"pending", "paid", "refunded"}

Sources == {"seller_stock", "veluntra_warehouse"}

Init ==
    /\ status = [o \in Orders |-> "pending"]
    /\ payment = [o \in Orders |-> "pending"]
    /\ source = [o \in Orders |-> "seller_stock"]
    /\ restored = [o \in Orders |-> [s \in Sources |-> 0]]
    /\ rewarded = [o \in Orders |-> 0]
    /\ charged \in BOOLEAN

Closes(o, to) == to \in Restocks /\ status[o] \notin Restocks

Delivers(o, to) == to = "delivered" /\ status[o] # "delivered"

Refunds(o, to, pay) ==
    pay = Keep /\ to = "cancelled" /\ Closes(o, to) /\ payment[o] = "paid"

\* An order that is over stays so; nobody cancels it and keeps the money.
Update(o, to, pay) ==
    /\ status[o] \in Restocks => to \in Restocks \cup {Keep}
    /\ to = "cancelled" => pay \in {Keep, "refunded"}
    /\ status' = [status EXCEPT ![o] = IF to = Keep THEN @ ELSE to]
    /\ payment' = [payment EXCEPT ![o] = IF Refunds(o, to, pay) THEN "refunded"
                                         ELSE IF pay = Keep THEN @ ELSE pay]
    /\ restored' = [restored EXCEPT ![o][source[o]] = @ + IF Closes(o, to) THEN 1 ELSE 0]
    /\ rewarded' = [rewarded EXCEPT ![o] = @ + IF Delivers(o, to) THEN 1 ELSE 0]
    /\ UNCHANGED <<source, charged>>

Charge ==
    /\ ~charged
    /\ charged' = TRUE
    /\ UNCHANGED <<status, payment, source, restored, rewarded>>

Mark(o) ==
    /\ charged
    /\ payment' = [payment EXCEPT ![o] = "paid"]
    /\ UNCHANGED <<status, source, restored, rewarded, charged>>

\* The warehouse takes over an order that is not over.
TakeOver(o) ==
    /\ status[o] \notin Restocks /\ source[o] = "seller_stock"
    /\ source' = [source EXCEPT ![o] = "veluntra_warehouse"]
    /\ UNCHANGED <<status, payment, restored, rewarded, charged>>

Next ==
    \/ Charge
    \/ \E o \in Orders :
        \/ \E to \in Statuses \cup {Keep}, pay \in Payments \cup {Keep} : Update(o, to, pay)
        \/ Mark(o)
        \/ TakeOver(o)

Spec == Init /\ [][Next]_vars
=============================================================================
