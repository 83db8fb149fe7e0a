-------------------------- MODULE MCOrderLifecycle --------------------------
(* Instances of OrderLifecycle for TLC. *)
EXTENDS OrderLifecycle, TLC

MCSymmetry == Permutations(Requests)

Going(from, who, to) == [from |-> from, by |-> who, change |-> To(to)]

\* An order on its way to the customer, and back.
MCNormalMoves ==
    {Going("pending", "seller", "processing"), Going("pending", "admin", "cancelled"),
     Going("processing", "seller", "shipped"), Going("processing", "admin", "shipped"),
     Going("processing", "seller", "cancelled"), Going("shipped", "seller", "delivered"),
     Going("return_requested", "seller", "returned"),
     Going("exchange_requested", "admin", "exchanged")}

\* The same; cash is taken on delivery, and requests to return or exchange may
\* be turned down.
MCAllNormalMoves ==
    MCNormalMoves \cup
    {[from |-> "shipped", by |-> "admin",
      change |-> [status |-> "delivered", payment |-> "paid", tracking |-> FALSE]],
     Going("return_requested", "admin", "delivered"),
     Going("exchange_requested", "seller", "delivered")}

\* Just enough to send an order out, and to cancel it.
MCFewMoves ==
    {Going("pending", "seller", "processing"), Going("processing", "seller", "shipped"),
     Going("processing", "admin", "cancelled")}

\* What updateStatus accepts: any status at any time, closed orders reopened
\* included (exchanges are like returns, "processing" is like "pending").
MCSomeStatuses == {"pending", "shipped", "delivered", "cancelled", "returned"}
MCAnyMoves ==
    {Going(from, "admin", to) : from, to \in MCSomeStatuses}
        \cup {[from |-> "shipped", by |-> "seller",
               change |-> [status |-> Keep, payment |-> Keep, tracking |-> TRUE]]}
=============================================================================
