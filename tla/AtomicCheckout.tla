--------------------------- MODULE AtomicCheckout ---------------------------
(***************************************************************************)
(* What checkout promises to the shop: however the requests interleave, a  *)
(* checkout is one indivisible event.  Either every line of it is taken    *)
(* from the stock that is there, and its coupon, if any, is redeemed       *)
(* within the limits that coupon has had, or nothing happens at all.       *)
(* Module Checkout, the transaction of orders.service.js step by step, is  *)
(* shown to implement this one.                                            *)
(***************************************************************************)
EXTENDS Integers, FiniteSets

CONSTANTS
    Checkouts,  \* checkout requests; each is submitted at most once
    Users,      \* customers
    UserOf,     \* the customer who submits each request
    Products,   \* stock rows: a product without variants, or one variant
    MaxQty,     \* largest quantity of one cart line
    MaxStock,   \* largest stock other writers leave in a row
    MaxLimit    \* largest limit staff give the coupon

VARIABLES
    stock,        \* units in each stock row
    sold,         \* units of each stock row on the orders of each checkout
    outcome,      \* "open", "placed" or "rejected"
    coupon,       \* the one coupon row
    peak,         \* the highest limits the coupon has ever had
    redemptions   \* checkouts with a CouponRedemption row

vars == <<stock, sold, outcome, coupon, peak, redemptions>>

Nothing == [p \in Products |-> 0]

Limits == [usageLimit : 1..MaxLimit, perUserLimit : 1..MaxLimit]

CouponRow == [exists : BOOLEAN, enabled : BOOLEAN, usageLimit : 1..MaxLimit,
              perUserLimit : 1..MaxLimit, usageCount : Nat]

UsedBy(u) == Cardinality({c \in redemptions : UserOf[c] = u})

Larger(a, b) == IF a >= b THEN a ELSE b

Init ==
    /\ stock \in [Products -> 0..MaxStock]
    /\ sold = [c \in Checkouts |-> Nothing]
    /\ outcome = [c \in Checkouts |-> "open"]
    /\ coupon \in [exists : {TRUE}, enabled : {TRUE}, usageLimit : 1..MaxLimit,
                   perUserLimit : 1..MaxLimit, usageCount : {0}]
    /\ peak = [usageLimit |-> coupon.usageLimit, perUserLimit |-> coupon.perUserLimit]
    /\ redemptions = {}

\* All of it: stock, order rows, the coupon's counter and its redemption row.
Place(c, lines, redeems) ==
    /\ outcome[c] = "open"
    /\ lines # Nothing
    /\ \A p \in Products : lines[p] <= stock[p]
    /\ stock' = [p \in Products |-> stock[p] - lines[p]]
    /\ sold' = [sold EXCEPT ![c] = lines]
    /\ outcome' = [outcome EXCEPT ![c] = "placed"]
    /\ IF redeems
       THEN /\ coupon.exists
            /\ coupon.usageCount < peak.usageLimit
            /\ UsedBy(UserOf[c]) < peak.perUserLimit
            /\ coupon' = [coupon EXCEPT !.usageCount = @ + 1]
            /\ redemptions' = redemptions \cup {c}
       ELSE UNCHANGED <<coupon, redemptions>>
    /\ UNCHANGED peak

\* Nothing of it.
Reject(c) ==
    /\ outcome[c] = "open"
    /\ outcome' = [outcome EXCEPT ![c] = "rejected"]
    /\ UNCHANGED <<stock, sold, coupon, peak, redemptions>>

\* Stock edits and restocks of other handlers.
WriteStock(p, n) ==
    /\ stock' = [stock EXCEPT ![p] = n]
    /\ UNCHANGED <<sold, outcome, coupon, peak, redemptions>>

UpdateCoupon(on, limits) ==
    /\ coupon.exists
    /\ coupon' = [coupon EXCEPT !.enabled = on, !.usageLimit = limits.usageLimit,
                                !.perUserLimit = limits.perUserLimit]
    /\ peak' = [usageLimit |-> Larger(peak.usageLimit, limits.usageLimit),
                perUserLimit |-> Larger(peak.perUserLimit, limits.perUserLimit)]
    /\ UNCHANGED <<stock, sold, outcome, redemptions>>

DeleteCoupon ==
    /\ coupon.exists
    /\ coupon' = [coupon EXCEPT !.exists = FALSE, !.enabled = FALSE, !.usageCount = 0]
    /\ redemptions' = {}
    /\ UNCHANGED <<stock, sold, outcome, peak>>

Next ==
    \/ \E c \in Checkouts, lines \in [Products -> 0..MaxQty], redeems \in BOOLEAN :
            Place(c, lines, redeems)
    \/ \E c \in Checkouts : Reject(c)
    \/ \E p \in Products, n \in 0..MaxStock : WriteStock(p, n)
    \/ \E on \in BOOLEAN, limits \in Limits : UpdateCoupon(on, limits)
    \/ DeleteCoupon

Spec == Init /\ [][Next]_vars
=============================================================================
