----------------------------- MODULE MCCheckout -----------------------------
(* Instances of Checkout for TLC. *)
EXTENDS Checkout, TLC

CONSTANTS c1, c2, c3, u1, u2, p1, p2, s1, s2

\* c1 and c2 are one customer's double submission, c3 is somebody else.
MCUserOf == [c \in Checkouts |-> IF c = c3 THEN u2 ELSE u1]

\* Two customers.
MCUserOfTwo == [c \in Checkouts |-> IF c = c1 THEN u1 ELSE u2]

\* All of one customer: the requests are then interchangeable.
MCUserOfOne == [c \in Checkouts |-> u1]
MCSymmetry == Permutations(Checkouts) \cup Permutations(Products)

\* Each product in a store of its own, and both in one store.
MCTwoStores == [p \in Products |-> IF p = p1 THEN s1 ELSE s2]
MCOneStore == [p \in Products |-> s1]

Line(p, n) == [q \in Products |-> IF q = p THEN n ELSE 0]
OneOfEach == [q \in Products |-> 1]

\* One unit of everything, or of one product: carts that share no product meet
\* only at the coupon.  Without it they get in once the coupon is deleted.
MCContents ==
    {[lines |-> OneOfEach, coupon |-> TRUE]}
        \cup {[lines |-> Line(p, 1), coupon |-> TRUE] : p \in Products}

\* Some units of one product.
MCSingles == {[lines |-> Line(p, n), coupon |-> TRUE] : p \in Products, n \in 1..MaxQty}
=============================================================================
