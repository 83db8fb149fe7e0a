------------------------------ MODULE Checkout ------------------------------
(***************************************************************************)
(* createFromCart of orders.service.js, one action per database statement  *)
(* that other requests can come between.  The cart is read and checked     *)
(* first, outside any transaction; then one READ COMMITTED transaction     *)
(* creates an order per store, decrements stock line by line, re-validates *)
(* and redeems the coupon, clears the cart and commits.                    *)
(*                                                                         *)
(* PostgreSQL keeps a row an open transaction has updated locked until it  *)
(* ends, and nobody else sees the update before that.  So the variables of *)
(* the database hold committed values, what an open transaction has done   *)
(* is kept per checkout (taken, opened), and the locks are read off it.    *)
(***************************************************************************)
EXTENDS Integers, FiniteSets

CONSTANTS
    Checkouts,  \* checkout requests; each is submitted at most once
    Users,      \* customers, each with one cart
    UserOf,     \* the customer who submits each request
    Products,   \* stock rows: a product without variants, or one variant
    StoreOf,    \* the store that sells each of them
    MaxQty,     \* largest quantity of one cart line
    MaxStock,   \* largest stock other writers leave in a row
    MaxLimit,   \* largest limit staff give the coupon
    Contents,   \* what customers put in their carts
    None        \* no stock row

ASSUME CheckoutAssumption ==
    /\ IsFiniteSet(Checkouts)
    /\ UserOf \in [Checkouts -> Users]
    /\ None \notin Products
    /\ MaxQty \in Nat
    /\ MaxStock \in Nat
    /\ MaxLimit \in Nat

VARIABLES
    \* the database, as committed
    stock,        \* units in each stock row
    sold,         \* units of each stock row on the orders of each checkout
    coupon,       \* the one coupon row
    peak,         \* history: the highest limits the coupon has ever had
    redemptions,  \* checkouts with a CouponRedemption row
    cart,         \* the lines and the coupon of each customer's cart
    \* one request
    pc,           \* how far it is
    lines,        \* the quantities it read from the cart
    wants,        \* whether the cart it read has the coupon applied
    opened,       \* stores whose order it has created (uncommitted)
    taken,        \* units it has decremented (uncommitted)
    target,       \* the stock row its UPDATE in flight is for
    seen          \* what it read of the coupon row

db == <<stock, sold, coupon, peak, redemptions, cart>>
txn == <<opened, taken, target, seen>>
vars == <<stock, sold, coupon, peak, redemptions, cart,
          pc, lines, wants, opened, taken, target, seen>>

Nothing == [p \in Products |-> 0]

Stores == {StoreOf[p] : p \in Products}

Limits == [usageLimit : 1..MaxLimit, perUserLimit : 1..MaxLimit]

CouponRow == [exists : BOOLEAN, enabled : BOOLEAN, usageLimit : 1..MaxLimit,
              perUserLimit : 1..MaxLimit, usageCount : Nat]

Cart == [lines : [Products -> 0..MaxQty], coupon : BOOLEAN]

ASSUME ContentsAssumption == Contents \subseteq Cart

Unseen == [usageCount |-> 0, perUserLimit |-> 0]

InTx == {"tx", "count", "redeem", "commit"}

Larger(a, b) == IF a >= b THEN a ELSE b
-----------------------------------------------------------------------------
(* The database.                                                           *)

Holds(c, p) == taken[c][p] > 0

StockLocked(p) == \E c \in Checkouts : Holds(c, p)

\* A checkout past its UPDATE of the coupon row.
HoldsCoupon(c) == pc[c] = "commit" /\ wants[c]

CouponLocked == \E c \in Checkouts : HoldsCoupon(c)

\* The foreign key of an order that names the coupon keeps the row from
\* being deleted until the transaction ends.
RefersToCoupon(c) == wants[c] /\ opened[c] # {}

UsedBy(u) == Cardinality({c \in redemptions : UserOf[c] = u})

\* c waits for the transaction that holds the row its UPDATE is for, unless the
\* committed row does not match the UPDATE anyway.
WaitsFor(c, d) ==
    /\ target[c] # None /\ stock[target[c]] >= lines[c][target[c]]
    /\ d # c /\ Holds(d, target[c])

\* The same for the coupon row and the swap of its counter.
WaitsForCoupon(c, d) ==
    /\ pc[c] = "redeem" /\ coupon.usageCount = seen[c].usageCount
    /\ HoldsCoupon(d)

\* The transactions whose locks keep c's next statement from being executed.
Blockers(c) == {d \in Checkouts : WaitsFor(c, d) \/ WaitsForCoupon(c, d)}

\* The members of a cycle of waiting transactions.
Deadlocked(c) ==
    \E S \in SUBSET Checkouts :
        /\ c \in S
        /\ \A d \in S : (\E e \in S : WaitsFor(d, e)) /\ (\E e \in S : WaitsFor(e, d))
-----------------------------------------------------------------------------
Init ==
    /\ stock \in [Products -> 0..MaxStock]
    /\ sold = [c \in Checkouts |-> Nothing]
    /\ coupon \in [exists : {TRUE}, enabled : {TRUE}, usageLimit : 1..MaxLimit,
                   perUserLimit : 1..MaxLimit, usageCount : {0}]
    /\ peak = [usageLimit |-> coupon.usageLimit, perUserLimit |-> coupon.perUserLimit]
    /\ redemptions = {}
    /\ cart = [u \in Users |-> [lines |-> Nothing, coupon |-> FALSE]]
    /\ pc = [c \in Checkouts |-> "idle"]
    /\ lines = [c \in Checkouts |-> Nothing]
    /\ wants = [c \in Checkouts |-> FALSE]
    /\ opened = [c \in Checkouts |-> {}]
    /\ taken = [c \in Checkouts |-> Nothing]
    /\ target = [c \in Checkouts |-> None]
    /\ seen = [c \in Checkouts |-> Unseen]

Move(c, from, to) == pc[c] = from /\ pc' = [pc EXCEPT ![c] = to]

\* An error inside the transaction: everything it did is undone.
Rollback(c) ==
    /\ pc' = [pc EXCEPT ![c] = "rejected"]
    /\ opened' = [opened EXCEPT ![c] = {}]
    /\ taken' = [taken EXCEPT ![c] = Nothing]
    /\ target' = [target EXCEPT ![c] = None]
    /\ seen' = [seen EXCEPT ![c] = Unseen]
    /\ UNCHANGED <<stock, sold, coupon, peak, redemptions, cart, lines, wants>>
-----------------------------------------------------------------------------
(* The request up to its transaction.                                      *)

\* Reads the cart with its items and its coupon.
ReadCart(c) ==
    LET mine == cart[UserOf[c]] IN
    /\ Move(c, "idle", IF mine.lines = Nothing THEN "rejected" ELSE "read")
    /\ lines' = [lines EXCEPT ![c] = mine.lines]
    /\ wants' = [wants EXCEPT ![c] = mine.coupon]
    /\ UNCHANGED db /\ UNCHANGED txn

\* Every check before the transaction passes; of these the stock check is
\* the one on a value that others change.
Begin(c) ==
    /\ Move(c, "read", "tx")
    /\ \A p \in Products : lines[c][p] <= stock[p]
    /\ UNCHANGED <<lines, wants>> /\ UNCHANGED db /\ UNCHANGED txn

\* Stock is short, or the address, the shipping or payment method, a store's
\* approval or a deleted product stops the request.
Refuse(c) ==
    /\ Move(c, "read", "rejected")
    /\ UNCHANGED <<lines, wants>> /\ UNCHANGED db /\ UNCHANGED txn
-----------------------------------------------------------------------------
(* The transaction.                                                        *)

Fulfilled(c, p) == taken[c][p] = lines[c][p]

AllFulfilled(c) == \A p \in Products : Fulfilled(c, p)

\* tx.order.create for the next store; an order that names a deleted coupon
\* breaks the foreign key.
CreateOrder(c, s) ==
    /\ pc[c] = "tx" /\ target[c] = None
    /\ s \notin opened[c]
    /\ \E p \in Products : StoreOf[p] = s /\ lines[c][p] > 0
    /\ \A p \in Products : StoreOf[p] \in opened[c] => Fulfilled(c, p)
    /\ wants[c] => coupon.exists
    /\ opened' = [opened EXCEPT ![c] = @ \cup {s}]
    /\ UNCHANGED <<pc, lines, wants, taken, target, seen>> /\ UNCHANGED db

CouponGone(c) ==
    /\ pc[c] = "tx" /\ opened[c] = {}
    /\ wants[c] /\ ~coupon.exists
    /\ Rollback(c)

\* inventoryService.decrementStock sends its conditional UPDATE for the next
\* line of the store at hand ...
SendDecrement(c, p) ==
    /\ pc[c] = "tx" /\ target[c] = None
    /\ StoreOf[p] \in opened[c] /\ ~Fulfilled(c, p)
    /\ target' = [target EXCEPT ![c] = p]
    /\ UNCHANGED <<pc, lines, wants, opened, taken, seen>> /\ UNCHANGED db

\* Faulty variants, one per property that must notice: the UPDATE without its
\* stock condition, the UPDATE computed from a value read without the lock,
\* and the UPDATE sent outside the transaction.
DecrementStockUnchecked(c) ==
    LET p == target[c] IN
    /\ pc[c] = "tx" /\ p # None /\ ~StockLocked(p)
    /\ taken' = [taken EXCEPT ![c][p] = lines[c][p]]
    /\ target' = [target EXCEPT ![c] = None]
    /\ UNCHANGED <<pc, lines, wants, opened, seen>> /\ UNCHANGED db

DecrementStockUnlocked(c) ==
    LET p == target[c] IN
    /\ pc[c] = "tx" /\ p # None /\ stock[p] >= lines[c][p]
    /\ taken' = [taken EXCEPT ![c][p] = lines[c][p]]
    /\ target' = [target EXCEPT ![c] = None]
    /\ UNCHANGED <<pc, lines, wants, opened, seen>> /\ UNCHANGED db

DecrementStockOutsideTx(c) ==
    LET p == target[c] IN
    /\ pc[c] = "tx" /\ p # None /\ ~StockLocked(p) /\ stock[p] >= lines[c][p]
    /\ stock' = [stock EXCEPT ![p] = @ - lines[c][p]]
    /\ taken' = [taken EXCEPT ![c][p] = lines[c][p]]
    /\ target' = [target EXCEPT ![c] = None]
    /\ UNCHANGED <<pc, lines, wants, opened, seen>>
    /\ UNCHANGED <<sold, coupon, peak, redemptions, cart>>

\* ... which waits for the row's lock and then finds enough stock ...
DecrementStock(c) ==
    LET p == target[c] IN
    /\ pc[c] = "tx" /\ p # None
    /\ ~StockLocked(p)
    /\ stock[p] >= lines[c][p]
    /\ taken' = [taken EXCEPT ![c][p] = lines[c][p]]
    /\ target' = [target EXCEPT ![c] = None]
    /\ UNCHANGED <<pc, lines, wants, opened, seen>> /\ UNCHANGED db

\* Faulty variant: a short line is tried again instead of failing the checkout.
OutOfStockRetries(c) ==
    LET p == target[c] IN
    /\ pc[c] = "tx" /\ p # None /\ stock[p] < lines[c][p]
    /\ target' = [target EXCEPT ![c] = None]
    /\ UNCHANGED <<pc, lines, wants, opened, taken, seen>> /\ UNCHANGED db

\* Faulty variant: the error is answered, the transaction left open.
OutOfStockLeftOpen(c) ==
    LET p == target[c] IN
    /\ pc[c] = "tx" /\ p # None
    /\ stock[p] < lines[c][p]
    /\ pc' = [pc EXCEPT ![c] = "rejected"]
    /\ target' = [target EXCEPT ![c] = None]
    /\ UNCHANGED <<lines, wants, opened, taken, seen>> /\ UNCHANGED db

\* ... or matches no row (it does not wait for one that is short already).
OutOfStock(c) ==
    LET p == target[c] IN
    /\ pc[c] = "tx" /\ p # None
    /\ stock[p] < lines[c][p]
    /\ Rollback(c)

\* Faulty variant: the coupon is good for one more order than its limit says.
ReadCouponOneTooMany(c) ==
    /\ pc[c] = "tx" /\ AllFulfilled(c) /\ wants[c]
    /\ coupon.exists /\ coupon.enabled /\ coupon.usageCount <= coupon.usageLimit
    /\ pc' = [pc EXCEPT ![c] = "count"]
    /\ seen' = [seen EXCEPT ![c] = [usageCount |-> coupon.usageCount,
                                    perUserLimit |-> coupon.perUserLimit]]
    /\ UNCHANGED <<lines, wants, opened, taken, target>> /\ UNCHANGED db

\* freshCoupon: missing, disabled, expired or used up stops the checkout.
ReadCoupon(c) ==
    /\ pc[c] = "tx" /\ AllFulfilled(c) /\ wants[c]
    /\ IF coupon.exists /\ coupon.enabled /\ coupon.usageCount < coupon.usageLimit
       THEN /\ pc' = [pc EXCEPT ![c] = "count"]
            /\ seen' = [seen EXCEPT ![c] = [usageCount |-> coupon.usageCount,
                                            perUserLimit |-> coupon.perUserLimit]]
            /\ UNCHANGED <<lines, wants, opened, taken, target>> /\ UNCHANGED db
       ELSE Rollback(c)

CountRedemptions(c) ==
    /\ pc[c] = "count"
    /\ IF UsedBy(UserOf[c]) < seen[c].perUserLimit
       THEN /\ pc' = [pc EXCEPT ![c] = "redeem"]
            /\ UNCHANGED <<lines, wants>> /\ UNCHANGED txn /\ UNCHANGED db
       ELSE Rollback(c)

\* Faulty variant: a plain increment, no compare-and-swap.
RedeemCouponBlindly(c) ==
    /\ Move(c, "redeem", "commit")
    /\ ~CouponLocked
    /\ UNCHANGED <<lines, wants>> /\ UNCHANGED txn /\ UNCHANGED db

\* The compare-and-swap on usageCount: it waits for the row's lock and then
\* finds the count it read ...
RedeemCoupon(c) ==
    /\ Move(c, "redeem", "commit")
    /\ ~CouponLocked
    /\ coupon.usageCount = seen[c].usageCount
    /\ UNCHANGED <<lines, wants>> /\ UNCHANGED txn /\ UNCHANGED db

\* ... or another checkout has redeemed the coupon in the meantime.
LostRace(c) ==
    /\ pc[c] = "redeem"
    /\ coupon.usageCount # seen[c].usageCount
    /\ Rollback(c)

\* Faulty variant: the loop over the lines is not awaited.
ReadyToCommitTooSoon(c) ==
    \/ pc[c] = "commit"
    \/ pc[c] = "tx" /\ opened[c] # {} /\ target[c] = None /\ ~wants[c]

ReadyToCommit(c) ==
    \/ pc[c] = "commit"
    \/ pc[c] = "tx" /\ AllFulfilled(c) /\ ~wants[c]

\* Faulty variant: the counter moves, the redemption row is forgotten.
ChargeCouponCountOnly(c) ==
    IF wants[c]
    THEN /\ coupon' = [coupon EXCEPT !.usageCount = @ + 1]
         /\ UNCHANGED redemptions
    ELSE UNCHANGED <<coupon, redemptions>>

\* What the swap and the redemption row come to at COMMIT.
ChargeCoupon(c) ==
    IF wants[c]
    THEN /\ coupon' = [coupon EXCEPT !.usageCount = @ + 1]
         /\ redemptions' = redemptions \cup {c}
    ELSE UNCHANGED <<coupon, redemptions>>

\* The cleared cart and COMMIT.
Commit(c) ==
    /\ ReadyToCommit(c)
    /\ stock' = [p \in Products |-> stock[p] - taken[c][p]]
    /\ sold' = [sold EXCEPT ![c] = taken[c]]
    /\ ChargeCoupon(c)
    /\ cart' = [cart EXCEPT ![UserOf[c]] = [lines |-> Nothing, coupon |-> FALSE]]
    /\ pc' = [pc EXCEPT ![c] = "placed"]
    /\ opened' = [opened EXCEPT ![c] = {}]
    /\ taken' = [taken EXCEPT ![c] = Nothing]
    /\ seen' = [seen EXCEPT ![c] = Unseen]
    /\ UNCHANGED <<peak, lines, wants, target>>

\* PostgreSQL ends a deadlock by aborting one of its members.
DeadlockVictim(c) ==
    /\ Deadlocked(c)
    /\ Rollback(c)

\* The interactive transaction times out, or the process or its connection
\* dies.
Abort(c) ==
    /\ pc[c] \in InTx
    /\ Rollback(c)
-----------------------------------------------------------------------------
(* Everybody else.                                                         *)

\* findValidCoupon
CouponApplies(u) ==
    /\ coupon.exists /\ coupon.enabled
    /\ coupon.usageCount < coupon.usageLimit
    /\ UsedBy(u) < coupon.perUserLimit

\* The cart's own endpoints leave it with content the customer likes; a coupon
\* is validated when it is applied, not when the rest of the cart changes.
EditCart(u, content) ==
    /\ content.coupon => cart[u].coupon \/ CouponApplies(u)
    /\ cart' = [cart EXCEPT ![u] = content]
    /\ UNCHANGED <<stock, sold, coupon, peak, redemptions,
                   pc, lines, wants, opened, taken, target, seen>>

\* A restock, or a stock edit of a seller: absolute or relative, whatever it
\* read before, it writes some stock once the row is free.
WriteStock(p, n) ==
    /\ ~StockLocked(p)
    /\ stock' = [stock EXCEPT ![p] = n]
    /\ UNCHANGED <<sold, coupon, peak, redemptions, cart,
                   pc, lines, wants, opened, taken, target, seen>>

\* couponsService.update ("enabled" stands for enabled and not expired).
UpdateCoupon(on, limits) ==
    /\ coupon.exists /\ ~CouponLocked
    /\ coupon' = [coupon EXCEPT !.enabled = on, !.usageLimit = limits.usageLimit,
                                !.perUserLimit = limits.perUserLimit]
    /\ peak' = [usageLimit |-> Larger(peak.usageLimit, limits.usageLimit),
                perUserLimit |-> Larger(peak.perUserLimit, limits.perUserLimit)]
    /\ UNCHANGED <<stock, sold, redemptions, cart,
                   pc, lines, wants, opened, taken, target, seen>>

\* The coupon's expiry date passes.
ExpireCoupon ==
    /\ coupon.exists
    /\ coupon' = [coupon EXCEPT !.enabled = FALSE]
    /\ UNCHANGED <<stock, sold, peak, redemptions, cart,
                   pc, lines, wants, opened, taken, target, seen>>

\* couponsService.remove: its redemptions go with it, carts forget it.
DeleteCoupon ==
    /\ coupon.exists
    /\ \A c \in Checkouts : ~RefersToCoupon(c)
    /\ coupon' = [coupon EXCEPT !.exists = FALSE, !.enabled = FALSE, !.usageCount = 0]
    /\ redemptions' = {}
    /\ cart' = [u \in Users |-> [cart[u] EXCEPT !.coupon = FALSE]]
    /\ UNCHANGED <<stock, sold, peak, pc, lines, wants, opened, taken, target, seen>>
-----------------------------------------------------------------------------
Request(c) ==
    \/ ReadCart(c) \/ Begin(c) \/ Refuse(c)
    \/ \E s \in Stores : CreateOrder(c, s)
    \/ CouponGone(c)
    \/ \E p \in Products : SendDecrement(c, p)
    \/ DecrementStock(c) \/ OutOfStock(c)
    \/ ReadCoupon(c) \/ CountRedemptions(c) \/ RedeemCoupon(c) \/ LostRace(c)
    \/ Commit(c)

Staff ==
    \/ \E p \in Products, n \in 0..MaxStock : WriteStock(p, n)
    \/ \E on \in BOOLEAN, limits \in Limits : UpdateCoupon(on, limits)
    \/ ExpireCoupon
    \/ DeleteCoupon

Next ==
    \/ \E c \in Checkouts : Request(c) \/ DeadlockVictim(c) \/ Abort(c)
    \/ \E u \in Users, content \in Contents : EditCart(u, content)
    \/ Staff

Spec == Init /\ [][Next]_vars

\* A request that can take its next step takes it: Node.js runs it to its end
\* unless the process dies.  PostgreSQL breaks every deadlock it finds.
Fairness ==
    /\ \A c \in Checkouts : WF_vars(Request(c))
    /\ WF_vars(\E c \in Checkouts : DeadlockVictim(c))

FairSpec == Spec /\ Fairness
-----------------------------------------------------------------------------
TypeOK ==
    /\ stock \in [Products -> Nat]
    /\ sold \in [Checkouts -> [Products -> Nat]]
    /\ coupon \in CouponRow
    /\ peak \in Limits
    /\ redemptions \subseteq Checkouts
    /\ cart \in [Users -> Cart]
    /\ pc \in [Checkouts -> {"idle", "read", "placed", "rejected"} \cup InTx]
    /\ lines \in [Checkouts -> [Products -> 0..MaxQty]]
    /\ wants \in [Checkouts -> BOOLEAN]
    /\ opened \in [Checkouts -> SUBSET Stores]
    /\ taken \in [Checkouts -> [Products -> 0..MaxQty]]
    /\ target \in [Checkouts -> Products \cup {None}]
    /\ seen \in [Checkouts -> [usageCount : Nat, perUserLimit : 0..MaxLimit]]

\* What open transactions have decremented is on the shelf until they commit,
\* and no row is decremented by two of them: the stock check of Begin, made
\* long before, is not what prevents overselling.
NoOversell ==
    \A p \in Products, c \in Checkouts :
        /\ taken[c][p] <= stock[p]
        /\ \A d \in Checkouts : Holds(c, p) /\ Holds(d, p) => c = d

\* A checkout that is answered with an order has sold exactly the lines its
\* cart had, over all the stores; one that failed half-way has sold nothing.
AllOrNothing ==
    \A c \in Checkouts :
        sold[c] = IF pc[c] = "placed" THEN lines[c] ELSE Nothing

\* The counter of the coupon agrees with its redemption rows, and neither it
\* nor any customer's share of it has passed the highest limit ever set.
CouponWithinLimits ==
    /\ coupon.usageCount = Cardinality(redemptions)
    /\ coupon.usageCount <= peak.usageLimit
    /\ \A u \in Users : UsedBy(u) <= peak.perUserLimit

\* An order carries the coupon's discount if and only if the coupon has been
\* charged for it.
DiscountIsRedeemed ==
    /\ \A c \in redemptions : pc[c] = "placed" /\ wants[c]
    /\ coupon.exists => \A c \in Checkouts :
            pc[c] = "placed" /\ wants[c] => c \in redemptions

\* Checkouts that wait for nobody but one another are in a deadlock, which
\* PostgreSQL ends: no lock outlives its transaction, whatever became of the
\* request, and nobody waits for the coupon in a circle.
NobodyWaitsInVain ==
    \A S \in (SUBSET Checkouts) \ {{}} :
        (\A c \in S : Blockers(c) # {} /\ {d \in Blockers(c) : pc[d] \in InTx} \subseteq S)
            => \E c \in S : Deadlocked(c)

-----------------------------------------------------------------------------
(* Why it holds: the inductive invariant of Checkout_proofs.               *)

\* What a transaction has done follows the lines its request read.
Progress ==
    \A c \in Checkouts :
        /\ pc[c] \in {"read"} \cup InTx => lines[c] # Nothing
        /\ pc[c] \notin InTx => taken[c] = Nothing
        /\ pc[c] \in {"count", "redeem", "commit"} => wants[c] /\ AllFulfilled(c)
        /\ target[c] # None =>
                /\ pc[c] = "tx"
                /\ StoreOf[target[c]] \in opened[c]
                /\ ~Fulfilled(c, target[c])
        /\ \A p \in Products :
                /\ taken[c][p] \in {0, lines[c][p]}
                /\ Holds(c, p) => StoreOf[p] \in opened[c]

\* As long as the counter is the one a checkout has read, so is everything
\* it concluded from it.
SeenStillTrue ==
    \A c \in Checkouts :
        pc[c] \in {"count", "redeem", "commit"} =>
            /\ coupon.exists
            /\ seen[c].usageCount <= coupon.usageCount
            /\ seen[c].usageCount < peak.usageLimit
            /\ seen[c].perUserLimit <= peak.perUserLimit
            /\ pc[c] # "count" /\ seen[c].usageCount = coupon.usageCount =>
                    UsedBy(UserOf[c]) < seen[c].perUserLimit
            /\ pc[c] = "commit" =>
                    /\ seen[c].usageCount = coupon.usageCount
                    /\ \A d \in Checkouts : pc[d] = "commit" => d = c

PeakIsHighest ==
    coupon.usageLimit <= peak.usageLimit /\ coupon.perUserLimit <= peak.perUserLimit

\* A coupon and its redemptions stay consistent with every transaction that
\* is still open: all that is needed for the properties above to last.
IInv ==
    /\ TypeOK /\ Progress /\ NoOversell /\ AllOrNothing
    /\ CouponWithinLimits /\ DiscountIsRedeemed /\ SeenStillTrue /\ PeakIsHighest
-----------------------------------------------------------------------------
\* The transaction behaves as if it were one indivisible event.
Atomic == INSTANCE AtomicCheckout WITH
    outcome <- [c \in Checkouts |->
        IF pc[c] \in {"placed", "rejected"} THEN pc[c] ELSE "open"]

ImplementsAtomicCheckout == Atomic!Spec

\* Every checkout that is submitted is answered, deadlocks included.
EveryCheckoutAnswered ==
    \A c \in Checkouts : pc[c] = "read" ~> pc[c] \in {"placed", "rejected"}
=============================================================================
