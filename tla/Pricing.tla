------------------------------ MODULE Pricing ------------------------------
(***************************************************************************)
(* What a cart shows and what its orders charge.  Amounts are in cents;    *)
(* divisions are exact and rounded where the code rounds, half up.  The    *)
(* coupon is computed once for the cart and split over the orders, one per *)
(* store; so are shipping and the charge for cash on delivery.             *)
(***************************************************************************)
EXTENDS Integers, FiniteSets, FiniteSetsExt, Functions

CONSTANTS
    Lines,      \* lines of a cart
    Carts,      \* what may be in a cart: functions from Lines to items
    Promotions, \* sets of promotions that may be active together
    Coupons,    \* coupons, NoCoupon among them
    Charges     \* percentages and charges in force: settings and shipping

\* createPromotionSchema and createCouponSchema ask for no less; a percentage may
\* exceed 100.
ASSUME PricingAssumption ==
    /\ IsFiniteSet(Lines)
    /\ \A c \in Carts, l \in Lines :
          {c[l].price, c[l].snapshot, c[l].quantity} \subseteq Nat \ {0}
    /\ \A ps \in Promotions : IsFiniteSet(ps) /\ \A p \in ps :
          /\ p.type \in {"bogo", "percentage", "fixed", "first_order"}
          /\ p.value \in Nat /\ {p.buy, p.get} \subseteq Nat \ {0}
    /\ \A c \in Coupons : {c.value, c.max} \subseteq Nat
    /\ \A c \in Charges : {c.tax, c.fee, c.shipping, c.cod} \subseteq Nat

VARIABLES
    checkout, \* the cart, the promotions, the coupon and the charges
    shown,    \* what cart.summarize shows of it, once placed
    placed    \* the orders, one per store

PricingVars == <<checkout, shown, placed>>

\* Math.round of a quotient.
RoundDiv(a, b) == (2 * a + b) \div (2 * b)

AtMost(a, b) == IF a < b THEN a ELSE b
NotNegative(a) == IF a < 0 THEN 0 ELSE a

\* promotionAppliesTo, of an enabled promotion within its dates.
AppliesTo(promo, item) ==
    \/ promo.scope = "all"
    \/ promo.scope = "category" /\ promo.target = item.category
    \/ promo.scope = "product" /\ promo.target = item.product

\* discountForPromotion, in hundredths of a cent.
DiscountFor(promo, item) ==
    CASE promo.type = "bogo" ->
            (item.quantity \div (promo.buy + promo.get)) * promo.get * item.price * 100
      [] promo.type = "percentage" -> item.price * item.quantity * promo.value
      [] promo.type = "fixed" ->
            AtMost(promo.value * item.quantity, item.price * item.quantity) * 100
      [] promo.type = "first_order" -> 0

\* pickBestPromotion: the highest discount of one promotion.
BestPromotion(promos, item) ==
    RoundDiv(Max({0} \cup {DiscountFor(p, item) : p \in {q \in promos : AppliesTo(q, item)}}),
             100)

\* couponDiscount; a cap of zero is no cap.
CouponDiscount(coupon, subtotal) ==
    LET amount == CASE coupon.type = "percent" -> subtotal * coupon.value
                    [] coupon.type = "fixed" -> AtMost(coupon.value, subtotal) * 100
                    [] OTHER -> 0
    IN  RoundDiv(IF coupon.max = 0 THEN amount ELSE AtMost(amount, coupon.max * 100), 100)

LineTotal(item) == item.price * item.quantity

Subtotal(cart, ls) == SumFunctionOnSet([l \in ls |-> LineTotal(cart[l])], ls)
Promoted(cart, promos, ls) ==
    SumFunctionOnSet([l \in ls |-> BestPromotion(promos, cart[l])], ls)

StoresOf(cart) == {cart[l].store : l \in Lines}
Group(cart, s) == {l \in Lines : cart[l].store = s}

AfterPromotions(c) == Subtotal(c.cart, Lines) - Promoted(c.cart, c.promos, Lines)

\* The coupon's discount as the cart shows it: a store's coupon counts that
\* store's lines, before promotions, at the prices they were added at.
CartCoupon(c) ==
    CouponDiscount(c.coupon,
        IF c.coupon.store = "platform" THEN AfterPromotions(c)
        ELSE LET ls == Group(c.cart, c.coupon.store)
             IN  SumFunctionOnSet([l \in ls |-> c.cart[l].snapshot * c.cart[l].quantity], ls))

\* And as it is ordered: at the prices charged, and of no less than nothing.
OrderCoupon(c) ==
    CouponDiscount(c.coupon,
        IF c.coupon.store = "platform" THEN NotNegative(AfterPromotions(c))
        ELSE Subtotal(c.cart, Group(c.cart, c.coupon.store)))

\* Faulty variant: computed for each store anew.
ShareOfCouponAnew(c, s) ==
    CouponDiscount(c.coupon, Subtotal(c.cart, Group(c.cart, s))
                                - Promoted(c.cart, c.promos, Group(c.cart, s)))

\* A platform coupon is split by the stores' shares of the subtotal.
ShareOfCoupon(c, s) ==
    IF c.coupon.store = "platform"
    THEN RoundDiv(OrderCoupon(c) * Subtotal(c.cart, Group(c.cart, s)), Subtotal(c.cart, Lines))
    ELSE IF c.coupon.store = s THEN OrderCoupon(c) ELSE 0

Shipping(c) == IF c.coupon.type = "free_shipping" THEN 0 ELSE c.charges.shipping

\* Faulty variant: tax and fee are taken on the amount before the coupon.
TotalsTaxedBefore(c, s) ==
    LET sub == Subtotal(c.cart, Group(c.cart, s))
        all == Subtotal(c.cart, Lines)
        promo == Promoted(c.cart, c.promos, Group(c.cart, s))
        coupon == ShareOfCoupon(c, s)
        taxable == NotNegative(NotNegative(sub - promo) - coupon)
        tax == RoundDiv(sub * c.charges.tax, 100)
        fee == RoundDiv(taxable * c.charges.fee, 100)
    IN  [subtotal |-> sub, promotion |-> promo, coupon |-> coupon, taxable |-> taxable,
         shipping |-> RoundDiv(Shipping(c) * sub, all), tax |-> tax, fee |-> fee,
         cod |-> RoundDiv(c.charges.cod * sub, all),
         total |-> RoundDiv((taxable + RoundDiv(taxable * c.charges.tax, 100) + fee) * all
                                + (Shipping(c) + c.charges.cod) * sub, all)]

\* calculateTotals of one store's order.  Shipping and the charge for cash on
\* delivery enter the total unrounded.
Totals(c, s) ==
    LET sub == Subtotal(c.cart, Group(c.cart, s))
        all == Subtotal(c.cart, Lines)
        promo == Promoted(c.cart, c.promos, Group(c.cart, s))
        coupon == ShareOfCoupon(c, s)
        taxable == NotNegative(NotNegative(sub - promo) - coupon)
        tax == RoundDiv(taxable * c.charges.tax, 100)
        fee == RoundDiv(taxable * c.charges.fee, 100)
    IN  [subtotal |-> sub, promotion |-> promo, coupon |-> coupon, taxable |-> taxable,
         shipping |-> RoundDiv(Shipping(c) * sub, all), tax |-> tax, fee |-> fee,
         cod |-> RoundDiv(c.charges.cod * sub, all),
         total |-> RoundDiv((taxable + tax + fee) * all + (Shipping(c) + c.charges.cod) * sub,
                            all)]

NoOrders == [s \in {} |-> 0]

PricingInit ==
    /\ checkout \in [cart : Carts, promos : Promotions, coupon : Coupons, charges : Charges]
    /\ shown = [subtotal |-> 0, promotion |-> 0, coupon |-> 0]
    /\ placed = NoOrders

\* The cart is summarized for the shopper, and ordered as shown.
PlaceOrders ==
    /\ placed = NoOrders
    /\ shown' = [subtotal |-> Subtotal(checkout.cart, Lines),
                 promotion |-> Promoted(checkout.cart, checkout.promos, Lines),
                 coupon |-> CartCoupon(checkout)]
    /\ placed' = [s \in StoresOf(checkout.cart) |-> Totals(checkout, s)]
    /\ UNCHANGED checkout

PricingNext == PlaceOrders

PricingSpec == PricingInit /\ [][PricingNext]_PricingVars
-----------------------------------------------------------------------------
Amounts == {"subtotal", "promotion", "coupon", "taxable", "shipping", "tax", "fee", "cod",
            "total"}

PricingTypeOK == \A s \in DOMAIN placed : placed[s] \in [Amounts -> Nat]

Paid(field) == SumFunctionOnSet([s \in DOMAIN placed |-> placed[s][field]], DOMAIN placed)

Placed == placed # NoOrders

\* Splitting a cart over stores neither makes nor loses money.  While promotions
\* leave something to pay, the orders charge no less for the goods than the cart
\* showed; they charge no more if every store has room for its share of the coupon;
\* the shares of shipping add up to it.  Each to half a cent per order.  A store's
\* coupon is shown on the prices at which its lines were added: when those have
\* changed since, what is shown of it is not what is charged.
OrdersChargeWhatCartShows ==
    LET due == NotNegative(shown.subtotal - shown.promotion - shown.coupon)
        slack == Cardinality(DOMAIN placed)
        fresh == \/ checkout.coupon.store = "platform"
                 \/ \A l \in Lines : checkout.cart[l].snapshot = checkout.cart[l].price
        room == \A s \in DOMAIN placed :
                    placed[s].coupon <= placed[s].subtotal - placed[s].promotion
    IN  Placed => /\ fresh /\ shown.promotion <= shown.subtotal
                        => 2 * (due - Paid("taxable")) <= slack
                  /\ fresh /\ room => 2 * (Paid("taxable") - due) <= slack
                  /\ 2 * (Paid("shipping") - Shipping(checkout)) <= slack
                  /\ 2 * (Shipping(checkout) - Paid("shipping")) <= slack

\* The parts printed on an order add up to its total, to a cent.
InvoiceAddsUp ==
    \A s \in DOMAIN placed :
        LET o == placed[s]
            parts == o.taxable + o.tax + o.fee + o.shipping + o.cod
        IN  o.total - parts \in {-1, 0, 1}
=============================================================================
