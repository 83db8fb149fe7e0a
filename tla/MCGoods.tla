------------------------------ MODULE MCGoods ------------------------------
(***************************************************************************)
(* What the shop sells, for TLC: Catalog, Cart, Pricing, Storefront and     *)
(* Reviews.  They share no variable, so that interleaving them would show  *)
(* nothing: each behaviour is about one of them, the others rest.          *)
(***************************************************************************)
EXTENDS Goods, TLC

CONSTANTS
    Parts,          \* the modules to check
    p1, p2, s1, s2,
    w1, w2, w3      \* wares

VARIABLE part       \* the one this behaviour is about

MCVars == <<part, CatalogVars, CartVars, PricingVars, StorefrontVars, ReviewsVars>>
-----------------------------------------------------------------------------
\* The file also names a store that is not its products'.
MCProductStore == [p \in Products |-> s1]

File(rows) == [kind |-> "import", rows |-> rows]
Row(p, s, n) == [sku |-> p, store |-> s, status |-> "published", stock |-> n, price |-> 0,
                 variant |-> Keep]

\* p1 has a variant; p2 may be a SKU still to come.
MCEdits ==
    {[kind |-> "stock", ids |-> {p1, p2}, mode |-> "set", value |-> 2],
     [kind |-> "stock", ids |-> {p1}, mode |-> "change", value |-> -1],
     [kind |-> "price", ids |-> {p1}, mode |-> "change", value |-> 1],
     [kind |-> "variant", ids |-> {p1}, value |-> 1],
     [kind |-> "tags", ids |-> {p1}, mode |-> "add", tags |-> {"sale"}],
     [kind |-> "status", ids |-> {p1, p2}, to |-> "draft"],
     [kind |-> "place", ids |-> {p2}, to |-> "featured"],
     [kind |-> "update", ids |-> {p1}, value |-> 2, variant |-> 1],
     [kind |-> "delete", ids |-> {p2}],
     [kind |-> "duplicate", ids |-> {p1}, copy |-> p2],
     [kind |-> "create", ids |-> {p2}, value |-> 1, variant |-> NoVariant],
     File(<<Row(p1, s1, 1), Row(p2, s1, 2), Row(p1, s2, 2)>>),
     File(<<[Row(p2, s1, -1) EXCEPT !.price = -1, !.variant = -1]>>)}

MCCatalog == product[p1].variant = 1 /\ product[p2].variant = NoVariant
-----------------------------------------------------------------------------
Item(p, store, price, n) ==
    [product |-> p, category |-> "phones", store |-> store, price |-> price,
     snapshot |-> price, quantity |-> n]

\* Amounts of a few cents, where rounding shows; one store or two.  The second
\* line may have been added at another price.
MCCarts ==
    {[l \in Lines |-> IF l = 1 THEN Item("a", "s1", x, n)
                      ELSE [Item("b", s, y, 1) EXCEPT !.snapshot = z]] :
            x \in {1, 3, 10}, y \in {1, 2, 7}, n \in {1, 3}, s \in {"s1", "s2"}, z \in {2, 7}}

Promo(type, scope, target, v) ==
    [type |-> type, scope |-> scope, target |-> target, value |-> v, buy |-> 2, get |-> 1]

MCPromotions ==
    {{}, {Promo("percentage", "product", "a", 100)},
     {Promo("percentage", "all", "-", 25), Promo("fixed", "category", "phones", 2)},
     {Promo("bogo", "all", "-", 0), Promo("first_order", "all", "-", 50)},
     {Promo("percentage", "product", "a", 150)}}

Coupon(type, v, max, store) == [type |-> type, value |-> v, max |-> max, store |-> store]
NoCoupon == Coupon("none", 0, 0, "platform")

MCCoupons ==
    {NoCoupon, Coupon("free_shipping", 0, 0, "platform"), Coupon("percent", 15, 0, "platform"),
     Coupon("percent", 50, 2, "platform"), Coupon("fixed", 5, 0, "platform"),
     Coupon("fixed", 4, 0, "s1"), Coupon("percent", 50, 0, "s2"),
     Coupon("percent", 150, 0, "platform")}

MCCharges == {[tax |-> 20, fee |-> 3, shipping |-> s, cod |-> c] : s \in {0, 5}, c \in {0, 1}}

MCCheckout ==
    [cart |-> [l \in Lines |-> Item("a", "s1", 1, 1)], promos |-> {}, coupon |-> NoCoupon,
     charges |-> [tax |-> 20, fee |-> 3, shipping |-> 0, cod |-> 0]]
-----------------------------------------------------------------------------
Ware(category, vendor, price) ==
    [status |-> "published", approved |-> TRUE, category |-> category, store |-> vendor,
     price |-> price, special |-> NoPrice]

MCWares == ware = (w1 :> Ware("c", "v", 1) @@ w2 :> Ware("c", "w", 2) @@ w3 :> Ware("d", "v", 3))

\* -1 is what a shopper may write as well.
MCLimits == {-1, 0, 2, 9}
-----------------------------------------------------------------------------
CatalogRests == UNCHANGED CatalogVars
CartRests == UNCHANGED CartVars
PricingRests == UNCHANGED PricingVars
StorefrontRests == UNCHANGED StorefrontVars
ReviewsRests == UNCHANGED ReviewsVars

MCInit ==
    /\ part \in Parts
    /\ CatalogInit /\ MCCatalog
    /\ CartInit
    /\ IF part = "pricing" THEN PricingInit
       ELSE /\ checkout = MCCheckout /\ placed = NoOrders
            /\ shown = [subtotal |-> 0, promotion |-> 0, coupon |-> 0]
    /\ MCWares /\ StorefrontInit
    /\ ReviewsInit
    /\ part # "catalog" => product[p2] = Absent

MCNext ==
    /\ UNCHANGED part
    /\ \/ part = "catalog" /\ CatalogNext /\ CartRests /\ PricingRests /\ StorefrontRests /\ ReviewsRests
       \/ part = "cart" /\ CartNext /\ CatalogRests /\ PricingRests /\ StorefrontRests /\ ReviewsRests
       \/ part = "pricing" /\ PricingNext /\ CatalogRests /\ CartRests /\ StorefrontRests /\ ReviewsRests
       \/ part = "storefront" /\ StorefrontNext /\ CatalogRests /\ CartRests /\ PricingRests /\ ReviewsRests
       \/ part = "reviews" /\ ReviewsNext /\ CatalogRests /\ CartRests /\ PricingRests /\ StorefrontRests

MCSpec == MCInit /\ [][MCNext]_MCVars
=============================================================================
