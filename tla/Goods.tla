-------------------------------- MODULE Goods --------------------------------
(***************************************************************************)
(* What the shop sells: the catalog, the carts, the prices, the lists and  *)
(* the reviews.  The models share no variable; the code they stand for     *)
(* runs side by side in one process.                                       *)
(***************************************************************************)
EXTENDS Catalog, Cart, Pricing, Storefront, Reviews

GoodsSpec == CatalogSpec /\ CartSpec /\ PricingSpec /\ StorefrontSpec /\ ReviewsSpec

\* Every variable of these modules has its type; in it that no amount of an order
\* is below zero, and no stock or price unless a file has put it there.
GoodsTypeOK == CatalogTypeOK /\ CartTypeOK /\ PricingTypeOK /\ StorefrontTypeOK /\ ReviewsTypeOK
=============================================================================
