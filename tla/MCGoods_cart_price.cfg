SPECIFICATION MCSpec
CONSTANTS
  Parts = {"cart"}
  p1 = p1
  p2 = p2
  s1 = s1
  s2 = s2
  w1 = w1
  w2 = w2
  w3 = w3
  Admin = Admin
  Products = {p1, p2}
  Stores = {s1, s2}
  ProductStore <- MCProductStore
  CatalogWorkers = {k1, k2}
  Actors = {s1, Admin}
  Edits <- MCEdits
  MaxEdits = 2
  MaxSales = 1
  NoVariant = NoVariant
  Keep = Keep
  Goods = {p1}
  Selections = {red, blue}
  CartIds = {ca, cb, cc}
  LineIds = {l1, l2, l3}
  Shoppers = {x1, x2}
  MaxQuantity = 1
  MaxPrice = 2
  MaxCalls = 4
  Empty = Empty
  Lines = {1, 2}
  Carts <- MCCarts
  Promotions <- MCPromotions
  Coupons <- MCCoupons
  Charges <- MCCharges
  Wares = {w1, w2, w3}
  Categories = {"c", "d"}
  Vendors = {"v", "w"}
  Prices = {1, 2, 3}
  NoPrice = NoPrice
  Lists = {"public", "dropship", "wholesale", "store", "platform"}
  DefaultLimit = 1
  MaxLimit = 2
  RawLimits <- MCLimits
  Requests = {r1}
  MaxVisits = 3
  ReviewIds = {1, 2}
  Authors = {a1, a2}
  Stars = {1, 5}
  Moderators = {m1, m2}
  MaxReviewCalls = 5
INVARIANT ChargedShopPrice
CHECK_DEADLOCK FALSE
