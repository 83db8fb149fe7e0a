SPECIFICATION MCSpec
CONSTANTS
  Units = {"accounts", "editorial", "bootstrap", "notices", "reports", "desk"}
  People = {p1, p2}
  Boss = p1
  Tokens = {t1, t2, t3}
  Codes = {k1}
  Clerks = {c1, c2}
  StartRoles = {"none", "customer", "admin", "superadmin"}
  MaxAccountCalls = 3
  Nobody = Nobody
  MCKinds = {"settings", "section", "coupon", "plain"}
  Records <- MCRecords
  KindOf <- MCKindOf
  Fields = {"a", "b"}
  Patches <- MCPatches
  Parts = {"user", "pass"}
  Configs = {"smtp", "gateway"}
  Defaulted = {"smtp"}
  SecretForms <- MCSecretForms
  Editors = {c1, c2}
  MaxChanges = 3
  Unset = Unset
  Keyed = {"settings", "category", "coupon"}
  Basics = {"settings"}
  OfCatalog = {"category"}
  Slugs = {"a", "b", "h"}
  Starters = {"A", "B"}
  Curated = {"A"}
  SlugOf <- MCSlugOf
  Handles = {"h"}
  Sold = {"b"}
  GrownAt = 2
  Sections = {"hero_banner", "ad_banner", "trending_products"}
  MaxBoots = 3
  MaxShopEdits = 2
  Offers = {c1, c2}
  Interval = 2
  LastTick = 4
  MaxUpsets = 2
  OrderIds = {s1, s2}
  Shops = {"s", "t"}
  Buyers = {"b", "c"}
  Articles = {"x", "y", "z"}
  Groups = {"g", "h"}
  GroupOf <- MCGroupOf
  ShopOf <- MCShopOf
  ArticlePrices = {2}
  Fee = 1
  Noon = 2
  Window = 1
  LastHour = 5
  MaxSales = 3
  Customers = {u1, u2}
  Places = {a1, a2, a3}
  Wishes = {w1}
  Letters = {l1}
  ReferralCodes = {r1}
  Commissions = {m1}
  Callers = {c1, c2}
  MaxDeskCalls = 4
  NoOne = NoOne
INVARIANTS
  OfficeTypeOK
  SessionsRotate
  SellersOwnStores
  EditsStand
  BootSettles
  OffersAnnounced
  ReportsAgree
  OneDefaultAddress
PROPERTIES
  AdminRoleByTheBoss
  BootOnlyAdds
CHECK_DEADLOCK FALSE
SYMMETRY MCSymmetry
