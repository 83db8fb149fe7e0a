SPECIFICATION Spec
CONSTANTS
  c1 = c1
  c2 = c2
  c3 = c3
  u1 = u1
  u2 = u2
  p1 = p1
  p2 = p2
  s1 = s1
  s2 = s2
  None = None
  Checkouts = {c1, c2, c3}
  Users = {u1}
  UserOf <- MCUserOfOne
  Products = {p1, p2}
  StoreOf <- MCOneStore
  MaxQty = 1
  MaxStock = 2
  MaxLimit = 2
  Contents <- MCSingles
SYMMETRY MCSymmetry
INVARIANTS
  TypeOK
  NoOversell
  CouponWithinLimits
  DiscountIsRedeemed
