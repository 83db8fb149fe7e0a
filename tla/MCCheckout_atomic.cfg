SPECIFICATION FairSpec
CONSTANTS
  c1 = c1
  c2 = c2
  c3 = c3
  u1 = u1
  u2 = u2
  p1 = p1
  p2 = p2
  s1 = s1
  s2 = s2
  None = None
  Checkouts = {c1, c2}
  Users = {u1, u2}
  UserOf <- MCUserOfTwo
  Products = {p1, p2}
  StoreOf <- MCTwoStores
  MaxQty = 1
  MaxStock = 1
  MaxLimit = 1
  Contents <- MCContents
INVARIANTS
  AllOrNothing
  NobodyWaitsInVain
PROPERTIES
  ImplementsAtomicCheckout
  EveryCheckoutAnswered
