SPECIFICATION Spec
CONSTANTS
  Keep = Keep
  Nobody = Nobody
  Orders = {o1}
  Requests = {r1, r2}
  Methods = {"card", "cod", "demo_card"}
  StaffMoves <- MCAnyMoves
  ApproveWhen = {"pending", "shipped", "cancelled"}
  MaxMoves = 2
  MaxFailures = 1
SYMMETRY MCSymmetry
INVARIANTS
  TypeOK
  ClosedIsRestocked
  NeverPaidUnlessCharged
  DeliveredIsRewarded

CHECK_DEADLOCK FALSE
