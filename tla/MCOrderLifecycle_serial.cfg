SPECIFICATION Spec
CONSTANTS
  Keep = Keep
  Nobody = Nobody
  Orders = {o1}
  Requests = {r1}
  Methods = {"card", "cod", "demo_card"}
  StaffMoves <- MCAllNormalMoves
  ApproveWhen = {"pending", "processing"}
  MaxMoves = 5
  MaxFailures = 1

PROPERTIES
  ImplementsOrderBook

CHECK_DEADLOCK FALSE
