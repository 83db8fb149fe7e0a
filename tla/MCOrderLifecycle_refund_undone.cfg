SPECIFICATION Spec
CONSTANTS
  Keep = Keep
  Nobody = Nobody
  Orders = {o1}
  Requests = {r1}
  Methods = {"card"}
  StaffMoves <- MCFewMoves
  ApproveWhen = {}
  MaxMoves = 1
  MaxFailures = 0
PROPERTIES
  RefundStands

CHECK_DEADLOCK FALSE
