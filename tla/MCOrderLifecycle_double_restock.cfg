SPECIFICATION Spec
CONSTANTS
  Keep = Keep
  Nobody = Nobody
  Orders = {o1}
  Requests = {r1, r2}
  Methods = {"cod"}
  StaffMoves <- MCFewMoves
  ApproveWhen = {}
  MaxMoves = 1
  MaxFailures = 0
INVARIANTS
  RestockedOnce

CHECK_DEADLOCK FALSE
