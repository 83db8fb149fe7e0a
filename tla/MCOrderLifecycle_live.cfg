SPECIFICATION FairSpec
CONSTANTS
  Keep = Keep
  Nobody = Nobody
  Orders = {o1, o2}
  Requests = {r1, r2}
  Methods = {"card", "demo_card"}
  StaffMoves = {}
  ApproveWhen = {}
  MaxMoves = 0
  MaxFailures = 1
INVARIANTS
  AckedIsRecorded
  DemoPaidUnlessFailed

PROPERTIES
  PaymentRecorded
  StaleOrderReleased

CHECK_DEADLOCK FALSE
