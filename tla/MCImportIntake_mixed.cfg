CONSTANTS
  q1 = q1
  q2 = q2
  Requests <- MCRequests
  Deliveries <- MCDeliveries
  Bad <- MCNoBad
  MaxPreviews = 2
SPECIFICATION IntakeSpec
INVARIANTS
  PreviewDescribesOwnBundle
