SPECIFICATION Spec
CONSTANTS
  Address = {a, b}
  MaxInputs = 3
  ClientOrder <- LeFirst
SYMMETRY PeerSymmetry
INVARIANTS ListsAgree NeverRejected Settled EveryRequestTimed
CHECK_DEADLOCK FALSE
