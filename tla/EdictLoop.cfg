\* Lots of up to 5: what may not be added up twice.
SPECIFICATION Spec
CONSTANTS
  Transaction <- MCTransaction
  Holdings <- MCHoldings
  Etched <- MCEtched
  MaxLot = 5
\* The loop returns.
CHECK_DEADLOCK FALSE
INVARIANTS
  NeverPanics
  NothingLost
  ComputesDistribution
