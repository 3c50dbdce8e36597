\* 2x2, ids from 1: every row reads its own measurements, in rank order.
CONSTANTS
  NRx = 2
  TxTested = 2
  RxTested = 3
  TxIds <- MCTxIds
  RxIds <- MCRxIds
  Snrs = {1, 2}

SPECIFICATION Spec

CHECK_DEADLOCK FALSE

INVARIANT RowsReadOwnMeasurements
INVARIANT NoOutOfRange
PROPERTY RankedDrainRefinement
