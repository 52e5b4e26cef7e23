SPECIFICATION Spec
CONSTANTS
  Options <- Connections
INVARIANTS NoFault NonceFresh
PROPERTIES FifoLink ExchangesEnd AllDelivered
CHECK_DEADLOCK FALSE
