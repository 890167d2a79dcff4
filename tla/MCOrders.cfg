\* Two orders in a client that remembers one policy, restarts, and webhooks over a lossy network.
SPECIFICATION FairOrdersSpec
CONSTANTS
  Endpoints = {"shop"}
  Static = {}
  Subscribed = {"shop"}
  Keyholders = {"shop"}
  Objects <- MCOrders
  Retries = 1
  MaxEvents = 1
  Gates <- MCGates
  Declared = {"rx"}
  Policy <- MCPolicy
  MaxPolicies = 1
  Applies <- MCApplies
CHECK_DEADLOCK FALSE
INVARIANTS EvictionNeverOpens ActedOnOnce
PROPERTIES ProvenOrderSettles DeliveredOrReported
