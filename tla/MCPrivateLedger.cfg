SPECIFICATION Spec
CONSTANTS
  alice = alice
  bob = bob
  Clients = {alice, bob}
  FirstClient = alice
  SlotOf <- MCSlotOf
  Endowments <- MCEndowments
  Requests <- MCRequests
  Deposits <- MCDeposits
  Amounts = {1, 2, 5, 7}
  MaxCoins = 4
  MaxAmount = 7
  MaxOps = 2
INVARIANTS SelectionIsBest OperationIsProvable EveryTokenHasAnOwner
CHECK_DEADLOCK FALSE
