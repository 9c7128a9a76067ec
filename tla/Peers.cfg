SPECIFICATION Spec
CONSTANTS
  Conns = {1, 2, 3}
  Msgs = {"x", "y"}
  Notes = {"n", "o"}
  Miners = {"boot", "other"}
  Clients = {"client"}
  Boot = "boot"
  Self = "self"
  None = None
  ChanMax = 1
  RegMax = 1
  IpMax = 1
  DelayMax = 0
  MAX_MINERS = 2
  Environments <- MCEnvironments
CHECK_DEADLOCK FALSE
INVARIANT RegistryExact
PROPERTIES StaysRegistered Delivered WaitsEnd
