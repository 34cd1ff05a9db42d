CONSTANTS
  r = r  a = a  b = b  c = c  d = d
  u = u  act = act  burnt = burnt
  NoSubnet = NoSubnet
  MAX_NONCE = MAX_NONCE
  NetworkName <- S
  Children <- ChildrenMC
  Senders <- SendersMC
  Subnets <- SubnetsMC
  Signable = {u}
  Actors = {act}
  BurntFunds = burnt
  CROSS_MSG_FEE = 1
  Values = {0, 2}
  MaxNonce = 2
  SendDown = FALSE
SPECIFICATION Spec
INVARIANT TopDownNonceCurrent
CHECK_DEADLOCK FALSE
