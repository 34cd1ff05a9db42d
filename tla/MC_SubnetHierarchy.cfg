\* All triples over the seven subnets of a three-level binary tree.
CONSTANTS
  r = r  a = a  b = b
  NoSubnet = NoSubnet
SPECIFICATION Spec
INVARIANT ApplyTypeFollowsRoute
INVARIANT HashCanonical
