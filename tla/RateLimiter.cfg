SPECIFICATION Spec
CONSTANTS
  Nicks = {n1, n2, n3, n4}
  PerUserCooldown = 5
  ChannelCooldown = 2
  MaxTime = 9
SYMMETRY Symmetry
INVARIANTS
  BoundedMemory
  DecidesLikeMemory
PROPERTIES
  ImplementsCooldown
