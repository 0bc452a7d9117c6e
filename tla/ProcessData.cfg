SPECIFICATION Spec
CONSTANTS
  MaxData = 3
  EC_MAXIOSEGMENTS = 64
  Groups = {g1}
  N = 2
  Sizes = {0, 4, 8, 16}
  EC_MAXBUF = 16
  MaxCycles = 2
  MaxDrops = 1
CHECK_DEADLOCK FALSE
INVARIANTS LayoutSound WkcMeansExchanged AllAnswered IOmapSound
