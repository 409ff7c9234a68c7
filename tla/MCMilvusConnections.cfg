CONSTANTS
  i1 = i1
  i2 = i2
  i3 = i3
  i4 = i4
  Nobody = Nobody
  Instances <- MCInstances
SYMMETRY Alike
SPECIFICATION ConnSpec
INVARIANT UsedIsOpen
INVARIANT LastCloses
CHECK_DEADLOCK FALSE
