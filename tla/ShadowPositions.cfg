\* Two calls in flight; two positions of one slot, one after the other.
SPECIFICATION Spec
CONSTANTS
  Calls = {c1, c2}
  Slots = {s1}
  Sources = {d1, d2}
  Amounts = {1}
  Quantities = {1}
  Prices = {1, 2}
  MaxTime = 1
  MaxPositions = 2
  MaxMarks = 1
  None = None
SYMMETRY Symmetry
INVARIANTS
  OnePerSlot
  ClosedOnce
  EventsInOrder
  NoWaitingCircle
