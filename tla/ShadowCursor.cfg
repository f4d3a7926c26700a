\* Two calls in flight: one commits its cursor before the other its event.
SPECIFICATION Spec
CONSTANTS
  Calls = {c1, c2}
  Slots = {s1}
  Sources = {d1, d2}
  Amounts = {1}
  Quantities = {1}
  Prices = {1, 2}
  MaxTime = 1
  MaxPositions = 2
  MaxMarks = 1
  None = None
PROPERTIES
  CompleteThrough
