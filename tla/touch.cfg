SPECIFICATION Spec
CONSTANTS
  Slots = 3
  Ids = {1, 2, 3}
  Points = {p1, p2}
  Areas = {{p1}, {p1, p2}}
INVARIANTS UniqueIds LiveTouchWins PressNotLost
CHECK_DEADLOCK TRUE
