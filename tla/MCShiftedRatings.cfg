SPECIFICATION Spec
CONSTANTS
  Mine = {2}
  Theirs = {1}
  Seeded = {1}
  MaxScreens = 1
  ReviewFields <- TextAndRating
CHECK_DEADLOCK FALSE
INVARIANTS RowsShowTheirRating
