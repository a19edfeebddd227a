SPECIFICATION SuiteSpec
CONSTANTS
  v1 = v1
  v2 = v2
  d1 = d1
  Absent = Absent
  Nil = Nil
  Venues = {v1, v2}
  Answers <- NoneOrTwo
  MaxHelpers = 2
  Refusals = {"menu"}
  MaxTaps = 2
CHECK_DEADLOCK FALSE
INVARIANTS
  TypeOK RowsShowTheirVenues TableAgreesWithItsList
PROPERTIES
  DetailsAreShown ReviewsImplementLedger ReviewsAreStored
