SPECIFICATION SuiteSpec
CONSTANTS
  d1 = d1
  d2 = d2
  d3 = d3
  Devices = {d3}
  Ratings = {0, 5}
  MaxSubmissions = 2
  MaxTaps = 1
  MaxKills = 0
  MaxReconnects = 1
  SeedCount = 0
  SeedTotal = 0
  ReviewFields <- AllFields
  UploadOutcomes = {TRUE, FALSE}
  Absent = Absent
SYMMETRY TwoDevices
CHECK_DEADLOCK FALSE
INVARIANTS
  TypeOK UploadsHaveKey NoTrap EveryReviewCounted ImageOnOwnReview
  AveragesAreOfReviews TotalsSurviveFaults
  ItemReadsAreWhole ItemShowsItsReviews
PROPERTIES
  HalfReviewsAreWriteOnce
