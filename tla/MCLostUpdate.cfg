SPECIFICATION Spec
CONSTANTS
  Devices = {d1, d2}
  Ratings = {5}
  MaxSubmissions = 2
  MaxTaps = 1
  MaxKills = 0
  MaxReconnects = 0
  SeedCount = 1
  SeedTotal = 5
  ReviewFields <- RatingOnly
  UploadOutcomes = {}
  Absent = Absent
CHECK_DEADLOCK FALSE
INVARIANTS EveryReviewCounted
