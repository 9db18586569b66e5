\* Two attempts of each kind, and three versions: one to run, one to record and one between.
CONSTANTS
  LostLimit = 2
  MaxFailed = 2
  MaxTries = 2
  MaxVersion = 3
SPECIFICATION CloudFairSpec
PROPERTIES
  NoDowngrade
  Recovers
  RequestServed
