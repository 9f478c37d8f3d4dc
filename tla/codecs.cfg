CONSTANTS
  Failed = Failed
  Infinite = 6
  DecimalJobs <- MCDecimalJobs
  NumberJobs <- MCNumberJobs
  HeaderJobs <- MCHeaderJobs
  TextJobs <- MCTextJobs
  SearchJobs <- MCSearchJobs
  DetectJobs <- MCDetectJobs
  HeaderCount = 4
SPECIFICATION Spec
INVARIANTS
  BcdTrue
  RoundTrip
  SizesTrue
  PathTrue
  DetectTrue
