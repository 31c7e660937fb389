SPECIFICATION Spec
CONSTANTS
  book_ticker = book_ticker
  Torn = Torn
  NoFile = NoFile
  NoValue = NoValue
  Horizon = {"short", "long"}
  HorizonMs <- Horizons
  MaxFutureGap <- Gaps1
  MinValidRate <- Rates
  PastFeature = {"past"}
  LookBackMs <- Back
  PastMaxGap <- BackGap
  DepthLevel = {1, 2}
  SlopeLevel = 2
  LargeGap = 2
  Feed = {book_ticker}
  LabelMs = 2
  MaxReferenceGap = 1
  RequiredRate = 50
  Budget = {1, 4}
  AllowedSkew = 1
  MaxDrift = 1
  LowRttMax = 2
  LowRttMin = 2
  RttMargin = 1
  RttFactor = 3
  RttHardFail = 20
  MaxNegative = 0
  Program = {"4.2", "4.2B", "4.2C", "4.2D", "4.2E", "4.2H"}
  CleanLine <- LinesOf
  ReferenceLine <- QuotesOf
  ClockOffset <- Offsets
  Rtt = {1, 9}
  MaxClean <- CleanBound
  MaxReference <- FeedBound
  MaxMeasure <- MeasureBound
INVARIANTS LabelsAreEarliest FeaturesForgetFuture ReferencesAreEarliest StreamMatchesBatch CorrectedLagIsTrue
CHECK_DEADLOCK FALSE
