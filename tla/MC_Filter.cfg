SPECIFICATION WalkSpec
CONSTANTS
  MaxDouble = 163840
  Rounding <- NineBits
  Grain <- Tenth
  Precision = 512
  TextUnit <- TwoTenths
  FilterLists <- SmallLists
  MaxValue <- Quantities
  MaxAmount <- Amounts
  Prices = {1, 2, 3}
  Positions <- SmallPositions
  Steps = {0, 2, 3, 5}
  MarketSteps = {0, 3}
  PriceSteps = {0, 1, 3, 5}
  Minima = {0, 6}
  Maxima = {0, 6, 10}
INVARIANTS
  SentQtyWithinMeans
  RoundedValidates
  ValidationSound
  ValidationComplete
CHECK_DEADLOCK FALSE
