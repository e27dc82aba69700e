SPECIFICATION Spec
CONSTANTS
  MaxChunks = 2
  Multiplier = 1
  Maxima <- SomeMaxima
  Times <- TwoTimes
  Lengths <- SomeLengths
PROPERTIES
  ReadsInOrder
