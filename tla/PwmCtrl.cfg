\* The server's two channels and its period; one channel number and one
\* percentage out of range on either side; it is killed at most once.
CONSTANTS
  NUM_PWM = 2
  Period = 1000000
  Numbers = {0, 1, 2}
  Percents <- AskedPercents
  MaxCrashes = 1
SPECIFICATION Spec
INVARIANTS
  TypeOK
  ServingMeansPrepared
  RepliesTrue
PROPERTIES
  StartsOff
  ServesUnlessKilled
