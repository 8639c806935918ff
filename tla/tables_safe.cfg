SPECIFICATION FairSpec
CONSTANTS
  Landing <- MCLanding
  Hand = {"orders", "gold"}
  MaxFaults = 1
  MaxHand = 1
INVARIANTS
  GoldIsTrue
  RecordedIsComplete
PROPERTIES
  PublishableIsRecorded
CHECK_DEADLOCK FALSE
