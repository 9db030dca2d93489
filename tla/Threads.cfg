CONSTANTS
  Args <- Programs
  HangUps <- EndlessHangUps
  MaxInt = 15
  Items <- SomeItems
  MaxItems = 3
SPECIFICATION FairSpec
INVARIANTS TypeOK CurrentIsReady NoThreadLost WokenWithInput ResultsRight
PROPERTIES ThreadsExit TstpIsTaken
