CONSTANTS
  Args <- FibAndSub
  HangUps <- FibAndSub
  MaxInt = 15
  Items <- OneItem
  MaxItems = 3
SPECIFICATION Spec
INVARIANT CurrentIsReady
