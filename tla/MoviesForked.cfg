SPECIFICATION Spec
CONSTANTS
  depth = 3
  mergeThread = 8
  NUM_OF_GENRE = 2
  Rows <- MCRows
  FirstLines <- MCLines
  MayFail = TRUE
INVARIANTS AnswerRight MoviesKept
