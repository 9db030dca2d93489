SPECIFICATION FairSpec
CONSTANTS
  depth = 2
  mergeThread = 4
  g1 = g1
  g2 = g2
  Groups = {g1, g2}
  Nobody = Nobody
  NUM_OF_GENRE = 2
  Rows <- MCRows
  Input <- MCInput
  MayFail = TRUE
PROPERTY AllAnswered
INVARIANTS TypeOK TakenOnce SortsSomething AnswersRight
