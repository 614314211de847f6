SPECIFICATION FairSpec
CONSTANTS
  Tasks = {t1, t2}
  None = None
INVARIANTS OneTaskAtATime
PROPERTIES RestingGoalsStartNothing ToldRunStarts
