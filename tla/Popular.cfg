CONSTANTS
  w1 = w1
  w2 = w2
  Words = {w1, w2}
  NoWord = NoWord
  Hold = 2
  CheckGap = 1
  Windows = {0, 1, 2, 3}
  MaxTime = 5
  MaxRecords = 5
SPECIFICATION Spec
INVARIANTS TypeOK CountsWindow CacheSound
PROPERTIES TopOfWindow BoundedQueue
SYMMETRY Symmetry
CHECK_DEADLOCK FALSE
