SPECIFICATION FairSpec
CONSTANTS
  s1 = s1
  s2 = s2
  t1 = t1
  t2 = t2
  NoThread = NoThread
  NoPcm = NoPcm
  Sources <- TwoSources
  Threads <- TwoThreads
  CountRange = 8
  UnitCount = 3
  Grain = 2
  MaxRead = 3
INVARIANTS
  ReadsOpenPcm
  ClosedWhenUnused
  StartedIsServed
  BorrowedIsCounted
PROPERTIES
  DestructorEnds
  StartedBecomesReady
  OverflowEnds
CHECK_DEADLOCK FALSE
