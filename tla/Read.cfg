SPECIFICATION Spec
CONSTANTS
  NP = 3
  Header = 3
  Data = 6
  Small = 3
  Large = 12
  Readers <- WorkingReaders
  Files <- AllFiles
INVARIANTS TypeOK EachLineOnce CollectivesMatch
PROPERTIES ReadingEnds
