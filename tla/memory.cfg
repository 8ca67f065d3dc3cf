SPECIFICATION FairSpec
CONSTANTS
  Cases <- StackCases
  MaxStamps = 2
INVARIANTS
  TypeOK
  CorpusKept
PROPERTIES
  SwitchCompletes
  HeadIngested
