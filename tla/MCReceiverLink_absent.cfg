CONSTANTS
  MissedLimit = 2
  FreshFor = 0
SPECIFICATION FairSpec
PROPERTIES AbsenceShown
