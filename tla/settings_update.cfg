SPECIFICATION FairSpec
CONSTANTS
  Vals <- MCVals
  Valid <- MCValid
  Default = 1
  Zero = 0
  Vers <- MCVers
  Cur = "current"
  Repaired <- MCRepaired
  HashPart <- MCHashPart
  NoCrc = NoCrc
  Absent = Absent
  Torn = Torn
  NoImage = NoImage
  NoHash = NoHash
  ReadFaults = FALSE
  UserVals <- MCUserVals
  MaxEdits = 1
  MaxCrashes = 0
  MaxFailures = 0
PROPERTY UpdateLogicKept
