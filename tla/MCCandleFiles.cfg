CONSTANTS
  BucketBars = 2
  Horizon = 4
  FirstClock = 3
  OldFiles <- Files
  OldTargets = {0}
  MaxDownloads = 1
  MaxFaults = 1
  Longest = 2
  LastSlot = 2
SPECIFICATION FairSpec
INVARIANTS LongestKept
PROPERTIES BarsReflectSource OldBarsSurvive RepairedSourcePublished
