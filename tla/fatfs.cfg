SPECIFICATION FairSpec
CONSTANTS
  NoCard = "none"
  Cards <- MCCards
  Image <- MCImage
  Volumes <- MCVolumes
  Paths <- MCPaths
  Requests = {1, 2, 5}
  BODY = 2
  EXT = 1
  Lead = {"E5"}
  Trail = {"A", "B", "a", "b", "E5"}
  SS = 8
  EPS = 2
  MAX_DIR = 10
  MAX_FAT12 = 6
  MAX_FAT16 = 9
  MAX_FAT32 = 12
  IDS = 2
INVARIANTS ReadsTheFile OpensWhatExists ListsTheDirectory InsideVolume
PROPERTIES CallEnds
